-------------------------- MODULE ConversationTurn ---------------------------
(***************************************************************************)
(* What the message pipeline promises about one turn of a conversation,    *)
(* without its stages: a turn is opened by a message, answered at most     *)
(* once, remembered exactly once and never answered after that, and it is  *)
(* closed only when it has been remembered.  A stop of the process loses   *)
(* the turns that are open.                                                *)
(***************************************************************************)

CONSTANT Turn

VARIABLES
    phase,          \* of each turn
    answered,       \* the turns a reply was sent for
    remembered      \* the turns that have been written to memory

vars == <<phase, answered, remembered>>

Init ==
    /\ phase = [t \in Turn |-> "absent"]
    /\ answered = {}
    /\ remembered = {}

Open(t) ==
    /\ phase[t] = "absent"
    /\ phase' = [phase EXCEPT ![t] = "open"]
    /\ UNCHANGED <<answered, remembered>>

Answer(t) ==
    /\ phase[t] = "open"
    /\ t \notin remembered
    /\ answered' = answered \cup {t}
    /\ UNCHANGED <<phase, remembered>>

Remember(t) ==
    /\ phase[t] = "open"
    /\ t \notin remembered
    /\ remembered' = remembered \cup {t}
    /\ UNCHANGED <<phase, answered>>

(* The last write and the end of the turn may be one step.                 *)
Close(t) ==
    /\ phase[t] = "open"
    /\ phase' = [phase EXCEPT ![t] = "closed"]
    /\ remembered' = remembered \cup {t}
    /\ UNCHANGED answered

Lose ==
    /\ phase' = [t \in Turn |-> IF phase[t] = "open" THEN "lost" ELSE phase[t]]
    /\ UNCHANGED <<answered, remembered>>

Next ==
    \/ \E t \in Turn : Open(t) \/ Answer(t) \/ Remember(t) \/ Close(t)
    \/ Lose

Spec == Init /\ [][Next]_vars

=============================================================================
