---------------------- MODULE MessagePipelineObserved -----------------------
(***************************************************************************)
(* MessagePipeline with a history variable: the runs that had ended when a *)
(* message arrived.  It is needed to say what a prompt should have         *)
(* contained; no action reads it.                                          *)
(***************************************************************************)
EXTENDS MessagePipeline

VARIABLES
    endedBefore     \* the turns whose run had ended when a message arrived

observed == <<endedBefore>>

Arriving(m) == pc[m] = "none" /\ pc'[m] = "received"

Observe ==
    endedBefore' = [m \in Msg |-> IF Arriving(m) THEN Finished ELSE endedBefore[m]]

ObservedInit ==
    /\ Init
    /\ endedBefore = [m \in Msg |-> {}]

-----------------------------------------------------------------------------
(* Properties *)

ObservedTypeOK ==
    /\ TypeOK
    /\ endedBefore \in [Msg -> SUBSET Msg]

(* The messages whose prompt is built or being built on their history.     *)
Prompted == {m \in Msg : pc[m] \in ReplyStage \ {"decide", "retrieve"}}

(* Turns of m's channel.                                                   *)
InChannel(m, turns) == {n \in turns : chan[n] = chan[m]}

=============================================================================
