----------------------------- MODULE GoalsEngine -----------------------------
(***************************************************************************)
(* The goals the bot gives itself: the tables goals and goal_evidence, and *)
(* the part of maintenance that reviews, promotes and forms them.          *)
(*                                                                         *)
(* A round of maintenance is started by the control panel, as often as     *)
(* somebody asks for it; the rounds share one event loop.  A round has the *)
(* loop to itself (running) except while the language model is asked for a *)
(* goal, and what it read before is then out of date.                      *)
(*                                                                         *)
(* A goal's salience is the number of reviews it survives.  Each           *)
(* transition is one commit and its entry in the ledger another one; the   *)
(* process may end between the two, and a statement that fails has no      *)
(* effect and is swallowed.                                                *)
(***************************************************************************)
EXTENDS Integers, FiniteSets

CONSTANTS Goals,        \* rows that goals can have
          Users,        \* people with enough recent messages to form a goal from
          Rounds,       \* rounds of maintenance that may overlap
          Saliences,    \* saliences the model may give: reviews survived
          MaxActive,    \* MAX_ACTIVE_GOALS (code: 5)
          MaxPromote,   \* promotions per round (code: 3)
          ReviewLimit,  \* goals reviewed per round (code: 10)
          FaultLimit,   \* bound: statements that fail
          KillLimit,    \* bound: how often the process ends
          None

ASSUME GoalsAssumption ==
  /\ Saliences \subseteq Nat
  /\ MaxActive \in Nat \ {0}
  /\ MaxPromote \in Nat
  /\ ReviewLimit \in Nat
  /\ FaultLimit \in Nat
  /\ KillLimit \in Nat
  /\ None \notin Goals \cup Users \cup Rounds \cup Saliences
  /\ IsFiniteSet(Goals)
  /\ IsFiniteSet(Rounds)

VARIABLES
  status,     \* goals.status; "none" is a row not yet inserted
  owner,      \* goals.user_id
  salience,   \* goals.salience, in reviews
  stamp,      \* goals.last_reviewed_at: never, fresh (within the interval) or stale
  evidence,   \* entries of goal_evidence, per goal and kind
  pc,         \* where each round is
  todo,       \* goals the round has still to review or promote
  users,      \* users the round has still to form a goal for
  asked,      \* the user the language model is asked about
  promoted,   \* promotions of the round
  running,    \* the round that has the event loop, or None
  entry,      \* the goal whose ledger entry comes next, or None
  kind,       \* the kind of that entry
  faults,     \* statements that failed
  kills,      \* how often the process ended
  moves       \* history: committed transitions, per goal and kind

rows == <<status, owner, salience, stamp>>
round == <<pc, todo, users, asked, promoted>>
vars == <<rows, evidence, round, running, entry, kind, faults, kills, moves>>

Kinds == {"formed", "reviewed", "activated", "auto_dropped"}
Statuses == {"none", "FORMING", "ACTIVE", "DROPPED"}
Stamps == {"never", "fresh", "stale"}
Places == {"idle", "review", "promote", "form", "asking"}

Live(g) == status[g] \in {"FORMING", "ACTIVE"}
LiveOf(u) == {g \in Goals : Live(g) /\ owner[g] = u}

TypeOK ==
  /\ status \in [Goals -> Statuses]
  /\ owner \in [Goals -> Users \cup {None}]
  /\ salience \in [Goals -> Nat]
  /\ stamp \in [Goals -> Stamps]
  /\ evidence \in [Goals -> [Kinds -> Nat]]
  /\ pc \in [Rounds -> Places]
  /\ todo \in [Rounds -> SUBSET Goals]
  /\ users \in [Rounds -> SUBSET Users]
  /\ asked \in [Rounds -> Users \cup {None}]
  /\ promoted \in [Rounds -> Nat]
  /\ running \in Rounds \cup {None}
  /\ entry \in Goals \cup {None}
  /\ kind \in Kinds
  /\ faults \in 0..FaultLimit
  /\ kills \in 0..KillLimit
  /\ moves \in [Goals -> [Kinds -> Nat]]

Init ==
  /\ status = [g \in Goals |-> "none"]
  /\ owner = [g \in Goals |-> None]
  /\ salience = [g \in Goals |-> 0]
  /\ stamp = [g \in Goals |-> "never"]
  /\ evidence = [g \in Goals |-> [k \in Kinds |-> 0]]
  /\ pc = [r \in Rounds |-> "idle"]
  /\ todo = [r \in Rounds |-> {}]
  /\ users = [r \in Rounds |-> {}]
  /\ asked = [r \in Rounds |-> None]
  /\ promoted = [r \in Rounds |-> 0]
  /\ running = None
  /\ entry = None
  /\ kind = "formed"
  /\ faults = 0
  /\ kills = 0
  /\ moves = [g \in Goals |-> [k \in Kinds |-> 0]]

(***************************************************************************)
(* The store                                                               *)
(***************************************************************************)
Fault == faults < FaultLimit /\ faults' = faults + 1

\* A transition was committed; its ledger entry is next.
Moved(g, k) ==
  /\ moves' = [moves EXCEPT ![g][k] = @ + 1]
  /\ entry' = g
  /\ kind' = k
  /\ UNCHANGED faults

\* update_goal_status: terminal states are absorbing; every update stamps the row.
SetStatus(g, new, left) ==
  /\ Live(g)
  /\ status' = [status EXCEPT ![g] = new]
  /\ salience' = [salience EXCEPT ![g] = left]
  /\ stamp' = [stamp EXCEPT ![g] = "fresh"]
  /\ UNCHANGED owner

\* Mutant: every live goal is due.
DueUnstamped == {g \in Goals : Live(g)}

Due == {g \in Goals : Live(g) /\ stamp[g] # "fresh"}

\* get_goals_due_review: the first of the due goals, those never reviewed before.
DueForReview ==
  {s \in SUBSET Due :
     /\ s = Due \/ Cardinality(s) = ReviewLimit
     /\ Cardinality(s) <= ReviewLimit
     /\ \A g \in s, h \in Due \ s : stamp[h] = "never" => stamp[g] = "never"}

Promotable == {g \in Goals : status[g] = "FORMING" /\ stamp[g] # "never"}

(***************************************************************************)
(* A round of maintenance                                                  *)
(***************************************************************************)
\* run_maintenance reaches the goals and reads those due; a failed read finds none.
StartRound(r) ==
  /\ running = None
  /\ pc[r] = "idle"
  /\ running' = r
  /\ pc' = [pc EXCEPT ![r] = "review"]
  /\ \/ /\ \E s \in DueForReview : todo' = [todo EXCEPT ![r] = s]
        /\ UNCHANGED faults
     \/ Fault /\ todo' = [todo EXCEPT ![r] = {}]
  /\ UNCHANGED <<rows, evidence, users, asked, promoted, entry, kind, kills, moves>>

At(r, place) == running = r /\ entry = None /\ pc[r] = place

\* One goal of review_due.  The result of the update is not looked at: the ledger
\* gets its entry also when the update failed.
Review(r) ==
  /\ At(r, "review")
  /\ \E g \in todo[r] :
       /\ todo' = [todo EXCEPT ![r] = @ \ {g}]
       /\ LET k == IF salience[g] = 0 THEN "auto_dropped" ELSE "reviewed"
          IN \/ /\ IF salience[g] = 0 THEN SetStatus(g, "DROPPED", 0)
                                      ELSE SetStatus(g, status[g], salience[g] - 1)
                /\ Moved(g, k)
             \/ /\ Fault
                /\ entry' = g
                /\ kind' = k
                /\ UNCHANGED <<rows, moves>>
  /\ UNCHANGED <<evidence, pc, users, asked, promoted, running, kills>>

\* promote_ready reads the live goals.
StartPromotion(r) ==
  /\ At(r, "review")
  /\ todo[r] = {}
  /\ pc' = [pc EXCEPT ![r] = "promote"]
  /\ promoted' = [promoted EXCEPT ![r] = 0]
  /\ \/ todo' = [todo EXCEPT ![r] = Promotable] /\ UNCHANGED faults
     \/ Fault /\ todo' = todo
  /\ UNCHANGED <<rows, evidence, users, asked, running, entry, kind, kills, moves>>

\* Mutant: the promotion is recorded whether or not it happened.
PromoteUnchecked(r) ==
  /\ At(r, "promote")
  /\ promoted[r] < MaxPromote
  /\ \E g \in todo[r] :
       /\ todo' = [todo EXCEPT ![r] = @ \ {g}]
       /\ \/ SetStatus(g, "ACTIVE", salience[g]) /\ Moved(g, "activated")
          \/ Fault /\ entry' = g /\ kind' = "activated" /\ UNCHANGED <<rows, moves>>
       /\ promoted' = [promoted EXCEPT ![r] = @ + 1]
  /\ UNCHANGED <<evidence, pc, users, asked, running, kills>>

\* One goal of promote_ready, the most salient ones first.
Promote(r) ==
  /\ At(r, "promote")
  /\ promoted[r] < MaxPromote
  /\ \E g \in todo[r] :
       /\ \A h \in todo[r] : salience[h] <= salience[g]
       /\ todo' = [todo EXCEPT ![r] = @ \ {g}]
       /\ \/ /\ SetStatus(g, "ACTIVE", salience[g])
             /\ Moved(g, "activated")
             /\ promoted' = [promoted EXCEPT ![r] = @ + 1]
          \/ Fault /\ UNCHANGED <<rows, moves, entry, kind, promoted>>
  /\ UNCHANGED <<evidence, pc, users, asked, running, kills>>

\* add_goal_evidence: the second commit of every transition.
Record ==
  /\ entry # None
  /\ entry' = None
  /\ \/ evidence' = [evidence EXCEPT ![entry][kind] = @ + 1] /\ UNCHANGED faults
     \/ Fault /\ UNCHANGED evidence
  /\ UNCHANGED <<rows, round, running, kind, kills, moves>>

EndRound(r) ==
  /\ pc' = [pc EXCEPT ![r] = "idle"]
  /\ users' = [users EXCEPT ![r] = {}]
  /\ running' = None

\* The recent messages are read once for the whole round; a failing query ends it.
StartFormation(r) ==
  /\ At(r, "promote")
  /\ todo[r] = {} \/ promoted[r] = MaxPromote
  /\ todo' = [todo EXCEPT ![r] = {}]
  /\ \/ /\ \E s \in SUBSET Users : users' = [users EXCEPT ![r] = s]
        /\ pc' = [pc EXCEPT ![r] = "form"]
        /\ UNCHANGED <<running, faults>>
     \/ Fault /\ EndRound(r)
  /\ UNCHANGED <<rows, evidence, asked, promoted, entry, kind, kills, moves>>

\* Mutant: the cap is not looked at.
NextUserUncapped(r) ==
  /\ At(r, "form")
  /\ \E u \in users[r] :
       /\ users' = [users EXCEPT ![r] = @ \ {u}]
       /\ asked' = [asked EXCEPT ![r] = u]
       /\ pc' = [pc EXCEPT ![r] = "asking"]
       /\ running' = None
  /\ UNCHANGED <<rows, evidence, todo, promoted, entry, kind, faults, kills, moves>>

\* The next user: skipped when at the cap, asked about otherwise.  A failed read of
\* the live goals finds none, and then there is no cap.
NextUser(r) ==
  /\ At(r, "form")
  /\ \E u \in users[r] :
       \/ /\ Cardinality(LiveOf(u)) >= MaxActive
          /\ users' = [users EXCEPT ![r] = @ \ {u}]
          /\ UNCHANGED <<pc, asked, running, faults>>
       \/ /\ \/ Cardinality(LiveOf(u)) < MaxActive /\ UNCHANGED faults
             \/ Fault
          /\ users' = [users EXCEPT ![r] = @ \ {u}]
          /\ asked' = [asked EXCEPT ![r] = u]
          /\ pc' = [pc EXCEPT ![r] = "asking"]
          /\ running' = None
  /\ UNCHANGED <<rows, evidence, todo, promoted, entry, kind, kills, moves>>

\* No user is left, or the background model is not connected.
FinishRound(r) ==
  /\ At(r, "form")
  /\ EndRound(r)
  /\ UNCHANGED <<rows, evidence, todo, asked, promoted, entry, kind, faults, kills, moves>>

\* create_goal
Form(g, u, n) ==
  /\ status[g] = "none"
  /\ status' = [status EXCEPT ![g] = "FORMING"]
  /\ owner' = [owner EXCEPT ![g] = u]
  /\ salience' = [salience EXCEPT ![g] = n]
  /\ UNCHANGED stamp

\* parse_formation: the clamped salience of the goal in a reply; None when the call
\* failed, or the reply is malformed, empty or too long.
Replies == Saliences \cup {None}

\* form_goal with the model's reply; create_goal may fail.
Answer(r) ==
  /\ running = None
  /\ pc[r] = "asking"
  /\ pc' = [pc EXCEPT ![r] = "form"]
  /\ running' = r
  /\ asked' = [asked EXCEPT ![r] = None]
  /\ \E n \in Replies :
       \/ n = None /\ UNCHANGED <<rows, moves, entry, kind, faults>>
       \/ n # None /\ \E g \in Goals : Form(g, asked[r], n) /\ Moved(g, "formed")
       \/ n # None /\ Fault /\ UNCHANGED <<rows, moves, entry, kind>>
  /\ UNCHANGED <<evidence, todo, users, promoted, kills>>

(***************************************************************************)
(* The surroundings                                                        *)
(***************************************************************************)
\* The review interval of a goal passes.
IntervalPasses(g) ==
  /\ running = None
  /\ stamp[g] = "fresh"
  /\ stamp' = [stamp EXCEPT ![g] = "stale"]
  /\ UNCHANGED <<status, owner, salience, evidence, round, running, entry, kind,
                 faults, kills, moves>>

\* The process ends and is started again; restore_from_store reads, and changes nothing.
Kill ==
  /\ kills < KillLimit
  /\ kills' = kills + 1
  /\ pc' = [r \in Rounds |-> "idle"]
  /\ todo' = [r \in Rounds |-> {}]
  /\ users' = [r \in Rounds |-> {}]
  /\ asked' = [r \in Rounds |-> None]
  /\ running' = None
  /\ entry' = None
  /\ UNCHANGED <<rows, evidence, promoted, kind, faults, moves>>

RoundStep(r) ==
  \/ Review(r) \/ StartPromotion(r) \/ Promote(r) \/ StartFormation(r)
  \/ NextUser(r) \/ FinishRound(r) \/ Answer(r)

Next ==
  \/ \E r \in Rounds : StartRound(r) \/ RoundStep(r)
  \/ Record
  \/ \E g \in Goals : IntervalPasses(g)
  \/ Kill

Spec == Init /\ [][Next]_vars

(***************************************************************************)
(* Properties                                                              *)
(***************************************************************************)
Pending(g, k) == IF entry = g /\ kind = k THEN 1 ELSE 0

\* The ledger explains each goal: it has an entry for every transition of the goal,
\* but for those that ends of the process and failing statements cost, and it tells of
\* no birth and no promotion that did not happen, and of no review or death that did
\* not happen unless a statement failed.
LedgerExplainsGoals ==
  \A g \in Goals, k \in Kinds :
    /\ moves[g][k] <= evidence[g][k] + Pending(g, k) + kills + faults
    /\ evidence[g][k] + Pending(g, k) <=
         moves[g][k] + (IF k \in {"formed", "activated"} THEN 0 ELSE faults)

\* A user has at most MaxActive live goals, and one more for every other round that
\* was waiting for the model meanwhile and for every read that failed.
CapWithOverlap ==
  \A u \in Users :
    LET waiting == {r \in Rounds : asked[r] = u}
    IN Cardinality(LiveOf(u)) + Cardinality(waiting) <= MaxActive + Cardinality(Rounds) - 1 + faults

\* Rounds that overlap do not make a goal fade faster: a goal loses salience once in
\* a review interval and does not die in the interval of its last review, however
\* many rounds there are.
FadesOncePerInterval ==
  [][\A g \in Goals :
       \/ salience'[g] < salience[g]
       \/ Live(g) /\ status'[g] = "DROPPED"
       => stamp[g] # "fresh"]_vars

==============================================================================
