--------------------------- MODULE BeliefDynamics ---------------------------
(***************************************************************************)
(* The belief engine: what the bot takes to be true of the people it talks *)
(* to, and the sections of MemoryWriteStage that feed it.                  *)
(*                                                                         *)
(* A fact is a row of the table facts.  Its belief is a probability, here  *)
(* a whole number of thousandths, rounded down.  The engine adds the       *)
(* logarithm of a likelihood ratio to the log-odds and goes back through   *)
(* the sigmoid: it multiplies the odds by the ratio.                       *)
(*                                                                         *)
(* All messages share one event loop.  Between two awaits a task has the   *)
(* loop to itself (running), but it commits row by row, and the process    *)
(* may end between two commits.                                            *)
(***************************************************************************)
EXTENDS Integers, Sequences, FiniteSets

CONSTANTS Users,       \* the people who write
          Other,       \* the subject "unknown": a claim about someone else
          Facts,       \* claim hashes
          SubjectOf,   \* the subject of each fact
          Messages,    \* messages whose exchange is written to memory
          AuthorOf,    \* the author of each message
          Confidences, \* initial beliefs the language model may give
          ShownLimit,  \* facts shown to the contradiction check (code: 10)
          ItemLimit,   \* bound: facts or contradictions found in one message
          KillLimit,   \* bound: how often the process ends
          None

ASSUME BeliefAssumption ==
  /\ SubjectOf \in [Facts -> Users \cup {Other}]
  /\ AuthorOf \in [Messages -> Users]
  /\ Confidences \subseteq Int
  /\ ShownLimit \in Nat \ {0}
  /\ ItemLimit \in Nat
  /\ KillLimit \in Nat
  /\ Other \notin Users
  /\ None \notin Facts \cup Messages

VARIABLES
  stored,      \* the facts that have a row
  belief,      \* facts.belief, in thousandths
  state,       \* facts.state
  age,         \* time since facts.last_confirmed: below, at, or beyond a half-life
  count,       \* facts.observation_count
  logged,      \* rows of fact_observations per fact
  pc,          \* where the task of each message is suspended
  todo,        \* facts or contradictions the task has still to apply
  listed,      \* the facts that the contradiction prompt showed
  running,     \* the task that has the event loop, or None
  unlogged,    \* the fact whose update is committed and not yet logged, or None
  kills,       \* how often the process ended
  lastKind     \* history: the kind of the latest observation of each fact

rows == <<stored, belief, state, age, count, logged>>
tasks == <<pc, todo, listed, running, unlogged>>
history == <<lastKind>>
vars == <<rows, tasks, kills, history>>

MaxBelief == 990
MinBelief == 10
Even == 500
Ratio == [corroborate |-> <<5, 2>>, contradict |-> <<3, 20>>]  \* SOURCE_WEIGHTS 2.5, 0.15
FactStates == {"PENDING", "SUPPORTED", "CONTESTED"}
Ages == 0..2
Places == {"new", "extracting", "storing", "checking", "contradicting", "done", "lost"}

Clamped(b) == IF b > MaxBelief THEN MaxBelief ELSE IF b < MinBelief THEN MinBelief ELSE b

\* _sigmoid of the new log-odds: _log_odds clamps the belief before it is used, and
\* nothing clamps the result.
Posterior(b, kind) ==
  LET for == Ratio[kind][1] * Clamped(b)
      against == Ratio[kind][2] * (1000 - Clamped(b))
  IN  (1000 * for) \div (for + against)

\* A distance from 0.5 that is halved with each half-life.
Left(n, a) == CASE a = 0 -> n [] a = 1 -> n \div 2 [] OTHER -> n \div 4

\* Mutant: the distance from 0.5 loses its sign.
FadedUpward(b, a) ==
  Clamped(Even + (IF b >= Even THEN Left(b - Even, a) ELSE Left(Even - b, a)))

\* The decay of a row that is a half-lives old; the result is clamped.
Faded(b, a) ==
  Clamped(IF b >= Even THEN Even + Left(b - Even, a) ELSE Even - Left(Even - b, a))

\* Mutant: a supported fact stays supported when it is contradicted.
NextStateLoyal(s, kind, posterior) ==
  IF kind = "corroborate" THEN "SUPPORTED" ELSE IF s = "PENDING" THEN "CONTESTED" ELSE s

\* The fact state machine of observe: between 0.4 and 0.6 a label stays.
NextState(s, kind, posterior) ==
  CASE kind = "corroborate" /\ (s = "PENDING" \/ (s = "CONTESTED" /\ posterior > 600)) ->
         "SUPPORTED"
    [] kind = "contradict" /\ (s = "PENDING" \/ (s = "SUPPORTED" /\ posterior < 400)) ->
         "CONTESTED"
    [] OTHER -> s

AboutUser(u) == {f \in stored : SubjectOf[f] = u}

TypeOK ==
  /\ stored \subseteq Facts
  /\ belief \in [Facts -> Int]
  /\ state \in [Facts -> FactStates]
  /\ age \in [Facts -> Ages]
  /\ count \in [Facts -> Nat]
  /\ logged \in [Facts -> Nat]
  /\ pc \in [Messages -> Places]
  /\ todo \in [Messages -> Seq(Facts)]
  /\ listed \in [Messages -> SUBSET Facts]
  /\ running \in Messages \cup {None}
  /\ unlogged \in Facts \cup {None}
  /\ kills \in 0..KillLimit
  /\ lastKind \in [Facts -> {"none", "corroborate", "contradict"}]

Init ==
  /\ stored = {}
  /\ belief = [f \in Facts |-> 0]
  /\ state = [f \in Facts |-> "PENDING"]
  /\ age = [f \in Facts |-> 0]
  /\ count = [f \in Facts |-> 0]
  /\ logged = [f \in Facts |-> 0]
  /\ pc = [m \in Messages |-> "new"]
  /\ todo = [m \in Messages |-> <<>>]
  /\ listed = [m \in Messages |-> {}]
  /\ running = None
  /\ unlogged = None
  /\ kills = 0
  /\ lastKind = [f \in Facts |-> "none"]

(***************************************************************************)
(* The engine                                                              *)
(***************************************************************************)
\* observe up to its first commit: update, state machine, last_confirmed = now.
Observe(f, kind) ==
  LET posterior == Posterior(belief[f], kind)
  IN /\ belief' = [belief EXCEPT ![f] = posterior]
     /\ state' = [state EXCEPT ![f] = NextState(@, kind, posterior)]
     /\ age' = [age EXCEPT ![f] = 0]
     /\ count' = [count EXCEPT ![f] = @ + 1]
     /\ lastKind' = [lastKind EXCEPT ![f] = kind]
     /\ unlogged' = f
     /\ UNCHANGED <<stored, logged>>

\* Mutant: observation_count starts at zero.
InsertUncounted(f) ==
  /\ stored' = stored \cup {f}
  /\ \E b \in Confidences : belief' = [belief EXCEPT ![f] = b]
  /\ age' = [age EXCEPT ![f] = 0]
  /\ count' = [count EXCEPT ![f] = 0]
  /\ unlogged' = f
  /\ UNCHANGED <<state, logged, lastKind>>

\* store_fact of a claim that has no row: the insert and its commit.  The initial
\* belief is stored as it was given; it is clamped when it is first used.
Insert(f) ==
  /\ stored' = stored \cup {f}
  /\ \E b \in Confidences : belief' = [belief EXCEPT ![f] = b]
  /\ age' = [age EXCEPT ![f] = 0]
  /\ count' = [count EXCEPT ![f] = 1]
  /\ unlogged' = f
  /\ UNCHANGED <<state, logged, lastKind>>

\* The second commit of observe and of store_fact.
LogObservation ==
  /\ unlogged # None
  /\ logged' = [logged EXCEPT ![unlogged] = @ + 1]
  /\ unlogged' = None
  /\ UNCHANGED <<stored, belief, state, age, count, pc, todo, listed, running, kills, history>>

\* get_facts_for_user writes the decayed belief of every row it reads back, and
\* leaves last_confirmed as it is.
DecayRowsOf(u) ==
  belief' = [f \in Facts |-> IF f \in AboutUser(u) THEN Faded(belief[f], age[f])
                                                   ELSE belief[f]]

\* ... sorts them by their belief and returns the first ones.
Shown(u) ==
  {shown \in SUBSET AboutUser(u) :
     /\ Cardinality(shown) <= ShownLimit
     /\ \/ shown = AboutUser(u)
        \/ Cardinality(shown) = ShownLimit
     /\ \A f \in shown, g \in AboutUser(u) \ shown :
          Faded(belief[f], age[f]) >= Faded(belief[g], age[g])}

(***************************************************************************)
(* MemoryWriteStage                                                        *)
(***************************************************************************)
\* The stage reaches the call of the small model.
StartExtraction(m) ==
  /\ running = None
  /\ pc[m] = "new"
  /\ pc' = [pc EXCEPT ![m] = "extracting"]
  /\ UNCHANGED <<rows, todo, listed, running, unlogged, kills, history>>

\* extract_facts_from_message returns: claims about the author or someone else,
\* or none when the call failed or its answer was no JSON array.
ExtractionReturns(m) ==
  /\ running = None
  /\ pc[m] = "extracting"
  /\ \E n \in 0..ItemLimit :
       \E found \in [1..n -> {f \in Facts : SubjectOf[f] \in {AuthorOf[m], Other}}] :
         todo' = [todo EXCEPT ![m] = found]
  /\ pc' = [pc EXCEPT ![m] = "storing"]
  /\ running' = m
  /\ UNCHANGED <<rows, listed, unlogged, kills, history>>

\* One turn of the loop over llm_facts.
StoreFact(m) ==
  /\ running = m
  /\ unlogged = None
  /\ pc[m] = "storing"
  /\ todo[m] # <<>>
  /\ LET f == Head(todo[m])
     IN IF f \in stored THEN Observe(f, "corroborate") ELSE Insert(f)
  /\ todo' = [todo EXCEPT ![m] = Tail(@)]
  /\ UNCHANGED <<pc, listed, running, kills>>

\* An item that is no object, or whose confidence is no number, raises and ends the loop.
RejectItem(m) ==
  /\ running = m
  /\ unlogged = None
  /\ pc[m] = "storing"
  /\ todo[m] # <<>>
  /\ todo' = [todo EXCEPT ![m] = <<>>]
  /\ UNCHANGED <<rows, pc, listed, running, unlogged, kills, history>>

\* detect_contradictions up to its LLM call: it reads, and so fades, what is known
\* about the author, and returns at once when that is nothing.
ListFacts(m) ==
  /\ running = m
  /\ unlogged = None
  /\ pc[m] = "storing"
  /\ todo[m] = <<>>
  /\ DecayRowsOf(AuthorOf[m])
  /\ \E shown \in Shown(AuthorOf[m]) : listed' = [listed EXCEPT ![m] = shown]
  /\ pc' = [pc EXCEPT ![m] = IF AboutUser(AuthorOf[m]) = {} THEN "done" ELSE "checking"]
  /\ running' = None
  /\ UNCHANGED <<stored, state, age, count, logged, todo, unlogged, kills, history>>

\* The model's answer: numbers of listed facts, in any order and possibly repeated.
ContradictionsReturn(m) ==
  /\ running = None
  /\ pc[m] = "checking"
  /\ \E n \in 0..ItemLimit : \E named \in [1..n -> listed[m]] :
       todo' = [todo EXCEPT ![m] = named]
  /\ pc' = [pc EXCEPT ![m] = "contradicting"]
  /\ running' = m
  /\ UNCHANGED <<rows, listed, unlogged, kills, history>>

\* One turn of the loop over the contradicted facts.
Contradict(m) ==
  /\ running = m
  /\ unlogged = None
  /\ pc[m] = "contradicting"
  /\ todo[m] # <<>>
  /\ Observe(Head(todo[m]), "contradict")
  /\ todo' = [todo EXCEPT ![m] = Tail(@)]
  /\ UNCHANGED <<pc, listed, running, kills>>

FinishWrite(m) ==
  /\ running = m
  /\ unlogged = None
  /\ pc[m] = "contradicting"
  /\ todo[m] = <<>>
  /\ pc' = [pc EXCEPT ![m] = "done"]
  /\ running' = None
  /\ UNCHANGED <<rows, todo, listed, unlogged, kills, history>>

(***************************************************************************)
(* The surroundings                                                        *)
(***************************************************************************)
\* A prompt for a message of u is assembled (_facts_context).
ReadForPrompt(u) ==
  /\ running = None
  /\ DecayRowsOf(u)
  /\ UNCHANGED <<stored, state, age, count, logged, tasks, kills, history>>

\* A half-life passes.
TimePasses ==
  /\ running = None
  /\ age' = [f \in Facts |-> IF f \in stored /\ age[f] < 2 THEN age[f] + 1 ELSE age[f]]
  /\ UNCHANGED <<stored, belief, state, count, logged, tasks, kills, history>>

\* The process ends between two commits or awaits, and is started again.
Kill ==
  /\ kills < KillLimit
  /\ kills' = kills + 1
  /\ pc' = [m \in Messages |-> IF pc[m] \in {"new", "done"} THEN pc[m] ELSE "lost"]
  /\ todo' = [m \in Messages |-> <<>>]
  /\ running' = None
  /\ unlogged' = None
  /\ UNCHANGED <<rows, listed, history>>

WriteStep(m) ==
  \/ StartExtraction(m) \/ ExtractionReturns(m)
  \/ StoreFact(m) \/ RejectItem(m) \/ ListFacts(m)
  \/ ContradictionsReturn(m) \/ Contradict(m) \/ FinishWrite(m)

Next ==
  \/ \E m \in Messages : WriteStep(m)
  \/ LogObservation
  \/ \E u \in Users : ReadForPrompt(u)
  \/ TimePasses
  \/ Kill

Spec == Init /\ [][Next]_vars

(***************************************************************************)
(* Properties                                                              *)
(***************************************************************************)
\* The audit trail lags the counters by at most the update that is being logged and
\* one update for each time the process ended between the two commits: concurrent
\* messages neither lose an observation nor log one twice.
AuditTrail ==
  \A f \in Facts :
    /\ logged[f] + (IF unlogged = f THEN 1 ELSE 0) <= count[f]
    /\ count[f] <= logged[f] + kills + (IF unlogged = f THEN 1 ELSE 0)

\* What the prompt says of a fact agrees with its latest observation, but for the band
\* in which the engine keeps a label: a fact that was just confirmed is not called
\* contested while it is held at more than 0.6, and one that was just contradicted is not
\* called supported at less than 0.4, however far it has faded since and however often
\* it was read.
LastWordCounts ==
  \A f \in stored :
    /\ state[f] = "CONTESTED" /\ lastKind[f] = "corroborate" => belief[f] <= 600
    /\ state[f] = "SUPPORTED" /\ lastKind[f] = "contradict" => belief[f] >= 400

\* A fact is contested only if its own subject contradicted it: nobody can be made to
\* contradict what others say of someone else, and a message contradicts only facts
\* that were shown with it.
OnlySubjectsContradict ==
  \A f \in Facts : lastKind[f] = "contradict" \/ state[f] = "CONTESTED" =>
    \E m \in Messages : f \in listed[m] /\ AuthorOf[m] = SubjectOf[f]

\* Without a new observation a belief moves toward even odds and never past them:
\* reading and waiting cannot turn a belief around or strengthen it.
FadesOnly ==
  [][\A f \in stored : count'[f] = count[f] =>
       \/ Even <= belief'[f] /\ belief'[f] <= belief[f]
       \/ belief[f] <= belief'[f] /\ belief'[f] <= Even]_vars

\* Once it was observed again no belief is certain, whatever confidence the language
\* model gave it at first: it is at most one observation beyond the engine's bounds,
\* which are those of what an observation starts from and not of what it stores.
NeverCertain ==
  \A f \in stored : state[f] # "PENDING" =>
    belief[f] \in Posterior(MinBelief, "contradict")..Posterior(MaxBelief, "corroborate")
=============================================================================
