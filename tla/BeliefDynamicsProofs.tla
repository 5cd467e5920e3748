------------------------ MODULE BeliefDynamicsProofs ------------------------
(***************************************************************************)
(* Proofs about BeliefDynamics for every set of people, facts and          *)
(* messages, every confidence the language model may give and every number *)
(* of restarts.                                                            *)
(***************************************************************************)
EXTENDS BeliefDynamics, SequenceTheorems, TLAPS

-----------------------------------------------------------------------------
(* Arithmetic: a clamp and a decay go toward even odds and not past them,  *)
(* and an observation leaves room for doubt                                *)

LEMMA ClampedIs ==
    ASSUME NEW b \in Int
    PROVE  /\ Clamped(b) \in MinBelief..MaxBelief
           /\ b >= Even => Even <= Clamped(b) /\ Clamped(b) <= b
           /\ b <= Even => b <= Clamped(b) /\ Clamped(b) <= Even
  BY DEF Clamped, MinBelief, MaxBelief, Even

LEMMA LeftShrinks ==
    ASSUME NEW n \in Nat, NEW a \in Ages
    PROVE  Left(n, a) \in 0..n
  <1>1. n \div 2 \in 0..n /\ n \div 4 \in 0..n
    OBVIOUS
  <1>. QED
    BY <1>1 DEF Left, Ages

LEMMA FadedShrinks ==
    ASSUME NEW b \in Int, NEW a \in Ages
    PROVE  /\ Faded(b, a) \in MinBelief..MaxBelief
           /\ b >= Even => Even <= Faded(b, a) /\ Faded(b, a) <= b
           /\ b <= Even => b <= Faded(b, a) /\ Faded(b, a) <= Even
  <1>1. CASE b >= Even
    <2>1. PICK r \in 0..(b - Even) : r = Left(b - Even, a)
      BY <1>1, LeftShrinks DEF Even
    <2>2. Faded(b, a) = Clamped(Even + r)
      BY <1>1, <2>1 DEF Faded
    <2>3. PICK c \in Int : c = Even + r /\ c >= Even /\ c <= b
      BY <2>1 DEF Even
    <2>4. /\ Clamped(c) \in MinBelief..MaxBelief
          /\ Even <= Clamped(c) /\ Clamped(c) <= c
      BY <2>3, ClampedIs
    <2>. QED
      BY <1>1, <2>2, <2>3, <2>4 DEF Even, MinBelief, MaxBelief
  <1>2. CASE b < Even
    <2>1. PICK r \in 0..(Even - b) : r = Left(Even - b, a)
      BY <1>2, LeftShrinks DEF Even
    <2>2. Faded(b, a) = Clamped(Even - r)
      BY <1>2, <2>1 DEF Faded, Even
    <2>3. PICK c \in Int : c = Even - r /\ c <= Even /\ c >= b
      BY <1>2, <2>1 DEF Even
    <2>4. /\ Clamped(c) \in MinBelief..MaxBelief
          /\ c <= Clamped(c) /\ Clamped(c) <= Even
      BY <2>3, ClampedIs
    <2>. QED
      BY <1>2, <2>2, <2>3, <2>4 DEF Even, MinBelief, MaxBelief
  <1>. QED
    BY <1>1, <1>2 DEF Even

(* A quotient lies between two numbers when the product does.              *)
LEMMA QuotientLies ==
    ASSUME NEW a \in Nat, NEW d \in Nat, d > 0, NEW l \in Nat, NEW u \in Nat,
           l * d <= a, a < (u + 1) * d
    PROVE  a \div d \in l..u
  <1>1. PICK q \in Nat : q = a \div d /\ q * d <= a /\ a < (q + 1) * d
    OBVIOUS
  <1>2. ASSUME q < l PROVE FALSE
    <2>1. (q + 1) * d <= l * d
      BY <1>2
    <2>. QED
      BY <1>1, <2>1
  <1>3. ASSUME q > u PROVE FALSE
    <2>1. (u + 1) * d <= q * d
      BY <1>3
    <2>. QED
      BY <1>1, <2>1
  <1>. QED
    BY <1>1, <1>2, <1>3

\* At most one observation beyond the bounds of a belief that is used.
Doubtful(b) == b \in Int /\ 1 <= b /\ b <= 995

LEMMA BoundsAre ==
    Posterior(MinBelief, "contradict") = 1 /\ Posterior(MaxBelief, "corroborate") = 995
  <1>1. Clamped(10) = 10 /\ Clamped(990) = 990
    BY DEF Clamped, MinBelief, MaxBelief
  <1>2. 30000 \div 19830 = 1 /\ 4950000 \div 4970 = 995
    OBVIOUS
  <1>. QED
    BY <1>1, <1>2 DEF Posterior, Ratio, MinBelief, MaxBelief

(* Whatever a belief was, an observation does not make it certain.         *)
LEMMA PosteriorBounded ==
    ASSUME NEW b \in Int, NEW kind \in {"corroborate", "contradict"}
    PROVE  Doubtful(Posterior(b, kind))
  <1>1. PICK p \in Nat : p = Clamped(b) /\ 10 <= p /\ p <= 990
    <2>1. Clamped(b) \in MinBelief..MaxBelief
      BY ClampedIs
    <2>. QED BY <2>1 DEF MinBelief, MaxBelief
  <1>2. CASE kind = "corroborate"
    <2>1. PICK a \in Nat : a = 1000 * (5 * p)
      BY <1>1
    <2>2. PICK d \in Nat : d = 5 * p + 2 * (1000 - p)
      BY <1>1
    <2>3. d > 0 /\ 1 * d <= a /\ a < 996 * d
      BY <1>1, <2>1, <2>2
    <2>4. Doubtful(a \div d)
      <3>1. a \div d \in 1..995
        BY <2>3, QuotientLies
      <3>. QED BY <3>1 DEF Doubtful
    <2>. QED
      BY <1>1, <1>2, <2>1, <2>2, <2>4 DEF Posterior, Ratio
  <1>3. CASE kind = "contradict"
    <2>1. PICK a \in Nat : a = 1000 * (3 * p)
      BY <1>1
    <2>2. PICK d \in Nat : d = 3 * p + 20 * (1000 - p)
      BY <1>1
    <2>3. d > 0 /\ 1 * d <= a /\ a < 996 * d
      BY <1>1, <2>1, <2>2
    <2>4. Doubtful(a \div d)
      <3>1. a \div d \in 1..995
        BY <2>3, QuotientLies
      <3>. QED BY <3>1 DEF Doubtful
    <2>. QED
      BY <1>1, <1>3, <2>1, <2>2, <2>4 DEF Posterior, Ratio
  <1>. QED
    BY <1>2, <1>3

-----------------------------------------------------------------------------
(* Sequences of facts *)

LEMMA FunctionIsSeq ==
    ASSUME NEW S, NEW n \in Nat, NEW s \in [1..n -> S]
    PROVE  s \in Seq(S) /\ Len(s) = n
  OBVIOUS

LEMMA HeadTail ==
    ASSUME NEW S, NEW s \in Seq(S), s # <<>>
    PROVE  Head(s) \in S /\ Tail(s) \in Seq(S)
  BY HeadTailProperties

-----------------------------------------------------------------------------
(* Type correctness *)

LEMMA TypeInit == Init => TypeOK
  BY BeliefAssumption DEF Init, TypeOK, FactStates, Ages, Places

\* observe keeps the columns of the rows well-typed.
LEMMA ObserveTypes ==
    ASSUME TypeOK, NEW f \in Facts, NEW kind \in {"corroborate", "contradict"},
           Observe(f, kind)
    PROVE  /\ belief' \in [Facts -> Int]
           /\ state' \in [Facts -> FactStates]
           /\ age' \in [Facts -> Ages]
           /\ count' \in [Facts -> Nat]
           /\ logged' \in [Facts -> Nat]
           /\ stored' \subseteq Facts
           /\ unlogged' \in Facts \cup {None}
           /\ lastKind' \in [Facts -> {"none", "corroborate", "contradict"}]
           /\ Doubtful(belief'[f])
  <1>. DEFINE posterior == Posterior(belief[f], kind)
  <1>3. belief[f] \in Int
    BY DEF TypeOK
  <1>4. posterior \in Int /\ Doubtful(posterior)
    <2>1. Doubtful(posterior)
      BY <1>3, PosteriorBounded
    <2>. QED BY <2>1 DEF Doubtful
  <1>5. NextState(state[f], kind, posterior) \in FactStates
    BY DEF NextState, FactStates, TypeOK
  <1>6. /\ belief' = [belief EXCEPT ![f] = posterior]
        /\ state' = [state EXCEPT ![f] = NextState(state[f], kind, posterior)]
    BY DEF Observe
  <1>. HIDE DEF posterior
  <1>7. belief' \in [Facts -> Int] /\ belief'[f] = posterior
    BY <1>4, <1>6 DEF TypeOK
  <1>8. state' \in [Facts -> FactStates]
    BY <1>5, <1>6 DEF TypeOK
  <1>. QED BY <1>4, <1>7, <1>8 DEF Observe, TypeOK, Ages

\* store_fact does, too.
LEMMA InsertTypes ==
    ASSUME TypeOK, NEW f \in Facts, Insert(f)
    PROVE  /\ belief' \in [Facts -> Int]
           /\ state' = state /\ logged' = logged /\ lastKind' = lastKind
           /\ age' \in [Facts -> Ages]
           /\ count' \in [Facts -> Nat]
           /\ stored' \subseteq Facts
           /\ unlogged' \in Facts \cup {None}
  <1>1. PICK b \in Confidences : belief' = [belief EXCEPT ![f] = b]
    BY DEF Insert
  <1>2. b \in Int
    BY BeliefAssumption
  <1>3. belief' \in [Facts -> Int]
    BY <1>1, <1>2 DEF TypeOK
  <1>. QED BY <1>3 DEF Insert, TypeOK, Ages

\* Reading decays the rows of one person and leaves the others.
LEMMA DecayTypes ==
    ASSUME TypeOK, NEW u, DecayRowsOf(u)
    PROVE  /\ belief' \in [Facts -> Int]
           /\ \A f \in Facts : \/ belief'[f] = belief[f]
                              \/ belief'[f] = Faded(belief[f], age[f])
  <1>1. ASSUME NEW f \in Facts PROVE Faded(belief[f], age[f]) \in Int
    <2>1. belief[f] \in Int /\ age[f] \in Ages
      BY DEF TypeOK
    <2>2. Faded(belief[f], age[f]) \in MinBelief..MaxBelief
      BY <2>1, FadedShrinks
    <2>. QED BY <2>2 DEF MinBelief, MaxBelief
  <1>. QED BY <1>1 DEF DecayRowsOf, TypeOK

LEMMA TypeStep == TypeOK /\ [Next]_vars => TypeOK'
  <1>. SUFFICES ASSUME TypeOK, [Next]_vars PROVE TypeOK'
    OBVIOUS
  <1>. USE DEF rows, tasks, history
  <1>1. ASSUME NEW m \in Messages, StartExtraction(m) PROVE TypeOK'
    BY <1>1 DEF StartExtraction, TypeOK, Places
  <1>2. ASSUME NEW m \in Messages, ExtractionReturns(m) PROVE TypeOK'
    <2>1. PICK n \in 0..ItemLimit :
            \E found \in [1..n -> {f \in Facts : SubjectOf[f] \in {AuthorOf[m], Other}}] :
               todo' = [todo EXCEPT ![m] = found]
      BY <1>2 DEF ExtractionReturns
    <2>2. PICK found \in [1..n -> {f \in Facts : SubjectOf[f] \in {AuthorOf[m], Other}}] :
               todo' = [todo EXCEPT ![m] = found]
      BY <2>1
    <2>3. n \in Nat /\ found \in [1..n -> Facts]
      BY BeliefAssumption, <2>2
    <2>4. found \in Seq(Facts)
      BY <2>3, FunctionIsSeq
    <2>. QED BY <1>2, <2>2, <2>4 DEF ExtractionReturns, TypeOK, Places
  <1>3. ASSUME NEW m \in Messages, StoreFact(m) PROVE TypeOK'
    <2>1. todo[m] \in Seq(Facts) /\ todo[m] # <<>>
      BY <1>3 DEF StoreFact, TypeOK
    <2>2. Head(todo[m]) \in Facts /\ Tail(todo[m]) \in Seq(Facts)
      BY <2>1, HeadTail
    <2>3. /\ todo' = [todo EXCEPT ![m] = Tail(todo[m])]
          /\ UNCHANGED <<pc, listed, running, kills>>
      BY <1>3 DEF StoreFact
    <2>4. CASE Head(todo[m]) \in stored
      <3>1. Observe(Head(todo[m]), "corroborate")
        BY <1>3, <2>4 DEF StoreFact
      <3>2. /\ belief' \in [Facts -> Int] /\ state' \in [Facts -> FactStates]
            /\ age' \in [Facts -> Ages] /\ count' \in [Facts -> Nat]
            /\ logged' \in [Facts -> Nat] /\ stored' \subseteq Facts
            /\ unlogged' \in Facts \cup {None}
            /\ lastKind' \in [Facts -> {"none", "corroborate", "contradict"}]
        BY <2>2, <3>1, ObserveTypes
      <3>. QED BY <2>2, <2>3, <3>2 DEF TypeOK
    <2>5. CASE Head(todo[m]) \notin stored
      <3>1. Insert(Head(todo[m]))
        BY <1>3, <2>5 DEF StoreFact
      <3>. QED BY <2>2, <2>3, <3>1, InsertTypes DEF TypeOK
    <2>. QED BY <2>4, <2>5
  <1>4. ASSUME NEW m \in Messages, RejectItem(m) PROVE TypeOK'
    BY <1>4 DEF RejectItem, TypeOK
  <1>5. ASSUME NEW m \in Messages, ListFacts(m) PROVE TypeOK'
    <2>1. belief' \in [Facts -> Int]
      BY <1>5, DecayTypes DEF ListFacts
    <2>2. \A shown \in Shown(AuthorOf[m]) : shown \subseteq Facts
      BY DEF Shown, AboutUser, TypeOK
    <2>. QED BY <1>5, <2>1, <2>2 DEF ListFacts, TypeOK, Places
  <1>6. ASSUME NEW m \in Messages, ContradictionsReturn(m) PROVE TypeOK'
    <2>1. PICK n \in 0..ItemLimit :
            \E named \in [1..n -> listed[m]] : todo' = [todo EXCEPT ![m] = named]
      BY <1>6 DEF ContradictionsReturn
    <2>2. PICK named \in [1..n -> listed[m]] : todo' = [todo EXCEPT ![m] = named]
      BY <2>1
    <2>3. n \in Nat /\ named \in [1..n -> Facts]
      BY BeliefAssumption, <2>2 DEF TypeOK
    <2>4. named \in Seq(Facts)
      BY <2>3, FunctionIsSeq
    <2>. QED BY <1>6, <2>2, <2>4 DEF ContradictionsReturn, TypeOK, Places
  <1>7. ASSUME NEW m \in Messages, Contradict(m) PROVE TypeOK'
    <2>1. todo[m] \in Seq(Facts) /\ todo[m] # <<>>
      BY <1>7 DEF Contradict, TypeOK
    <2>2. Head(todo[m]) \in Facts /\ Tail(todo[m]) \in Seq(Facts)
      BY <2>1, HeadTail
    <2>3. /\ todo' = [todo EXCEPT ![m] = Tail(todo[m])]
          /\ UNCHANGED <<pc, listed, running, kills>>
          /\ Observe(Head(todo[m]), "contradict")
      BY <1>7 DEF Contradict
    <2>4. /\ belief' \in [Facts -> Int] /\ state' \in [Facts -> FactStates]
          /\ age' \in [Facts -> Ages] /\ count' \in [Facts -> Nat]
          /\ logged' \in [Facts -> Nat] /\ stored' \subseteq Facts
          /\ unlogged' \in Facts \cup {None}
          /\ lastKind' \in [Facts -> {"none", "corroborate", "contradict"}]
      BY <2>2, <2>3, ObserveTypes
    <2>. QED BY <2>2, <2>3, <2>4 DEF TypeOK
  <1>8. ASSUME NEW m \in Messages, FinishWrite(m) PROVE TypeOK'
    BY <1>8 DEF FinishWrite, TypeOK, Places
  <1>9. CASE LogObservation
    BY <1>9 DEF LogObservation, TypeOK
  <1>10. ASSUME NEW u \in Users, ReadForPrompt(u) PROVE TypeOK'
    <2>1. belief' \in [Facts -> Int]
      BY <1>10, DecayTypes DEF ReadForPrompt
    <2>. QED BY <1>10, <2>1 DEF ReadForPrompt, TypeOK
  <1>11. CASE TimePasses
    <2>1. age' \in [Facts -> Ages]
      BY <1>11 DEF TimePasses, TypeOK, Ages
    <2>. QED BY <1>11, <2>1 DEF TimePasses, TypeOK
  <1>12. CASE Kill
    BY <1>12, BeliefAssumption DEF Kill, TypeOK, Places
  <1>13. CASE UNCHANGED vars
    BY <1>13 DEF vars, TypeOK
  <1>. QED BY <1>1, <1>2, <1>3, <1>4, <1>5, <1>6, <1>7, <1>8, <1>9, <1>10, <1>11, <1>12,
              <1>13 DEF Next, WriteStep

(* TypeOK is an invariant.                                                 *)
THEOREM BeliefTypeCorrect == Spec => []TypeOK
  BY TypeInit, TypeStep, PTL DEF Spec

-----------------------------------------------------------------------------
(* The inductive invariant *)

\* A fact without a row has the columns of the initial state.
Unstored ==
  \A f \in Facts \ stored :
    /\ state[f] = "PENDING" /\ lastKind[f] = "none"
    /\ count[f] = 0 /\ logged[f] = 0 /\ unlogged # f

\* A message was shown facts about its author, and contradicts only those.
ListedOK ==
  \A m \in Messages :
    /\ listed[m] \subseteq {f \in stored : SubjectOf[f] = AuthorOf[m]}
    /\ pc[m] \in {"new", "extracting", "storing"} => listed[m] = {}
    /\ pc[m] = "contradicting" => \A i \in 1..Len(todo[m]) : todo[m][i] \in listed[m]

BeliefInv ==
  /\ Unstored
  /\ ListedOK
  /\ AuditTrail
  /\ LastWordCounts
  /\ OnlySubjectsContradict
  /\ NeverCertain

\* What a step can do to the rows and their observations.
Corroborates(f) ==
  f \in stored /\ unlogged = None /\ Observe(f, "corroborate") /\ UNCHANGED <<listed, kills>>
Contradicts(f) ==
  /\ f \in stored /\ unlogged = None /\ Observe(f, "contradict") /\ UNCHANGED <<listed, kills>>
  /\ \E m \in Messages : f \in listed[m] /\ AuthorOf[m] = SubjectOf[f]
Learns(f) == f \notin stored /\ unlogged = None /\ Insert(f) /\ UNCHANGED <<listed, kills>>
Decays ==
  /\ \A f \in Facts : belief'[f] = belief[f] \/ belief'[f] = Faded(belief[f], age[f])
  /\ UNCHANGED <<stored, state, count, logged, unlogged, kills, lastKind>>
Ends ==
  /\ kills' = kills + 1 /\ unlogged' = None
  /\ UNCHANGED <<rows, lastKind, listed>>

\* The task that applies a contradiction was shown the fact.
LEMMA ContradictedWasListed ==
    ASSUME TypeOK, ListedOK, NEW m \in Messages, Contradict(m)
    PROVE  /\ Head(todo[m]) \in listed[m]
           /\ \A i \in 1..Len(Tail(todo[m])) : Tail(todo[m])[i] \in listed[m]
  <1>. DEFINE s == todo[m]
  <1>1. s \in Seq(Facts) /\ s # <<>> /\ \A i \in 1..Len(s) : s[i] \in listed[m]
    BY DEF TypeOK, ListedOK, Contradict
  <1>2. Len(s) \in Nat /\ Len(s) > 0
    BY <1>1, EmptySeq
  <1>. HIDE DEF s
  <1>3. Head(s) = s[1] /\ Len(Tail(s)) = Len(s) - 1
        /\ \A i \in 1..Len(Tail(s)) : Tail(s)[i] = s[i + 1]
    BY <1>1, HeadTailProperties
  <1>4. \A i \in 1..(Len(s) - 1) : i + 1 \in 1..Len(s)
    BY <1>2
  <1>5. Head(s) \in listed[m] /\ \A i \in 1..Len(Tail(s)) : Tail(s)[i] \in listed[m]
    BY <1>1, <1>2, <1>3, <1>4
  <1>. QED BY <1>5 DEF s

LEMMA RowStep ==
    ASSUME TypeOK, BeliefInv, [Next]_vars
    PROVE  \/ \E f \in Facts : Corroborates(f) \/ Contradicts(f) \/ Learns(f)
           \/ LogObservation \/ Decays \/ Ends
  <1>. USE DEF rows, tasks, history
  <1>1. ASSUME NEW m \in Messages, StoreFact(m)
        PROVE  \E f \in Facts : Corroborates(f) \/ Learns(f)
    <2>1. Head(todo[m]) \in Facts
      BY <1>1, HeadTail DEF StoreFact, TypeOK
    <2>. QED BY <1>1, <2>1 DEF StoreFact, Corroborates, Learns
  <1>2. ASSUME NEW m \in Messages, Contradict(m)
        PROVE  \E f \in Facts : Contradicts(f)
    <2>1. /\ Head(todo[m]) \in listed[m]
          /\ listed[m] \subseteq {f \in stored : SubjectOf[f] = AuthorOf[m]}
          /\ stored \subseteq Facts
      BY <1>2, ContradictedWasListed DEF BeliefInv, ListedOK, TypeOK
    <2>. QED BY <1>2, <2>1 DEF Contradict, Contradicts
  <1>3. ASSUME NEW m \in Messages, ListFacts(m) PROVE Decays
    BY <1>3, DecayTypes DEF ListFacts, Decays
  <1>4. ASSUME NEW u \in Users, ReadForPrompt(u) PROVE Decays
    BY <1>4, DecayTypes DEF ReadForPrompt, Decays
  <1>5. CASE Kill
    BY <1>5 DEF Kill, Ends
  <1>6. CASE TimePasses
    BY <1>6 DEF TimePasses, Decays
  <1>7. ASSUME NEW m \in Messages,
               \/ StartExtraction(m) \/ ExtractionReturns(m) \/ RejectItem(m)
               \/ ContradictionsReturn(m) \/ FinishWrite(m)
        PROVE  Decays
    BY <1>7 DEF StartExtraction, ExtractionReturns, RejectItem, ContradictionsReturn,
                FinishWrite, Decays
  <1>8. CASE UNCHANGED vars
    BY <1>8 DEF vars, Decays
  <1>. QED BY <1>1, <1>2, <1>3, <1>4, <1>5, <1>6, <1>7, <1>8 DEF Next, WriteStep

LEMMA InvInit == Init => BeliefInv
  BY BeliefAssumption DEF Init, BeliefInv, Unstored, ListedOK, AuditTrail, LastWordCounts,
     OnlySubjectsContradict, NeverCertain

LEMMA UnstoredStep ==
    ASSUME TypeOK, BeliefInv, [Next]_vars PROVE Unstored'
  <1>1. Unstored /\ None \notin Facts
    BY BeliefAssumption DEF BeliefInv
  <1>2. ASSUME NEW f \in Facts, Corroborates(f) \/ Contradicts(f) PROVE Unstored'
    BY <1>1, <1>2 DEF Corroborates, Contradicts, Observe, Unstored, TypeOK
  <1>3. ASSUME NEW f \in Facts, Learns(f) PROVE Unstored'
    BY <1>1, <1>3 DEF Learns, Insert, Unstored, TypeOK
  <1>4. CASE LogObservation
    BY <1>1, <1>4 DEF LogObservation, Unstored, TypeOK, history
  <1>5. CASE Decays \/ Ends
    BY <1>1, <1>5 DEF Decays, Ends, Unstored, rows
  <1>. QED BY <1>2, <1>3, <1>4, <1>5, RowStep

LEMMA AuditStep ==
    ASSUME TypeOK, BeliefInv, [Next]_vars PROVE AuditTrail'
  <1>1. /\ AuditTrail /\ Unstored /\ None \notin Facts
        /\ count \in [Facts -> Nat] /\ logged \in [Facts -> Nat] /\ kills \in Nat
    BY BeliefAssumption DEF BeliefInv, TypeOK
  <1>2. ASSUME NEW f \in Facts, Corroborates(f) \/ Contradicts(f) PROVE AuditTrail'
    BY <1>1, <1>2 DEF Corroborates, Contradicts, Observe, AuditTrail
  <1>3. ASSUME NEW f \in Facts, Learns(f) PROVE AuditTrail'
    BY <1>1, <1>3 DEF Learns, Insert, AuditTrail, Unstored
  <1>4. CASE LogObservation
    BY <1>1, <1>4 DEF LogObservation, AuditTrail
  <1>5. CASE Decays
    BY <1>1, <1>5 DEF Decays, AuditTrail
  <1>6. CASE Ends
    BY <1>1, <1>6 DEF Ends, AuditTrail, rows
  <1>. QED BY <1>2, <1>3, <1>4, <1>5, <1>6, RowStep

LEMMA ListedStep ==
    ASSUME TypeOK, BeliefInv, [Next]_vars PROVE ListedOK'
  <1>. USE DEF rows, tasks, history
  <1>1. ListedOK /\ stored \subseteq Facts
    BY DEF BeliefInv, TypeOK
  <1>2. stored \subseteq stored'
    <2>1. \A f \in Facts : Learns(f) => stored \subseteq stored'
      BY DEF Learns, Insert
    <2>2. \A f \in Facts : Corroborates(f) \/ Contradicts(f) => stored' = stored
      BY DEF Corroborates, Contradicts, Observe
    <2>. QED BY <2>1, <2>2, RowStep DEF LogObservation, Decays, Ends
  <1>3. ASSUME NEW m \in Messages, StartExtraction(m) PROVE ListedOK'
    BY <1>1, <1>3 DEF StartExtraction, ListedOK, TypeOK
  <1>4. ASSUME NEW m \in Messages, ExtractionReturns(m) PROVE ListedOK'
    BY <1>1, <1>4 DEF ExtractionReturns, ListedOK, TypeOK
  <1>5. ASSUME NEW m \in Messages, StoreFact(m) PROVE ListedOK'
    BY <1>1, <1>2, <1>5 DEF StoreFact, ListedOK, TypeOK
  <1>6. ASSUME NEW m \in Messages, RejectItem(m) PROVE ListedOK'
    BY <1>1, <1>6 DEF RejectItem, ListedOK, TypeOK
  <1>7. ASSUME NEW m \in Messages, ListFacts(m) PROVE ListedOK'
    <2>1. PICK shown \in Shown(AuthorOf[m]) : listed' = [listed EXCEPT ![m] = shown]
      BY <1>7 DEF ListFacts
    <2>2. shown \subseteq {f \in stored : SubjectOf[f] = AuthorOf[m]}
      BY DEF Shown, AboutUser
    <2>3. /\ stored' = stored /\ todo' = todo
          /\ \E x \in {"done", "checking"} : pc' = [pc EXCEPT ![m] = x]
      BY <1>7 DEF ListFacts
    <2>. QED BY <1>1, <2>1, <2>2, <2>3 DEF ListedOK, TypeOK
  <1>8. ASSUME NEW m \in Messages, ContradictionsReturn(m) PROVE ListedOK'
    <2>1. PICK n \in 0..ItemLimit :
            \E named \in [1..n -> listed[m]] : todo' = [todo EXCEPT ![m] = named]
      BY <1>8 DEF ContradictionsReturn
    <2>2. PICK named \in [1..n -> listed[m]] : todo' = [todo EXCEPT ![m] = named]
      BY <2>1
    <2>3. n \in Nat
      BY BeliefAssumption
    <2>4. Len(named) = n
      BY <2>2, <2>3, FunctionIsSeq
    <2>. QED BY <1>1, <1>8, <2>2, <2>4 DEF ContradictionsReturn, ListedOK, TypeOK
  <1>9. ASSUME NEW m \in Messages, Contradict(m) PROVE ListedOK'
    <2>1. \A i \in 1..Len(Tail(todo[m])) : Tail(todo[m])[i] \in listed[m]
      BY <1>1, <1>9, ContradictedWasListed
    <2>2. stored' = stored /\ listed' = listed /\ pc' = pc
          /\ todo' = [todo EXCEPT ![m] = Tail(todo[m])] /\ pc[m] = "contradicting"
      BY <1>9 DEF Contradict, Observe
    <2>. QED BY <1>1, <2>1, <2>2 DEF ListedOK, TypeOK
  <1>10. ASSUME NEW m \in Messages, FinishWrite(m) PROVE ListedOK'
    BY <1>1, <1>10 DEF FinishWrite, ListedOK, TypeOK
  <1>11. CASE Kill
    BY <1>1, <1>11 DEF Kill, ListedOK, TypeOK
  <1>12. CASE LogObservation \/ TimePasses \/ UNCHANGED vars \/ \E u \in Users : ReadForPrompt(u)
    BY <1>1, <1>12 DEF LogObservation, TimePasses, ReadForPrompt, vars, ListedOK
  <1>. QED BY <1>3, <1>4, <1>5, <1>6, <1>7, <1>8, <1>9, <1>10, <1>11, <1>12 DEF Next, WriteStep

\* Decay keeps every belief on its side and never leaves the bounds.
LEMMA DecayKeepsSide ==
    ASSUME TypeOK, Decays
    PROVE  \A f \in Facts :
             /\ belief[f] >= Even => Even <= belief'[f] /\ belief'[f] <= belief[f]
             /\ belief[f] <= Even => belief[f] <= belief'[f] /\ belief'[f] <= Even
             /\ Doubtful(belief[f]) => Doubtful(belief'[f])
  <1>. SUFFICES ASSUME NEW f \in Facts
                PROVE /\ belief[f] >= Even => Even <= belief'[f] /\ belief'[f] <= belief[f]
                      /\ belief[f] <= Even => belief[f] <= belief'[f] /\ belief'[f] <= Even
                      /\ Doubtful(belief[f]) => Doubtful(belief'[f])
    OBVIOUS
  <1>1. belief[f] \in Int /\ age[f] \in Ages
    BY DEF TypeOK
  <1>2. belief'[f] = belief[f] \/ belief'[f] = Faded(belief[f], age[f])
    BY DEF Decays
  <1>3. PICK b \in Int, e \in Int : b = belief[f] /\ e = Faded(belief[f], age[f])
    <2>1. Faded(belief[f], age[f]) \in MinBelief..MaxBelief
      BY <1>1, FadedShrinks
    <2>. QED BY <1>1, <2>1 DEF MinBelief, MaxBelief
  <1>4. /\ e \in MinBelief..MaxBelief
        /\ b >= Even => Even <= e /\ e <= b
        /\ b <= Even => b <= e /\ e <= Even
    BY <1>1, <1>3, FadedShrinks
  <1>. QED BY <1>2, <1>3, <1>4 DEF Even, MinBelief, MaxBelief, Doubtful

\* What the state of a fact says after an observation.
LEMMA ObserveState ==
    ASSUME TypeOK, NEW f \in Facts, NEW kind \in {"corroborate", "contradict"}, Observe(f, kind)
    PROVE  /\ lastKind'[f] = kind
           /\ kind = "corroborate" =>
                /\ state'[f] = "CONTESTED" => state[f] = "CONTESTED" /\ belief'[f] <= 600
                /\ state'[f] # "PENDING"
           /\ kind = "contradict" =>
                /\ state'[f] = "SUPPORTED" => belief'[f] >= 400
                /\ state'[f] # "PENDING"
           /\ \A g \in Facts \ {f} : /\ belief'[g] = belief[g] /\ state'[g] = state[g]
                                      /\ lastKind'[g] = lastKind[g]
  <1>. DEFINE posterior == Posterior(belief[f], kind)
  <1>1. /\ belief' = [belief EXCEPT ![f] = posterior]
        /\ state' = [state EXCEPT ![f] = NextState(state[f], kind, posterior)]
        /\ lastKind' = [lastKind EXCEPT ![f] = kind]
    BY DEF Observe
  <1>2. posterior \in Int
    <2>1. belief[f] \in Int
      BY DEF TypeOK
    <2>2. Doubtful(posterior)
      BY <2>1, PosteriorBounded
    <2>. QED BY <2>2 DEF Doubtful
  <1>. HIDE DEF posterior
  <1>3. /\ belief'[f] = posterior /\ lastKind'[f] = kind
        /\ state'[f] = NextState(state[f], kind, posterior)
        /\ state[f] \in FactStates
    BY <1>1 DEF TypeOK
  <1>4. /\ kind = "corroborate" =>
             /\ state'[f] = "CONTESTED" => state[f] = "CONTESTED" /\ belief'[f] <= 600
             /\ state'[f] # "PENDING"
        /\ kind = "contradict" =>
             /\ state'[f] = "SUPPORTED" => belief'[f] >= 400
             /\ state'[f] # "PENDING"
    BY <1>2, <1>3 DEF NextState, FactStates
  <1>5. \A g \in Facts \ {f} : /\ belief'[g] = belief[g] /\ state'[g] = state[g]
                                /\ lastKind'[g] = lastKind[g]
    BY <1>1 DEF TypeOK
  <1>. QED BY <1>3, <1>4, <1>5

LEMMA LastWordStep ==
    ASSUME TypeOK, BeliefInv, [Next]_vars PROVE LastWordCounts'
  <1>1. LastWordCounts /\ Unstored /\ stored \subseteq Facts /\ belief \in [Facts -> Int]
    BY DEF BeliefInv, TypeOK
  <1>2. ASSUME NEW f \in Facts, NEW kind \in {"corroborate", "contradict"}, Observe(f, kind)
        PROVE  LastWordCounts'
    <2>1. stored' = stored
      BY <1>2 DEF Observe
    <2>. QED BY <1>1, <1>2, <2>1, ObserveState DEF LastWordCounts
  <1>3. ASSUME NEW f \in Facts, Learns(f) PROVE LastWordCounts'
    <2>1. /\ stored' = stored \cup {f} /\ state' = state /\ lastKind' = lastKind
          /\ \E b \in Confidences : belief' = [belief EXCEPT ![f] = b]
          /\ state[f] = "PENDING"
      BY <1>1, <1>3 DEF Learns, Insert, Unstored
    <2>. QED BY <1>1, <2>1 DEF LastWordCounts
  <1>4. CASE Decays
    <2>1. stored' = stored /\ state' = state /\ lastKind' = lastKind
      BY <1>4 DEF Decays
    <2>2. ASSUME NEW f \in Facts
          PROVE  /\ belief[f] <= 600 => belief'[f] <= 600
                 /\ belief[f] >= 400 => belief'[f] >= 400
      <3>1. /\ belief[f] >= Even => Even <= belief'[f] /\ belief'[f] <= belief[f]
            /\ belief[f] <= Even => belief[f] <= belief'[f] /\ belief'[f] <= Even
        BY <1>4, DecayKeepsSide
      <3>2. belief[f] \in Int /\ belief'[f] \in Int
        BY <1>1, TypeStep DEF TypeOK
      <3>. QED BY <3>1, <3>2 DEF Even
    <2>. QED BY <1>1, <2>1, <2>2 DEF LastWordCounts
  <1>5. CASE LogObservation \/ Ends
    BY <1>1, <1>5 DEF LogObservation, Ends, rows, history, LastWordCounts
  <1>. QED BY <1>2, <1>3, <1>4, <1>5, RowStep DEF Corroborates, Contradicts

LEMMA CertaintyStep ==
    ASSUME TypeOK, BeliefInv, [Next]_vars PROVE NeverCertain'
  <1>1. NeverCertain /\ Unstored /\ stored \subseteq Facts /\ belief \in [Facts -> Int]
    BY DEF BeliefInv, TypeOK
  <1>2. ASSUME NEW f \in Facts, NEW kind \in {"corroborate", "contradict"}, Observe(f, kind)
        PROVE  NeverCertain'
    <2>1. stored' = stored /\ Doubtful(belief'[f])
      BY <1>2, ObserveTypes DEF Observe
    <2>2. \A g \in Facts \ {f} : belief'[g] = belief[g] /\ state'[g] = state[g]
      BY <1>2, ObserveState
    <2>3. ASSUME NEW g \in stored', state'[g] # "PENDING" PROVE Doubtful(belief'[g])
      <3>1. CASE g = f
        BY <2>1, <3>1
      <3>2. CASE g # f
        <4>1. g \in stored /\ state[g] # "PENDING" /\ belief'[g] = belief[g]
          BY <1>1, <2>1, <2>2, <2>3, <3>2
        <4>. QED BY <1>1, <4>1, BoundsAre DEF NeverCertain, Doubtful
      <3>. QED BY <3>1, <3>2
    <2>. HIDE DEF Posterior
    <2>. QED BY <2>3, BoundsAre DEF NeverCertain, Doubtful
  <1>3. ASSUME NEW f \in Facts, Learns(f) PROVE NeverCertain'
    <2>1. /\ stored' = stored \cup {f} /\ state' = state
          /\ \E b \in Confidences : belief' = [belief EXCEPT ![f] = b]
          /\ state[f] = "PENDING"
      BY <1>1, <1>3 DEF Learns, Insert, Unstored
    <2>. QED BY <1>1, <2>1 DEF NeverCertain
  <1>4. CASE Decays
    <2>1. stored' = stored /\ state' = state
      BY <1>4 DEF Decays
    <2>2. ASSUME NEW f \in Facts, Doubtful(belief[f]) PROVE Doubtful(belief'[f])
      BY <1>4, <2>2, DecayKeepsSide
    <2>3. ASSUME NEW f \in stored', state'[f] # "PENDING" PROVE Doubtful(belief'[f])
      <3>1. f \in Facts /\ f \in stored /\ state[f] # "PENDING"
        BY <1>1, <2>1, <2>3
      <3>2. Doubtful(belief[f])
        BY <1>1, <3>1, BoundsAre DEF NeverCertain, Doubtful
      <3>. QED BY <2>2, <3>1, <3>2
    <2>. QED BY <2>3, BoundsAre DEF NeverCertain, Doubtful
  <1>5. CASE LogObservation \/ Ends
    BY <1>1, <1>5 DEF LogObservation, Ends, rows, NeverCertain
  <1>. QED BY <1>2, <1>3, <1>4, <1>5, RowStep DEF Corroborates, Contradicts

LEMMA SubjectsStep ==
    ASSUME TypeOK, BeliefInv, [Next]_vars PROVE OnlySubjectsContradict'
  <1>1. OnlySubjectsContradict /\ Unstored /\ ListedOK /\ ListedOK'
    BY ListedStep DEF BeliefInv
  <1>2. \A m \in Messages : listed[m] \subseteq listed'[m]
    <2>1. ASSUME NEW m \in Messages, ListFacts(m)
          PROVE  \A n \in Messages : listed[n] \subseteq listed'[n]
      <3>1. listed[m] = {} /\ \A n \in Messages \ {m} : listed'[n] = listed[n]
        BY <1>1, <2>1 DEF ListFacts, ListedOK, TypeOK
      <3>. QED BY <3>1
    <2>2. (~ \E m \in Messages : ListFacts(m)) => listed' = listed
      BY DEF Next, WriteStep, StartExtraction, ExtractionReturns, StoreFact, RejectItem,
             ContradictionsReturn, Contradict, FinishWrite, LogObservation, ReadForPrompt,
             TimePasses, Kill, vars, tasks
    <2>. QED BY <2>1, <2>2
  <1>3. ASSUME NEW f \in Facts, Corroborates(f) PROVE OnlySubjectsContradict'
    <2>1. Observe(f, "corroborate")
      BY <1>3 DEF Corroborates
    <2>. QED BY <1>1, <1>2, <2>1, ObserveState DEF OnlySubjectsContradict
  <1>4. ASSUME NEW f \in Facts, Contradicts(f) PROVE OnlySubjectsContradict'
    <2>1. Observe(f, "contradict") /\ \E m \in Messages : f \in listed[m] /\ AuthorOf[m] = SubjectOf[f]
      BY <1>4 DEF Contradicts
    <2>. QED BY <1>1, <1>2, <2>1, ObserveState DEF OnlySubjectsContradict
  <1>5. CASE (\E f \in Facts : Learns(f)) \/ LogObservation \/ Decays \/ Ends
    <2>1. state' = state /\ lastKind' = lastKind
      BY <1>5 DEF Learns, Insert, LogObservation, Decays, Ends, rows, history
    <2>. QED BY <1>1, <1>2, <2>1 DEF OnlySubjectsContradict
  <1>. QED BY <1>3, <1>4, <1>5, RowStep

(* The invariant the properties rest on.                                   *)
THEOREM BeliefsCorrect == Spec => []BeliefInv
  <1>1. TypeOK /\ BeliefInv /\ [Next]_vars => BeliefInv'
    BY UnstoredStep, ListedStep, AuditStep, LastWordStep, CertaintyStep, SubjectsStep DEF BeliefInv
  <1>. QED BY <1>1, InvInit, BeliefTypeCorrect, PTL DEF Spec

(* No observation is lost or logged twice, however messages overlap.       *)
THEOREM AuditTrailHolds == Spec => []AuditTrail
  BY BeliefsCorrect, PTL DEF BeliefInv

(* The label of a fact follows its latest observation, but for the band in *)
(* which the engine keeps it.                                              *)
THEOREM LastWordHolds == Spec => []LastWordCounts
  BY BeliefsCorrect, PTL DEF BeliefInv

(* Only the subject of a fact can make it contested.                       *)
THEOREM SubjectsContradict == Spec => []OnlySubjectsContradict
  BY BeliefsCorrect, PTL DEF BeliefInv

(* An observed belief is at most one observation beyond the engine's       *)
(* bounds, and so never certain.                                           *)
THEOREM NothingIsCertain == Spec => []NeverCertain
  BY BeliefsCorrect, PTL DEF BeliefInv

(* Without an observation a belief only fades.                             *)
THEOREM BeliefsFade == Spec => FadesOnly
  <1>. DEFINE Fades == \A f \in stored : count'[f] = count[f] =>
                         \/ Even <= belief'[f] /\ belief'[f] <= belief[f]
                         \/ belief[f] <= belief'[f] /\ belief'[f] <= Even
  <1>. USE DEF Even
  <1>1. ASSUME TypeOK, BeliefInv, [Next]_vars PROVE Fades
    <2>. USE <1>1
    <2>1. /\ stored \subseteq Facts /\ count \in [Facts -> Nat] /\ belief \in [Facts -> Int]
      BY DEF TypeOK
    <2>2. ASSUME NEW f \in Facts, Corroborates(f) \/ Contradicts(f) PROVE Fades
      BY <2>1, <2>2 DEF Corroborates, Contradicts, Observe
    <2>3. ASSUME NEW f \in Facts, Learns(f) PROVE Fades
      BY <2>1, <2>3 DEF Learns, Insert
    <2>4. CASE Decays
      BY <2>1, <2>4, DecayKeepsSide
    <2>5. CASE LogObservation \/ Ends
      BY <2>1, <2>5 DEF LogObservation, Ends, rows
    <2>. QED BY <2>2, <2>3, <2>4, <2>5, RowStep
  <1>. QED BY <1>1, BeliefTypeCorrect, BeliefsCorrect, PTL DEF Spec, FadesOnly

=============================================================================
