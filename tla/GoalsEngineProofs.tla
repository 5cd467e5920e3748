-------------------------- MODULE GoalsEngineProofs --------------------------
(***************************************************************************)
(* Proofs about GoalsEngine for every set of goals and users, every number *)
(* of overlapping rounds, every answer of the language model, failing      *)
(* statement and restart.                                                  *)
(***************************************************************************)
EXTENDS GoalsEngine, FiniteSetTheorems, TLAPS

USE GoalsAssumption

-----------------------------------------------------------------------------
(* The inductive invariant *)

\* A ledger entry is pending only inside a round that has the event loop.
EntryInRound == entry # None => running # None

\* What the running round has still to review is due: no round has reviewed or
\* promoted it since it was read.
ReviewsWhatIsDue ==
  \A r \in Rounds : running = r /\ pc[r] = "review" =>
    \A g \in todo[r] : stamp[g] # "fresh"

\* A goal has a salience from its formation on.
FormedHaveSalience == \A g \in Goals : status[g] = "none" => salience[g] = 0

GoalsInv ==
  /\ TypeOK
  /\ EntryInRound
  /\ ReviewsWhatIsDue
  /\ FormedHaveSalience
  /\ LedgerExplainsGoals

-----------------------------------------------------------------------------
(* Types *)

LEMMA InitTypeOK == Init => TypeOK
  BY DEF Init, TypeOK, Statuses, Stamps, Places, Kinds

LEMMA FaultType ==
    ASSUME TypeOK, Fault
    PROVE  faults' = faults + 1 /\ faults' \in 0..FaultLimit
  BY DEF TypeOK, Fault

LEMMA MovedType ==
    ASSUME TypeOK, NEW g \in Goals, NEW k \in Kinds, Moved(g, k)
    PROVE  /\ moves' \in [Goals -> [Kinds -> Nat]]
           /\ entry' \in Goals \cup {None}
           /\ kind' \in Kinds
           /\ faults' \in 0..FaultLimit
  BY DEF TypeOK, Moved

LEMMA SetStatusType ==
    ASSUME TypeOK, NEW g \in Goals, NEW new \in Statuses, NEW left \in Nat,
           SetStatus(g, new, left)
    PROVE  /\ status' \in [Goals -> Statuses]
           /\ owner' \in [Goals -> Users \cup {None}]
           /\ salience' \in [Goals -> Nat]
           /\ stamp' \in [Goals -> Stamps]
  BY DEF TypeOK, SetStatus, Stamps

LEMMA StepTypeOK == TypeOK /\ [Next]_vars => TypeOK'
  <1>. SUFFICES ASSUME TypeOK, [Next]_vars
                PROVE  TypeOK'
    OBVIOUS
  <1>1. ASSUME NEW r \in Rounds, StartRound(r)
        PROVE  TypeOK'
    <2>1. todo' \in [Rounds -> SUBSET Goals] /\ faults' \in 0..FaultLimit
      <3>1. CASE \E s \in DueForReview : todo' = [todo EXCEPT ![r] = s] /\ UNCHANGED faults
        <4>. PICK s \in DueForReview : todo' = [todo EXCEPT ![r] = s] /\ UNCHANGED faults
          BY <3>1
        <4>1. s \in SUBSET Goals
          BY DEF DueForReview, Due
        <4>. QED BY <4>1 DEF TypeOK
      <3>2. CASE Fault /\ todo' = [todo EXCEPT ![r] = {}]
        BY <3>2, FaultType DEF TypeOK
      <3>. QED BY <1>1, <3>1, <3>2 DEF StartRound
    <2>. QED BY <1>1, <2>1 DEF TypeOK, StartRound, Places, rows
  <1>2. ASSUME NEW r \in Rounds, Review(r)
        PROVE  TypeOK'
    <2>. PICK g \in todo[r] :
           /\ todo' = [todo EXCEPT ![r] = @ \ {g}]
           /\ LET k == IF salience[g] = 0 THEN "auto_dropped" ELSE "reviewed"
              IN \/ /\ IF salience[g] = 0 THEN SetStatus(g, "DROPPED", 0)
                                          ELSE SetStatus(g, status[g], salience[g] - 1)
                    /\ Moved(g, k)
                 \/ /\ Fault
                    /\ entry' = g
                    /\ kind' = k
                    /\ UNCHANGED <<rows, moves>>
      BY <1>2 DEF Review
    <2>1. g \in Goals /\ status[g] \in Statuses /\ salience[g] \in Nat
      BY DEF TypeOK
    <2>. DEFINE k == IF salience[g] = 0 THEN "auto_dropped" ELSE "reviewed"
    <2>2. k \in Kinds
      BY DEF Kinds
    <2>3. CASE Moved(g, k) /\ salience[g] = 0 /\ SetStatus(g, "DROPPED", 0)
      <3>1. "DROPPED" \in Statuses
        BY DEF Statuses
      <3>. QED
        BY <1>2, <2>1, <2>2, <2>3, <3>1, MovedType, SetStatusType DEF TypeOK, Review
    <2>4. CASE Moved(g, k) /\ salience[g] # 0 /\ SetStatus(g, status[g], salience[g] - 1)
      <3>1. salience[g] - 1 \in Nat
        BY <2>1, <2>4
      <3>. QED
        BY <1>2, <2>1, <2>2, <2>4, <3>1, MovedType, SetStatusType DEF TypeOK, Review
    <2>5. CASE Fault /\ entry' = g /\ kind' = k /\ UNCHANGED <<rows, moves>>
      BY <1>2, <2>1, <2>2, <2>5, FaultType DEF TypeOK, Review, rows
    <2>. QED BY <2>3, <2>4, <2>5
  <1>3. ASSUME NEW r \in Rounds, StartPromotion(r)
        PROVE  TypeOK'
    <2>1. todo' \in [Rounds -> SUBSET Goals] /\ faults' \in 0..FaultLimit
      BY <1>3 DEF Fault, TypeOK, StartPromotion, Promotable
    <2>. QED BY <1>3, <2>1 DEF TypeOK, StartPromotion, Places, rows
  <1>4. ASSUME NEW r \in Rounds, Promote(r)
        PROVE  TypeOK'
    <2>. PICK g \in todo[r] :
           /\ todo' = [todo EXCEPT ![r] = @ \ {g}]
           /\ \/ /\ SetStatus(g, "ACTIVE", salience[g])
                 /\ Moved(g, "activated")
                 /\ promoted' = [promoted EXCEPT ![r] = @ + 1]
              \/ Fault /\ UNCHANGED <<rows, moves, entry, kind, promoted>>
      BY <1>4 DEF Promote
    <2>1. g \in Goals /\ salience[g] \in Nat /\ "ACTIVE" \in Statuses /\ "activated" \in Kinds
      BY DEF TypeOK, Statuses, Kinds
    <2>2. CASE SetStatus(g, "ACTIVE", salience[g]) /\ Moved(g, "activated")
               /\ promoted' = [promoted EXCEPT ![r] = @ + 1]
      BY <1>4, <2>1, <2>2, MovedType, SetStatusType DEF TypeOK, Promote
    <2>3. CASE Fault /\ UNCHANGED <<rows, moves, entry, kind, promoted>>
      BY <1>4, <2>3, FaultType DEF TypeOK, Promote, rows
    <2>. QED BY <2>2, <2>3
  <1>5. ASSUME NEW r \in Rounds, StartFormation(r)
        PROVE  TypeOK'
    <2>1. /\ users' \in [Rounds -> SUBSET Users]
          /\ pc' \in [Rounds -> Places]
          /\ running' \in Rounds \cup {None}
          /\ faults' \in 0..FaultLimit
      <3>1. CASE /\ \E s \in SUBSET Users : users' = [users EXCEPT ![r] = s]
                 /\ pc' = [pc EXCEPT ![r] = "form"]
                 /\ UNCHANGED <<running, faults>>
        BY <3>1 DEF TypeOK, Places
      <3>2. CASE Fault /\ EndRound(r)
        BY <3>2 DEF TypeOK, Places, Fault, EndRound
      <3>. QED BY <1>5, <3>1, <3>2 DEF StartFormation
    <2>. QED BY <1>5, <2>1 DEF TypeOK, StartFormation, rows
  <1>6. ASSUME NEW r \in Rounds, NextUser(r)
        PROVE  TypeOK'
    <2>1. PICK u \in users[r] :
            /\ users' = [users EXCEPT ![r] = @ \ {u}]
            /\ \/ UNCHANGED <<pc, asked, running, faults>>
               \/ /\ UNCHANGED faults \/ Fault
                  /\ asked' = [asked EXCEPT ![r] = u]
                  /\ pc' = [pc EXCEPT ![r] = "asking"]
                  /\ running' = None
      BY <1>6 DEF NextUser
    <2>2. u \in Users /\ faults' \in 0..FaultLimit
      BY <2>1 DEF TypeOK, Fault
    <2>3. UNCHANGED <<rows, evidence, todo, promoted, entry, kind, kills, moves>>
      BY <1>6 DEF NextUser
    <2>4. CASE UNCHANGED <<pc, asked, running, faults>>
      BY <2>1, <2>2, <2>3, <2>4 DEF TypeOK, rows
    <2>5. CASE /\ asked' = [asked EXCEPT ![r] = u]
               /\ pc' = [pc EXCEPT ![r] = "asking"]
               /\ running' = None
      BY <2>1, <2>2, <2>3, <2>5 DEF TypeOK, Places, rows
    <2>. QED BY <2>1, <2>4, <2>5
  <1>7. ASSUME NEW r \in Rounds, FinishRound(r)
        PROVE  TypeOK'
    BY <1>7 DEF TypeOK, FinishRound, EndRound, Places, rows
  <1>8. ASSUME NEW r \in Rounds, Answer(r)
        PROVE  TypeOK'
    <2>1. /\ status' \in [Goals -> Statuses]
          /\ owner' \in [Goals -> Users \cup {None}]
          /\ salience' \in [Goals -> Nat]
          /\ stamp' \in [Goals -> Stamps]
          /\ moves' \in [Goals -> [Kinds -> Nat]]
          /\ entry' \in Goals \cup {None}
          /\ kind' \in Kinds
          /\ faults' \in 0..FaultLimit
      <3>. PICK n \in Replies :
             \/ n = None /\ UNCHANGED <<rows, moves, entry, kind, faults>>
             \/ n # None /\ \E g \in Goals : Form(g, asked[r], n) /\ Moved(g, "formed")
             \/ n # None /\ Fault /\ UNCHANGED <<rows, moves, entry, kind>>
        BY <1>8 DEF Answer
      <3>1. CASE n # None /\ \E g \in Goals : Form(g, asked[r], n) /\ Moved(g, "formed")
        <4>. PICK g \in Goals : Form(g, asked[r], n) /\ Moved(g, "formed")
          BY <3>1
        <4>1. "formed" \in Kinds /\ n \in Nat
          BY <3>1 DEF Kinds, Replies
        <4>. QED BY <4>1, MovedType DEF TypeOK, Form, Statuses
      <3>2. CASE UNCHANGED <<rows, moves, entry, kind>> /\ (Fault \/ UNCHANGED faults)
        BY <3>2, FaultType DEF TypeOK, rows
      <3>. QED BY <3>1, <3>2
    <2>. QED BY <1>8, <2>1 DEF TypeOK, Answer, Places
  <1>9. CASE Record
    <2>1. evidence' \in [Goals -> [Kinds -> Nat]] /\ faults' \in 0..FaultLimit
      <3>1. CASE evidence' = [evidence EXCEPT ![entry][kind] = @ + 1] /\ UNCHANGED faults
        <4>1. entry \in Goals /\ kind \in Kinds
          BY <1>9 DEF TypeOK, Record
        <4>2. evidence[entry] \in [Kinds -> Nat] /\ evidence[entry][kind] + 1 \in Nat
          BY <4>1 DEF TypeOK
        <4>3. [evidence[entry] EXCEPT ![kind] = @ + 1] \in [Kinds -> Nat]
          BY <4>1, <4>2
        <4>. QED BY <3>1, <4>1, <4>3 DEF TypeOK
      <3>2. CASE Fault /\ UNCHANGED evidence
        BY <3>2, FaultType DEF TypeOK
      <3>. QED BY <1>9, <3>1, <3>2 DEF Record
    <2>. QED BY <1>9, <2>1 DEF TypeOK, Record, rows, round
  <1>10. ASSUME NEW g \in Goals, IntervalPasses(g)
         PROVE  TypeOK'
    BY <1>10 DEF TypeOK, IntervalPasses, Stamps, round
  <1>11. CASE Kill
    BY <1>11 DEF TypeOK, Kill, Places, rows
  <1>12. CASE UNCHANGED vars
    BY <1>12 DEF TypeOK, vars, rows, round
  <1>. QED
    BY <1>1, <1>2, <1>3, <1>4, <1>5, <1>6, <1>7, <1>8, <1>9, <1>10, <1>11, <1>12
    DEF Next, RoundStep

\* Every row, ledger entry and round keeps its type.
THEOREM GoalsTypeCorrect == Spec => []TypeOK
  BY InitTypeOK, StepTypeOK, PTL DEF Spec

-----------------------------------------------------------------------------
(* The other parts of the invariant *)

LEMMA StepEntryInRound == GoalsInv /\ [Next]_vars => EntryInRound'
  <1>. SUFFICES ASSUME GoalsInv, [Next]_vars
                PROVE  EntryInRound'
    OBVIOUS
  <1>. USE DEF EntryInRound
  <1>1. TypeOK /\ EntryInRound
    BY DEF GoalsInv
  <1>2. ASSUME NEW r \in Rounds, StartRound(r) \/ RoundStep(r)
        PROVE  EntryInRound'
    BY <1>1, <1>2
    DEF StartRound, RoundStep, Review, StartPromotion, Promote, StartFormation,
        NextUser, FinishRound, Answer, At, EndRound, TypeOK
  <1>3. CASE Record \/ Kill \/ \E g \in Goals : IntervalPasses(g)
    BY <1>1, <1>3 DEF Record, Kill, IntervalPasses
  <1>4. CASE UNCHANGED vars
    BY <1>1, <1>4 DEF vars
  <1>. QED BY <1>2, <1>3, <1>4 DEF Next

LEMMA StepReviewsWhatIsDue == GoalsInv /\ [Next]_vars => ReviewsWhatIsDue'
  <1>. SUFFICES ASSUME GoalsInv, [Next]_vars,
                       NEW r \in Rounds, (running = r /\ pc[r] = "review")',
                       NEW g \in (todo[r])'
                PROVE  stamp'[g] # "fresh"
    BY DEF ReviewsWhatIsDue
  <1>1. TypeOK /\ ReviewsWhatIsDue /\ r # None
    BY DEF GoalsInv
  <1>2. ASSUME NEW q \in Rounds, StartRound(q)
        PROVE  stamp'[g] # "fresh"
    <2>1. q = r /\ stamp' = stamp
      BY <1>2 DEF StartRound, rows
    <2>2. todo'[r] \subseteq Due
      BY <1>1, <1>2, <2>1 DEF StartRound, DueForReview, TypeOK
    <2>. QED BY <2>1, <2>2 DEF Due
  <1>3. ASSUME NEW q \in Rounds, Review(q)
        PROVE  stamp'[g] # "fresh"
    <2>1. q = r /\ running = r /\ pc[r] = "review"
      BY <1>3 DEF Review, At
    <2>2. PICK h \in todo[r] :
            /\ todo' = [todo EXCEPT ![r] = @ \ {h}]
            /\ stamp' = stamp \/ stamp' = [stamp EXCEPT ![h] = "fresh"]
      BY <1>3, <2>1 DEF Review, SetStatus, rows
    <2>3. g \in todo[r] /\ g # h /\ g \in Goals
      BY <1>1, <2>2 DEF TypeOK
    <2>. QED BY <1>1, <2>1, <2>2, <2>3 DEF ReviewsWhatIsDue, TypeOK
  <1>4. ASSUME NEW q \in Rounds, StartPromotion(q) \/ Promote(q) \/ StartFormation(q)
        PROVE  FALSE
    BY <1>1, <1>4 DEF StartPromotion, Promote, StartFormation, At, EndRound, TypeOK
  <1>5. ASSUME NEW q \in Rounds, NextUser(q) \/ FinishRound(q) \/ Answer(q)
        PROVE  FALSE
    BY <1>1, <1>5 DEF NextUser, FinishRound, Answer, At, EndRound, TypeOK
  <1>6. CASE Record \/ UNCHANGED vars
    BY <1>1, <1>6 DEF Record, vars, rows, round, ReviewsWhatIsDue
  <1>7. CASE Kill \/ \E h \in Goals : IntervalPasses(h)
    BY <1>1, <1>7 DEF Kill, IntervalPasses
  <1>. QED BY <1>2, <1>3, <1>4, <1>5, <1>6, <1>7 DEF Next, RoundStep

\* What a step does to the rows.
LEMMA StepRows ==
    ASSUME GoalsInv, Next, NEW g \in Goals
    PROVE  \/ UNCHANGED <<status[g], salience[g], stamp[g]>>
           \/ /\ stamp[g] = "fresh" /\ stamp'[g] = "stale"
              /\ UNCHANGED <<status[g], salience[g]>>
           \/ /\ stamp[g] # "fresh" /\ Live(g)
              /\ salience'[g] <= salience[g]
              /\ status'[g] # "none"
           \/ status'[g] = "ACTIVE" /\ UNCHANGED salience[g]
           \/ /\ status[g] = "none" /\ status'[g] = "FORMING"
              /\ salience'[g] \in Nat
  <1>1. TypeOK /\ ReviewsWhatIsDue
    BY DEF GoalsInv
  <1>2. ASSUME NEW r \in Rounds, Review(r)
        PROVE  \/ UNCHANGED <<status[g], salience[g], stamp[g]>>
               \/ /\ stamp[g] # "fresh" /\ Live(g)
                  /\ salience'[g] <= salience[g]
                  /\ status'[g] # "none"
    <2>1. PICK h \in todo[r] :
            \/ UNCHANGED rows
            \/ salience[h] = 0 /\ SetStatus(h, "DROPPED", 0)
            \/ salience[h] # 0 /\ SetStatus(h, status[h], salience[h] - 1)
      BY <1>2 DEF Review
    <2>2. h \in Goals /\ stamp[h] # "fresh" /\ salience[h] \in Nat
      BY <1>1, <1>2 DEF TypeOK, ReviewsWhatIsDue, Review, At
    <2>3. CASE UNCHANGED rows
      BY <2>3 DEF rows
    <2>4. CASE salience[h] = 0 /\ SetStatus(h, "DROPPED", 0)
      BY <1>1, <2>2, <2>4 DEF SetStatus, Live, TypeOK
    <2>5. CASE salience[h] # 0 /\ SetStatus(h, status[h], salience[h] - 1)
      BY <1>1, <2>2, <2>5 DEF SetStatus, Live, TypeOK
    <2>. QED BY <2>1, <2>3, <2>4, <2>5
  <1>3. ASSUME NEW r \in Rounds, Promote(r)
        PROVE  \/ UNCHANGED <<status[g], salience[g], stamp[g]>>
               \/ status'[g] = "ACTIVE" /\ UNCHANGED salience[g]
    <2>1. PICK h \in todo[r] : UNCHANGED rows \/ SetStatus(h, "ACTIVE", salience[h])
      BY <1>3 DEF Promote
    <2>. QED BY <1>1, <2>1 DEF SetStatus, TypeOK, rows
  <1>4. ASSUME NEW r \in Rounds, Answer(r)
        PROVE  \/ UNCHANGED <<status[g], salience[g], stamp[g]>>
               \/ /\ status[g] = "none" /\ status'[g] = "FORMING"
                  /\ salience'[g] \in Nat
    <2>1. \/ UNCHANGED rows
          \/ \E n \in Replies : n # None /\ \E h \in Goals : Form(h, asked[r], n)
      BY <1>4 DEF Answer
    <2>. QED BY <1>1, <2>1 DEF Form, TypeOK, rows, Replies
  <1>5. ASSUME NEW r \in Rounds,
               StartRound(r) \/ StartPromotion(r) \/ StartFormation(r)
               \/ NextUser(r) \/ FinishRound(r)
        PROVE  UNCHANGED <<status[g], salience[g], stamp[g]>>
    BY <1>5 DEF StartRound, StartPromotion, StartFormation, NextUser, FinishRound, rows
  <1>6. ASSUME Record \/ Kill
        PROVE  UNCHANGED <<status[g], salience[g], stamp[g]>>
    BY <1>6 DEF Record, Kill, rows
  <1>7. ASSUME NEW h \in Goals, IntervalPasses(h)
        PROVE  \/ UNCHANGED <<status[g], salience[g], stamp[g]>>
               \/ /\ stamp[g] = "fresh" /\ stamp'[g] = "stale"
                  /\ UNCHANGED <<status[g], salience[g]>>
    BY <1>1, <1>7 DEF IntervalPasses, TypeOK
  <1>. QED BY <1>2, <1>3, <1>4, <1>5, <1>6, <1>7 DEF Next, RoundStep

LEMMA StepFormedHaveSalience == GoalsInv /\ [Next]_vars => FormedHaveSalience'
  <1>. SUFFICES ASSUME GoalsInv, [Next]_vars,
                       NEW g \in Goals, status'[g] = "none"
                PROVE  salience'[g] = 0
    BY DEF FormedHaveSalience
  <1>1. FormedHaveSalience
    BY DEF GoalsInv
  <1>2. CASE Next
    BY <1>1, <1>2, StepRows DEF FormedHaveSalience
  <1>3. CASE UNCHANGED vars
    BY <1>1, <1>3 DEF FormedHaveSalience, vars, rows
  <1>. QED BY <1>2, <1>3

-----------------------------------------------------------------------------
(* The ledger *)

\* The entries of a goal and a kind, with the one that is pending.
Recorded(entries, goal, what, g, k) ==
  entries[g][k] + (IF goal = g /\ what = k THEN 1 ELSE 0)

\* The steps of the ledger: m counts transitions, e entries, f faults and n ends of
\* the process; 2 marks the new values.
LedgerStep(m, m2, e, e2, f, f2, n, n2, k) ==
  \/ m2 = m /\ e2 = e /\ f2 >= f /\ n2 >= n
  \/ m2 = m + 1 /\ e2 = e + 1 /\ f2 >= f /\ n2 >= n
  \/ m2 = m /\ e2 = e + 1 /\ k \notin {"formed", "activated"} /\ f2 = f + 1 /\ n2 = n
  \/ m2 = m /\ e2 \in {e, e - 1} /\ f2 + n2 = f + n + 1 /\ f2 >= f /\ n2 >= n

\* What LedgerExplainsGoals says of these numbers.
Explained(m, e, f, n, k) ==
  /\ m <= e + n + f
  /\ e <= m + (IF k \in {"formed", "activated"} THEN 0 ELSE f)

LEMMA LedgerArithmetic ==
    ASSUME NEW m \in Nat, NEW m2 \in Nat, NEW e \in Nat, NEW e2 \in Nat,
           NEW f \in Nat, NEW f2 \in Nat, NEW n \in Nat, NEW n2 \in Nat,
           NEW k,
           Explained(m, e, f, n, k),
           LedgerStep(m, m2, e, e2, f, f2, n, n2, k)
    PROVE  Explained(m2, e2, f2, n2, k)
  <1>. USE DEF LedgerStep, Explained
  <1>1. CASE k \in {"formed", "activated"}
    <2>1. e <= m
      BY <1>1
    <2>2. m2 <= e2 + n2 + f2 /\ e2 <= m2
      BY <1>1, <2>1
    <2>. QED BY <1>1, <2>2
  <1>2. CASE k \notin {"formed", "activated"}
    <2>1. e <= m + f
      BY <1>2
    <2>2. m2 <= e2 + n2 + f2 /\ e2 <= m2 + f2
      BY <2>1
    <2>. QED BY <1>2, <2>2
  <1>. QED BY <1>1, <1>2

\* What a step does to the ledger and to the transitions it is about.
LEMMA StepLedger ==
    ASSUME GoalsInv, Next, NEW g \in Goals, NEW k \in Kinds
    PROVE  LedgerStep(moves[g][k], moves'[g][k],
                      Recorded(evidence, entry, kind, g, k),
                      Recorded(evidence', entry', kind', g, k),
                      faults, faults', kills, kills', k)
  <1>. USE DEF Recorded, LedgerStep
  <1>0. TypeOK /\ EntryInRound /\ None \notin Goals
    BY DEF GoalsInv
  <1>. /\ moves[g][k] \in Nat /\ evidence[g][k] \in Nat
       /\ faults \in Nat /\ kills \in Nat
    BY <1>0 DEF TypeOK
  <1>1. ASSUME entry = None, NEW h \in Goals, NEW j \in Kinds, Moved(h, j),
               evidence' = evidence, kills' = kills
        PROVE  \/ /\ moves'[g][k] = moves[g][k]
                  /\ Recorded(evidence', entry', kind', g, k) = Recorded(evidence, entry, kind, g, k)
                  /\ faults' >= faults /\ kills' >= kills
               \/ /\ moves'[g][k] = moves[g][k] + 1
                  /\ Recorded(evidence', entry', kind', g, k) = Recorded(evidence, entry, kind, g, k) + 1
                  /\ faults' >= faults /\ kills' >= kills
    <2>1. /\ moves' = [moves EXCEPT ![h][j] = @ + 1]
          /\ entry' = h /\ kind' = j /\ faults' = faults
      BY <1>1 DEF Moved
    <2>2. CASE h = g /\ j = k
      BY <1>0, <1>1, <2>1, <2>2 DEF TypeOK
    <2>3. CASE ~(h = g /\ j = k)
      <3>1. moves'[g][k] = moves[g][k]
        BY <1>0, <2>1, <2>3 DEF TypeOK
      <3>. QED BY <1>0, <1>1, <2>1, <2>3, <3>1
    <2>. QED BY <2>2, <2>3
  <1>2. ASSUME NEW r \in Rounds, Review(r)
        PROVE  \/ \E h \in Goals, j \in Kinds : Moved(h, j)
               \/ \E h \in Goals, j \in Kinds \ {"formed", "activated"} :
                    /\ faults' = faults + 1
                    /\ entry' = h /\ kind' = j /\ moves' = moves
    BY <1>0, <1>2 DEF Review, TypeOK, Kinds, Fault
  <1>3. ASSUME NEW r \in Rounds, Review(r)
        PROVE  entry = None /\ evidence' = evidence /\ kills' = kills
    BY <1>3 DEF Review, At
  <1>4. ASSUME NEW r \in Rounds, Promote(r)
        PROVE  /\ entry = None /\ evidence' = evidence /\ kills' = kills
               /\ \/ \E h \in Goals, j \in Kinds : Moved(h, j)
                  \/ faults' = faults + 1 /\ UNCHANGED <<moves, entry, kind>>
    BY <1>0, <1>4 DEF Promote, At, TypeOK, Kinds, Fault
  <1>5. ASSUME NEW r \in Rounds, Answer(r)
        PROVE  /\ entry = None /\ evidence' = evidence /\ kills' = kills
               /\ \/ \E h \in Goals, j \in Kinds : Moved(h, j)
                  \/ faults' \in {faults, faults + 1} /\ UNCHANGED <<moves, entry, kind>>
    BY <1>0, <1>5 DEF Answer, EntryInRound, Kinds, Fault
  <1>6. ASSUME NEW r \in Rounds,
               StartRound(r) \/ StartPromotion(r) \/ StartFormation(r)
               \/ NextUser(r) \/ FinishRound(r)
        PROVE  /\ faults' \in {faults, faults + 1}
               /\ UNCHANGED <<moves, evidence, entry, kind, kills>>
    BY <1>6 DEF StartRound, StartPromotion, StartFormation, NextUser, FinishRound, Fault
  <1>7. CASE Record
    <2>1. /\ entry \in Goals /\ kind \in Kinds /\ entry' = None
          /\ UNCHANGED <<moves, kind, kills>>
      BY <1>0, <1>7 DEF Record, TypeOK
    <2>2. CASE evidence' = [evidence EXCEPT ![entry][kind] = @ + 1] /\ UNCHANGED faults
      <3>1. CASE entry = g /\ kind = k
        BY <1>0, <2>1, <2>2, <3>1 DEF TypeOK
      <3>2. CASE ~(entry = g /\ kind = k)
        <4>1. evidence'[g][k] = evidence[g][k]
          BY <1>0, <2>1, <2>2, <3>2 DEF TypeOK
        <4>. QED BY <1>0, <2>1, <2>2, <3>2, <4>1
      <3>. QED BY <3>1, <3>2
    <2>3. CASE Fault /\ UNCHANGED evidence
      BY <1>0, <2>1, <2>3 DEF Fault
    <2>. QED BY <1>7, <2>2, <2>3 DEF Record
  <1>8. CASE Kill
    BY <1>0, <1>8 DEF Kill
  <1>9. ASSUME NEW h \in Goals, IntervalPasses(h)
        PROVE  UNCHANGED <<moves, evidence, entry, kind, faults, kills>>
    BY <1>9 DEF IntervalPasses
  <1>. QED
    <2>1. ASSUME NEW r \in Rounds, Review(r)
          PROVE  \/ \E h \in Goals, j \in Kinds : Moved(h, j)
                 \/ /\ moves' = moves
                    /\ Recorded(evidence', entry', kind', g, k) = Recorded(evidence, entry, kind, g, k)
                    /\ faults' = faults + 1
                 \/ /\ moves' = moves
                    /\ Recorded(evidence', entry', kind', g, k) = Recorded(evidence, entry, kind, g, k) + 1
                    /\ k \notin {"formed", "activated"}
                    /\ faults' = faults + 1
      BY <1>0, <1>2, <1>3, <2>1
    <2>2. CASE \E r \in Rounds : Review(r)
      BY <1>1, <1>3, <2>1, <2>2
    <2>3. CASE \E r \in Rounds : Promote(r) \/ Answer(r)
      BY <1>1, <1>4, <1>5, <2>3
    <2>4. CASE \E r \in Rounds :
                 StartRound(r) \/ StartPromotion(r) \/ StartFormation(r)
                 \/ NextUser(r) \/ FinishRound(r)
      BY <1>6, <2>4
    <2>5. CASE \E h \in Goals : IntervalPasses(h)
      BY <1>9, <2>5
    <2>. QED BY <1>7, <1>8, <2>2, <2>3, <2>4, <2>5 DEF Next, RoundStep

LEMMA StepLedgerExplains == GoalsInv /\ [Next]_vars => LedgerExplainsGoals'
  <1>. SUFFICES ASSUME GoalsInv, [Next]_vars
                PROVE  LedgerExplainsGoals'
    OBVIOUS
  <1>0. TypeOK /\ LedgerExplainsGoals
    BY DEF GoalsInv
  <1>1. CASE Next
    <2>. SUFFICES ASSUME NEW g \in Goals, NEW k \in Kinds
                  PROVE  Explained(moves'[g][k], Recorded(evidence', entry', kind', g, k),
                                   faults', kills', k)
      BY DEF LedgerExplainsGoals, Pending, Recorded, Explained
    <2>1. /\ Recorded(evidence, entry, kind, g, k) \in Nat /\ moves[g][k] \in Nat
          /\ faults \in Nat /\ kills \in Nat
      BY <1>0 DEF TypeOK, Recorded
    <2>2. Explained(moves[g][k], Recorded(evidence, entry, kind, g, k), faults, kills, k)
      BY <1>0 DEF LedgerExplainsGoals, Pending, Recorded, Explained
    <2>3. /\ Recorded(evidence', entry', kind', g, k) \in Nat /\ moves'[g][k] \in Nat
          /\ faults' \in Nat /\ kills' \in Nat
      BY <1>0, StepTypeOK DEF TypeOK, Recorded
    <2>4. LedgerStep(moves[g][k], moves'[g][k],
                     Recorded(evidence, entry, kind, g, k),
                     Recorded(evidence', entry', kind', g, k),
                     faults, faults', kills, kills', k)
      BY <1>1, StepLedger
    <2>. DEFINE m == moves[g][k]
                m2 == moves'[g][k]
                e == Recorded(evidence, entry, kind, g, k)
                e2 == Recorded(evidence', entry', kind', g, k)
    <2>5. /\ m \in Nat /\ m2 \in Nat /\ e \in Nat /\ e2 \in Nat
          /\ Explained(m, e, faults, kills, k)
          /\ LedgerStep(m, m2, e, e2, faults, faults', kills, kills', k)
      BY <2>1, <2>2, <2>3, <2>4
    <2>6. Explained(m2, e2, faults', kills', k)
      <3>. HIDE DEF m, m2, e, e2
      <3>. QED BY <2>1, <2>3, <2>5, LedgerArithmetic
    <2>. QED BY <2>6
  <1>2. CASE UNCHANGED vars
    BY <1>0, <1>2 DEF LedgerExplainsGoals, Pending, vars
  <1>. QED BY <1>1, <1>2

LEMMA InitGoalsInv == Init => GoalsInv
  <1>. SUFFICES ASSUME Init
                PROVE  GoalsInv
    OBVIOUS
  <1>1. LedgerExplainsGoals
    BY DEF Init, LedgerExplainsGoals, Pending
  <1>. QED
    BY <1>1, InitTypeOK
    DEF Init, GoalsInv, EntryInRound, ReviewsWhatIsDue, FormedHaveSalience

LEMMA StepGoalsInv == GoalsInv /\ [Next]_vars => GoalsInv'
  BY StepTypeOK, StepEntryInRound, StepReviewsWhatIsDue, StepFormedHaveSalience,
     StepLedgerExplains
  DEF GoalsInv

LEMMA GoalsInvariant == Spec => []GoalsInv
  BY InitGoalsInv, StepGoalsInv, PTL DEF Spec

\* Whatever fails and wherever the process ends, the ledger of a goal lags its
\* transitions by at most one entry per fault or end, and tells of no birth or
\* promotion that did not happen.
THEOREM LedgerHolds == Spec => []LedgerExplainsGoals
  <1>1. GoalsInv => LedgerExplainsGoals
    BY DEF GoalsInv
  <1>. QED BY <1>1, GoalsInvariant, PTL

\* However many rounds of maintenance overlap, a goal fades once in a review interval
\* and does not die in the interval of its last review.
THEOREM GoalsFadeOnce == Spec => FadesOncePerInterval
  <1>1. ASSUME GoalsInv, Next, NEW g \in Goals,
               salience'[g] < salience[g] \/ (Live(g) /\ status'[g] = "DROPPED")
        PROVE  stamp[g] # "fresh"
    <2>1. /\ status[g] = "none" => salience[g] = 0
          /\ salience[g] \in Nat
      BY <1>1 DEF GoalsInv, TypeOK, FormedHaveSalience
    <2>. QED BY <1>1, <2>1, StepRows DEF Live
  <1>2. ASSUME GoalsInv, [Next]_vars
        PROVE  [\A g \in Goals :
                  \/ salience'[g] < salience[g]
                  \/ Live(g) /\ status'[g] = "DROPPED"
                  => stamp[g] # "fresh"]_vars
    BY <1>1, <1>2
  <1>. QED BY <1>2, GoalsInvariant, PTL DEF Spec, FadesOncePerInterval

-----------------------------------------------------------------------------
(* The cap *)

Waiting(u) == {r \in Rounds : asked[r] = u}

LEMMA AddedCardinality ==
    ASSUME NEW S, NEW x, IsFiniteSet(S)
    PROVE  /\ IsFiniteSet(S \cup {x})
           /\ Cardinality(S \cup {x}) <= Cardinality(S) + 1
  <1>1. Cardinality(S) \in Nat
    BY FS_CardinalityType
  <1>2. CASE x \in S
    <2>1. S \cup {x} = S
      BY <1>2
    <2>. QED BY <1>1, <2>1
  <1>3. CASE x \notin S
    <2>1. Cardinality(S \cup {x}) = Cardinality(S) + 1
      BY <1>3, FS_AddElement, Zenon
    <2>2. IsFiniteSet(S \cup {x})
      BY FS_AddElement, Zenon
    <2>. QED BY <1>1, <2>1, <2>2
  <1>. QED BY <1>2, <1>3

\* The live goals and the waiting rounds of a user are finite sets.
LEMMA CapFinite ==
    ASSUME NEW u
    PROVE  /\ IsFiniteSet(LiveOf(u)) /\ IsFiniteSet(Waiting(u))
           /\ IsFiniteSet(LiveOf(u)') /\ IsFiniteSet(Waiting(u)')
           /\ Cardinality(LiveOf(u)) \in Nat /\ Cardinality(Waiting(u)) \in Nat
           /\ Cardinality(LiveOf(u)') \in Nat /\ Cardinality(Waiting(u)') \in Nat
           /\ Cardinality(Rounds) \in Nat
           /\ Cardinality(Waiting(u)') <= Cardinality(Rounds)
  <1>1. /\ LiveOf(u) \in SUBSET Goals /\ LiveOf(u)' \in SUBSET Goals
        /\ Waiting(u) \in SUBSET Rounds /\ Waiting(u)' \in SUBSET Rounds
    BY DEF LiveOf, Waiting
  <1>. QED BY <1>1, FS_Subset, FS_CardinalityType

\* A step that forms no goal and lets no round ask keeps a user within the cap.
LEMMA CapShrinks ==
    ASSUME TypeOK, TypeOK', NEW u \in Users,
           LiveOf(u)' \subseteq LiveOf(u), Waiting(u)' \subseteq Waiting(u),
           faults' >= faults,
           Cardinality(LiveOf(u)) + Cardinality(Waiting(u))
             <= MaxActive + Cardinality(Rounds) - 1 + faults
    PROVE  Cardinality(LiveOf(u)') + Cardinality(Waiting(u)')
             <= MaxActive + Cardinality(Rounds) - 1 + faults'
  <1>1. /\ Cardinality(LiveOf(u)') <= Cardinality(LiveOf(u))
        /\ Cardinality(Waiting(u)') <= Cardinality(Waiting(u))
    BY CapFinite, FS_Subset
  <1>2. faults \in Nat /\ faults' \in Nat
    BY DEF TypeOK
  <1>. QED BY <1>1, <1>2, CapFinite

LEMMA StepCap == GoalsInv /\ CapWithOverlap /\ [Next]_vars => CapWithOverlap'
  <1>. SUFFICES ASSUME GoalsInv, CapWithOverlap, [Next]_vars, NEW u \in Users
                PROVE  Cardinality(LiveOf(u)') + Cardinality(Waiting(u)')
                         <= MaxActive + Cardinality(Rounds) - 1 + faults'
    BY DEF CapWithOverlap, Waiting
  <1>0. /\ TypeOK /\ TypeOK' /\ u # None /\ faults \in Nat /\ faults' \in Nat
        /\ Cardinality(LiveOf(u)) + Cardinality(Waiting(u))
             <= MaxActive + Cardinality(Rounds) - 1 + faults
    BY StepTypeOK DEF GoalsInv, CapWithOverlap, Waiting, TypeOK
  <1>1. ASSUME NEW r \in Rounds, Review(r) \/ Promote(r)
        PROVE  /\ LiveOf(u)' \subseteq LiveOf(u)
               /\ Waiting(u)' \subseteq Waiting(u)
               /\ faults' >= faults
    <2>1. asked' = asked
      BY <1>1 DEF Review, Promote
    <2>2. PICK h \in todo[r] :
            \/ UNCHANGED rows
            \/ \E s \in Statuses, n \in Nat : SetStatus(h, s, n)
      <3>1. "DROPPED" \in Statuses /\ "ACTIVE" \in Statuses
        BY DEF Statuses
      <3>2. \A h \in todo[r] : status[h] \in Statuses /\ salience[h] \in Nat
                               /\ (salience[h] # 0 => salience[h] - 1 \in Nat)
        BY <1>0 DEF TypeOK
      <3>3. CASE Promote(r)
        BY <3>1, <3>2, <3>3 DEF Promote
      <3>4. CASE Review(r)
        <4>1. PICK h \in todo[r] :
                \/ UNCHANGED rows
                \/ salience[h] = 0 /\ SetStatus(h, "DROPPED", 0)
                \/ salience[h] # 0 /\ SetStatus(h, status[h], salience[h] - 1)
          BY <3>4 DEF Review
        <4>. QED BY <3>1, <3>2, <4>1
      <3>. QED BY <1>1, <3>3, <3>4
    <2>3. LiveOf(u)' \subseteq LiveOf(u)
      <3>1. CASE UNCHANGED rows
        BY <3>1 DEF LiveOf, Live, rows
      <3>2. CASE \E s \in Statuses, n \in Nat : SetStatus(h, s, n)
        BY <1>0, <3>2 DEF LiveOf, Live, SetStatus, TypeOK
      <3>. QED BY <2>2, <3>1, <3>2
    <2>4. faults' >= faults
      BY <1>0, <1>1 DEF Review, Promote, Moved, Fault
    <2>. QED BY <2>1, <2>3, <2>4 DEF Waiting
  <1>2. ASSUME NEW r \in Rounds,
               StartRound(r) \/ StartPromotion(r) \/ StartFormation(r) \/ FinishRound(r)
        PROVE  /\ UNCHANGED <<status, owner, asked>>
               /\ faults' >= faults
    BY <1>0, <1>2
    DEF StartRound, StartPromotion, StartFormation, FinishRound, Fault, rows
  <1>3. ASSUME Record \/ (\E g \in Goals : IntervalPasses(g)) \/ UNCHANGED vars
        PROVE  /\ UNCHANGED <<status, owner, asked>>
               /\ faults' >= faults
    BY <1>0, <1>3 DEF Record, IntervalPasses, Fault, rows, round, vars
  <1>4. CASE Kill
    <2>1. /\ LiveOf(u)' \subseteq LiveOf(u) /\ Waiting(u)' \subseteq Waiting(u)
          /\ faults' >= faults
      BY <1>0, <1>4 DEF Kill, rows, LiveOf, Live, Waiting
    <2>. QED BY <1>0, <2>1, CapShrinks
  <1>5. ASSUME NEW r \in Rounds, NextUser(r)
        PROVE  Cardinality(LiveOf(u)') + Cardinality(Waiting(u)')
                 <= MaxActive + Cardinality(Rounds) - 1 + faults'
    <2>1. LiveOf(u)' = LiveOf(u)
      BY <1>5 DEF NextUser, rows, LiveOf, Live
    <2>2. CASE UNCHANGED <<asked, faults>>
      <3>1. Waiting(u)' \subseteq Waiting(u)
        BY <2>2 DEF Waiting
      <3>. QED BY <1>0, <2>1, <2>2, <3>1, CapShrinks
    <2>3. ASSUME NEW v \in Users, asked' = [asked EXCEPT ![r] = v],
                 \/ Cardinality(LiveOf(v)) < MaxActive /\ UNCHANGED faults
                 \/ Fault
          PROVE  Cardinality(LiveOf(u)') + Cardinality(Waiting(u)')
                   <= MaxActive + Cardinality(Rounds) - 1 + faults'
      <3>1. Waiting(u)' \subseteq Waiting(u) \cup {r}
        BY <1>0, <2>3 DEF Waiting, TypeOK
      <3>2. CASE v # u
        <4>1. Waiting(u)' \subseteq Waiting(u) /\ faults' >= faults
          BY <1>0, <2>3, <3>2 DEF Waiting, TypeOK, Fault
        <4>. QED BY <1>0, <2>1, <4>1, CapShrinks
      <3>3. CASE v = u /\ Cardinality(LiveOf(v)) < MaxActive /\ UNCHANGED faults
        BY <1>0, <2>1, <3>3, CapFinite
      <3>4. CASE Fault
        <4>1. Cardinality(Waiting(u)') <= Cardinality(Waiting(u)) + 1
          <5>0. IsFiniteSet(Waiting(u)) /\ Cardinality(Waiting(u)) \in Nat
            BY CapFinite
          <5>1. /\ IsFiniteSet(Waiting(u) \cup {r})
                /\ Cardinality(Waiting(u) \cup {r}) <= Cardinality(Waiting(u)) + 1
            BY <5>0, AddedCardinality
          <5>2. Cardinality(Waiting(u)') <= Cardinality(Waiting(u) \cup {r})
            BY <3>1, <5>1, FS_Subset
          <5>3. Cardinality(Waiting(u) \cup {r}) \in Nat
            BY <5>1, FS_CardinalityType
          <5>. QED BY <5>1, <5>2, <5>3, CapFinite
        <4>2. faults' = faults + 1
          BY <3>4 DEF Fault
        <4>. QED BY <1>0, <2>1, <4>1, <4>2, CapFinite
      <3>. QED BY <2>3, <3>2, <3>3, <3>4
    <2>4. \/ UNCHANGED <<asked, faults>>
          \/ \E v \in Users :
               /\ asked' = [asked EXCEPT ![r] = v]
               /\ \/ Cardinality(LiveOf(v)) < MaxActive /\ UNCHANGED faults
                  \/ Fault
      <3>1. users[r] \subseteq Users
        BY <1>0 DEF TypeOK
      <3>. QED BY <1>5, <3>1 DEF NextUser
    <2>. QED BY <2>2, <2>3, <2>4
  <1>6. ASSUME NEW r \in Rounds, Answer(r)
        PROVE  Cardinality(LiveOf(u)') + Cardinality(Waiting(u)')
                 <= MaxActive + Cardinality(Rounds) - 1 + faults'
    <2>1. asked' = [asked EXCEPT ![r] = None]
      BY <1>6 DEF Answer
    <2>2. Waiting(u)' = Waiting(u) \ {r}
      BY <1>0, <2>1 DEF Waiting, TypeOK
    <2>3. CASE UNCHANGED rows /\ faults' >= faults
      <3>1. LiveOf(u)' \subseteq LiveOf(u)
        BY <2>3 DEF LiveOf, Live, rows
      <3>. QED BY <1>0, <2>2, <2>3, <3>1, CapShrinks
    <2>4. ASSUME NEW g \in Goals, NEW n \in Saliences,
                 Form(g, asked[r], n), UNCHANGED faults
          PROVE  Cardinality(LiveOf(u)') + Cardinality(Waiting(u)')
                   <= MaxActive + Cardinality(Rounds) - 1 + faults'
      <3>1. CASE asked[r] # u
        <4>1. LiveOf(u)' \subseteq LiveOf(u)
          BY <1>0, <2>4, <3>1 DEF Form, LiveOf, Live, TypeOK
        <4>2. faults' >= faults
          BY <1>0, <2>4
        <4>. QED BY <1>0, <2>2, <4>1, <4>2, CapShrinks
      <3>2. CASE asked[r] = u
        <4>1. LiveOf(u)' \subseteq LiveOf(u) \cup {g}
          BY <1>0, <2>4 DEF Form, LiveOf, Live, TypeOK
        <4>2. Cardinality(LiveOf(u)') <= Cardinality(LiveOf(u)) + 1
          <5>0. IsFiniteSet(LiveOf(u)) /\ Cardinality(LiveOf(u)) \in Nat
            BY CapFinite
          <5>1. /\ IsFiniteSet(LiveOf(u) \cup {g})
                /\ Cardinality(LiveOf(u) \cup {g}) <= Cardinality(LiveOf(u)) + 1
            BY <5>0, AddedCardinality
          <5>2. Cardinality(LiveOf(u)') <= Cardinality(LiveOf(u) \cup {g})
            BY <4>1, <5>1, FS_Subset
          <5>3. Cardinality(LiveOf(u) \cup {g}) \in Nat
            BY <5>1, FS_CardinalityType
          <5>. QED BY <5>1, <5>2, <5>3, CapFinite
        <4>3. Cardinality(Waiting(u)') = Cardinality(Waiting(u)) - 1
          <5>1. r \in Waiting(u)
            BY <3>2 DEF Waiting
          <5>. QED BY <2>2, <5>1, CapFinite, FS_RemoveElement
        <4>. QED BY <1>0, <2>4, <4>2, <4>3, CapFinite
      <3>. QED BY <3>1, <3>2
    <2>5. \/ UNCHANGED rows /\ faults' >= faults
          \/ \E g \in Goals, n \in Saliences : Form(g, asked[r], n) /\ UNCHANGED faults
      <3>1. faults' = faults => faults' >= faults
        BY <1>0
      <3>2. Fault => faults' >= faults
        BY <1>0 DEF Fault
      <3>. QED BY <1>6, <3>1, <3>2 DEF Answer, Replies, Moved
    <2>. QED BY <2>3, <2>4, <2>5
  <1>7. ASSUME UNCHANGED <<status, owner, asked>>, faults' >= faults
        PROVE  Cardinality(LiveOf(u)') + Cardinality(Waiting(u)')
                 <= MaxActive + Cardinality(Rounds) - 1 + faults'
    <2>1. LiveOf(u)' \subseteq LiveOf(u) /\ Waiting(u)' \subseteq Waiting(u)
      BY <1>7 DEF LiveOf, Live, Waiting
    <2>. QED BY <1>0, <1>7, <2>1, CapShrinks
  <1>8. ASSUME NEW r \in Rounds, Review(r) \/ Promote(r)
        PROVE  Cardinality(LiveOf(u)') + Cardinality(Waiting(u)')
                 <= MaxActive + Cardinality(Rounds) - 1 + faults'
    BY <1>0, <1>1, <1>8, CapShrinks
  <1>. QED
    BY <1>2, <1>3, <1>4, <1>5, <1>6, <1>7, <1>8 DEF Next, RoundStep

LEMMA InitCap == Init => CapWithOverlap
  <1>. SUFFICES ASSUME Init, NEW u \in Users
                PROVE  Cardinality(LiveOf(u)) + Cardinality(Waiting(u))
                         <= MaxActive + Cardinality(Rounds) - 1 + faults
    BY DEF CapWithOverlap, Waiting
  <1>1. LiveOf(u) = {} /\ Waiting(u) = {} /\ faults = 0
    BY DEF Init, LiveOf, Live, Waiting
  <1>2. Cardinality(Rounds) \in Nat
    BY FS_CardinalityType
  <1>. QED BY <1>1, <1>2, FS_EmptySet

\* A user has at most MaxActive live goals, and one more for every other round that
\* waited for the model with the same stale count and for every read that failed.
THEOREM CapHolds == Spec => []CapWithOverlap
  BY InitCap, StepCap, GoalsInvariant, PTL DEF Spec

==============================================================================
