---------------------- MODULE BackgroundProcessorProofs ----------------------
(***************************************************************************)
(* Proofs about BackgroundProcessor for every set of messages, every       *)
(* number of loops and maintenance rounds, every length of the queue and   *)
(* every batch size: no message is taken twice and none disappears, and    *)
(* what is summarised together is one conversation.                        *)
(***************************************************************************)
EXTENDS BackgroundProcessor, SequenceTheorems, WellFoundedInduction, NaturalsInduction, TLAPS

-----------------------------------------------------------------------------
(* Lemmas about sequences: what the operations of a deque keep *)

(* append adds one element.                                                *)
LEMMA AppendRange ==
    ASSUME NEW S, NEW q \in Seq(S), NEW m \in S
    PROVE  /\ Append(q, m) \in Seq(S)
           /\ Range(Append(q, m)) = Range(q) \cup {m}
           /\ IsInjective(q) /\ m \notin Range(q) => IsInjective(Append(q, m))
  <1>. DEFINE a == Append(q, m)
  <1>1. /\ a \in Seq(S)
        /\ Len(q) \in Nat
        /\ DOMAIN q = 1..Len(q)
        /\ DOMAIN a = 1..(Len(q) + 1)
        /\ \A i \in 1..Len(q) : a[i] = q[i]
        /\ a[Len(q) + 1] = m
    OBVIOUS
  <1>2. Range(a) = Range(q) \cup {m}
    BY <1>1 DEF Range
  <1>3. IsInjective(q) /\ m \notin Range(q) => IsInjective(a)
    BY <1>1 DEF Range, IsInjective
  <1>. QED BY <1>1, <1>2, <1>3

(* The arithmetic of a cut.                                                *)
LEMMA CutLength ==
    ASSUME NEW k \in Nat, NEW n \in 0..k
    PROVE  /\ n \in Nat /\ n + 1 \in Int /\ k - n \in Nat
           /\ (IF 1 <= n THEN n - 1 + 1 ELSE 0) = n
           /\ (IF n + 1 <= k THEN k - (n + 1) + 1 ELSE 0) = k - n
           /\ 1..(n - 1 + 1) = 1..n
           /\ 1..(k - (n + 1) + 1) = 1..(k - n)
           /\ \A i \in 1..n : i \in 1..k /\ 1 + i - 1 = i
           /\ \A i \in 1..(k - n) : n + i \in 1..k /\ (n + 1) + i - 1 = n + i
           /\ \A i \in (n + 1)..k : i \in 1..k
           /\ \A i \in 1..n, j \in 1..(k - n) : i # n + j
           /\ \A i, j \in 1..(k - n) : n + i = n + j => i = j
           /\ \A i \in 1..k : i \in 1..n \/ \E j \in 1..(k - n) : i = n + j
  <1>1. ASSUME NEW i \in 1..k, i > n
        PROVE  i - n \in 1..(k - n) /\ i = n + (i - n)
    BY <1>1
  <1>2. ASSUME NEW i \in 1..k
        PROVE  i \in 1..n \/ \E j \in 1..(k - n) : i = n + j
    BY <1>1
  <1>. QED BY <1>2

(* Cutting a sequence in two splits its elements.                          *)
LEMMA CutRange ==
    ASSUME NEW S, NEW q \in Seq(S), NEW n \in 0..Len(q)
    PROVE  /\ SubSeq(q, 1, n) \in Seq(S)
           /\ SubSeq(q, n + 1, Len(q)) \in Seq(S)
           /\ Len(SubSeq(q, 1, n)) = n
           /\ Len(SubSeq(q, n + 1, Len(q))) = Len(q) - n
           /\ Range(q) = Range(SubSeq(q, 1, n)) \cup Range(SubSeq(q, n + 1, Len(q)))
           /\ IsInjective(q) =>
                /\ IsInjective(SubSeq(q, 1, n))
                /\ IsInjective(SubSeq(q, n + 1, Len(q)))
                /\ Range(SubSeq(q, 1, n)) \cap Range(SubSeq(q, n + 1, Len(q))) = {}
  <1>. DEFINE a == SubSeq(q, 1, n)
              k == Len(q)
              b == SubSeq(q, n + 1, k)
  <1>1. k \in Nat /\ DOMAIN q = 1..k /\ \A i \in 1..k : q[i] \in S
    OBVIOUS
  <1>. n \in 0..k
    OBVIOUS
  <1>2. a \in Seq(S) /\ DOMAIN a = 1..n /\ Len(a) = n /\ \A i \in 1..n : a[i] = q[i]
    <2>. HIDE DEF k
    <2>1. 1 \in Int /\ n \in Int /\ \A i \in 1..n : q[i] \in S
      BY <1>1, CutLength
    <2>2. /\ a \in Seq(S)
          /\ Len(a) = IF 1 <= n THEN n - 1 + 1 ELSE 0
          /\ \A i \in 1..(n - 1 + 1) : a[i] = q[1 + i - 1]
      BY <2>1, SubSeqProperties
    <2>3. DOMAIN a = 1..Len(a)
      BY <2>2, LenProperties
    <2>. HIDE DEF a
    <2>. QED BY <1>1, <2>2, <2>3, CutLength
  <1>3. /\ b \in Seq(S)
        /\ DOMAIN b = 1..(k - n)
        /\ Len(b) = k - n
        /\ \A i \in 1..(k - n) : b[i] = q[n + i]
    <2>. HIDE DEF k
    <2>1. n + 1 \in Int /\ k \in Int /\ \A i \in (n + 1)..k : q[i] \in S
      BY <1>1, CutLength
    <2>2. /\ b \in Seq(S)
          /\ Len(b) = IF n + 1 <= k THEN k - (n + 1) + 1 ELSE 0
          /\ \A i \in 1..(k - (n + 1) + 1) : b[i] = q[(n + 1) + i - 1]
      BY <2>1, SubSeqProperties
    <2>3. DOMAIN b = 1..Len(b)
      BY <2>2, LenProperties
    <2>. HIDE DEF b
    <2>4. Len(b) = k - n
      BY <1>1, <2>2, CutLength
    <2>5. \A i \in 1..(k - n) : b[i] = q[n + i]
      BY <1>1, <2>2, CutLength
    <2>. QED BY <2>2, <2>3, <2>4, <2>5
  <1>. HIDE DEF a, b, k
  <1>4. Range(q) = Range(a) \cup Range(b)
    <2>1. ASSUME NEW i \in 1..n PROVE a[i] \in Range(q)
      <3>1. i \in 1..k /\ a[i] = q[i]
        BY <1>1, <1>2, CutLength
      <3>. QED BY <1>1, <3>1, Zenon DEF Range
    <2>2. ASSUME NEW i \in 1..(k - n) PROVE b[i] \in Range(q)
      <3>1. n + i \in 1..k
        BY <1>1, CutLength
      <3>2. b[i] = q[n + i]
        BY <1>3
      <3>. QED BY <1>1, <3>1, <3>2, Zenon DEF Range
    <2>3. ASSUME NEW i \in 1..k PROVE q[i] \in Range(a) \cup Range(b)
      <3>1. CASE i \in 1..n
        BY <1>2, <3>1 DEF Range
      <3>2. CASE \E j \in 1..(k - n) : i = n + j
        BY <1>3, <3>2 DEF Range
      <3>3. i \in 1..n \/ \E j \in 1..(k - n) : i = n + j
        BY <1>1, CutLength
      <3>. QED BY <3>1, <3>2, <3>3
    <2>4. Range(a) \subseteq Range(q) /\ Range(b) \subseteq Range(q)
      <3>1. Range(a) = {a[i] : i \in 1..n} /\ Range(b) = {b[i] : i \in 1..(k - n)}
        BY <1>2, <1>3 DEF Range
      <3>. QED BY <2>1, <2>2, <3>1
    <2>5. Range(q) = {q[i] : i \in 1..k}
      BY <1>1 DEF Range
    <2>. QED BY <2>3, <2>4, <2>5
  <1>5. ASSUME IsInjective(q)
        PROVE  IsInjective(a) /\ IsInjective(b) /\ Range(a) \cap Range(b) = {}
    <2>1. IsInjective(a)
      <3>. SUFFICES ASSUME NEW i \in 1..n, NEW j \in 1..n, a[i] = a[j] PROVE i = j
        BY <1>2 DEF IsInjective
      <3>1. i \in 1..k /\ j \in 1..k /\ q[i] = q[j]
        BY <1>1, <1>2, CutLength
      <3>. QED BY <1>1, <1>5, <3>1 DEF IsInjective
    <2>2. IsInjective(b)
      <3>. SUFFICES ASSUME NEW i \in 1..(k - n), NEW j \in 1..(k - n), b[i] = b[j]
                    PROVE  i = j
        BY <1>3 DEF IsInjective
      <3>1. n + i \in 1..k /\ n + j \in 1..k /\ q[n + i] = q[n + j]
        BY <1>1, <1>3, CutLength
      <3>2. n + i = n + j
        BY <1>1, <1>5, <3>1 DEF IsInjective
      <3>. QED BY <1>1, <3>2, CutLength
    <2>3. ASSUME NEW i \in 1..n, NEW j \in 1..(k - n) PROVE a[i] # b[j]
      <3>1. i \in 1..k /\ n + j \in 1..k /\ i # n + j
        BY <1>1, CutLength
      <3>2. q[i] # q[n + j]
        BY <1>1, <1>5, <3>1 DEF IsInjective
      <3>. QED BY <1>2, <1>3, <3>2
    <2>4. Range(a) \cap Range(b) = {}
      BY <1>2, <1>3, <2>3 DEF Range
    <2>. QED BY <2>1, <2>2, <2>4
  <1>. QED BY <1>2, <1>3, <1>4, <1>5 DEF a, b, k

(* The full deque drops its head.                                          *)
LEMMA TailRange ==
    ASSUME NEW S, NEW q \in Seq(S), q # <<>>
    PROVE  /\ Head(q) \in S
           /\ Tail(q) \in Seq(S)
           /\ Range(q) = {Head(q)} \cup Range(Tail(q))
           /\ IsInjective(q) => IsInjective(Tail(q)) /\ Head(q) \notin Range(Tail(q))
  <1>1. /\ Len(q) \in Nat \ {0}
        /\ DOMAIN q = 1..Len(q)
        /\ Head(q) = q[1]
        /\ Head(q) \in S
        /\ Tail(q) \in Seq(S)
        /\ Len(Tail(q)) = Len(q) - 1
        /\ DOMAIN Tail(q) = 1..(Len(q) - 1)
        /\ \A i \in 1..(Len(q) - 1) : Tail(q)[i] = q[i + 1]
    BY HeadTailProperties, EmptySeq
  <1>2. ASSUME NEW i \in 1..Len(q) PROVE q[i] \in {Head(q)} \cup Range(Tail(q))
    <2>1. CASE i = 1
      BY <1>1, <2>1
    <2>2. CASE i # 1
      <3>1. i - 1 \in DOMAIN Tail(q) /\ q[i] = Tail(q)[i - 1]
        BY <1>1, <2>2
      <3>. QED BY <3>1 DEF Range
    <2>. QED BY <2>1, <2>2
  <1>3. Range(Tail(q)) \subseteq Range(q) /\ Head(q) \in Range(q)
    BY <1>1 DEF Range
  <1>4. Range(q) = {Head(q)} \cup Range(Tail(q))
    BY <1>1, <1>2, <1>3 DEF Range
  <1>5. ASSUME IsInjective(q)
        PROVE  IsInjective(Tail(q)) /\ Head(q) \notin Range(Tail(q))
    BY <1>1, <1>5 DEF IsInjective, Range
  <1>. QED BY <1>1, <1>4, <1>5

(* The sort keeps the elements of a batch.                                 *)
LEMMA SortRange ==
    ASSUME NEW S, NEW batch \in Seq(S), NEW sorted \in Sortings(batch)
    PROVE  /\ sorted \in Seq(S)
           /\ Len(sorted) = Len(batch)
           /\ Range(sorted) = Range(batch)
           /\ IsInjective(batch) => IsInjective(sorted)
  <1>1. PICK f \in Bijection(DOMAIN batch, DOMAIN batch) :
            sorted = [i \in DOMAIN batch |-> batch[f[i]]]
    BY DEF Sortings
  <1>2. /\ f \in [DOMAIN batch -> DOMAIN batch]
        /\ IsInjective(f)
        /\ \A y \in DOMAIN batch : \E x \in DOMAIN batch : f[x] = y
    BY DEF Bijection, Injection, Surjection
  <1>3. DOMAIN batch = 1..Len(batch) /\ Len(batch) \in Nat /\ \A i \in DOMAIN batch : batch[i] \in S
    OBVIOUS
  <1>4. sorted \in [1..Len(batch) -> S]
    BY <1>1, <1>2, <1>3
  <1>5. sorted \in Seq(S) /\ Len(sorted) = Len(batch) /\ DOMAIN sorted = DOMAIN batch
    BY <1>3, <1>4
  <1>6. Range(sorted) = Range(batch)
    <2>1. Range(sorted) \subseteq Range(batch)
      BY <1>1, <1>2, <1>5 DEF Range
    <2>2. ASSUME NEW y \in DOMAIN batch PROVE batch[y] \in Range(sorted)
      <3>1. PICK x \in DOMAIN batch : f[x] = y
        BY <1>2
      <3>2. sorted[x] = batch[y]
        BY <1>1, <3>1
      <3>. QED BY <1>5, <3>2 DEF Range
    <2>. QED BY <2>1, <2>2 DEF Range
  <1>7. IsInjective(batch) => IsInjective(sorted)
    BY <1>1, <1>2, <1>5 DEF IsInjective
  <1>. QED BY <1>5, <1>6, <1>7

-----------------------------------------------------------------------------
(* Moving messages from one place to another *)

(* Accounted without the sequences: q is the content of the queue, p[t]    *)
(* what process t holds, a, b and c what was processed, evicted and lost.  *)
Places(q, p, a, b, c, all) ==
    /\ DOMAIN p = Task
    /\ \A t \in Task : p[t] \cap (q \cup a \cup b \cup c) = {}
    /\ \A t, u \in Task : t # u => p[t] \cap p[u] = {}
    /\ q \cap (a \cup b \cup c) = {}
    /\ a \cap (b \cup c) = {}
    /\ b \cap c = {}
    /\ \A m : m \in all <=> m \in q \cup a \cup b \cup c \/ \E t \in Task : m \in p[t]

Held == [t \in Task |-> Range(todo[t])]

Placed == Places(Range(queue), Held, processed, evicted, lost, queued)

NoneTwice == IsInjective(queue) /\ \A t \in Task : IsInjective(todo[t])

LEMMA AccountedIsPlaced == Accounted <=> NoneTwice /\ Placed
  <1>. DEFINE U == UNION {Pending(t) : t \in Task}
  <1>1. DOMAIN Held = Task /\ \A t \in Task : Held[t] = Pending(t)
    BY DEF Held, Pending
  <1>2. \A m : m \in U <=> \E t \in Task : m \in Held[t]
    BY <1>1
  <1>5. Accounted <=>
        OnePlaceEach /\ queued = Range(queue) \cup U \cup processed \cup evicted \cup lost
    BY DEF Accounted
  <1>. HIDE DEF U
  <1>3. (queued = Range(queue) \cup U \cup processed \cup evicted \cup lost)
        <=> \A m : m \in queued <=>
                m \in Range(queue) \cup processed \cup evicted \cup lost
                \/ \E t \in Task : m \in Held[t]
    BY <1>2
  <1>4. OnePlaceEach <=>
        /\ NoneTwice
        /\ \A t \in Task : Held[t] \cap (Range(queue) \cup processed \cup evicted \cup lost) = {}
        /\ \A t, u \in Task : t # u => Held[t] \cap Held[u] = {}
        /\ Range(queue) \cap (processed \cup evicted \cup lost) = {}
        /\ processed \cap (evicted \cup lost) = {}
        /\ evicted \cap lost = {}
    BY <1>1 DEF OnePlaceEach, NoneTwice
  <1>. QED BY <1>1, <1>3, <1>4, <1>5 DEF Placed, Places

LEMMA AccountedIsPlacedNext == Accounted' <=> NoneTwice' /\ Placed'
  BY AccountedIsPlaced, PTL

(* A new message enters the queue.                                         *)
LEMMA Arrives ==
    ASSUME NEW q, NEW p, NEW a, NEW b, NEW c, NEW all, NEW m,
           Places(q, p, a, b, c, all), m \notin all
    PROVE  Places(q \cup {m}, p, a, b, c, all \cup {m})
  <1>1. m \notin q \cup a \cup b \cup c /\ \A t \in Task : m \notin p[t]
    BY DEF Places
  <1>. QED BY <1>1 DEF Places

(* A message leaves the queue unread.                                      *)
LEMMA Evicts ==
    ASSUME NEW q, NEW p, NEW a, NEW b, NEW c, NEW all, NEW h, NEW rest,
           Places(q, p, a, b, c, all), q = {h} \cup rest, h \notin rest
    PROVE  Places(rest, p, a, b \cup {h}, c, all)
  BY DEF Places

(* r is p after process t was given the set x to hold instead.             *)
Holding(p, r, t, x) ==
    /\ DOMAIN r = Task
    /\ r[t] = x
    /\ \A u \in Task \ {t} : r[u] = p[u]

(* A process that holds nothing takes a part x of the queue.               *)
LEMMA Takes ==
    ASSUME NEW q, NEW p, NEW a, NEW b, NEW c, NEW all, NEW t \in Task, NEW x, NEW rest,
           NEW r, Holding(p, r, t, x),
           Places(q, p, a, b, c, all),
           q = x \cup rest, x \cap rest = {}, p[t] = {}
    PROVE  Places(rest, r, a, b, c, all)
  <1>1. \A u \in Task \ {t} : r[u] = p[u] /\ p[u] \cap x = {}
    BY DEF Places, Holding
  <1>2. ASSUME NEW m
        PROVE  m \in all <=> m \in rest \cup a \cup b \cup c \/ \E u \in Task : m \in r[u]
    BY DEF Places, Holding
  <1>3. \A u \in Task : r[u] \cap (rest \cup a \cup b \cup c) = {}
    BY <1>1 DEF Places, Holding
  <1>4. \A u, v \in Task : u # v => r[u] \cap r[v] = {}
    BY <1>1 DEF Places, Holding
  <1>. QED BY <1>2, <1>3, <1>4 DEF Places, Holding

(* A process finishes a part x of what it holds.                           *)
LEMMA Finishes ==
    ASSUME NEW q, NEW p, NEW a, NEW b, NEW c, NEW all, NEW t \in Task, NEW x, NEW rest,
           NEW r, Holding(p, r, t, rest),
           Places(q, p, a, b, c, all),
           p[t] = x \cup rest, x \cap rest = {}
    PROVE  Places(q, r, a \cup x, b, c, all)
  <1>1. \A u \in Task \ {t} : r[u] = p[u] /\ p[u] \cap (x \cup rest) = {}
    BY DEF Places, Holding
  <1>2. ASSUME NEW m
        PROVE  m \in all <=> m \in q \cup (a \cup x) \cup b \cup c \/ \E u \in Task : m \in r[u]
    BY DEF Places, Holding
  <1>3. \A u \in Task : r[u] \cap (q \cup (a \cup x) \cup b \cup c) = {}
    BY <1>1 DEF Places, Holding
  <1>4. \A u, v \in Task : u # v => r[u] \cap r[v] = {}
    BY <1>1 DEF Places, Holding
  <1>. QED BY <1>2, <1>3, <1>4 DEF Places, Holding

(* A process loses what it holds.                                          *)
LEMMA Loses ==
    ASSUME NEW q, NEW p, NEW a, NEW b, NEW c, NEW all, NEW t \in Task,
           NEW r, Holding(p, r, t, {}),
           Places(q, p, a, b, c, all)
    PROVE  Places(q, r, a, b, c \cup p[t], all)
  <1>1. \A u \in Task \ {t} : r[u] = p[u] /\ p[u] \cap p[t] = {}
    BY DEF Places, Holding
  <1>2. ASSUME NEW m
        PROVE  m \in all <=> m \in q \cup a \cup b \cup (c \cup p[t]) \/ \E u \in Task : m \in r[u]
    BY DEF Places, Holding
  <1>3. \A u \in Task : r[u] \cap (q \cup a \cup b \cup (c \cup p[t])) = {}
    BY <1>1 DEF Places, Holding
  <1>4. \A u, v \in Task : u # v => r[u] \cap r[v] = {}
    BY <1>1 DEF Places, Holding
  <1>. QED BY <1>2, <1>3, <1>4 DEF Places, Holding

(* What the processes hold after t was given the batch new.                *)
LEMMA HeldAfter ==
    ASSUME TypeOK, NEW t \in Task, NEW new, todo' = [todo EXCEPT ![t] = new]
    PROVE  Holding(Held, Held', t, Range(new))
  <1>1. DOMAIN todo = Task
    BY DEF TypeOK
  <1>2. todo'[t] = new /\ \A u \in Task \ {t} : todo'[u] = todo[u]
    BY <1>1
  <1>. QED BY <1>2 DEF Held, Holding

-----------------------------------------------------------------------------
(* The steps that move messages *)

(* A process takes the first n messages of the queue.                      *)
LEMMA TakeStep ==
    ASSUME TypeOK, Accounted,
           NEW t \in Task, todo[t] = <<>>,
           NEW n \in 1..Len(queue), Take(t, n),
           UNCHANGED <<processed, evicted, lost, queued>>
    PROVE  /\ queue' \in Seq(Msg)
           /\ todo' \in [Task -> Seq(Msg)]
           /\ todo'[t] # <<>>
           /\ \A u \in Task \ {t} : todo'[u] = todo[u]
           /\ Accounted'
  <1>. DEFINE front == SubSeq(queue, 1, n)
              rest == SubSeq(queue, n + 1, Len(queue))
  <1>1. PICK sorted \in Sortings(front) : todo' = [todo EXCEPT ![t] = sorted]
    BY DEF Take
  <1>2. queue' = rest
    BY DEF Take
  <1>3. queue \in Seq(Msg) /\ n \in 0..Len(queue) /\ n # 0
    BY DEF TypeOK
  <1>4. NoneTwice /\ Placed
    BY AccountedIsPlaced
  <1>5. /\ front \in Seq(Msg) /\ Len(front) = n
        /\ rest \in Seq(Msg)
        /\ Range(queue) = Range(front) \cup Range(rest)
        /\ IsInjective(front) /\ IsInjective(rest)
        /\ Range(front) \cap Range(rest) = {}
    BY <1>3, <1>4, CutRange DEF NoneTwice
  <1>. HIDE DEF front, rest
  <1>6. /\ sorted \in Seq(Msg) /\ Len(sorted) = n
        /\ Range(sorted) = Range(front)
        /\ IsInjective(sorted)
    BY <1>5, SortRange
  <1>7. sorted # <<>>
    BY <1>3, <1>6, EmptySeq
  <1>8. todo \in [Task -> Seq(Msg)]
    BY DEF TypeOK
  <1>9. /\ todo' \in [Task -> Seq(Msg)]
        /\ todo'[t] = sorted
        /\ \A u \in Task \ {t} : todo'[u] = todo[u]
    BY <1>1, <1>6, <1>8
  <1>10. Placed'
    <2>1. Holding(Held, Held', t, Range(sorted))
      BY <1>1, HeldAfter
    <2>2. Held[t] = {}
      BY DEF Held, Range
    <2>3. Places(Range(rest), Held', processed, evicted, lost, queued)
      BY <1>4, <1>5, <1>6, <2>1, <2>2, Takes DEF Placed
    <2>. QED BY <1>2, <2>3 DEF Placed
  <1>11. NoneTwice'
    BY <1>2, <1>4, <1>5, <1>6, <1>9 DEF NoneTwice
  <1>. QED BY <1>2, <1>5, <1>7, <1>9, <1>10, <1>11, AccountedIsPlacedNext

(* A process finishes the first n messages of its batch.                   *)
LEMMA FinishStep ==
    ASSUME TypeOK, Accounted,
           NEW t \in Task, NEW n \in DOMAIN todo[t],
           processed' = processed \cup Range(SubSeq(todo[t], 1, n)),
           todo' = [todo EXCEPT ![t] = SubSeq(todo[t], n + 1, Len(todo[t]))],
           UNCHANGED <<queue, evicted, lost, queued>>
    PROVE  /\ processed' \subseteq Msg
           /\ todo' \in [Task -> Seq(Msg)]
           /\ todo'[t] = <<>> <=> n = Len(todo[t])
           /\ \A u \in Task \ {t} : todo'[u] = todo[u]
           /\ Accounted'
  <1>. DEFINE batch == todo[t]
              front == SubSeq(batch, 1, n)
              rest == SubSeq(batch, n + 1, Len(batch))
  <1>1. todo \in [Task -> Seq(Msg)] /\ batch \in Seq(Msg) /\ n \in 1..Len(batch)
    BY LenProperties DEF TypeOK
  <1>2. NoneTwice /\ Placed
    BY AccountedIsPlaced
  <1>3. Len(batch) \in Nat /\ n \in 0..Len(batch)
    BY <1>1
  <1>4. /\ front \in Seq(Msg)
        /\ rest \in Seq(Msg) /\ Len(rest) = Len(batch) - n
        /\ Range(batch) = Range(front) \cup Range(rest)
        /\ IsInjective(rest)
        /\ Range(front) \cap Range(rest) = {}
    BY <1>1, <1>2, <1>3, CutRange DEF NoneTwice
  <1>5. processed' = processed \cup Range(front) /\ todo' = [todo EXCEPT ![t] = rest]
    OBVIOUS
  <1>6. Held[t] = Range(batch)
    BY DEF Held
  <1>7. Len(rest) = 0 <=> n = Len(batch)
    BY <1>3, <1>4
  <1>. HIDE DEF batch, front, rest
  <1>8. /\ todo' \in [Task -> Seq(Msg)]
        /\ todo'[t] = rest
        /\ \A u \in Task \ {t} : todo'[u] = todo[u]
    BY <1>1, <1>4, <1>5
  <1>9. rest = <<>> <=> n = Len(batch)
    BY <1>4, <1>7, EmptySeq
  <1>10. processed' \subseteq Msg
    <2>1. \A i \in DOMAIN front : front[i] \in Msg
      BY <1>4
    <2>. QED BY <1>5, <2>1 DEF TypeOK, Range
  <1>11. Placed'
    <2>1. Holding(Held, Held', t, Range(rest))
      BY <1>5, HeldAfter
    <2>2. Places(Range(queue), Held', processed \cup Range(front), evicted, lost, queued)
      BY <1>2, <1>4, <1>6, <2>1, Finishes DEF Placed
    <2>. QED BY <1>5, <2>2 DEF Placed
  <1>12. NoneTwice'
    BY <1>2, <1>4, <1>8 DEF NoneTwice
  <1>. QED BY <1>8, <1>9, <1>10, <1>11, <1>12, AccountedIsPlacedNext DEF batch

(* A message enters the queue, which drops its oldest one when it is full. *)
LEMMA QueueStep ==
    ASSUME TypeOK, Accounted, NEW m \in Msg, QueueMessage(m)
    PROVE  queue' \in Seq(Msg) /\ evicted' \subseteq Msg /\ Accounted'
  <1>1. queue \in Seq(Msg) /\ evicted \subseteq Msg
    BY DEF TypeOK
  <1>2. NoneTwice /\ Placed
    BY AccountedIsPlaced
  <1>3. todo' = todo /\ Held' = Held /\ UNCHANGED <<processed, lost>>
    BY DEF QueueMessage, Held
  <1>4. m \notin queued /\ queued' = queued \cup {m}
    BY DEF QueueMessage
  <1>5. m \notin Range(queue)
    BY <1>2, <1>4 DEF Placed, Places
  <1>6. CASE Len(queue) = MaxQueue
    <2>1. queue' = Append(Tail(queue), m) /\ evicted' = evicted \cup {Head(queue)}
      BY <1>6 DEF QueueMessage
    <2>2. queue # <<>>
      BY <1>6, EmptySeq, ProcessorAssumption
    <2>3. /\ Head(queue) \in Msg
          /\ Tail(queue) \in Seq(Msg)
          /\ Range(queue) = {Head(queue)} \cup Range(Tail(queue))
          /\ IsInjective(Tail(queue))
          /\ Head(queue) \notin Range(Tail(queue))
      BY <1>1, <1>2, <2>2, TailRange DEF NoneTwice
    <2>4. /\ queue' \in Seq(Msg)
          /\ Range(queue') = Range(Tail(queue)) \cup {m}
          /\ IsInjective(queue')
      <3>. DEFINE tail == Tail(queue)
      <3>1. tail \in Seq(Msg) /\ IsInjective(tail) /\ m \notin Range(tail)
        BY <1>5, <2>3
      <3>2. queue' = Append(tail, m)
        BY <2>1
      <3>. HIDE DEF tail
      <3>3. /\ queue' \in Seq(Msg)
            /\ Range(queue') = Range(tail) \cup {m}
            /\ IsInjective(queue')
        BY <3>1, <3>2, AppendRange
      <3>. QED BY <3>3 DEF tail
    <2>5. Places(Range(Tail(queue)), Held, processed, evicted', lost, queued)
      BY <1>2, <2>1, <2>3, Evicts DEF Placed
    <2>6. Placed'
      BY <1>3, <1>4, <2>4, <2>5, Arrives DEF Placed
    <2>7. NoneTwice'
      BY <1>2, <1>3, <2>4 DEF NoneTwice
    <2>. QED BY <1>1, <2>1, <2>3, <2>4, <2>6, <2>7, AccountedIsPlacedNext
  <1>7. CASE Len(queue) # MaxQueue
    <2>1. queue' = Append(queue, m) /\ evicted' = evicted
      BY <1>7 DEF QueueMessage
    <2>2. /\ queue' \in Seq(Msg)
          /\ Range(queue') = Range(queue) \cup {m}
          /\ IsInjective(queue')
      BY <1>1, <1>2, <1>5, <2>1, AppendRange DEF NoneTwice
    <2>3. Placed'
      BY <1>2, <1>3, <1>4, <2>1, <2>2, Arrives DEF Placed
    <2>4. NoneTwice'
      BY <1>2, <1>3, <2>2 DEF NoneTwice
    <2>. QED BY <1>1, <2>1, <2>2, <2>3, <2>4, AccountedIsPlacedNext
  <1>. QED BY <1>6, <1>7

(* stop() cancels a loop: what it holds is lost.                           *)
LEMMA CancelStep ==
    ASSUME TypeOK, Accounted, NEW t \in Task,
           todo' = [todo EXCEPT ![t] = <<>>],
           lost' = lost \cup Range(todo[t]),
           UNCHANGED <<queue, processed, evicted, queued>>
    PROVE  /\ lost' \subseteq Msg
           /\ todo' \in [Task -> Seq(Msg)]
           /\ todo'[t] = <<>>
           /\ \A u \in Task \ {t} : todo'[u] = todo[u]
           /\ Accounted'
  <1>1. NoneTwice /\ Placed
    BY AccountedIsPlaced
  <1>2. todo \in [Task -> Seq(Msg)]
    BY DEF TypeOK
  <1>3. <<>> \in Seq(Msg) /\ Range(<<>>) = {} /\ IsInjective(<<>>)
    BY EmptySeq DEF Range, IsInjective
  <1>4. /\ todo' \in [Task -> Seq(Msg)]
        /\ todo'[t] = <<>>
        /\ \A u \in Task \ {t} : todo'[u] = todo[u]
    BY <1>2, <1>3
  <1>5. lost' \subseteq Msg
    BY <1>2 DEF TypeOK, Range
  <1>6. Placed'
    <2>1. Holding(Held, Held', t, {})
      BY <1>3, HeldAfter
    <2>2. Held[t] = Range(todo[t])
      BY DEF Held
    <2>3. Places(Range(queue), Held', processed, evicted, lost \cup Range(todo[t]), queued)
      BY <1>1, <2>1, <2>2, Loses DEF Placed
    <2>. QED BY <2>3 DEF Placed
  <1>7. NoneTwice'
    BY <1>1, <1>3, <1>4 DEF NoneTwice
  <1>. QED BY <1>4, <1>5, <1>6, <1>7, AccountedIsPlacedNext

(* The other steps leave every message where it is.                        *)
LEMMA StillAccounted ==
    ASSUME Accounted, UNCHANGED <<queue, todo, processed, evicted, lost, queued>>
    PROVE  Accounted'
  BY DEF Accounted, OnePlaceEach, Pending

-----------------------------------------------------------------------------
(* The inductive invariant *)

(* Once the initialiser's start() has returned there is a loop to cancel,  *)
(* and a process that is not in a batch holds nothing: Accounted alone     *)
(* would not say that Take loses nothing.                                  *)
ProcessorInv ==
    /\ TypeOK
    /\ HoldsOnlyInBatch
    /\ Accounted
    /\ booted => task \in Start

(* The type of a process counter after a Goto.                             *)
LEMMA GotoStart ==
    ASSUME TypeOK, NEW s \in Start, NEW p \in StartPC, Goto(s, p)
    PROVE  /\ pc' \in [Task -> StartPC \cup RoundPC]
           /\ \A u \in Start : pc'[u] \in StartPC
           /\ \A r \in Round : pc'[r] \in RoundPC
           /\ pc'[s] = p
           /\ \A u \in Task \ {s} : pc'[u] = pc[u]
  <1>1. s \in Task /\ s \notin Round
    BY ProcessorAssumption DEF Task
  <1>. QED BY <1>1 DEF TypeOK, Goto, Task

LEMMA GotoRound ==
    ASSUME TypeOK, NEW r \in Round, NEW p \in RoundPC, Goto(r, p)
    PROVE  /\ pc' \in [Task -> StartPC \cup RoundPC]
           /\ \A u \in Start : pc'[u] \in StartPC
           /\ \A u \in Round : pc'[u] \in RoundPC
           /\ pc'[r] = p
           /\ \A u \in Task \ {r} : pc'[u] = pc[u]
  <1>1. r \in Task /\ r \notin Start
    BY ProcessorAssumption DEF Task
  <1>. QED BY <1>1 DEF TypeOK, Goto, Task

LEMMA InitInv == Init => ProcessorInv
  <1>. SUFFICES ASSUME Init PROVE ProcessorInv
    OBVIOUS
  <1>1. <<>> \in Seq(Msg)
    BY EmptySeq
  <1>2. TypeOK
    BY <1>1 DEF Init, TypeOK, StartPC, RoundPC, Task
  <1>3. HoldsOnlyInBatch
    BY DEF Init, HoldsOnlyInBatch
  <1>4. \A t \in Task : todo[t] = <<>> /\ Pending(t) = {}
    BY DEF Init, Pending, Range
  <1>5. Accounted
    BY <1>4 DEF Init, Accounted, OnePlaceEach, Range, IsInjective
  <1>. QED BY <1>2, <1>3, <1>5 DEF Init, ProcessorInv

(* What is left of the invariant of a step once its type, its batches and  *)
(* its accounts are known.                                                 *)
LEMMA InvNext ==
    ASSUME ProcessorInv, TypeOK', Accounted', booted' => task' \in Start,
           NEW t \in Task,
           pc'[t] = "batch" <=> todo'[t] # <<>>,
           \A u \in Task \ {t} : pc'[u] = pc[u] /\ todo'[u] = todo[u]
    PROVE  ProcessorInv'
  <1>1. HoldsOnlyInBatch'
    BY DEF ProcessorInv, HoldsOnlyInBatch
  <1>. QED BY <1>1 DEF ProcessorInv

LEMMA StartTakes ==
    ASSUME ProcessorInv, NEW s \in Start, NEW n \in 1..Len(queue), NEW idle \in BOOLEAN,
           pc[s] = "asleep",
           Take(s, n),
           fromIdle' = [fromIdle EXCEPT ![s] = idle],
           Goto(s, "batch"),
           UNCHANGED <<lastMessage, control, queued, outcome>>
    PROVE  ProcessorInv'
  <1>1. s \in Task /\ "batch" \in StartPC /\ TypeOK /\ Accounted
    BY DEF Task, StartPC, ProcessorInv
  <1>2. todo[s] = <<>>
    BY <1>1 DEF ProcessorInv, HoldsOnlyInBatch
  <1>3. UNCHANGED <<lastMessage, isRunning, task, booted, queued, processed, evicted, lost>>
    BY DEF control, outcome
  <1>4. /\ queue' \in Seq(Msg)
        /\ todo' \in [Task -> Seq(Msg)]
        /\ todo'[s] # <<>>
        /\ \A u \in Task \ {s} : todo'[u] = todo[u]
        /\ Accounted'
    BY <1>1, <1>2, <1>3, TakeStep
  <1>5. /\ pc' \in [Task -> StartPC \cup RoundPC]
        /\ \A u \in Start : pc'[u] \in StartPC
        /\ \A r \in Round : pc'[r] \in RoundPC
        /\ pc'[s] = "batch"
        /\ \A u \in Task \ {s} : pc'[u] = pc[u]
    BY <1>1, GotoStart
  <1>6. fromIdle' \in [Task -> BOOLEAN]
    BY <1>1 DEF TypeOK
  <1>7. TypeOK'
    BY <1>1, <1>3, <1>4, <1>5, <1>6 DEF TypeOK
  <1>8. booted' => task' \in Start
    BY <1>3 DEF ProcessorInv
  <1>. QED BY <1>1, <1>4, <1>5, <1>7, <1>8, InvNext

(* The steps that change only the position of a process, and not into or   *)
(* out of a batch.                                                         *)
LEMMA StartMoves ==
    ASSUME ProcessorInv, NEW s \in Start, NEW p \in StartPC \ {"batch"},
           pc[s] # "batch", Goto(s, p),
           UNCHANGED <<queue, lastMessage, todo, fromIdle, queued, outcome>>,
           isRunning' \in BOOLEAN, booted' \in BOOLEAN,
           task' \in Start \cup {NoTask}, booted' => task' \in Start
    PROVE  ProcessorInv'
  <1>1. s \in Task /\ TypeOK /\ Accounted /\ todo[s] = <<>>
    BY DEF Task, ProcessorInv, HoldsOnlyInBatch
  <1>2. UNCHANGED <<queue, lastMessage, todo, fromIdle, queued, processed, evicted, lost>>
    BY DEF outcome
  <1>3. /\ pc' \in [Task -> StartPC \cup RoundPC]
        /\ \A u \in Start : pc'[u] \in StartPC
        /\ \A r \in Round : pc'[r] \in RoundPC
        /\ pc'[s] = p
        /\ \A u \in Task \ {s} : pc'[u] = pc[u]
    BY <1>1, GotoStart
  <1>4. TypeOK'
    BY <1>1, <1>2, <1>3 DEF TypeOK
  <1>5. Accounted'
    BY <1>1, <1>2, StillAccounted
  <1>6. pc'[s] = "batch" <=> todo'[s] # <<>>
    BY <1>1, <1>2, <1>3
  <1>. QED BY <1>1, <1>2, <1>3, <1>4, <1>5, <1>6, InvNext

LEMMA RoundMoves ==
    ASSUME ProcessorInv, NEW r \in Round, NEW p \in RoundPC \ {"batch"},
           pc[r] # "batch", Goto(r, p),
           UNCHANGED <<queue, lastMessage, control, todo, fromIdle, queued, outcome>>
    PROVE  ProcessorInv'
  <1>1. r \in Task /\ TypeOK /\ Accounted /\ todo[r] = <<>>
    BY DEF Task, ProcessorInv, HoldsOnlyInBatch
  <1>2. UNCHANGED <<queue, lastMessage, isRunning, task, booted, todo, fromIdle, queued,
                    processed, evicted, lost>>
    BY DEF control, outcome
  <1>3. /\ pc' \in [Task -> StartPC \cup RoundPC]
        /\ \A u \in Start : pc'[u] \in StartPC
        /\ \A u \in Round : pc'[u] \in RoundPC
        /\ pc'[r] = p
        /\ \A u \in Task \ {r} : pc'[u] = pc[u]
    BY <1>1, GotoRound
  <1>4. TypeOK'
    BY <1>1, <1>2, <1>3 DEF TypeOK
  <1>5. Accounted'
    BY <1>1, <1>2, StillAccounted
  <1>6. pc'[r] = "batch" <=> todo'[r] # <<>>
    BY <1>1, <1>2, <1>3
  <1>7. booted' => task' \in Start
    BY <1>2 DEF ProcessorInv
  <1>. QED BY <1>1, <1>2, <1>3, <1>4, <1>5, <1>6, <1>7, InvNext

LEMMA QueueInv ==
    ASSUME ProcessorInv, NEW m \in Msg, QueueMessage(m)
    PROVE  ProcessorInv'
  <1>1. TypeOK /\ Accounted
    BY DEF ProcessorInv
  <1>2. /\ lastMessage' = "recent"
        /\ queued' = queued \cup {m}
        /\ UNCHANGED <<isRunning, task, booted, pc, todo, fromIdle, processed, lost>>
    BY DEF QueueMessage, control
  <1>3. queue' \in Seq(Msg) /\ evicted' \subseteq Msg /\ Accounted'
    BY <1>1, QueueStep
  <1>4. TypeOK'
    BY <1>1, <1>2, <1>3 DEF TypeOK
  <1>. QED BY <1>2, <1>3, <1>4 DEF ProcessorInv, HoldsOnlyInBatch

LEMMA StopInv ==
    ASSUME ProcessorInv, Stop
    PROVE  ProcessorInv'
  <1>1. TypeOK /\ Accounted /\ task \in Start /\ task \in Task
    BY DEF ProcessorInv, Stop, Task
  <1>2. /\ isRunning' = FALSE
        /\ UNCHANGED <<queue, lastMessage, task, booted, queued, processed, evicted>>
    BY DEF Stop
  <1>3. CASE pc[task] \in {"asleep", "batch"}
    <2>1. /\ Goto(task, "ended")
          /\ todo' = [todo EXCEPT ![task] = <<>>]
          /\ lost' = lost \cup Range(todo[task])
          /\ fromIdle' = [fromIdle EXCEPT ![task] = FALSE]
      BY <1>3 DEF Stop
    <2>2. /\ lost' \subseteq Msg
          /\ todo' \in [Task -> Seq(Msg)]
          /\ todo'[task] = <<>>
          /\ \A u \in Task \ {task} : todo'[u] = todo[u]
          /\ Accounted'
      BY <1>1, <1>2, <2>1, CancelStep
    <2>3. "ended" \in StartPC
      BY DEF StartPC
    <2>4. /\ pc' \in [Task -> StartPC \cup RoundPC]
          /\ \A u \in Start : pc'[u] \in StartPC
          /\ \A r \in Round : pc'[r] \in RoundPC
          /\ pc'[task] = "ended"
          /\ \A u \in Task \ {task} : pc'[u] = pc[u]
      BY <1>1, <2>1, <2>3, GotoStart
    <2>5. TypeOK'
      BY <1>1, <1>2, <2>1, <2>2, <2>4 DEF TypeOK
    <2>. QED BY <1>1, <1>2, <2>2, <2>4, <2>5, InvNext
  <1>4. CASE pc[task] \notin {"asleep", "batch"}
    <2>1. UNCHANGED <<pc, todo, lost, fromIdle>>
      BY <1>4 DEF Stop
    <2>2. TypeOK'
      BY <1>1, <1>2, <2>1 DEF TypeOK
    <2>3. Accounted'
      BY <1>1, <1>2, <2>1, StillAccounted
    <2>. QED BY <1>1, <1>2, <2>1, <2>2, <2>3 DEF ProcessorInv, HoldsOnlyInBatch
  <1>. QED BY <1>3, <1>4

LEMMA MaintainInv ==
    ASSUME ProcessorInv, NEW r \in Round, Maintain(r)
    PROVE  ProcessorInv'
  <1>1. r \in Task /\ TypeOK /\ Accounted /\ pc[r] = "none"
    BY DEF Task, ProcessorInv, Maintain
  <1>2. "done" \in RoundPC \ {"batch"} /\ "tending" \in RoundPC \ {"batch"} /\ "batch" \in RoundPC
    BY DEF RoundPC
  <1>3. UNCHANGED <<lastMessage, control, fromIdle, queued, outcome>>
    BY DEF Maintain
  <1>4. CASE Goto(r, "done") /\ UNCHANGED <<queue, todo>>
    BY <1>1, <1>2, <1>3, <1>4, RoundMoves
  <1>5. CASE Goto(r, "tending") /\ UNCHANGED <<queue, todo>>
    BY <1>1, <1>2, <1>3, <1>5, RoundMoves
  <1>6. CASE queue # <<>> /\ Take(r, Len(queue)) /\ Goto(r, "batch")
    <2>1. todo[r] = <<>>
      BY <1>1 DEF ProcessorInv, HoldsOnlyInBatch
    <2>2. UNCHANGED <<lastMessage, isRunning, task, booted, fromIdle, queued,
                      processed, evicted, lost>>
      BY <1>3 DEF control, outcome
    <2>3. Len(queue) \in 1..Len(queue)
      <3>1. Len(queue) \in Nat \ {0}
        BY <1>1, <1>6, EmptySeq DEF TypeOK
      <3>. QED BY <3>1
    <2>4. /\ queue' \in Seq(Msg)
          /\ todo' \in [Task -> Seq(Msg)]
          /\ todo'[r] # <<>>
          /\ \A u \in Task \ {r} : todo'[u] = todo[u]
          /\ Accounted'
      BY <1>1, <1>6, <2>1, <2>2, <2>3, TakeStep
    <2>5. /\ pc' \in [Task -> StartPC \cup RoundPC]
          /\ \A u \in Start : pc'[u] \in StartPC
          /\ \A u \in Round : pc'[u] \in RoundPC
          /\ pc'[r] = "batch"
          /\ \A u \in Task \ {r} : pc'[u] = pc[u]
      BY <1>1, <1>2, <1>6, GotoRound
    <2>6. TypeOK'
      BY <1>1, <2>2, <2>4, <2>5 DEF TypeOK
    <2>7. booted' => task' \in Start
      BY <2>2 DEF ProcessorInv
    <2>. QED BY <1>1, <2>4, <2>5, <2>6, <2>7, InvNext
  <1>. QED BY <1>4, <1>5, <1>6 DEF Maintain

(* A summary returns: the process goes on with its batch, or the batch is  *)
(* over and a loop sleeps again, while maintenance tends its engines.      *)
LEMMA SummaryInv ==
    ASSUME ProcessorInv, NEW t \in Task, SummaryReturns(t)
    PROVE  ProcessorInv'
  <1>1. TypeOK /\ Accounted /\ pc[t] = "batch"
    BY DEF ProcessorInv, SummaryReturns
  <1>2. PICK n \in DOMAIN todo[t] :
            /\ processed' = processed \cup Range(SubSeq(todo[t], 1, n))
            /\ todo' = [todo EXCEPT ![t] = SubSeq(@, n + 1, Len(@))]
            /\ IF n = Len(todo[t]) THEN AfterBatch(t) ELSE UNCHANGED <<pc, lastMessage, fromIdle>>
    BY DEF SummaryReturns
  <1>3. UNCHANGED <<queue, isRunning, task, booted, queued, evicted, lost>>
    BY DEF SummaryReturns, control
  <1>4. todo' = [todo EXCEPT ![t] = SubSeq(todo[t], n + 1, Len(todo[t]))]
    BY <1>2
  <1>5. /\ processed' \subseteq Msg
        /\ todo' \in [Task -> Seq(Msg)]
        /\ todo'[t] = <<>> <=> n = Len(todo[t])
        /\ \A u \in Task \ {t} : todo'[u] = todo[u]
        /\ Accounted'
    BY <1>1, <1>2, <1>3, <1>4, FinishStep
  <1>6. booted' => task' \in Start
    BY <1>3 DEF ProcessorInv
  <1>7. CASE n # Len(todo[t])
    <2>1. UNCHANGED <<pc, lastMessage, fromIdle>>
      BY <1>2, <1>7
    <2>2. TypeOK'
      BY <1>1, <1>3, <1>5, <2>1 DEF TypeOK
    <2>. QED BY <1>1, <1>5, <1>6, <1>7, <2>1, <2>2, InvNext
  <1>8. CASE n = Len(todo[t])
    <2>1. AfterBatch(t)
      BY <1>2, <1>8
    <2>2. /\ pc' \in [Task -> StartPC \cup RoundPC]
          /\ \A u \in Start : pc'[u] \in StartPC
          /\ \A r \in Round : pc'[r] \in RoundPC
          /\ pc'[t] # "batch"
          /\ \A u \in Task \ {t} : pc'[u] = pc[u]
          /\ lastMessage' \in {lastMessage, "none"}
      <3>1. CASE t \in Start
        <4>1. Goto(t, "asleep") /\ lastMessage' \in {lastMessage, "none"} /\ "asleep" \in StartPC
          BY <2>1, <3>1 DEF AfterBatch, StartPC
        <4>. QED BY <1>1, <3>1, <4>1, GotoStart
      <3>2. CASE t \notin Start
        <4>1. /\ t \in Round /\ Goto(t, "tending") /\ lastMessage' = lastMessage
              /\ "tending" \in RoundPC
          BY <2>1, <3>2 DEF AfterBatch, RoundPC, Task
        <4>. QED BY <1>1, <4>1, GotoRound
      <3>. QED BY <3>1, <3>2
    <2>3. fromIdle' = [fromIdle EXCEPT ![t] = FALSE]
      BY <2>1 DEF AfterBatch
    <2>4. TypeOK'
      BY <1>1, <1>3, <1>5, <2>2, <2>3 DEF TypeOK
    <2>. QED BY <1>5, <1>6, <1>8, <2>2, <2>4, InvNext
  <1>. QED BY <1>7, <1>8

LEMMA InvStep == ProcessorInv /\ [Next]_vars => ProcessorInv'
  <1>. SUFFICES ASSUME ProcessorInv, [Next]_vars PROVE ProcessorInv'
    OBVIOUS
  <1>1. ASSUME NEW m \in Msg, QueueMessage(m) PROVE ProcessorInv'
    BY <1>1, QueueInv
  <1>2. CASE GoIdle
    <2>1. /\ lastMessage' = "idle"
          /\ UNCHANGED <<queue, isRunning, task, booted, pc, todo, fromIdle, queued,
                         processed, evicted, lost>>
      BY <1>2 DEF GoIdle, control, outcome
    <2>2. TypeOK'
      BY <2>1 DEF ProcessorInv, TypeOK
    <2>3. Accounted'
      BY <2>1, StillAccounted DEF ProcessorInv
    <2>. QED BY <2>1, <2>2, <2>3 DEF ProcessorInv, HoldsOnlyInBatch
  <1>3. ASSUME NEW s \in Start, BeginStart(s) \/ LoopStep(s) PROVE ProcessorInv'
    <2>1. TypeOK /\ (booted => task \in Start) /\ s \in Task
      BY DEF ProcessorInv, Task
    <2>2. {"ended", "loading", "asleep"} \subseteq StartPC \ {"batch"}
      BY DEF StartPC
    <2>3. CASE BeginStart(s)
      <3>1. /\ pc[s] # "batch"
            /\ Goto(s, IF isRunning THEN "ended" ELSE "loading")
            /\ UNCHANGED <<queue, lastMessage, control, todo, fromIdle, queued, outcome>>
        BY <2>3 DEF BeginStart
      <3>2. UNCHANGED <<isRunning, task, booted>>
        BY <3>1 DEF control
      <3>. QED BY <2>1, <2>2, <3>1, <3>2, StartMoves DEF TypeOK
    <2>4. CASE FinishStart(s)
      <3>1. /\ pc[s] # "batch"
            /\ Goto(s, "asleep")
            /\ isRunning' = TRUE /\ booted' = TRUE /\ task' = s
            /\ UNCHANGED <<queue, lastMessage, todo, fromIdle, queued, outcome>>
        BY <2>4 DEF FinishStart
      <3>. QED BY <2>1, <2>2, <3>1, StartMoves
    <2>5. CASE LeaveLoop(s)
      <3>1. /\ pc[s] # "batch"
            /\ Goto(s, "ended")
            /\ UNCHANGED <<queue, lastMessage, control, todo, fromIdle, queued, outcome>>
        BY <2>5 DEF LeaveLoop
      <3>2. UNCHANGED <<isRunning, task, booted>>
        BY <3>1 DEF control
      <3>. QED BY <2>1, <2>2, <3>1, <3>2, StartMoves DEF TypeOK
    <2>6. CASE TakeFull(s)
      <3>. DEFINE n == IF Len(queue) < BatchLimit THEN Len(queue) ELSE BatchLimit
      <3>1. n \in 1..Len(queue)
        <4>1. Len(queue) \in Nat /\ Len(queue) >= Enough
          BY <2>1, <2>6 DEF TypeOK, TakeFull
        <4>. QED BY <4>1, ProcessorAssumption
      <3>2. /\ pc[s] = "asleep"
            /\ Take(s, n)
            /\ fromIdle' = [fromIdle EXCEPT ![s] = FALSE]
            /\ Goto(s, "batch")
            /\ UNCHANGED <<lastMessage, control, queued, outcome>>
        BY <2>6 DEF TakeFull
      <3>. HIDE DEF n
      <3>. QED BY <3>1, <3>2, StartTakes
    <2>7. CASE TakeIdle(s)
      <3>1. /\ pc[s] = "asleep"
            /\ Take(s, Len(queue))
            /\ fromIdle' = [fromIdle EXCEPT ![s] = TRUE]
            /\ Goto(s, "batch")
            /\ UNCHANGED <<lastMessage, control, queued, outcome>>
        BY <2>7 DEF TakeIdle
      <3>2. Len(queue) \in 1..Len(queue)
        BY <2>7, ProcessorAssumption DEF TakeIdle
      <3>. QED BY <3>1, <3>2, StartTakes
    <2>8. CASE SummaryReturns(s)
      BY <2>1, <2>8, SummaryInv
    <2>. QED BY <1>3, <2>3, <2>4, <2>5, <2>6, <2>7, <2>8 DEF LoopStep
  <1>4. CASE Stop
    BY <1>4, StopInv
  <1>5. ASSUME NEW r \in Round, Maintain(r) \/ RoundStep(r)
        PROVE  ProcessorInv'
    <2>1. r \in Task /\ "done" \in RoundPC \ {"batch"}
      BY DEF Task, RoundPC
    <2>2. CASE Maintain(r)
      BY <2>2, MaintainInv
    <2>4. CASE SummaryReturns(r)
      BY <2>1, <2>4, SummaryInv
    <2>5. CASE Tended(r)
      BY <2>1, <2>5, RoundMoves DEF Tended
    <2>. QED BY <1>5, <2>2, <2>4, <2>5 DEF RoundStep
  <1>6. CASE UNCHANGED vars
    <2>1. UNCHANGED <<queue, lastMessage, isRunning, task, booted, pc, todo, fromIdle, queued,
                      processed, evicted, lost>>
      BY <1>6 DEF vars, control, outcome
    <2>2. TypeOK'
      BY <2>1 DEF ProcessorInv, TypeOK
    <2>3. Accounted'
      BY <2>1, StillAccounted DEF ProcessorInv
    <2>. QED BY <2>1, <2>2, <2>3 DEF ProcessorInv, HoldsOnlyInBatch
  <1>. QED BY <1>1, <1>2, <1>3, <1>4, <1>5, <1>6 DEF Next

(* The inductive invariant of the processor holds.                         *)
LEMMA Invariance == Spec => []ProcessorInv
  BY InitInv, InvStep, PTL DEF Spec

(* Every variable of the background processor keeps its type.              *)
THEOREM ProcessorTypeCorrect == Spec => []TypeOK
  <1>1. ProcessorInv => TypeOK
    BY DEF ProcessorInv
  <1>. QED BY <1>1, Invariance, PTL

(* No message is taken twice and none disappears: whatever the number of   *)
(* loops, rounds and stops, each queued message waits, is in one batch,    *)
(* was processed, was evicted or was lost with a cancelled batch.          *)
THEOREM AccountsForMessages == Spec => []Accounted
  <1>1. ProcessorInv => Accounted
    BY DEF ProcessorInv
  <1>. QED BY <1>1, Invariance, PTL

(* A loop or a round that is not summarising a batch holds no message.     *)
THEOREM HoldsNothingElsewhere == Spec => []HoldsOnlyInBatch
  <1>1. ProcessorInv => HoldsOnlyInBatch
    BY DEF ProcessorInv
  <1>. QED BY <1>1, Invariance, PTL

-----------------------------------------------------------------------------
(* The messages of one summary *)

(* What a process has still to summarise is in the order of its times.     *)
InOrder(s) == \A i, j \in DOMAIN s : i < j => stamp[s[i]] <= stamp[s[j]]

Ordered == \A t \in Task : InOrder(todo[t])

(* A sorted batch is in order.                                             *)
LEMMA SortOrder ==
    ASSUME NEW batch \in Seq(Msg), NEW sorted \in Sortings(batch)
    PROVE  InOrder(sorted)
  <1>1. PICK f \in Bijection(DOMAIN batch, DOMAIN batch) :
            sorted = [i \in DOMAIN batch |-> batch[f[i]]] /\ SortedBy(batch, f)
    BY DEF Sortings
  <1>2. DOMAIN sorted = DOMAIN batch /\ \A i \in DOMAIN batch : sorted[i] = batch[f[i]]
    BY <1>1
  <1>3. f \in [DOMAIN batch -> DOMAIN batch] /\ \A i \in DOMAIN batch : batch[i] \in Msg
    BY DEF Bijection, Injection
  <1>4. \A i \in DOMAIN sorted : stamp[sorted[i]] \in Nat
    BY <1>2, <1>3, ProcessorAssumption
  <1>5. ASSUME NEW i \in DOMAIN sorted, NEW j \in DOMAIN sorted, i < j
        PROVE  stamp[sorted[i]] <= stamp[sorted[j]]
    <2>1. stamp[sorted[i]] < stamp[sorted[j]] \/ stamp[sorted[i]] = stamp[sorted[j]]
      BY <1>1, <1>2, <1>5 DEF SortedBy
    <2>. QED BY <1>4, <2>1
  <1>. QED BY <1>5 DEF InOrder

(* What is left of a batch in order is in order.                           *)
LEMMA RestInOrder ==
    ASSUME NEW s \in Seq(Msg), NEW n \in DOMAIN s, InOrder(s)
    PROVE  InOrder(SubSeq(s, n + 1, Len(s)))
  <1>. DEFINE rest == SubSeq(s, n + 1, Len(s))
  <1>1. /\ Len(s) \in Nat /\ DOMAIN s = 1..Len(s) /\ n \in 1..Len(s)
    OBVIOUS
  <1>2. /\ DOMAIN rest = 1..(Len(s) - n)
        /\ \A i \in DOMAIN rest : rest[i] = s[n + i]
    BY <1>1
  <1>3. ASSUME NEW i \in DOMAIN rest, NEW j \in DOMAIN rest, i < j
        PROVE  stamp[rest[i]] <= stamp[rest[j]]
    <2>1. n + i \in DOMAIN s /\ n + j \in DOMAIN s /\ n + i < n + j
      BY <1>1, <1>2, <1>3
    <2>. QED BY <1>2, <2>1 DEF InOrder
  <1>. QED BY <1>3 DEF InOrder

LEMMA InitOrdered == Init => Ordered
  <1>1. ASSUME Init, NEW t \in Task PROVE todo[t] = <<>>
    BY <1>1 DEF Init
  <1>. QED BY <1>1 DEF Ordered, InOrder

LEMMA TakeOrdered ==
    ASSUME TypeOK, Ordered, NEW t \in Task, NEW n \in 0..Len(queue), Take(t, n)
    PROVE  Ordered'
  <1>1. PICK sorted \in Sortings(SubSeq(queue, 1, n)) : todo' = [todo EXCEPT ![t] = sorted]
    BY DEF Take
  <1>2. SubSeq(queue, 1, n) \in Seq(Msg)
    BY CutRange DEF TypeOK
  <1>3. InOrder(sorted)
    BY <1>2, SortOrder
  <1>4. todo'[t] = sorted /\ \A u \in Task \ {t} : todo'[u] = todo[u]
    BY <1>1 DEF TypeOK
  <1>5. ASSUME NEW u \in Task PROVE InOrder(todo'[u])
    <2>1. CASE u = t
      BY <1>3, <1>4, <2>1
    <2>2. CASE u # t
      BY <1>4, <2>2 DEF Ordered
    <2>. QED BY <2>1, <2>2
  <1>. QED BY <1>5 DEF Ordered, InOrder

LEMMA SummaryOrdered ==
    ASSUME TypeOK, Ordered, NEW t \in Task, SummaryReturns(t)
    PROVE  Ordered'
  <1>1. PICK n \in DOMAIN todo[t] :
            todo' = [todo EXCEPT ![t] = SubSeq(todo[t], n + 1, Len(todo[t]))]
    BY DEF SummaryReturns
  <1>2. todo[t] \in Seq(Msg) /\ InOrder(todo[t])
    BY DEF TypeOK, Ordered
  <1>3. InOrder(SubSeq(todo[t], n + 1, Len(todo[t])))
    BY <1>2, RestInOrder
  <1>4. /\ todo'[t] = SubSeq(todo[t], n + 1, Len(todo[t]))
        /\ \A u \in Task \ {t} : todo'[u] = todo[u]
    BY <1>1 DEF TypeOK
  <1>5. ASSUME NEW u \in Task PROVE InOrder(todo'[u])
    <2>1. CASE u = t
      BY <1>3, <1>4, <2>1
    <2>2. CASE u # t
      BY <1>4, <2>2 DEF Ordered
    <2>. QED BY <2>1, <2>2
  <1>. QED BY <1>5 DEF Ordered, InOrder

LEMMA OrderedStep == ProcessorInv /\ Ordered /\ [Next]_vars => Ordered'
  <1>. SUFFICES ASSUME ProcessorInv, Ordered, [Next]_vars PROVE Ordered'
    OBVIOUS
  <1>1. TypeOK /\ Len(queue) \in Nat
    BY DEF ProcessorInv, TypeOK
  <1>2. UNCHANGED todo => Ordered'
    BY DEF Ordered, InOrder
  <1>3. ASSUME NEW m \in Msg, QueueMessage(m) PROVE Ordered'
    BY <1>2, <1>3 DEF QueueMessage
  <1>4. CASE GoIdle
    BY <1>2, <1>4 DEF GoIdle
  <1>5. ASSUME NEW s \in Start, BeginStart(s) \/ LoopStep(s) PROVE Ordered'
    <2>1. s \in Task
      BY DEF Task
    <2>2. CASE BeginStart(s)
      BY <1>2, <2>2 DEF BeginStart
    <2>3. CASE FinishStart(s)
      BY <1>2, <2>3 DEF FinishStart
    <2>4. CASE LeaveLoop(s)
      BY <1>2, <2>4 DEF LeaveLoop
    <2>5. CASE TakeFull(s)
      <3>. DEFINE n == IF Len(queue) < BatchLimit THEN Len(queue) ELSE BatchLimit
      <3>1. n \in 0..Len(queue)
        BY <1>1, ProcessorAssumption
      <3>2. Take(s, n)
        BY <2>5 DEF TakeFull
      <3>. HIDE DEF n
      <3>. QED BY <1>1, <2>1, <3>1, <3>2, TakeOrdered
    <2>6. CASE TakeIdle(s)
      <3>1. Take(s, Len(queue)) /\ Len(queue) \in 0..Len(queue)
        BY <1>1, <2>6 DEF TakeIdle
      <3>. QED BY <1>1, <2>1, <3>1, TakeOrdered
    <2>7. CASE SummaryReturns(s)
      BY <1>1, <2>1, <2>7, SummaryOrdered
    <2>. QED BY <1>5, <2>2, <2>3, <2>4, <2>5, <2>6, <2>7 DEF LoopStep
  <1>6. CASE Stop
    <2>1. CASE UNCHANGED todo
      BY <1>2, <2>1
    <2>2. CASE todo' = [todo EXCEPT ![task] = <<>>]
      <3>1. \A u \in Task : todo'[u] = todo[u] \/ todo'[u] = <<>>
        BY <1>1, <2>2 DEF TypeOK
      <3>. QED BY <3>1 DEF Ordered, InOrder
    <2>. QED BY <1>6, <2>1, <2>2 DEF Stop
  <1>7. ASSUME NEW r \in Round, Maintain(r) \/ RoundStep(r) PROVE Ordered'
    <2>1. r \in Task
      BY DEF Task
    <2>2. CASE Maintain(r)
      <3>1. CASE UNCHANGED todo
        BY <1>2, <3>1
      <3>2. CASE Take(r, Len(queue))
        BY <1>1, <2>1, <3>2, TakeOrdered
      <3>. QED BY <2>2, <3>1, <3>2 DEF Maintain
    <2>3. CASE SummaryReturns(r)
      BY <1>1, <2>1, <2>3, SummaryOrdered
    <2>4. CASE Tended(r)
      BY <1>2, <2>4 DEF Tended
    <2>. QED BY <1>7, <2>2, <2>3, <2>4 DEF RoundStep
  <1>8. CASE UNCHANGED vars
    BY <1>2, <1>8 DEF vars
  <1>. QED BY <1>3, <1>4, <1>5, <1>6, <1>7, <1>8 DEF Next

(* In a bounded set of numbers that is not empty one has no successor.     *)
LEMMA LastInSet ==
    ASSUME NEW n \in Nat, NEW S \in SUBSET (1..n), S # {}
    PROVE  \E m \in S : m + 1 \notin S
  <1>. DEFINE Gaps == {n - x : x \in S}
  <1>1. Gaps \in SUBSET Nat /\ Gaps # {}
    <2>1. \A x \in S : n - x \in Nat
      OBVIOUS
    <2>. QED BY <2>1
  <1>2. PICK g \in Gaps : \A y \in Gaps : <<y, g>> \notin OpToRel(<, Nat)
    BY <1>1, WFMin, NatLessThanWellFounded
  <1>3. PICK m \in S : g = n - m
    OBVIOUS
  <1>4. ASSUME m + 1 \in S PROVE FALSE
    <2>1. n - (m + 1) \in Gaps /\ n - (m + 1) < g
      BY <1>3, <1>4
    <2>. QED BY <1>1, <1>2, <2>1 DEF OpToRel
  <1>. QED BY <1>4

(* The first group of a batch is of one channel.                           *)
LEMMA GroupIsOfOneChannel ==
    ASSUME NEW s \in Seq(Msg), NEW n \in DOMAIN s, IsFirstGroup(s, n)
    PROVE  \A i \in 1..n : channel[s[i]] = channel[s[n]]
  <1>. DEFINE Others == {i \in 1..n : channel[s[i]] # channel[s[n]]}
  <1>1. n \in Nat /\ \A i \in 1..(n - 1) : channel[s[i]] = channel[s[i + 1]]
    BY DEF IsFirstGroup, SameTalk
  <1>2. ASSUME Others # {} PROVE FALSE
    <2>1. PICK m \in Others : m + 1 \notin Others
      BY <1>1, <1>2, LastInSet
    <2>2. m # n /\ m \in 1..(n - 1) /\ m + 1 \in 1..n
      BY <1>1, <2>1
    <2>3. channel[s[m + 1]] = channel[s[n]]
      BY <2>1, <2>2
    <2>. QED BY <1>1, <2>1, <2>2, <2>3
  <1>. QED BY <1>2

(* Of the first group of a batch in order each message is the last one or  *)
(* has its follower within the gap.                                        *)
LEMMA GroupIsOneTalk ==
    ASSUME NEW s \in Seq(Msg), IsInjective(s), InOrder(s),
           NEW n \in DOMAIN s, IsFirstGroup(s, n),
           NEW a \in Range(SubSeq(s, 1, n))
    PROVE  \/ \A b \in Range(SubSeq(s, 1, n)) :
                    channel[a] = channel[b] /\ stamp[b] <= stamp[a]
           \/ \E b \in Range(SubSeq(s, 1, n)) \ {a} :
                    /\ channel[a] = channel[b]
                    /\ stamp[b] >= stamp[a]
                    /\ stamp[b] - stamp[a] < TalkGap
  <1>. DEFINE group == SubSeq(s, 1, n)
  <1>1. /\ Len(s) \in Nat /\ DOMAIN s = 1..Len(s) /\ n \in 1..Len(s)
        /\ DOMAIN group = 1..n /\ \A i \in 1..n : group[i] = s[i] /\ s[i] \in Msg
    OBVIOUS
  <1>2. \A b : b \in Range(group) <=> \E i \in 1..n : b = s[i]
    BY <1>1 DEF Range
  <1>. HIDE DEF group
  <1>3. PICK i \in 1..n : a = s[i]
    BY <1>2 DEF group
  <1>4. \A j \in 1..n : stamp[s[j]] \in Nat
    BY <1>1, ProcessorAssumption
  <1>5. CASE i = n
    <2>1. ASSUME NEW j \in 1..n
          PROVE  channel[s[n]] = channel[s[j]] /\ stamp[s[j]] <= stamp[s[n]]
      <3>1. channel[s[n]] = channel[s[j]]
        BY GroupIsOfOneChannel
      <3>2. j = n \/ j < n
        BY <1>1
      <3>3. stamp[s[j]] <= stamp[s[n]]
        BY <1>1, <1>4, <3>2 DEF InOrder
      <3>. QED BY <3>1, <3>3
    <2>. QED BY <1>2, <1>3, <1>5, <2>1 DEF group
  <1>6. CASE i # n
    <2>1. i \in 1..(n - 1) /\ i + 1 \in 1..n /\ i + 1 \in DOMAIN s /\ i \in DOMAIN s /\ i < i + 1
      BY <1>1, <1>6
    <2>2. SameTalk(s[i], s[i + 1])
      BY <2>1 DEF IsFirstGroup
    <2>3. stamp[s[i]] <= stamp[s[i + 1]]
      BY <2>1 DEF InOrder
    <2>4. s[i + 1] # s[i]
      BY <2>1 DEF IsInjective
    <2>5. s[i + 1] \in Range(group) \ {a}
      BY <1>2, <1>3, <2>1, <2>4
    <2>6. stamp[s[i + 1]] >= stamp[s[i]]
      BY <1>4, <2>1, <2>3
    <2>. QED BY <1>3, <2>2, <2>5, <2>6 DEF SameTalk, group
  <1>. QED BY <1>5, <1>6

OneTalk(group) ==
    \A a \in group :
        \/ \A b \in group : channel[a] = channel[b] /\ stamp[b] <= stamp[a]
        \/ \E b \in group \ {a} : /\ channel[a] = channel[b]
                                  /\ stamp[b] >= stamp[a]
                                  /\ stamp[b] - stamp[a] < TalkGap

LEMMA SummaryOfOneTalk ==
    ASSUME ProcessorInv, Ordered, NEW t \in Task, SummaryReturns(t)
    PROVE  OneTalk(processed' \ processed)
  <1>1. PICK n \in DOMAIN todo[t] :
            /\ IsFirstGroup(todo[t], n)
            /\ processed' = processed \cup Range(SubSeq(todo[t], 1, n))
    BY DEF SummaryReturns
  <1>2. /\ todo[t] \in Seq(Msg) /\ InOrder(todo[t]) /\ IsInjective(todo[t])
        /\ Range(todo[t]) \cap processed = {}
    BY DEF ProcessorInv, TypeOK, Ordered, Accounted, OnePlaceEach, Pending
  <1>3. PICK s : s = todo[t]
    OBVIOUS
  <1>. DEFINE group == Range(SubSeq(s, 1, n))
  <1>4. group \subseteq Range(s)
    <2>1. n \in 0..Len(s) /\ s \in Seq(Msg)
      BY <1>2, <1>3
    <2>. QED BY <2>1, CutRange
  <1>5. processed' \ processed = group
    BY <1>1, <1>2, <1>3, <1>4
  <1>6. OneTalk(group)
    BY <1>1, <1>2, <1>3, GroupIsOneTalk DEF OneTalk
  <1>. QED BY <1>5, <1>6

LEMMA StepOfOneTalk ==
    ProcessorInv /\ Ordered /\ [Next]_vars => OneTalk(processed' \ processed)
  <1>. SUFFICES ASSUME ProcessorInv, Ordered, [Next]_vars
                PROVE  OneTalk(processed' \ processed)
    OBVIOUS
  <1>1. UNCHANGED processed => OneTalk(processed' \ processed)
    BY DEF OneTalk
  <1>2. CASE \E t \in Task : SummaryReturns(t)
    BY <1>2, SummaryOfOneTalk
  <1>3. CASE \A t \in Task : ~SummaryReturns(t)
    <2>1. Start \subseteq Task /\ Round \subseteq Task
      BY DEF Task
    <2>2. UNCHANGED processed
      BY <1>3, <2>1 DEF Next, vars, control, outcome, QueueMessage, GoIdle, BeginStart, LoopStep,
                        FinishStart, LeaveLoop, TakeFull, TakeIdle, Stop, Maintain, RoundStep,
                        Tended
    <2>. QED BY <1>1, <2>2
  <1>. QED BY <1>2, <1>3

LEMMA OrderedInvariance == Spec => [](ProcessorInv /\ Ordered)
  BY InitInv, InitOrdered, InvStep, OrderedStep, PTL DEF Spec

(* The messages of one summary are one conversation, whatever was queued   *)
(* between them: one channel, and none but the last of them without a      *)
(* follower within the gap.                                                *)
THEOREM SummarisesOneTalk == Spec => SummaryIsOneTalk
  <1>1. ProcessorInv /\ Ordered /\ [Next]_vars =>
            LET group == processed' \ processed
            IN  \A a \in group :
                    \/ \A b \in group : channel[a] = channel[b] /\ stamp[b] <= stamp[a]
                    \/ \E b \in group \ {a} : /\ channel[a] = channel[b]
                                              /\ stamp[b] >= stamp[a]
                                              /\ stamp[b] - stamp[a] < TalkGap
    BY StepOfOneTalk DEF OneTalk
  <1>. QED BY <1>1, OrderedInvariance, PTL DEF Spec, SummaryIsOneTalk
=============================================================================
