----------------------------- MODULE MemoryProofs -----------------------------
(***************************************************************************)
(* Proofs about what is remembered: Crawler, for every channel, every      *)
(* limit of rows, answers and batches, and MemoryStore, for every set of   *)
(* people, messages and texts, every limit of a search and every number of *)
(* writes and failures.                                                    *)
(***************************************************************************)
EXTENDS Crawler, MemoryStore, FiniteSetTheorems, WellFoundedInduction, NaturalsInduction, TLAPS

-----------------------------------------------------------------------------
(* Sets of numbers *)

LEMMA NatWellFounded ==
    ASSUME NEW S \in SUBSET Nat, S # {}
    PROVE  \E m \in S : \A x \in S : m <= x
  <1>1. PICK m \in S : \A x \in S : <<x, m>> \notin OpToRel(<, Nat)
    BY WFMin, NatLessThanWellFounded
  <1>2. ASSUME NEW x \in S
        PROVE  m <= x
    <2>1. ~(x < m)
      BY <1>1 DEF OpToRel
    <2>. QED
      BY <2>1
  <1>. QED
    BY <1>2

LEMMA Largest ==
    ASSUME NEW S \in SUBSET Nat, S # {}, NEW N \in Nat, \A x \in S : x <= N
    PROVE  \E m \in S : \A x \in S : m >= x
  <1>. DEFINE Bounds == {n \in Nat : \A x \in S : x <= n}
  <1>1. PICK m \in Bounds : \A n \in Bounds : m <= n
    BY NatWellFounded
  <1>2. CASE m \in S
    BY <1>2
  <1>3. CASE m \notin S
    <2>1. \A x \in S : x < m
      BY <1>3
    <2>2. m \in Nat \ {0}
      <3>. PICK x \in S : TRUE
        OBVIOUS
      <3>1. x < m /\ x \in Nat /\ m \in Nat
        BY <2>1
      <3>. QED
        BY <3>1
    <2>3. m - 1 \in Bounds
      BY <2>1, <2>2
    <2>4. m <= m - 1
      BY <1>1, <2>3
    <2>. QED
      BY <2>2, <2>4
  <1>. QED
    BY <1>2, <1>3

LEMMA MaxIs ==
    ASSUME NEW S \in SUBSET Nat, S # {}, NEW N \in Nat, \A x \in S : x <= N
    PROVE  Max(S) \in S /\ \A x \in S : x <= Max(S)
  <1>1. \E m \in S : \A x \in S : m >= x
    BY Largest
  <1>2. Max(S) \in S /\ \A x \in S : Max(S) >= x
    BY <1>1 DEF Max
  <1>. QED
    BY <1>2

LEMMA FiniteSubset ==
    ASSUME NEW S, IsFiniteSet(S), NEW T, T \subseteq S
    PROVE  /\ IsFiniteSet(T)
           /\ Cardinality(T) \in Nat /\ Cardinality(S) \in Nat
           /\ Cardinality(T) <= Cardinality(S)
  <1>1. T \in SUBSET S
    OBVIOUS
  <1>2. IsFiniteSet(T) /\ Cardinality(T) <= Cardinality(S)
    BY <1>1, FS_Subset
  <1>. QED
    BY <1>2, FS_CardinalityType

LEMMA FiniteRange ==
    ASSUME NEW N \in Nat, NEW s, s \subseteq 0..N
    PROVE  /\ IsFiniteSet(s)
           /\ Cardinality(s) \in Nat
  <1>1. IsFiniteSet(0..N)
    BY FS_Interval
  <1>. QED
    BY <1>1, FiniteSubset

LEMMA LastOfBounded ==
    ASSUME NEW k \in Nat, NEW N \in Nat, NEW s \in SUBSET (0..N)
    PROVE  /\ IsFiniteSet(LastOf(k, s))
           /\ Cardinality(LastOf(k, s)) <= k
  <1>. LastOf(k, s) \subseteq s
    BY DEF LastOf
  <1>. s \subseteq Nat
    OBVIOUS
  <1>. LastOf(k, s) \subseteq Nat
    OBVIOUS
  <1>1. IsFiniteSet(s) /\ IsFiniteSet(LastOf(k, s))
    BY FiniteRange
  <1>2. CASE LastOf(k, s) = {}
    BY <1>1, <1>2, FS_EmptySet
  <1>3. CASE LastOf(k, s) # {}
    <2>1. PICK x \in LastOf(k, s) : \A y \in LastOf(k, s) : x <= y
      BY <1>3, NatWellFounded
    <2>. DEFINE above == {n \in s : n > x}
    <2>2. IsFiniteSet(above) /\ Cardinality(above) \in Nat
      BY FiniteRange
    <2>3. Cardinality(above) < k
      BY DEF LastOf
    <2>4. LastOf(k, s) \subseteq above \cup {x}
      BY <2>1
    <2>. HIDE DEF above
    <2>5. /\ IsFiniteSet(above \cup {x})
          /\ Cardinality(above \cup {x}) = IF x \in above THEN Cardinality(above) ELSE Cardinality(above) + 1
      BY <2>2, FS_AddElement
    <2>6. /\ Cardinality(LastOf(k, s)) <= Cardinality(above \cup {x})
          /\ Cardinality(above \cup {x}) \in Nat /\ Cardinality(LastOf(k, s)) \in Nat
      BY <2>4, <2>5, FiniteSubset
    <2>. QED
      BY <1>1, <2>2, <2>3, <2>5, <2>6
  <1>. QED
    BY <1>1, <1>2, <1>3

LEMMA FirstBounded ==
    ASSUME NEW k \in Nat, NEW N \in Nat, NEW s \in SUBSET (0..N)
    PROVE  /\ IsFiniteSet(First(k, s))
           /\ Cardinality(First(k, s)) <= k
  <1>. First(k, s) \subseteq s
    BY DEF First
  <1>. s \subseteq Nat /\ \A x \in s : x <= N
    OBVIOUS
  <1>. First(k, s) \subseteq Nat /\ \A x \in First(k, s) : x <= N
    OBVIOUS
  <1>1. IsFiniteSet(s) /\ IsFiniteSet(First(k, s))
    BY FiniteRange
  <1>2. CASE First(k, s) = {}
    BY <1>1, <1>2, FS_EmptySet
  <1>3. CASE First(k, s) # {}
    <2>1. PICK x \in First(k, s) : \A y \in First(k, s) : x >= y
      BY <1>3, Largest
    <2>. DEFINE below == {n \in s : n < x}
    <2>2. IsFiniteSet(below) /\ Cardinality(below) \in Nat
      BY FiniteRange
    <2>3. Cardinality(below) < k
      BY DEF First
    <2>4. First(k, s) \subseteq below \cup {x}
      BY <2>1
    <2>. HIDE DEF below
    <2>5. /\ IsFiniteSet(below \cup {x})
          /\ Cardinality(below \cup {x}) = IF x \in below THEN Cardinality(below) ELSE Cardinality(below) + 1
      BY <2>2, FS_AddElement
    <2>6. /\ Cardinality(First(k, s)) <= Cardinality(below \cup {x})
          /\ Cardinality(below \cup {x}) \in Nat /\ Cardinality(First(k, s)) \in Nat
      BY <2>4, <2>5, FiniteSubset
    <2>. QED
      BY <1>1, <2>2, <2>3, <2>5, <2>6
  <1>. QED
    BY <1>1, <1>2, <1>3

\* The older a message, the fewer come before it.
LEMMA OlderComesFirst ==
    ASSUME NEW s, IsFiniteSet(s), s \subseteq Nat, NEW m \in Nat, NEW w \in Nat, m < w
    PROVE  /\ Cardinality({n \in s : n < m}) \in Nat
           /\ Cardinality({n \in s : n < w}) \in Nat
           /\ Cardinality({n \in s : n < m}) <= Cardinality({n \in s : n < w})
  <1>. DEFINE below(x) == {n \in s : n < x}
  <1>1. below(m) \subseteq below(w)
    <2>1. ASSUME NEW n \in s, n < m
          PROVE  n < w
      <3>1. n \in Nat
        OBVIOUS
      <3>. QED
        BY <2>1, <3>1
    <2>. QED
      BY <2>1
  <1>2. IsFiniteSet(below(w))
    BY FiniteSubset
  <1>. HIDE DEF below
  <1>3. /\ Cardinality(below(m)) \in Nat /\ Cardinality(below(w)) \in Nat
        /\ Cardinality(below(m)) <= Cardinality(below(w))
    BY <1>1, <1>2, FiniteSubset
  <1>. QED
    BY <1>3 DEF below

\* The first elements of a set are older than the others.
LEMMA FirstIsClosed ==
    ASSUME NEW k \in Nat, NEW N \in Nat, NEW s \in SUBSET (0..N),
           NEW w \in First(k, s), NEW m \in s, m < w
    PROVE  m \in First(k, s)
  <1>1. w \in s /\ Cardinality({n \in s : n < w}) < k
    BY DEF First
  <1>. s \subseteq 0..N /\ s \subseteq Nat
    OBVIOUS
  <1>2. IsFiniteSet(s) /\ s \subseteq Nat
    BY FiniteRange
  <1>3. /\ Cardinality({n \in s : n < m}) \in Nat
        /\ Cardinality({n \in s : n < w}) \in Nat
        /\ Cardinality({n \in s : n < m}) <= Cardinality({n \in s : n < w})
    <2>1. m \in Nat /\ w \in Nat
      BY <1>1, <1>2
    <2>. QED
      BY <1>2, <2>1, OlderComesFirst
  <1>4. Cardinality({n \in s : n < m}) < k
    BY <1>1, <1>3
  <1>. QED
    BY <1>4 DEF First

\* The prune keeps the newest row.
LEMMA LastOfKeepsMax ==
    ASSUME NEW k \in Nat \ {0}, NEW s, NEW m \in s, \A x \in s : ~(x > m)
    PROVE  m \in LastOf(k, s)
  <1>1. {n \in s : n > m} = {}
    OBVIOUS
  <1>2. Cardinality({n \in s : n > m}) = 0
    BY <1>1, FS_EmptySet
  <1>. QED
    BY <1>2 DEF LastOf

LEMMA TopIs ==
    ASSUME NEW N \in Nat, NEW s \in SUBSET (0..N)
    PROVE  /\ Top(s) \in 0..N
           /\ \A x \in s : x <= Top(s)
           /\ s # {} => Top(s) \in s
  <1>1. CASE s = {}
    BY <1>1 DEF Top
  <1>2. CASE s # {}
    <2>1. s \subseteq Nat /\ \A x \in s : x <= N
      OBVIOUS
    <2>2. Max(s) \in s /\ \A x \in s : x <= Max(s)
      BY <1>2, <2>1, MaxIs
    <2>3. Top(s) = Max(s)
      BY <1>2 DEF Top
    <2>. QED
      BY <1>2, <2>2, <2>3
  <1>. QED
    BY <1>1, <1>2

-----------------------------------------------------------------------------
(* Rows and the store *)

LEMMA RowsAreTimes ==
    ASSUME posted \in Nat, NEW u, u \subseteq (1..posted) \cap Users
    PROVE  Rows(u) \subseteq Times
  BY DEF Rows, Times

\* A row bears the time it was written at, or a later one.
LEMMA MomentIs ==
    ASSUME CrawlerAssumption, posted \in Nat, NEW r \in {0} \cup Times
    PROVE  /\ r \in 0..(2 * (posted + Lead) + 1)
           /\ Moment(r) \in 0..(2 * posted + 1) /\ Moment(r) <= r
  <1>0. Lead \in Nat
    BY DEF CrawlerAssumption
  <1>1. CASE r = 0
    BY <1>0, <1>1 DEF Moment, IsReply
  <1>2. CASE r \in Rows(Users \cap (1..posted))
    <2>1. PICK m \in 1..posted : r = 2 * m
      BY <1>2 DEF Rows
    <2>2. r % 2 = 0
      BY <2>1
    <2>. QED
      BY <1>0, <2>1, <2>2 DEF Moment, IsReply
  <1>3. CASE r \in {2 * (p + Lead) + 1 : p \in 0..posted}
    <2>1. PICK p \in 0..posted : r = 2 * (p + Lead) + 1
      BY <1>3
    <2>2. r - 2 * Lead = 2 * p + 1 /\ r \in 0..(2 * (posted + Lead) + 1)
      BY <1>0, <2>1
    <2>3. r % 2 = 1
      BY <1>0, <2>1
    <2>. QED
      BY <1>0, <2>2, <2>3 DEF Moment, IsReply
  <1>. QED
    BY <1>1, <1>2, <1>3 DEF Times

LEMMA StoredIs ==
    ASSUME CrawlerAssumption, NEW N \in Nat, kept \subseteq 0..N, NEW s, s \subseteq 0..N
    PROVE  /\ Stored(s) \subseteq kept \cup s
           /\ Cardinality(Stored(s)) <= Cap
           /\ Top(kept) <= Top(Stored(s))
           /\ \A x \in s : x <= Top(Stored(s))
           /\ Top(kept) \in 0..N /\ Top(Stored(s)) \in 0..N
  <1>. DEFINE all == kept \cup s
  <1>1. all \in SUBSET (0..N) /\ Stored(s) = LastOf(Cap, all)
    BY DEF Stored
  <1>. HIDE DEF all
  <1>2. Cap \in Nat \ {0}
    BY DEF CrawlerAssumption
  <1>3. Stored(s) \subseteq all
    BY <1>1 DEF LastOf
  <1>4. Cardinality(Stored(s)) <= Cap
    BY <1>1, <1>2, LastOfBounded
  <1>5. Stored(s) \in SUBSET (0..N)
    BY <1>1, <1>3
  <1>6. Top(Stored(s)) \in 0..N /\ \A x \in Stored(s) : x <= Top(Stored(s))
    BY <1>5, TopIs
  <1>7. Top(all) \in 0..N /\ (\A x \in all : x <= Top(all)) /\ (all # {} => Top(all) \in all)
    BY <1>1, TopIs
  <1>8. Top(kept) \in 0..N /\ (kept # {} => Top(kept) \in kept) /\ (kept = {} => Top(kept) = 0)
    <2>1. kept \in SUBSET (0..N)
      OBVIOUS
    <2>. QED
      BY <2>1, TopIs DEF Top
  <1>9. ASSUME NEW x \in all
        PROVE  x <= Top(Stored(s))
    <2>1. Top(all) \in all /\ \A y \in all : ~(y > Top(all))
      BY <1>1, <1>7
    <2>2. Top(all) \in Stored(s)
      BY <1>1, <1>2, <2>1, LastOfKeepsMax
    <2>3. x <= Top(all) /\ Top(all) <= Top(Stored(s)) /\ x \in 0..N
      BY <1>1, <1>6, <1>7, <2>2
    <2>. QED
      BY <1>6, <1>7, <2>3
  <1>10. Top(kept) <= Top(Stored(s))
    BY <1>6, <1>8, <1>9 DEF all
  <1>. QED
    BY <1>3, <1>4, <1>6, <1>8, <1>9, <1>10 DEF all

\* What is stored keeps its type, and the newest row only moves forward.
LEMMA StoredTypes ==
    ASSUME CrawlerAssumption, CrawlTypeOK, NEW s, s \subseteq Times
    PROVE  /\ Stored(s) \subseteq Times
           /\ Cardinality(Stored(s)) <= Cap
           /\ Top(kept) <= Top(Stored(s))
           /\ \A x \in s : x <= Top(Stored(s))
           /\ Top(kept) \in Nat /\ Top(Stored(s)) \in Nat
  <1>1. posted \in Nat /\ kept \subseteq Times /\ Lead \in Nat
    BY DEF CrawlTypeOK, ChannelTypes, StoreTypes, CrawlerAssumption
  <1>. DEFINE N == 2 * (posted + Lead) + 1
  <1>2. Times \subseteq 0..N
    BY <1>1, MomentIs
  <1>3. kept \subseteq 0..N /\ s \subseteq 0..N /\ N \in Nat
    BY <1>1, <1>2
  <1>4. N \in Nat /\ kept \subseteq 0..N /\ s \subseteq 0..N
    BY <1>3
  <1>. HIDE DEF N
  <1>5. /\ Stored(s) \subseteq kept \cup s
        /\ Cardinality(Stored(s)) <= Cap
        /\ Top(kept) <= Top(Stored(s))
        /\ \A x \in s : x <= Top(Stored(s))
        /\ Top(kept) \in 0..N /\ Top(Stored(s)) \in 0..N
    BY <1>4, StoredIs
  <1>. QED
    BY <1>1, <1>5 DEF N

-----------------------------------------------------------------------------
(* The inductive invariant *)

\* A sync that sleeps or queues has a batch that is not full; any other has nothing in hand.
InHand(s) ==
  /\ Cardinality(batch[s]) < Batch
  /\ pc[s] # "full" => page[s] = {} /\ batch[s] = {}

\* What is left of an answer lies ahead, and leaves nothing out that comes before its end.
PageAhead(s) ==
  /\ Cardinality(page[s]) <= left[s]
  /\ \A m \in page[s] : 2 * m > cursor[s]
  /\ \A w \in page[s], m \in Visible : 2 * m > cursor[s] /\ m < w => m \in page[s]

\* What a sync has read up to is no newer than the newest row.
ReadIsStored(s) == \A m \in Users \cap Visible : 2 * m <= cursor[s] => 2 * m <= Top(kept)

SyncSound(s) == InHand(s) /\ PageAhead(s) /\ ReadIsStored(s)

CrawlInv ==
  /\ CrawlTypeOK
  /\ gap <= Top(kept)
  /\ \A s \in Syncs : SyncSound(s)
  /\ CrawledIsQueued

LEMMA CrawlConstants ==
    ASSUME CrawlerAssumption
    PROVE  /\ Cap \in Nat \ {0} /\ Page \in Nat \ {0} /\ Batch \in Nat \ {0}
           /\ Radius \in Nat /\ Last \in Nat /\ TroubleLimit \in Nat
           /\ Page <= Cap /\ Radius <= Cap /\ Lead \in Nat
           /\ Loop # Panel
           /\ Users \subseteq Messages
  BY DEF CrawlerAssumption, Users

LEMMA CrawlFacts ==
    ASSUME CrawlerAssumption, CrawlTypeOK
    PROVE  /\ posted \in Nat /\ posted <= Last
           /\ Visible \subseteq 1..posted
           /\ Top(kept) \in Nat /\ kept \subseteq Nat
           /\ \A r \in kept : r <= Top(kept)
           /\ kept # {} => Top(kept) \in kept
           /\ Top(kept) \in {0} \cup Times
  <1>1. posted \in Nat /\ posted <= Last /\ kept \subseteq Times
    BY DEF CrawlTypeOK, ChannelTypes, StoreTypes, CrawlerAssumption
  <1>2. Visible \subseteq 1..posted
    BY DEF Visible
  <1>. DEFINE N == 2 * (posted + Lead) + 1
  <1>3. N \in Nat /\ kept \in SUBSET (0..N)
    <2>1. Lead \in Nat
      BY CrawlConstants
    <2>2. kept \subseteq 0..N
      BY <1>1, MomentIs
    <2>. QED
      BY <1>1, <2>1, <2>2
  <1>. HIDE DEF N
  <1>4. /\ Top(kept) \in 0..N
        /\ \A r \in kept : r <= Top(kept)
        /\ kept # {} => Top(kept) \in kept
    BY <1>3, TopIs
  <1>5. Top(kept) \in {0} \cup Times
    BY <1>1, <1>4 DEF Top
  <1>. QED
    BY <1>1, <1>2, <1>3, <1>4, <1>5

\* The row deep validation is at is no newer than the newest row.
LEMMA GapIs ==
    ASSUME CrawlerAssumption, CrawlInv
    PROVE  gap \in Nat /\ gap <= Top(kept) /\ Moment(gap) \in Nat /\ Moment(gap) <= gap
  <1>1. posted \in Nat /\ gap \in {0} \cup Times /\ gap <= Top(kept) /\ Lead \in Nat
    BY CrawlFacts, CrawlConstants DEF CrawlInv, CrawlTypeOK, DeepTypes
  <1>. QED
    BY <1>1, MomentIs

LEMMA InitCrawlInv ==
    ASSUME CrawlerAssumption, CrawlInit
    PROVE  CrawlInv
  <1>0. Cardinality({}) = 0
    BY FS_EmptySet
  <1>1. Last \in Nat /\ Cap \in Nat \ {0} /\ Batch \in Nat \ {0} /\ TroubleLimit \in Nat
    BY CrawlConstants
  <1>2. CrawlTypeOK
    <2>1. ChannelTypes /\ ProcessTypes
      <3>1. /\ posted \in 0..Last /\ deleted \subseteq 1..posted
            /\ arriving = {} /\ recent = {} /\ troubles \in 0..TroubleLimit
        BY <1>1 DEF CrawlInit
      <3>2. answered \in BOOLEAN /\ up \in BOOLEAN /\ running \in BOOLEAN /\ started \in BOOLEAN
        BY Zenon DEF CrawlInit
      <3>. QED
        BY <3>1, <3>2, Zenon DEF ChannelTypes, ProcessTypes
    <2>2. StoreTypes
      BY <1>0, <1>1 DEF CrawlInit, StoreTypes
    <2>3. SyncTypes
      BY <1>1 DEF CrawlInit, SyncTypes
    <2>4. DeepTypes /\ unqueued \subseteq Users /\ forgone \subseteq Users
      BY DEF CrawlInit, DeepTypes
    <2>. QED
      BY <2>1, <2>2, <2>3, <2>4 DEF CrawlTypeOK
  <1>3. gap <= Top(kept)
    BY DEF CrawlInit, Top
  <1>4. ASSUME NEW s \in Syncs
        PROVE  SyncSound(s)
    <2>1. page[s] = {} /\ batch[s] = {} /\ left[s] = 0 /\ Visible = {}
      BY DEF CrawlInit, Visible
    <2>. QED
      BY <1>0, <1>1, <2>1 DEF SyncSound, InHand, PageAhead, ReadIsStored
  <1>5. CrawledIsQueued
    BY DEF CrawlInit, CrawledIsQueued
  <1>. QED
    BY <1>2, <1>3, <1>4, <1>5 DEF CrawlInv

-----------------------------------------------------------------------------
(* What a step leaves alone *)

\* A sync that has not read on stays sound while the newest row moves forward and nothing
\* old becomes visible.
LEMMA OthersMove ==
    ASSUME CrawlerAssumption, CrawlTypeOK, NEW s \in Syncs, SyncSound(s),
           pc'[s] = pc[s] \/ (page[s] = {} /\ batch[s] = {}), cursor'[s] = cursor[s], left'[s] = left[s],
           page'[s] = page[s], batch'[s] = batch[s],
           \A m \in Visible' : m \in Nat /\ (m \in Visible \/ m > posted),
           Top(kept') \in Nat, Top(kept) <= Top(kept')
    PROVE  SyncSound(s)'
  <1>1. posted \in Nat /\ Visible \subseteq 1..posted /\ Top(kept) \in Nat
    BY CrawlFacts
  <1>2. cursor[s] \in 0..(2 * posted + 1) /\ page[s] \subseteq 1..posted
    BY DEF CrawlTypeOK, SyncTypes
  <1>3. InHand(s)'
    BY DEF SyncSound, InHand
  <1>4. PageAhead(s)'
    <2>1. Cardinality(page'[s]) <= left'[s] /\ \A m \in page'[s] : 2 * m > cursor'[s]
      BY DEF SyncSound, PageAhead
    <2>2. ASSUME NEW w \in page'[s], NEW m \in Visible', 2 * m > cursor'[s], m < w
          PROVE  m \in page'[s]
      <3>1. w \in 1..posted /\ m \in Nat
        BY <1>2
      <3>2. m \in Visible
        BY <1>1, <2>2, <3>1
      <3>. QED
        BY <2>2, <3>2 DEF SyncSound, PageAhead
    <2>. QED
      BY <2>1, <2>2 DEF PageAhead
  <1>5. ReadIsStored(s)'
    <2>1. ASSUME NEW m \in Users \cap Visible', 2 * m <= cursor'[s]
          PROVE  2 * m <= Top(kept')
      <3>1. m \in Nat /\ (m \in Visible \/ m > posted)
        OBVIOUS
      <3>2. m \in Visible
        BY <1>1, <1>2, <2>1, <3>1
      <3>3. 2 * m <= Top(kept)
        BY <2>1, <3>2 DEF SyncSound, ReadIsStored
      <3>. QED
        BY <1>1, <3>1, <3>3
    <2>. QED
      BY <2>1 DEF ReadIsStored
  <1>. QED
    BY <1>3, <1>4, <1>5 DEF SyncSound

\* A sync that is done has nothing in hand and has read nothing.
LEMMA NothingInHand ==
    ASSUME CrawlerAssumption, NEW s \in Syncs, pc'[s] \in {"idle", "compare", "resume", "full"},
           page'[s] = {}, batch'[s] = {}, left'[s] \in Nat, CrawlTypeOK',
           cursor'[s] = 0 \/ cursor'[s] <= Top(kept')
    PROVE  SyncSound(s)'
  <1>0. Cardinality({}) = 0 /\ Batch \in Nat \ {0}
    BY CrawlConstants, FS_EmptySet
  <1>1. \A m \in Visible' : m \in Nat /\ m > 0
    BY DEF Visible, CrawlTypeOK, ChannelTypes, CrawlerAssumption
  <1>2. Top(kept') \in Nat
    <2>1. posted' \in Nat /\ Lead \in Nat /\ kept' \subseteq Times'
      BY CrawlConstants DEF CrawlTypeOK, ChannelTypes, StoreTypes, CrawlerAssumption
    <2>2. PICK p \in Nat : p = posted'
      BY <2>1
    <2>. DEFINE N == 2 * (p + Lead) + 1
    <2>3. N \in Nat
      BY <2>1
    <2>4. kept' \subseteq 0..N
      BY <2>1, <2>2 DEF Times, Rows
    <2>. HIDE DEF N
    <2>5. N \in Nat /\ kept' \in SUBSET (0..N)
      BY <2>3, <2>4
    <2>6. Top(kept') \in 0..N
      BY <2>5, TopIs
    <2>. QED
      BY <2>3, <2>6
  <1>3. InHand(s)' /\ PageAhead(s)'
    BY <1>0 DEF InHand, PageAhead
  <1>4. ASSUME NEW m \in Users \cap Visible', 2 * m <= cursor'[s]
        PROVE  2 * m <= Top(kept')
    <2>1. m \in Nat /\ m > 0
      BY <1>1
    <2>2. CASE cursor'[s] = 0
      BY <1>4, <2>1, <2>2
    <2>3. CASE cursor'[s] <= Top(kept')
      <3>1. cursor'[s] \in Nat
        BY DEF CrawlTypeOK, SyncTypes, ChannelTypes, CrawlerAssumption
      <3>. QED
        BY <1>2, <1>4, <2>1, <2>3, <3>1
    <2>. QED
      BY <2>2, <2>3
  <1>. QED
    BY <1>3, <1>4 DEF SyncSound, ReadIsStored

\* The syncs stand still while the store only gets newer.
LEMMA SyncsRest ==
    ASSUME CrawlerAssumption, CrawlInv, CrawlTypeOK', UNCHANGED syncVars,
           posted' \in {posted, posted + 1}, deleted \subseteq deleted',
           Top(kept') \in Nat, Top(kept) <= Top(kept')
    PROVE  \A s \in Syncs : SyncSound(s)'
  <1>1. ASSUME NEW s \in Syncs
        PROVE  SyncSound(s)'
    <2>1. posted \in Nat /\ CrawlTypeOK /\ SyncSound(s)
      BY CrawlFacts DEF CrawlInv
    <2>2. /\ pc'[s] = pc[s] /\ cursor'[s] = cursor[s] /\ left'[s] = left[s]
          /\ page'[s] = page[s] /\ batch'[s] = batch[s]
      BY DEF syncVars
    <2>3. ASSUME NEW m \in Visible'
          PROVE  m \in Nat /\ (m \in Visible \/ m > posted)
      <3>1. m \in 1..posted' /\ m \notin deleted
        BY <2>3 DEF Visible
      <3>2. m \in Nat /\ (m \in 1..posted \/ m > posted)
        BY <2>1, <3>1
      <3>. QED
        BY <3>1, <3>2 DEF Visible
    <2>. QED
      BY <2>1, <2>2, <2>3, OthersMove
  <1>. QED
    BY <1>1

\* A step that leaves the store and the syncs alone.
LEMMA StoreStands ==
    ASSUME CrawlerAssumption, CrawlInv,
           UNCHANGED <<answered, posted, kept, syncVars, unqueued, forgone>>,
           deleted \subseteq deleted', deleted' \subseteq 1..posted,
           ProcessTypes', DeepTypes', gap' <= Top(kept)
    PROVE  CrawlInv'
  <1>1. CrawlTypeOK'
    <2>1. ChannelTypes'
      BY Zenon DEF CrawlInv, CrawlTypeOK, ChannelTypes
    <2>2. StoreTypes'
      BY DEF CrawlInv, CrawlTypeOK, StoreTypes, Times
    <2>3. SyncTypes'
      BY DEF CrawlInv, CrawlTypeOK, SyncTypes, syncVars
    <2>4. unqueued' \subseteq Users /\ forgone' \subseteq Users
      BY DEF CrawlInv, CrawlTypeOK
    <2>. QED
      BY <2>1, <2>2, <2>3, <2>4 DEF CrawlTypeOK
  <1>2. Top(kept') \in Nat /\ Top(kept) <= Top(kept') /\ gap' <= Top(kept')
    BY CrawlFacts DEF CrawlInv
  <1>3. \A s \in Syncs : SyncSound(s)'
    BY <1>1, <1>2, SyncsRest
  <1>4. CrawledIsQueued'
    BY DEF CrawlInv, CrawledIsQueued, syncVars
  <1>. QED
    BY <1>1, <1>2, <1>3, <1>4 DEF CrawlInv

\* A step that stores messages and leaves the syncs alone.
LEMMA StoreGrows ==
    ASSUME CrawlerAssumption, CrawlInv, NEW u, u \subseteq Times, kept' = Stored(u),
           UNCHANGED <<channelVars, syncVars, unqueued, forgone>>,
           ProcessTypes', DeepTypes', gap' \in {0, gap}
    PROVE  CrawlInv'
  <1>0. /\ Stored(u) \subseteq Times
        /\ Cardinality(Stored(u)) <= Cap
        /\ Top(kept) <= Top(Stored(u))
        /\ Top(kept) \in Nat /\ Top(Stored(u)) \in Nat
    BY StoredTypes DEF CrawlInv
  <1>1. CrawlTypeOK'
    <2>1. ChannelTypes'
      BY Zenon DEF CrawlInv, CrawlTypeOK, ChannelTypes, channelVars
    <2>2. Times' = Times
      BY DEF Times, channelVars
    <2>3. StoreTypes'
      BY <1>0, <2>2 DEF StoreTypes
    <2>4. SyncTypes'
      BY DEF CrawlInv, CrawlTypeOK, SyncTypes, syncVars, channelVars
    <2>5. unqueued' \subseteq Users /\ forgone' \subseteq Users
      BY DEF CrawlInv, CrawlTypeOK
    <2>. QED
      BY <2>1, <2>3, <2>4, <2>5 DEF CrawlTypeOK
  <1>2. Top(kept') \in Nat /\ Top(kept) <= Top(kept') /\ gap' <= Top(kept')
    <2>1. gap <= Top(kept) /\ gap \in Nat
      BY GapIs
    <2>. QED
      BY <1>0, <2>1
  <1>3. \A s \in Syncs : SyncSound(s)'
    BY <1>1, <1>2, SyncsRest DEF channelVars
  <1>4. CrawledIsQueued'
    BY DEF CrawlInv, CrawledIsQueued, syncVars
  <1>. QED
    BY <1>1, <1>2, <1>3, <1>4 DEF CrawlInv

\* Somebody posts.
LEMMA Posted ==
    ASSUME CrawlerAssumption, CrawlInv, posted + 1 \in Messages, posted' = posted + 1,
           UNCHANGED <<answered, deleted, up, running, kept, recent, started, syncVars,
                       deepVars, unqueued, troubles, forgone>>,
           arriving' \subseteq arriving \cup ({posted + 1} \cap (Users \cup Replies))
    PROVE  CrawlInv'
  <1>0. /\ posted \in Nat /\ posted <= Last /\ posted + 1 <= Last /\ Last \in Nat
        /\ Top(kept) \in Nat
    BY CrawlFacts DEF CrawlInv, Messages, CrawlerAssumption
  <1>1. CrawlTypeOK'
    <2>1. 1..posted \subseteq 1..posted'
      BY <1>0
    <2>2. ChannelTypes'
      <3>1. posted' \in 0..Last /\ deleted' \subseteq 1..posted'
        BY <1>0, <2>1 DEF CrawlInv, CrawlTypeOK, ChannelTypes
      <3>. QED
        BY <3>1, Zenon DEF CrawlInv, CrawlTypeOK, ChannelTypes
    <2>. Times \subseteq Times'
      <3>1. 0..posted \subseteq 0..posted'
        BY <1>0
      <3>. QED
        BY <2>1, <3>1 DEF Times, Rows
    <2>3. StoreTypes'
      BY DEF CrawlInv, CrawlTypeOK, StoreTypes
    <2>4. ProcessTypes'
      <3>1. arriving' \subseteq (1..posted') \cap (Users \cup Replies)
        <4>1. arriving \subseteq (1..posted) \cap (Users \cup Replies)
          BY DEF CrawlInv, CrawlTypeOK, ProcessTypes
        <4>2. posted + 1 \in 1..posted'
          BY <1>0
        <4>. QED
          BY <2>1, <4>1, <4>2
      <3>2. recent' \subseteq 1..posted'
        BY <2>1 DEF CrawlInv, CrawlTypeOK, ProcessTypes
      <3>. QED
        BY <3>1, <3>2, Zenon DEF CrawlInv, CrawlTypeOK, ProcessTypes
    <2>5. SyncTypes'
      <3>1. SyncTypes
        BY DEF CrawlInv, CrawlTypeOK
      <3>2. /\ newest' \in [Syncs -> 0..posted'] /\ cursor' \in [Syncs -> 0..(2 * posted' + 1)]
        BY <1>0, <3>1 DEF SyncTypes, syncVars
      <3>3. page' \in [Syncs -> SUBSET (1..posted')]
        BY <2>1, <3>1 DEF SyncTypes, syncVars
      <3>. QED
        BY <3>1, <3>2, <3>3 DEF SyncTypes, syncVars
    <2>6. DeepTypes'
      BY DEF CrawlInv, CrawlTypeOK, DeepTypes, deepVars
    <2>7. unqueued' \subseteq Users /\ forgone' \subseteq Users
      BY DEF CrawlInv, CrawlTypeOK
    <2>. QED
      BY <2>2, <2>3, <2>4, <2>5, <2>6, <2>7 DEF CrawlTypeOK
  <1>2. Top(kept') \in Nat /\ Top(kept) <= Top(kept') /\ gap' <= Top(kept')
    BY <1>0 DEF CrawlInv, deepVars
  <1>3. \A s \in Syncs : SyncSound(s)'
    BY <1>1, <1>2, SyncsRest
  <1>4. CrawledIsQueued'
    BY DEF CrawlInv, CrawledIsQueued, syncVars
  <1>. QED
    BY <1>1, <1>2, <1>3, <1>4 DEF CrawlInv

\* Some of the syncs are asking, begin to read, or are done; the others stand still.
LEMMA SyncsMove ==
    ASSUME CrawlerAssumption, CrawlInv, UNCHANGED <<channelVars, kept>>,
           ProcessTypes', SyncTypes', DeepTypes', gap' \in {0, gap},
           \A s \in Syncs :
             \/ /\ pc'[s] = pc[s] \/ (page[s] = {} /\ batch[s] = {})
                /\ cursor'[s] = cursor[s] /\ left'[s] = left[s]
                /\ page'[s] = page[s] /\ batch'[s] = batch[s]
             \/ /\ page'[s] = {} /\ batch'[s] = {}
                /\ cursor'[s] = 0 \/ cursor'[s] <= Top(kept),
           unqueued' \subseteq unqueued, forgone' \subseteq Users,
           CrawledIsQueued'
    PROVE  CrawlInv'
  <1>0. Top(kept) \in Nat /\ posted \in Nat /\ Visible \subseteq 1..posted
    BY CrawlFacts DEF CrawlInv
  <1>1. CrawlTypeOK'
    <2>1. ChannelTypes'
      BY Zenon DEF CrawlInv, CrawlTypeOK, ChannelTypes, channelVars
    <2>2. StoreTypes'
      BY DEF CrawlInv, CrawlTypeOK, StoreTypes, Times, channelVars
    <2>3. unqueued' \subseteq Users /\ forgone' \subseteq Users
      BY DEF CrawlInv, CrawlTypeOK
    <2>. QED
      BY <2>1, <2>2, <2>3 DEF CrawlTypeOK
  <1>2. gap' <= Top(kept')
    BY <1>0 DEF CrawlInv
  <1>3. ASSUME NEW s \in Syncs
        PROVE  SyncSound(s)'
    <2>1. Top(kept') \in Nat /\ Top(kept) <= Top(kept')
      BY <1>0
    <2>2. \A m \in Visible' : m \in Nat /\ (m \in Visible \/ m > posted)
      BY <1>0 DEF Visible, channelVars
    <2>3. pc'[s] \in {"idle", "compare", "resume", "full"} /\ left'[s] \in Nat
      BY CrawlConstants DEF SyncTypes
    <2>4. CASE /\ pc'[s] = pc[s] \/ (page[s] = {} /\ batch[s] = {})
               /\ cursor'[s] = cursor[s] /\ left'[s] = left[s]
               /\ page'[s] = page[s] /\ batch'[s] = batch[s]
      BY <2>1, <2>2, <2>4, OthersMove DEF CrawlInv
    <2>5. CASE /\ page'[s] = {} /\ batch'[s] = {}
               /\ cursor'[s] = 0 \/ cursor'[s] <= Top(kept)
      BY <1>1, <2>3, <2>5, NothingInHand
    <2>. QED
      BY <2>4, <2>5
  <1>. QED
    BY <1>1, <1>2, <1>3 DEF CrawlInv

\* A sync that is done.
LEMMA EndedIs ==
    ASSUME CrawlerAssumption, CrawlInv, NEW ss \in SUBSET Syncs, Ended(ss), UNCHANGED posted
    PROVE  /\ SyncTypes'
           /\ \A s \in ss : page'[s] = {} /\ batch'[s] = {} /\ cursor'[s] = 0
           /\ \A s \in Syncs \ ss : /\ pc'[s] = pc[s] /\ cursor'[s] = cursor[s] /\ left'[s] = left[s]
                                    /\ page'[s] = page[s] /\ batch'[s] = batch[s]
  <1>1. posted \in Nat /\ Cap \in Nat
    BY CrawlFacts, CrawlConstants DEF CrawlInv
  <1>2. SyncTypes
    BY DEF CrawlInv, CrawlTypeOK
  <1>3. SyncTypes'
    <2>1. pc' \in [Syncs -> {"idle", "compare", "resume", "full"}]
      BY <1>2 DEF SyncTypes, Ended
    <2>2. newest' \in [Syncs -> 0..posted'] /\ cursor' \in [Syncs -> 0..(2 * posted' + 1)]
      BY <1>1, <1>2 DEF SyncTypes, Ended
    <2>3. left' \in [Syncs -> 0..Cap]
      BY <1>1, <1>2 DEF SyncTypes, Ended
    <2>4. page' \in [Syncs -> SUBSET (1..posted')] /\ batch' \in [Syncs -> SUBSET Users]
      BY <1>2 DEF SyncTypes, Ended
    <2>. QED
      BY <2>1, <2>2, <2>3, <2>4 DEF SyncTypes
  <1>. QED
    BY <1>3 DEF Ended

LEMMA KillPreserves ==
    ASSUME CrawlerAssumption, CrawlInv, Kill
    PROVE  CrawlInv'
  <1>1. ProcessTypes'
    <2>1. troubles' \in 0..TroubleLimit /\ arriving' = {} /\ recent' = {}
      BY CrawlConstants DEF Kill, Trouble, CrawlInv, CrawlTypeOK, ProcessTypes
    <2>2. up' \in BOOLEAN /\ running' \in BOOLEAN /\ started' \in BOOLEAN
      BY Zenon DEF Kill, CrawlInv, CrawlTypeOK, ProcessTypes
    <2>. QED
      BY <2>1, <2>2, Zenon DEF ProcessTypes
  <1>2. DeepTypes' /\ gap' = 0
    BY CrawlFacts DEF Kill, Validated, CrawlInv, DeepTypes, channelVars
  <1>3. /\ SyncTypes'
        /\ \A s \in Syncs : page'[s] = {} /\ batch'[s] = {} /\ cursor'[s] = 0
    BY EndedIs DEF Kill, channelVars
  <1>4. unqueued' = unqueued /\ UNCHANGED <<channelVars, kept>>
    BY DEF Kill
  <1>5. forgone' = forgone \cup UNION {batch[s] : s \in Syncs}
    BY DEF Kill
  <1>6. forgone' \subseteq Users
    BY <1>5 DEF CrawlInv, CrawlTypeOK, SyncTypes
  <1>7. CrawledIsQueued'
    BY <1>4, <1>5 DEF CrawlInv, CrawledIsQueued
  <1>. QED
    BY <1>1, <1>2, <1>3, <1>4, <1>6, <1>7, SyncsMove

LEMMA StopPreserves ==
    ASSUME CrawlerAssumption, CrawlInv, Stop
    PROVE  CrawlInv'
  <1>1. ProcessTypes'
    <2>1. troubles' \in 0..TroubleLimit
      BY CrawlConstants DEF Stop, Trouble, CrawlInv, CrawlTypeOK, ProcessTypes
    <2>. QED
      BY <2>1, Zenon DEF Stop, CrawlInv, CrawlTypeOK, ProcessTypes, liveVars, channelVars
  <1>2. DeepTypes' /\ gap' = 0
    BY CrawlFacts DEF Stop, Validated, CrawlInv, DeepTypes, channelVars
  <1>3. /\ SyncTypes'
        /\ \A s \in {Loop} : page'[s] = {} /\ batch'[s] = {} /\ cursor'[s] = 0
        /\ \A s \in Syncs \ {Loop} :
             /\ pc'[s] = pc[s] /\ cursor'[s] = cursor[s] /\ left'[s] = left[s]
             /\ page'[s] = page[s] /\ batch'[s] = batch[s]
    <2>1. {Loop} \in SUBSET Syncs /\ Ended({Loop}) /\ posted' = posted
      BY DEF Stop, channelVars, Syncs
    <2>. QED
      BY <2>1, EndedIs
  <1>4. unqueued' = unqueued /\ UNCHANGED <<channelVars, kept>>
    BY DEF Stop
  <1>5. forgone' = forgone \cup batch[Loop]
    BY DEF Stop
  <1>6. forgone' \subseteq Users
    BY <1>5 DEF CrawlInv, CrawlTypeOK, SyncTypes, Syncs
  <1>7. CrawledIsQueued'
    BY <1>3, <1>4, <1>5 DEF CrawlInv, CrawledIsQueued
  <1>8. \A s \in Syncs :
          \/ /\ pc'[s] = pc[s] \/ (page[s] = {} /\ batch[s] = {})
             /\ cursor'[s] = cursor[s] /\ left'[s] = left[s]
             /\ page'[s] = page[s] /\ batch'[s] = batch[s]
          \/ /\ page'[s] = {} /\ batch'[s] = {}
             /\ cursor'[s] = 0 \/ cursor'[s] <= Top(kept)
    BY <1>3
  <1>. QED
    BY <1>1, <1>2, <1>3, <1>4, <1>6, <1>7, <1>8, SyncsMove

\* A backfill queues what is left of its batch; a sync that asks or resumes has none.
LEMMA FinishPreserves ==
    ASSUME CrawlerAssumption, CrawlInv, NEW s \in Syncs, Finish(s),
           UNCHANGED <<channelVars, kept, deepVars, forgone>>, ProcessTypes'
    PROVE  CrawlInv'
  <1>1. /\ SyncTypes'
        /\ page'[s] = {} /\ batch'[s] = {} /\ cursor'[s] = 0
        /\ \A z \in Syncs \ {s} :
             /\ pc'[z] = pc[z] /\ cursor'[z] = cursor[z] /\ left'[z] = left[z]
             /\ page'[z] = page[z] /\ batch'[z] = batch[z]
    <2>1. {s} \in SUBSET Syncs /\ Ended({s}) /\ posted' = posted
      BY DEF Finish, channelVars
    <2>. QED
      BY <2>1, EndedIs
  <1>2. DeepTypes' /\ gap' = gap
    BY DEF CrawlInv, CrawlTypeOK, DeepTypes, Times, channelVars, deepVars
  <1>3. unqueued' = unqueued \ batch[s] /\ forgone' \subseteq Users
    BY DEF Finish, CrawlInv, CrawlTypeOK
  <1>4. CrawledIsQueued'
    BY <1>1, <1>3 DEF CrawlInv, CrawledIsQueued
  <1>5. \A z \in Syncs :
          \/ /\ pc'[z] = pc[z] \/ (page[z] = {} /\ batch[z] = {})
             /\ cursor'[z] = cursor[z] /\ left'[z] = left[z]
             /\ page'[z] = page[z] /\ batch'[z] = batch[z]
          \/ /\ page'[z] = {} /\ batch'[z] = {}
             /\ cursor'[z] = 0 \/ cursor'[z] <= Top(kept)
    BY <1>1
  <1>. QED
    BY <1>1, <1>2, <1>3, <1>4, <1>5, SyncsMove

LEMMA RequestFailsPreserves ==
    ASSUME CrawlerAssumption, CrawlInv, NEW s \in Syncs, RequestFails(s)
    PROVE  CrawlInv'
  <1>1. troubles' \in 0..TroubleLimit
    BY CrawlConstants DEF RequestFails, Trouble, CrawlInv, CrawlTypeOK, ProcessTypes
  <1>2. ProcessTypes'
    BY <1>1, Zenon DEF RequestFails, CrawlInv, CrawlTypeOK, ProcessTypes, liveVars, channelVars
  <1>3. UNCHANGED <<channelVars, kept, deepVars, forgone>>
    BY DEF RequestFails
  <1>4. CASE Finish(s)
    BY <1>2, <1>3, <1>4, FinishPreserves
  <1>5. CASE UNCHANGED <<syncVars, unqueued>>
    <2>1. DeepTypes' /\ gap' <= Top(kept) /\ deleted' \subseteq 1..posted
      BY <1>3 DEF CrawlInv, CrawlTypeOK, ChannelTypes, DeepTypes, Times, channelVars, deepVars
    <2>. QED
      BY <1>2, <1>3, <1>5, <2>1, StoreStands DEF channelVars
  <1>. QED
    BY <1>4, <1>5 DEF RequestFails

LEMMA AskPreserves ==
    ASSUME CrawlerAssumption, CrawlInv, NEW s \in Syncs, Ask(s)
    PROVE  CrawlInv'
  <1>1. /\ UNCHANGED <<channelVars, kept, cursor, left, page, batch, gap, around, unqueued, forgone>>
        /\ UNCHANGED <<up, running, arriving, recent, started, troubles>>
    BY DEF Ask, deepVars, liveVars
  <1>2. ProcessTypes' /\ DeepTypes'
    BY <1>1, Zenon DEF CrawlInv, CrawlTypeOK, ProcessTypes, DeepTypes, Times, channelVars
  <1>3. Top(Visible) \in 0..posted
    <2>1. posted \in Nat /\ Visible \in SUBSET (0..posted)
      BY CrawlFacts DEF CrawlInv
    <2>. QED
      BY <2>1, TopIs
  <1>4. SyncTypes'
    BY <1>1, <1>3 DEF Ask, CrawlInv, CrawlTypeOK, SyncTypes, channelVars
  <1>5. page[s] = {} /\ batch[s] = {}
    BY DEF Ask, CrawlInv, SyncSound, InHand
  <1>6. \A z \in Syncs : pc'[z] = pc[z] \/ (page[z] = {} /\ batch[z] = {})
    BY <1>5 DEF Ask, CrawlInv, CrawlTypeOK, SyncTypes
  <1>7. CrawledIsQueued' /\ forgone' \subseteq Users
    BY <1>1 DEF CrawlInv, CrawledIsQueued, CrawlTypeOK
  <1>. QED
    BY <1>1, <1>2, <1>4, <1>6, <1>7, SyncsMove

\* A sync that has nothing in hand begins to read, no further on than the newest row.
LEMMA StartReadingPreserves ==
    ASSUME CrawlerAssumption, CrawlInv, NEW s \in Syncs,
           NEW how \in {"resume", "full"}, NEW from \in {0, Moment(Top(kept))}, NEW limit \in {Page, Cap},
           pc[s] # "full", StartReading(s, how, from, limit),
           UNCHANGED <<channelVars, up, running, kept, liveVars, deepVars, unqueued, troubles, forgone>>
    PROVE  CrawlInv'
  <1>0. page[s] = {} /\ batch[s] = {}
    BY DEF CrawlInv, SyncSound, InHand
  <1>1. /\ UNCHANGED <<channelVars, kept, page, batch, gap, around, unqueued, forgone>>
        /\ UNCHANGED <<up, running, arriving, recent, started, troubles>>
    BY DEF StartReading, deepVars, liveVars
  <1>2. ProcessTypes' /\ DeepTypes'
    BY <1>1, Zenon DEF CrawlInv, CrawlTypeOK, ProcessTypes, DeepTypes, Times, channelVars
  <1>3. SyncTypes'
    <2>1. posted \in Nat /\ from \in 0..(2 * posted + 1) /\ limit \in 0..Cap
      BY CrawlFacts, MomentIs, CrawlConstants DEF CrawlInv
    <2>2. SyncTypes /\ posted' = posted
      BY <1>1 DEF CrawlInv, CrawlTypeOK, channelVars
    <2>3. pc' \in [Syncs -> {"idle", "compare", "resume", "full"}]
      BY <2>2 DEF StartReading, SyncTypes
    <2>4. newest' \in [Syncs -> 0..posted'] /\ cursor' \in [Syncs -> 0..(2 * posted' + 1)]
      BY <2>1, <2>2 DEF StartReading, SyncTypes
    <2>5. left' \in [Syncs -> 0..Cap]
      BY <2>1, <2>2 DEF StartReading, SyncTypes
    <2>. QED
      BY <1>1, <2>2, <2>3, <2>4, <2>5 DEF SyncTypes
  <1>4. \A z \in Syncs :
          \/ /\ pc'[z] = pc[z] \/ (page[z] = {} /\ batch[z] = {})
             /\ cursor'[z] = cursor[z] /\ left'[z] = left[z]
             /\ page'[z] = page[z] /\ batch'[z] = batch[z]
          \/ /\ page'[z] = {} /\ batch'[z] = {}
             /\ cursor'[z] = 0 \/ cursor'[z] <= Top(kept)
    <2>1. cursor'[s] = from /\ page'[s] = {} /\ batch'[s] = {}
      BY <1>0, <1>1 DEF StartReading, CrawlInv, CrawlTypeOK, SyncTypes
    <2>2. from = 0 \/ from <= Top(kept)
      BY CrawlFacts, MomentIs DEF CrawlInv
    <2>3. \A z \in Syncs \ {s} : pc'[z] = pc[z] /\ cursor'[z] = cursor[z] /\ left'[z] = left[z]
      BY DEF StartReading, CrawlInv, CrawlTypeOK, SyncTypes
    <2>. QED
      BY <1>1, <2>1, <2>2, <2>3
  <1>5. CrawledIsQueued' /\ forgone' \subseteq Users
    BY <1>1 DEF CrawlInv, CrawledIsQueued, CrawlTypeOK
  <1>. QED
    BY <1>1, <1>2, <1>3, <1>4, <1>5, SyncsMove

LEMMA ForceBackfillPreserves ==
    ASSUME CrawlerAssumption, CrawlInv, ForceBackfill
    PROVE  CrawlInv'
  <1>1. Panel \in Syncs /\ pc[Panel] # "full"
    BY DEF ForceBackfill, Syncs
  <1>. QED
    BY <1>1, StartReadingPreserves DEF ForceBackfill

LEMMA ComparePreserves ==
    ASSUME CrawlerAssumption, CrawlInv, NEW s \in Syncs, Compare(s)
    PROVE  CrawlInv'
  <1>1. pc[s] # "full"
    BY DEF Compare
  <1>2. CASE Ended({s})
    <2>1. batch[s] = {}
      BY <1>1 DEF CrawlInv, SyncSound, InHand
    <2>2. Finish(s)
      BY <1>2, <2>1 DEF Compare, Finish
    <2>3. ProcessTypes'
      BY Zenon DEF Compare, CrawlInv, CrawlTypeOK, ProcessTypes, channelVars, liveVars
    <2>. QED
      BY <2>2, <2>3, FinishPreserves DEF Compare
  <1>3. CASE StartReading(s, "full", 0, Cap)
    BY <1>1, <1>3, StartReadingPreserves DEF Compare
  <1>4. CASE StartReading(s, "resume", Moment(Top(kept)), Page)
    BY <1>1, <1>4, StartReadingPreserves DEF Compare
  <1>. QED
    BY <1>2, <1>3, <1>4 DEF Compare

LEMMA PostingPreserves ==
    ASSUME CrawlerAssumption, CrawlInv, UserPosts \/ BotPosts \/ OtherBotPosts
    PROVE  CrawlInv'
  <1>. SUFFICES /\ posted + 1 \in Messages /\ posted' = posted + 1
                /\ UNCHANGED <<answered, deleted, up, running, kept, recent, started, syncVars,
                               deepVars, unqueued, troubles, forgone>>
                /\ arriving' \subseteq arriving \cup ({posted + 1} \cap (Users \cup Replies))
    BY Posted
  <1>1. CASE UserPosts
    BY <1>1 DEF UserPosts, Users
  <1>2. CASE BotPosts
    BY <1>2 DEF BotPosts, CrawlerAssumption
  <1>3. CASE OtherBotPosts
    BY <1>3 DEF OtherBotPosts, CrawlerAssumption, liveVars
  <1>. QED
    BY <1>1, <1>2, <1>3

LEMMA DeletePreserves ==
    ASSUME CrawlerAssumption, CrawlInv, NEW m, Delete(m)
    PROVE  CrawlInv'
  <1>1. deleted \subseteq deleted' /\ deleted' \subseteq 1..posted
    BY DEF Delete, Visible, CrawlInv, CrawlTypeOK, ChannelTypes
  <1>2. troubles' \in 0..TroubleLimit
    BY CrawlConstants DEF Delete, Trouble, CrawlInv, CrawlTypeOK, ProcessTypes
  <1>3. ProcessTypes' /\ DeepTypes' /\ gap' <= Top(kept)
    BY <1>2, Zenon
    DEF Delete, CrawlInv, CrawlTypeOK, ProcessTypes, DeepTypes, Times, liveVars, deepVars
  <1>. QED
    BY <1>1, <1>3, StoreStands DEF Delete

\* The process starts, its crawler is started, or the start-up task reads the channel.
LEMMA StartingPreserves ==
    ASSUME CrawlerAssumption, CrawlInv, Boot \/ Start \/ ReadRecent
    PROVE  CrawlInv'
  <1>1. UNCHANGED <<channelVars, kept, syncVars, deepVars, unqueued, troubles, forgone, arriving>>
    BY DEF Boot, Start, ReadRecent, liveVars
  <1>2. recent' \subseteq 1..posted
    BY CrawlFacts DEF Boot, Start, ReadRecent, liveVars, LastOf, CrawlInv, CrawlTypeOK, ProcessTypes
  <1>3. up' \in BOOLEAN /\ running' \in BOOLEAN /\ started' \in BOOLEAN
    BY Zenon DEF Boot, Start, ReadRecent, liveVars, CrawlInv, CrawlTypeOK, ProcessTypes
  <1>4. ProcessTypes' /\ DeepTypes' /\ gap' <= Top(kept)
    BY <1>1, <1>2, <1>3, Zenon
    DEF CrawlInv, CrawlTypeOK, ProcessTypes, DeepTypes, Times, channelVars, deepVars
  <1>5. deleted \subseteq deleted' /\ deleted' \subseteq 1..posted
    BY <1>1 DEF channelVars, CrawlInv, CrawlTypeOK, ChannelTypes
  <1>. QED
    BY <1>1, <1>4, <1>5, StoreStands DEF channelVars

LEMMA ValidatePreserves ==
    ASSUME CrawlerAssumption, CrawlInv, Validate \/ Fetched
    PROVE  CrawlInv'
  <1>1. UNCHANGED <<channelVars, kept, up, running, liveVars, syncVars, unqueued, forgone>>
    BY DEF Validate, Fetched
  <1>2. troubles' \in 0..TroubleLimit
    BY CrawlConstants DEF Validate, Fetched, Trouble, CrawlInv, CrawlTypeOK, ProcessTypes
  <1>3. ProcessTypes'
    BY <1>1, <1>2, Zenon DEF CrawlInv, CrawlTypeOK, ProcessTypes, channelVars, liveVars
  <1>4. gap' \in {0} \cup Times /\ gap' <= Top(kept)
    <2>1. CASE Validate
      <3>1. kept \subseteq Times
        BY DEF CrawlInv, CrawlTypeOK, StoreTypes
      <3>. QED
        BY <2>1, <3>1, CrawlFacts DEF Validate, Checkpoints, CrawlInv
    <2>2. CASE Fetched
      BY <2>2, CrawlFacts DEF Fetched, Validated, CrawlInv, CrawlTypeOK, DeepTypes
    <2>. QED
      BY <2>1, <2>2
  <1>5. around' \in {"fetch", "before", "after"}
    BY DEF Validate, Fetched, Validated
  <1>6. DeepTypes'
    BY <1>1, <1>4, <1>5 DEF DeepTypes, Times, channelVars
  <1>7. deleted \subseteq deleted' /\ deleted' \subseteq 1..posted
    BY <1>1 DEF channelVars, CrawlInv, CrawlTypeOK, ChannelTypes
  <1>. QED
    BY <1>1, <1>3, <1>4, <1>6, <1>7, StoreStands DEF channelVars

-----------------------------------------------------------------------------
(* Steps that store *)

LEMMA LiveStorePreserves ==
    ASSUME CrawlerAssumption, CrawlInv, NEW m, LiveStore(m)
    PROVE  CrawlInv'
  <1>. DEFINE u == {IF m \in Replies THEN 2 * (posted + Lead) + 1 ELSE 2 * m}
  <1>1. UNCHANGED <<channelVars, up, running, recent, started, syncVars, deepVars, unqueued, troubles, forgone>>
    BY DEF LiveStore
  <1>2. posted \in Nat /\ m \in 1..posted /\ m \in Users \cup Replies
    BY CrawlFacts DEF LiveStore, CrawlInv, CrawlTypeOK, ProcessTypes
  <1>3. u \subseteq Times
    <2>1. CASE m \in Replies
      <3>1. posted \in 0..posted
        BY <1>2
      <3>. QED
        BY <2>1, <3>1 DEF Times
    <2>2. CASE m \notin Replies
      <3>1. {m} \subseteq (1..posted) \cap Users
        BY <1>2, <2>2
      <3>2. Rows({m}) \subseteq Times
        BY <1>2, <3>1, RowsAreTimes
      <3>. QED
        BY <2>2, <3>2 DEF Rows
    <2>. QED
      BY <2>1, <2>2
  <1>4. arriving' \subseteq (1..posted') \cap (Users \cup Replies)
    BY <1>1 DEF LiveStore, CrawlInv, CrawlTypeOK, ProcessTypes, channelVars
  <1>5. ProcessTypes' /\ DeepTypes' /\ gap' \in {0, gap}
    BY <1>1, <1>4, Zenon
    DEF CrawlInv, CrawlTypeOK, ProcessTypes, DeepTypes, Times, channelVars, deepVars
  <1>6. kept' = Stored(u)
    BY DEF LiveStore
  <1>. HIDE DEF u
  <1>. QED
    BY <1>1, <1>3, <1>5, <1>6, StoreGrows

LEMMA StoreRecentPreserves ==
    ASSUME CrawlerAssumption, CrawlInv, StoreRecent
    PROVE  CrawlInv'
  <1>1. UNCHANGED <<channelVars, up, running, arriving, started, syncVars, deepVars, unqueued, troubles, forgone>>
    BY DEF StoreRecent
  <1>2. PICK m \in recent : /\ kept' = Stored(Rows({n \in recent : n >= m} \cap Users))
                            /\ recent' = {n \in recent : n < m}
    BY DEF StoreRecent
  <1>. DEFINE u == Rows({n \in recent : n >= m} \cap Users)
  <1>3. posted \in Nat /\ {n \in recent : n >= m} \cap Users \subseteq (1..posted) \cap Users
    BY CrawlFacts DEF CrawlInv, CrawlTypeOK, ProcessTypes
  <1>4. u \subseteq Times
    BY <1>3, RowsAreTimes
  <1>5. recent' \subseteq 1..posted'
    BY <1>1, <1>2 DEF CrawlInv, CrawlTypeOK, ProcessTypes, channelVars
  <1>6. ProcessTypes' /\ DeepTypes' /\ gap' \in {0, gap}
    BY <1>1, <1>5, Zenon
    DEF CrawlInv, CrawlTypeOK, ProcessTypes, DeepTypes, Times, channelVars, deepVars
  <1>7. kept' = Stored(u)
    BY <1>2
  <1>. HIDE DEF u
  <1>. QED
    BY <1>1, <1>4, <1>6, <1>7, StoreGrows

LEMMA FillPreserves ==
    ASSUME CrawlerAssumption, CrawlInv, FillBefore \/ FillAfter
    PROVE  CrawlInv'
  <1>1. UNCHANGED <<channelVars, up, running, liveVars, syncVars, unqueued, troubles, forgone>>
    BY DEF FillBefore, FillAfter
  <1>2. PICK ms \in SUBSET Visible : kept' = Stored(Rows(ms \cap Users))
    BY DEF FillBefore, FillAfter, LastOf, First
  <1>. DEFINE u == Rows(ms \cap Users)
  <1>3. posted \in Nat /\ ms \cap Users \subseteq (1..posted) \cap Users
    BY CrawlFacts DEF CrawlInv
  <1>4. u \subseteq Times
    BY <1>3, RowsAreTimes
  <1>5. ProcessTypes'
    BY <1>1, Zenon DEF CrawlInv, CrawlTypeOK, ProcessTypes, channelVars, liveVars
  <1>6. gap' \in {0, gap} /\ DeepTypes'
    BY <1>1 DEF FillBefore, FillAfter, Validated, CrawlInv, CrawlTypeOK, DeepTypes, Times, channelVars
  <1>7. kept' = Stored(u)
    BY <1>2
  <1>. HIDE DEF u
  <1>. QED
    BY <1>1, <1>4, <1>5, <1>6, <1>7, StoreGrows

\* What Discord answers: no more than may be asked for, and the oldest of what is ahead.
LEMMA AnswersAre ==
    ASSUME CrawlerAssumption, CrawlInv, NEW s \in Syncs
    PROVE  /\ Answers(s) \subseteq Visible
           /\ IsFiniteSet(Answers(s)) /\ Cardinality(Answers(s)) \in Nat
           /\ Cardinality(Answers(s)) <= left[s] /\ Cardinality(Answers(s)) <= Cap
           /\ \A m \in Answers(s) : 2 * m > cursor[s]
           /\ \A w \in Answers(s), m \in Visible : 2 * m > cursor[s] /\ m < w => m \in Answers(s)
  <1>. DEFINE k == IF left[s] < Page THEN left[s] ELSE Page
              ahead == {m \in Visible : 2 * m > cursor[s]}
  <1>1. left[s] \in Nat /\ k \in Nat /\ k <= left[s] /\ k <= Cap /\ Cap \in Nat
    BY CrawlConstants DEF CrawlInv, CrawlTypeOK, SyncTypes
  <1>2. posted \in Nat /\ ahead \in SUBSET (0..posted)
    BY CrawlFacts DEF CrawlInv
  <1>3. Answers(s) = First(k, ahead)
    BY DEF Answers
  <1>4. First(k, ahead) \subseteq ahead
    BY DEF First
  <1>. HIDE DEF k
  <1>5. /\ IsFiniteSet(First(k, ahead)) /\ Cardinality(First(k, ahead)) <= k
        /\ \A w \in First(k, ahead), m \in ahead : m < w => m \in First(k, ahead)
    <2>. HIDE DEF ahead
    <2>. QED
      BY <1>1, <1>2, FirstBounded, FirstIsClosed
  <1>6. Cardinality(Answers(s)) \in Nat
    BY <1>3, <1>5, FS_CardinalityType
  <1>7. /\ Answers(s) \subseteq Visible /\ \A m \in Answers(s) : 2 * m > cursor[s]
        /\ \A w \in Answers(s), m \in Visible : 2 * m > cursor[s] /\ m < w => m \in Answers(s)
    BY <1>3, <1>4, <1>5
  <1>8. Cardinality(Answers(s)) <= left[s] /\ Cardinality(Answers(s)) <= Cap
    BY <1>1, <1>3, <1>5, <1>6
  <1>. QED
    BY <1>3, <1>5, <1>6, <1>7, <1>8

\* A resumed sync gives up what it does not queue.
LEMMA ResumedOrForgone ==
    ASSUME NEW u, NEW m \in u
    PROVE  m \in Resumed(u) \cup Unsorted(u)
  <1>1. m \in BatchOf(m, u) /\ BatchOf(m, u) \in BatchesOf(u)
    BY DEF BatchOf, BatchesOf
  <1>. DEFINE b == BatchOf(m, u)
  <1>2. CASE Unsortable(b, RowsAt(b, u))
    BY <1>1, <1>2 DEF Unsorted
  <1>3. CASE ~Unsortable(b, RowsAt(b, u))
    <2>1. m \in QueuedWithContext(b, RowsAt(b, u))
      BY <1>1, <1>3 DEF QueuedWithContext
    <2>. QED
      BY <1>1, <2>1 DEF Resumed
  <1>. QED
    BY <1>2, <1>3

LEMMA ResumePreserves ==
    ASSUME CrawlerAssumption, CrawlInv, NEW s \in Syncs, Resume(s)
    PROVE  CrawlInv'
  <1>. DEFINE u == Answers(s) \cap Users
  <1>1. UNCHANGED <<channelVars, up, running, liveVars, deepVars, troubles>>
    BY DEF Resume
  <1>2. /\ kept' = Stored(Rows(u))
        /\ unqueued' = (unqueued \cup u) \ Resumed(u)
        /\ forgone' = forgone \cup Unsorted(u)
        /\ Ended({s})
    BY DEF Resume
  <1>3. posted \in Nat /\ u \subseteq (1..posted) \cap Users
    BY AnswersAre, CrawlFacts DEF CrawlInv
  <1>4. Unsorted(u) \subseteq u
    BY DEF Unsorted, BatchesOf, BatchOf
  <1>5. \A m \in u : m \in Resumed(u) \cup Unsorted(u)
    BY ResumedOrForgone
  <1>6. Rows(u) \subseteq Times
    BY <1>3, RowsAreTimes
  <1>. HIDE DEF u
  <1>7. /\ kept' \subseteq Times /\ Cardinality(kept') <= Cap
        /\ Top(kept) <= Top(kept') /\ Top(kept) \in Nat /\ Top(kept') \in Nat
    BY <1>2, <1>3, <1>6, StoredTypes DEF CrawlInv
  <1>8. /\ SyncTypes'
        /\ page'[s] = {} /\ batch'[s] = {} /\ cursor'[s] = 0
        /\ \A z \in Syncs \ {s} :
             /\ pc'[z] = pc[z] /\ cursor'[z] = cursor[z] /\ left'[z] = left[z]
             /\ page'[z] = page[z] /\ batch'[z] = batch[z]
    BY <1>1, <1>2, EndedIs DEF channelVars
  <1>9. CrawlTypeOK'
    <2>1. ChannelTypes' /\ ProcessTypes' /\ DeepTypes'
      BY <1>1, Zenon
      DEF CrawlInv, CrawlTypeOK, ChannelTypes, ProcessTypes, DeepTypes, Times, channelVars, liveVars, deepVars
    <2>2. StoreTypes'
      BY <1>1, <1>7 DEF StoreTypes, Times, channelVars
    <2>3. unqueued' \subseteq Users /\ forgone' \subseteq Users
      BY <1>2, <1>3, <1>4 DEF CrawlInv, CrawlTypeOK
    <2>. QED
      BY <1>8, <2>1, <2>2, <2>3 DEF CrawlTypeOK
  <1>10. gap' <= Top(kept')
    <2>1. gap \in Nat /\ gap <= Top(kept) /\ gap' = gap
      BY <1>1, GapIs DEF deepVars
    <2>. QED
      BY <1>7, <2>1
  <1>11. ASSUME NEW z \in Syncs
         PROVE  SyncSound(z)'
    <2>1. CASE z = s
      <3>1. pc'[s] \in {"idle", "compare", "resume", "full"} /\ left'[s] \in Nat
        BY <1>8, CrawlConstants DEF SyncTypes
      <3>. QED
        BY <1>8, <1>9, <2>1, <3>1, NothingInHand
    <2>2. CASE z # s
      <3>1. \A m \in Visible' : m \in Nat /\ (m \in Visible \/ m > posted)
        BY <1>1, CrawlFacts DEF Visible, channelVars, CrawlInv
      <3>. QED
        BY <1>7, <1>8, <2>2, <3>1, OthersMove DEF CrawlInv
    <2>. QED
      BY <2>1, <2>2
  <1>12. CrawledIsQueued'
    <2>1. batch[s] = {}
      BY DEF Resume, CrawlInv, SyncSound, InHand
    <2>2. UNION {batch[z] : z \in Syncs} \subseteq UNION {batch'[z] : z \in Syncs}
      BY <1>8, <2>1
    <2>3. ASSUME NEW m \in unqueued'
          PROVE  m \in forgone' \cup UNION {batch'[z] : z \in Syncs}
      <3>1. CASE m \in u
        BY <1>2, <1>5, <2>3, <3>1
      <3>2. CASE m \in unqueued
        BY <1>2, <2>2, <3>2 DEF CrawlInv, CrawledIsQueued
      <3>. QED
        BY <1>2, <2>3, <3>1, <3>2
    <2>. QED
      BY <2>3 DEF CrawledIsQueued
  <1>. QED
    BY <1>9, <1>10, <1>11, <1>12 DEF CrawlInv

\* What a backfill works through next.
LEMMA AheadIs ==
    ASSUME CrawlerAssumption, CrawlInv, NEW s \in Syncs
    PROVE  /\ Ahead(s) \subseteq 1..posted
           /\ IsFiniteSet(Ahead(s)) /\ Cardinality(Ahead(s)) \in Nat
           /\ Cardinality(Ahead(s)) <= left[s]
           /\ \A m \in Ahead(s) : 2 * m > cursor[s]
           /\ \A w \in Ahead(s), m \in Visible : 2 * m > cursor[s] /\ m < w => m \in Ahead(s)
  <1>1. CASE page[s] = {}
    BY <1>1, AnswersAre, CrawlFacts DEF Ahead, CrawlInv
  <1>2. CASE page[s] # {}
    <2>1. posted \in Nat /\ page[s] \subseteq 1..posted
      BY CrawlFacts DEF CrawlInv, CrawlTypeOK, SyncTypes
    <2>2. page[s] \subseteq 0..posted
      BY <2>1
    <2>3. IsFiniteSet(page[s]) /\ Cardinality(page[s]) \in Nat
      BY <2>1, <2>2, FiniteRange
    <2>. QED
      BY <1>2, <2>1, <2>3 DEF Ahead, CrawlInv, SyncSound, PageAhead
  <1>. QED
    BY <1>1, <1>2

\* A batch that is not full takes the oldest message, and leaves none behind.
LEMMA TakenIs ==
    ASSUME CrawlerAssumption, CrawlInv, NEW s \in Syncs, Ahead(s) # {}
    PROVE  /\ Taken(s) \subseteq Ahead(s)
           /\ IsFiniteSet(Taken(s)) /\ Cardinality(Taken(s)) \in Nat
           /\ Cardinality(Taken(s)) <= Cardinality(Ahead(s))
           /\ Max(Taken(s)) \in Taken(s)
           /\ \A m \in Taken(s) : m <= Max(Taken(s))
           /\ \A w \in Taken(s), m \in Ahead(s) : m < w => m \in Taken(s)
  <1>. DEFINE us == Ahead(s) \cap Users
              room == Batch - Cardinality(batch[s])
  <1>1. /\ posted \in Nat /\ Ahead(s) \subseteq 1..posted
        /\ IsFiniteSet(Ahead(s)) /\ Cardinality(Ahead(s)) \in Nat
    BY AheadIs, CrawlFacts DEF CrawlInv
  <1>2. IsFiniteSet(batch[s]) /\ Cardinality(batch[s]) \in Nat /\ Batch \in Nat
    <2>1. Last \in Nat /\ batch[s] \subseteq 0..Last
      BY CrawlConstants DEF CrawlInv, CrawlTypeOK, SyncTypes, Messages
    <2>. QED
      BY <2>1, FiniteRange, CrawlConstants
  <1>3. room \in Nat \ {0}
    BY <1>2 DEF CrawlInv, SyncSound, InHand
  <1>4. us \subseteq Ahead(s) /\ IsFiniteSet(us)
    BY <1>1, FiniteSubset
  <1>. HIDE DEF us
  <1>5. Taken(s) = {m \in Ahead(s) : Rank(m, us) < room}
    BY DEF Taken, us
  <1>. HIDE DEF room
  <1>6. Taken(s) \subseteq Ahead(s)
    BY <1>5
  <1>7. ASSUME NEW w \in Taken(s), NEW m \in Ahead(s), m < w
        PROVE  m \in Taken(s)
    <2>1. m \in Nat /\ w \in Nat /\ us \subseteq Nat
      BY <1>1, <1>4, <1>6
    <2>2. Rank(m, us) \in Nat /\ Rank(w, us) \in Nat /\ Rank(m, us) <= Rank(w, us)
      BY <1>4, <1>7, <2>1, OlderComesFirst DEF Rank
    <2>3. Rank(w, us) < room
      BY <1>5
    <2>4. Rank(m, us) < room
      BY <1>3, <2>2, <2>3
    <2>. QED
      BY <1>5, <2>4
  <1>8. IsFiniteSet(Taken(s)) /\ Cardinality(Taken(s)) \in Nat /\ Cardinality(Taken(s)) <= Cardinality(Ahead(s))
    BY <1>1, <1>6, FiniteSubset
  <1>9. Taken(s) # {}
    <2>1. Ahead(s) \in SUBSET Nat
      BY <1>1
    <2>2. PICK m \in Ahead(s) : \A x \in Ahead(s) : m <= x
      BY <2>1, NatWellFounded
    <2>3. {n \in us : n < m} = {}
      <3>1. \A n \in us : m <= n /\ m \in Nat /\ n \in Nat
        BY <1>4, <2>1, <2>2
      <3>. QED
        BY <3>1
    <2>4. Rank(m, us) = 0
      BY <2>3, FS_EmptySet DEF Rank
    <2>. QED
      BY <1>3, <1>5, <2>4
  <1>10. Max(Taken(s)) \in Taken(s) /\ \A x \in Taken(s) : x <= Max(Taken(s))
    <2>1. Taken(s) \in SUBSET Nat /\ \A x \in Taken(s) : x <= posted
      BY <1>1, <1>6
    <2>. QED
      BY <1>1, <1>9, <2>1, MaxIs
  <1>. QED
    BY <1>6, <1>7, <1>8, <1>10

LEMMA BackfillPreserves ==
    ASSUME CrawlerAssumption, CrawlInv, NEW s \in Syncs, Backfill(s)
    PROVE  CrawlInv'
  <1>1. UNCHANGED <<channelVars, up, running, liveVars, deepVars, troubles, forgone>>
    BY DEF Backfill
  <1>2. ChannelTypes' /\ ProcessTypes' /\ DeepTypes'
    BY <1>1, Zenon
    DEF CrawlInv, CrawlTypeOK, ChannelTypes, ProcessTypes, DeepTypes, Times, channelVars, liveVars, deepVars
  <1>3. CASE Ahead(s) = {}
    BY <1>1, <1>2, <1>3, FinishPreserves DEF Backfill
  <1>4. CASE Ahead(s) # {}
    <2>. DEFINE stored == Taken(s) \cap Users
                full == batch[s] \cup stored
                w == Max(Taken(s))
    <2>1. /\ kept' = Stored(Rows(stored))
          /\ page' = [page EXCEPT ![s] = Ahead(s) \ Taken(s)]
          /\ cursor' = [cursor EXCEPT ![s] = 2 * w]
          /\ left' = [left EXCEPT ![s] = left[s] - Cardinality(Taken(s))]
          /\ batch' = [batch EXCEPT ![s] = IF Cardinality(full) >= Batch THEN {} ELSE full]
          /\ unqueued' = IF Cardinality(full) >= Batch THEN unqueued \ full ELSE unqueued \cup stored
          /\ pc' = pc /\ newest' = newest
      BY <1>4 DEF Backfill
    <2>2. /\ Ahead(s) \subseteq 1..posted
          /\ IsFiniteSet(Ahead(s)) /\ Cardinality(Ahead(s)) \in Nat
          /\ Cardinality(Ahead(s)) <= left[s]
          /\ \A m \in Ahead(s) : 2 * m > cursor[s]
          /\ \A x \in Ahead(s), m \in Visible : 2 * m > cursor[s] /\ m < x => m \in Ahead(s)
      BY AheadIs
    <2>3. /\ Taken(s) \subseteq Ahead(s)
          /\ IsFiniteSet(Taken(s)) /\ Cardinality(Taken(s)) \in Nat
          /\ Cardinality(Taken(s)) <= Cardinality(Ahead(s))
          /\ w \in Taken(s)
          /\ \A m \in Taken(s) : m <= w
          /\ \A x \in Taken(s), m \in Ahead(s) : m < x => m \in Taken(s)
      BY <1>4, TakenIs
    <2>4. /\ posted \in Nat /\ posted <= Last /\ Last \in Nat /\ Cap \in Nat /\ Batch \in Nat \ {0}
          /\ Visible \subseteq 1..posted
          /\ SyncTypes /\ CrawlTypeOK /\ SyncSound(s)
      BY CrawlFacts, CrawlConstants DEF CrawlInv, CrawlTypeOK
    <2>5. /\ page'[s] = Ahead(s) \ Taken(s) /\ cursor'[s] = 2 * w
          /\ left'[s] = left[s] - Cardinality(Taken(s))
          /\ batch'[s] = IF Cardinality(full) >= Batch THEN {} ELSE full
          /\ \A z \in Syncs \ {s} :
               /\ pc'[z] = pc[z] /\ cursor'[z] = cursor[z] /\ left'[z] = left[z]
               /\ page'[z] = page[z] /\ batch'[z] = batch[z]
      BY <2>1, <2>4 DEF SyncTypes
    <2>6. w \in 1..posted
      BY <2>2, <2>3
    <2>. HIDE DEF w
    <2>7. Rows(stored) \subseteq Times
      <3>1. stored \subseteq (1..posted) \cap Users
        BY <2>2, <2>3
      <3>. HIDE DEF stored
      <3>. QED
        BY <2>4, <3>1, RowsAreTimes
    <2>8. /\ kept' \subseteq Times /\ Cardinality(kept') <= Cap
          /\ Top(kept) <= Top(kept') /\ Top(kept) \in Nat /\ Top(kept') \in Nat
          /\ \A r \in Rows(stored) : r <= Top(kept')
      <3>. HIDE DEF stored
      <3>. QED
        BY <2>1, <2>4, <2>7, StoredTypes
    <2>9. full \subseteq Users
      BY <2>4 DEF SyncTypes
    <2>10. IsFiniteSet(full) /\ Cardinality(full) \in Nat
      <3>1. full \subseteq 0..Last
        BY <2>9, <2>4, CrawlConstants DEF Messages
      <3>. HIDE DEF full
      <3>. QED
        BY <2>4, <3>1, FiniteRange
    <2>11. left'[s] \in 0..Cap /\ Cardinality(page'[s]) <= left'[s]
      <3>1. left[s] \in 0..Cap
        BY <2>4 DEF SyncTypes
      <3>2. Ahead(s) \cap Taken(s) = Taken(s)
        BY <2>3
      <3>3. Cardinality(Ahead(s) \ Taken(s)) = Cardinality(Ahead(s)) - Cardinality(Taken(s))
        BY <2>2, <3>2, FS_Difference
      <3>. QED
        BY <2>2, <2>3, <2>4, <2>5, <3>1, <3>3
    <2>12. CrawlTypeOK'
      <3>1. StoreTypes'
        BY <1>1, <2>8 DEF StoreTypes, Times, channelVars
      <3>2. SyncTypes'
        <4>1. posted' = posted
          BY <1>1 DEF channelVars
        <4>2. pc' \in [Syncs -> {"idle", "compare", "resume", "full"}] /\ newest' \in [Syncs -> 0..posted']
          BY <2>1, <2>4, <4>1 DEF SyncTypes
        <4>3. cursor' \in [Syncs -> 0..(2 * posted' + 1)]
          <5>1. 2 * w \in 0..(2 * posted + 1)
            BY <2>4, <2>6
          <5>. QED
            BY <2>1, <2>4, <4>1, <5>1 DEF SyncTypes
        <4>4. left' \in [Syncs -> 0..Cap]
          <5>1. left[s] - Cardinality(Taken(s)) \in 0..Cap
            BY <2>5, <2>11
          <5>. QED
            BY <2>1, <2>4, <5>1 DEF SyncTypes
        <4>5. page' \in [Syncs -> SUBSET (1..posted')]
          BY <2>1, <2>2, <2>4, <4>1 DEF SyncTypes
        <4>6. batch' \in [Syncs -> SUBSET Users]
          <5>. HIDE DEF full
          <5>. QED
            BY <2>1, <2>4, <2>9 DEF SyncTypes
        <4>. QED
          BY <4>2, <4>3, <4>4, <4>5, <4>6 DEF SyncTypes
      <3>3. unqueued' \subseteq Users /\ forgone' \subseteq Users
        BY <1>1, <2>1, <2>4 DEF CrawlTypeOK
      <3>. QED
        BY <1>2, <3>1, <3>2, <3>3 DEF CrawlTypeOK
    <2>13. gap' <= Top(kept')
      <3>1. gap \in Nat /\ gap <= Top(kept) /\ gap' = gap
        BY <1>1, GapIs DEF deepVars
      <3>. QED
        BY <2>8, <3>1
    <2>14. InHand(s)'
      <3>1. Cardinality(batch'[s]) < Batch
        <4>1. Cardinality({}) = 0
          BY FS_EmptySet
        <4>. HIDE DEF full
        <4>. QED
          BY <2>4, <2>5, <2>10, <4>1
      <3>2. pc'[s] = "full"
        BY <2>1 DEF Backfill
      <3>. QED
        BY <3>1, <3>2 DEF InHand
    <2>15. PageAhead(s)'
      <3>1. ASSUME NEW m \in page'[s]
            PROVE  2 * m > cursor'[s]
        <4>1. m \in Ahead(s) /\ m \notin Taken(s) /\ m \in 1..posted
          BY <2>2, <2>5, <3>1
        <4>2. ~(m < w) /\ m # w
          BY <2>3, <4>1
        <4>. QED
          BY <2>4, <2>5, <2>6, <4>1, <4>2
      <3>2. ASSUME NEW x \in page'[s], NEW m \in Visible', 2 * m > cursor'[s], m < x
            PROVE  m \in page'[s]
        <4>1. m \in Visible /\ m \in 1..posted /\ x \in Ahead(s)
          BY <1>1, <2>4, <2>5, <3>2 DEF Visible, channelVars
        <4>2. 2 * m > 2 * w /\ 2 * w > cursor[s] /\ cursor[s] \in Nat
          BY <2>2, <2>3, <2>4, <2>5, <3>2 DEF SyncTypes
        <4>3. m \in Ahead(s)
          BY <2>2, <2>6, <3>2, <4>1, <4>2
        <4>4. m \notin Taken(s)
          BY <2>3, <2>6, <4>1, <4>2
        <4>. QED
          BY <2>5, <4>3, <4>4
      <3>. QED
        BY <2>11, <3>1, <3>2 DEF PageAhead
    <2>16. ReadIsStored(s)'
      <3>1. ASSUME NEW m \in Users \cap Visible', 2 * m <= cursor'[s]
            PROVE  2 * m <= Top(kept')
        <4>1. m \in Visible /\ m \in 1..posted /\ cursor[s] \in Nat
          BY <1>1, <2>4 DEF Visible, channelVars, SyncTypes
        <4>2. CASE 2 * m <= cursor[s]
          <5>1. 2 * m <= Top(kept)
            BY <2>4, <3>1, <4>1, <4>2 DEF SyncSound, ReadIsStored
          <5>. QED
            BY <2>8, <4>1, <5>1
        <4>3. CASE ~(2 * m <= cursor[s])
          <5>1. m <= w
            BY <2>5, <2>6, <3>1, <4>1
          <5>2. m \in Ahead(s)
            <6>1. CASE m = w
              BY <2>3, <6>1
            <6>2. CASE m # w
              <7>1. m < w /\ 2 * m > cursor[s]
                BY <2>6, <4>1, <4>3, <5>1, <6>2
              <7>. QED
                BY <2>2, <2>3, <4>1, <7>1
            <6>. QED
              BY <6>1, <6>2
          <5>3. m \in Taken(s)
            BY <2>3, <2>6, <4>1, <5>1, <5>2
          <5>4. 2 * m \in Rows(stored)
            BY <3>1, <5>3 DEF Rows
          <5>. QED
            BY <2>8, <5>4
        <4>. QED
          BY <4>2, <4>3
      <3>. QED
        BY <3>1 DEF ReadIsStored
    <2>17. ASSUME NEW z \in Syncs
           PROVE  SyncSound(z)'
      <3>1. CASE z = s
        BY <2>14, <2>15, <2>16, <3>1 DEF SyncSound
      <3>2. CASE z # s
        <4>1. \A m \in Visible' : m \in Nat /\ (m \in Visible \/ m > posted)
          BY <1>1, <2>4 DEF Visible, channelVars
        <4>. HIDE DEF stored, full
        <4>. QED
          BY <2>5, <2>8, <3>2, <4>1, OthersMove DEF CrawlInv
      <3>. QED
        BY <3>1, <3>2
    <2>18. CrawledIsQueued'
      <3>1. ASSUME NEW m \in unqueued'
            PROVE  m \in forgone' \/ \E z \in Syncs : m \in batch'[z]
        <4>1. CASE m \in full
          BY <2>1, <2>5, <3>1, <4>1
        <4>2. CASE m \notin full
          <5>1. m \in unqueued
            BY <2>1, <3>1, <4>2
          <5>2. m \in forgone \/ \E z \in Syncs : m \in batch[z]
            BY <5>1 DEF CrawlInv, CrawledIsQueued
          <5>3. m \notin batch[s]
            BY <4>2
          <5>. QED
            BY <1>1, <2>5, <5>2, <5>3
        <4>. QED
          BY <4>1, <4>2
      <3>. QED
        BY <3>1 DEF CrawledIsQueued
    <2>. QED
      BY <2>12, <2>13, <2>17, <2>18 DEF CrawlInv
  <1>. QED
    BY <1>3, <1>4

-----------------------------------------------------------------------------
(* The invariant *)

LEMMA NextCrawlInv ==
    ASSUME CrawlerAssumption, CrawlInv, CrawlNext
    PROVE  CrawlInv'
  <1>1. CASE UserPosts \/ BotPosts \/ OtherBotPosts
    BY <1>1, PostingPreserves
  <1>2. CASE \E m \in Messages : Delete(m) \/ LiveStore(m)
    BY <1>2, DeletePreserves, LiveStorePreserves
  <1>3. CASE Boot \/ Start \/ ReadRecent
    BY <1>3, StartingPreserves
  <1>4. CASE Kill
    BY <1>4, KillPreserves
  <1>5. CASE Stop
    BY <1>5, StopPreserves
  <1>6. CASE StoreRecent
    BY <1>6, StoreRecentPreserves
  <1>7. CASE \E s \in Syncs : Ask(s) \/ SyncStep(s) \/ RequestFails(s)
    BY <1>7, AskPreserves, ComparePreserves, ResumePreserves, BackfillPreserves, RequestFailsPreserves
    DEF SyncStep
  <1>8. CASE ForceBackfill
    BY <1>8, ForceBackfillPreserves
  <1>9. CASE Validate \/ DeepStep
    BY <1>9, ValidatePreserves, FillPreserves DEF DeepStep
  <1>. QED
    BY <1>1, <1>2, <1>3, <1>4, <1>5, <1>6, <1>7, <1>8, <1>9 DEF CrawlNext

LEMMA StutterCrawlInv ==
    ASSUME CrawlInv, UNCHANGED crawlVars
    PROVE  CrawlInv'
  BY DEF CrawlInv, CrawlTypeOK, ChannelTypes, StoreTypes, ProcessTypes, SyncTypes, DeepTypes, Times,
         SyncSound, InHand, PageAhead, ReadIsStored, CrawledIsQueued, Visible, crawlVars, channelVars,
         liveVars, syncVars, deepVars

THEOREM CrawlerSound == CrawlSpec => []CrawlInv
  <1>. USE CrawlerAssumption
  <1>1. CrawlInit => CrawlInv
    BY InitCrawlInv
  <1>2. CrawlInv /\ [CrawlNext]_crawlVars => CrawlInv'
    BY NextCrawlInv, StutterCrawlInv
  <1>. QED
    BY <1>1, <1>2, PTL DEF CrawlSpec

THEOREM CrawlTypeCorrect == CrawlSpec => []CrawlTypeOK
  <1>1. CrawlInv => CrawlTypeOK
    BY DEF CrawlInv
  <1>. QED
    BY <1>1, CrawlerSound, PTL

THEOREM CrawledGoesOn == CrawlSpec => []CrawledIsQueued
  <1>1. CrawlInv => CrawledIsQueued
    BY DEF CrawlInv
  <1>. QED
    BY <1>1, CrawlerSound, PTL

-----------------------------------------------------------------------------
(* No step of the crawler opens a hole *)

LEMMA RowsAreFew ==
    ASSUME NEW ms, IsFiniteSet(ms)
    PROVE  /\ IsFiniteSet(Rows(ms))
           /\ Cardinality(Rows(ms)) \in Nat
           /\ Cardinality(Rows(ms)) <= Cardinality(ms)
  <1>. DEFINE f == [m \in ms |-> 2 * m]
  <1>1. f \in Surjection(ms, Rows(ms))
    BY DEF Surjection, Rows
  <1>2. IsFiniteSet(Rows(ms)) /\ Cardinality(Rows(ms)) <= Cardinality(ms)
    BY <1>1, FS_Surjection
  <1>. QED
    BY <1>2, FS_CardinalityType

\* Messages are stored together with all newer than the newest row and older than they are,
\* and are too few for the prune to take one of them.
LEMMA StoresNoHole ==
    ASSUME CrawlerAssumption, CrawlInv, UNCHANGED channelVars,
           NEW ms, ms \subseteq 1..posted, IsFiniteSet(ms), Cardinality(ms) <= Cap,
           kept' = Stored(Rows(ms \cap Users)),
           \A w \in ms, m \in Users \cap Visible : m < w /\ 2 * m > Top(kept) => m \in ms
    PROVE  \A m \in Holes' \ Holes : 2 * m \in kept
  <1>. DEFINE us == ms \cap Users
  <1>1. /\ posted \in Nat /\ Visible \subseteq 1..posted /\ Visible' = Visible
        /\ Cap \in Nat \ {0}
        /\ Lead \in Nat /\ Top(kept) \in Nat /\ kept \subseteq Times /\ kept \subseteq Nat
        /\ \A r \in kept : r <= Top(kept)
        /\ kept # {} => Top(kept) \in kept
    BY CrawlFacts, CrawlConstants DEF CrawlInv, CrawlTypeOK, StoreTypes, Visible, channelVars
  <1>2. us \subseteq (1..posted) \cap Users
    OBVIOUS
  <1>3. Rows(us) \subseteq Times
    <2>. HIDE DEF us
    <2>. QED
      BY <1>1, <1>2, RowsAreTimes
  <1>4. kept' = LastOf(Cap, kept \cup Rows(us))
    BY DEF Stored
  <1>5. kept' \subseteq kept \cup Rows(us)
    BY <1>4 DEF LastOf
  <1>6. /\ Top(kept') \in Nat
        /\ kept' # {} => Top(kept') \in kept'
        /\ kept' = {} => Top(kept') = 0
    <2>. DEFINE N == 2 * (posted + Lead) + 1
    <2>1. kept' \subseteq 0..N
      <3>1. kept' \subseteq Times
        BY <1>1, <1>3, <1>5
      <3>. QED
        BY <1>1, <3>1, MomentIs
    <2>2. N \in Nat
      BY <1>1
    <2>. HIDE DEF N
    <2>3. kept' \in SUBSET (0..N)
      BY <2>1
    <2>4. Top(kept') \in 0..N /\ (kept' # {} => Top(kept') \in kept')
      BY <2>2, <2>3, TopIs
    <2>. QED
      BY <2>2, <2>4 DEF Top
  <1>7. SUFFICES ASSUME NEW m \in Holes', m \notin Holes, 2 * m \notin kept
                 PROVE  FALSE
    OBVIOUS
  <1>8. /\ m \in Users \cap Visible /\ m \in 1..posted
        /\ 2 * m < Top(kept') /\ 2 * m \notin kept'
    BY <1>1 DEF Holes
  <1>9. 2 * m > Top(kept)
    <2>1. ~(2 * m < Top(kept))
      BY <1>7, <1>8 DEF Holes
    <2>2. 2 * m # Top(kept)
      BY <1>1, <1>7, <1>8 DEF Top
    <2>. QED
      BY <1>1, <1>8, <2>1, <2>2
  <1>10. \A n \in kept : ~(n > 2 * m)
    BY <1>1, <1>8, <1>9
  <1>11. PICK w \in us : Top(kept') = 2 * w
    <2>1. Top(kept') > 2 * m /\ Top(kept') # 0
      <3>1. m \in Nat /\ m > 0
        BY <1>1, <1>8
      <3>2. Top(kept') \in Nat
        BY <1>1, <1>6
      <3>. QED
        BY <1>8, <3>1, <3>2
    <2>. Top(kept') \in kept'
      BY <1>6, <2>1
    <2>2. Top(kept') \in Rows(us)
      BY <1>5, <1>10, <2>1
    <2>. QED
      BY <2>2 DEF Rows
  <1>12. m \in us
    <2>1. w \in ms /\ w \in 1..posted /\ m < w
      BY <1>1, <1>2, <1>8, <1>11
    <2>. QED
      BY <1>8, <1>9, <2>1
  <1>. DEFINE newer == {n \in kept \cup Rows(us) : n > 2 * m}
  <1>13. newer \subseteq Rows(ms \ {m})
    <2>1. ASSUME NEW n \in newer
          PROVE  n \in Rows(ms \ {m})
      <3>1. n \in Rows(us) /\ n > 2 * m
        BY <1>10
      <3>2. PICK x \in us : n = 2 * x
        BY <3>1 DEF Rows
      <3>3. x # m
        BY <1>1, <1>8, <3>1, <3>2
      <3>. QED
        BY <3>2, <3>3 DEF Rows
    <2>. QED
      BY <2>1
  <1>14. Cardinality(newer) < Cap
    <2>1. IsFiniteSet(ms \ {m}) /\ Cardinality(ms \ {m}) = Cardinality(ms) - 1
      BY <1>12, FS_RemoveElement
    <2>2. /\ IsFiniteSet(Rows(ms \ {m})) /\ Cardinality(Rows(ms \ {m})) \in Nat
          /\ Cardinality(Rows(ms \ {m})) <= Cardinality(ms \ {m})
      BY <2>1, RowsAreFew
    <2>3. Cardinality(newer) \in Nat /\ Cardinality(newer) <= Cardinality(Rows(ms \ {m}))
      <3>. HIDE DEF newer
      <3>. QED
        BY <1>13, <2>2, FiniteSubset
    <2>4. Cardinality(ms) \in Nat
      BY FS_CardinalityType
    <2>. HIDE DEF newer
    <2>. QED
      BY <1>1, <2>1, <2>2, <2>3, <2>4
  <1>15. 2 * m \in kept \cup Rows(us)
    BY <1>12 DEF Rows
  <1>16. 2 * m \in kept'
    BY <1>4, <1>14, <1>15 DEF LastOf
  <1>. QED
    BY <1>8, <1>16

\* A message newer than the newest row is one a sync has not read.
LEMMA NewIsAhead ==
    ASSUME CrawlerAssumption, CrawlInv, NEW s \in Syncs, NEW m \in Users \cap Visible,
           2 * m > Top(kept)
    PROVE  2 * m > cursor[s]
  <1>1. m \in 1..posted /\ posted \in Nat /\ Top(kept) \in Nat /\ cursor[s] \in Nat
    BY CrawlFacts DEF CrawlInv, CrawlTypeOK, SyncTypes
  <1>2. ~(2 * m <= cursor[s])
    BY <1>1 DEF CrawlInv, SyncSound, ReadIsStored
  <1>. QED
    BY <1>1, <1>2

LEMMA SyncOpensNoHole ==
    ASSUME CrawlerAssumption, CrawlInv, NEW s \in Syncs, SyncStep(s)
    PROVE  \A m \in Holes' \ Holes : 2 * m \in kept
  <1>0. UNCHANGED channelVars
    BY DEF SyncStep, Compare, Resume, Backfill
  <1>1. CASE kept' = kept
    BY <1>0, <1>1 DEF Holes, Visible, channelVars
  <1>2. CASE Resume(s)
    <2>1. kept' = Stored(Rows(Answers(s) \cap Users))
      BY <1>2 DEF Resume
    <2>2. /\ Answers(s) \subseteq 1..posted /\ IsFiniteSet(Answers(s)) /\ Cardinality(Answers(s)) <= Cap
          /\ \A w \in Answers(s), m \in Visible : 2 * m > cursor[s] /\ m < w => m \in Answers(s)
      BY AnswersAre, CrawlFacts DEF CrawlInv
    <2>3. \A w \in Answers(s), m \in Users \cap Visible : m < w /\ 2 * m > Top(kept) => m \in Answers(s)
      BY <2>2, NewIsAhead
    <2>. QED
      BY <1>0, <2>1, <2>2, <2>3, StoresNoHole
  <1>3. CASE Backfill(s) /\ Ahead(s) # {}
    <2>1. kept' = Stored(Rows(Taken(s) \cap Users))
      BY <1>3 DEF Backfill
    <2>2. /\ Ahead(s) \subseteq 1..posted /\ Cardinality(Ahead(s)) \in Nat
          /\ Cardinality(Ahead(s)) <= left[s]
          /\ \A w \in Ahead(s), m \in Visible : 2 * m > cursor[s] /\ m < w => m \in Ahead(s)
      BY AheadIs
    <2>3. /\ Taken(s) \subseteq Ahead(s)
          /\ IsFiniteSet(Taken(s)) /\ Cardinality(Taken(s)) \in Nat
          /\ Cardinality(Taken(s)) <= Cardinality(Ahead(s))
          /\ \A w \in Taken(s), m \in Ahead(s) : m < w => m \in Taken(s)
      BY <1>3, TakenIs
    <2>4. Cardinality(Taken(s)) <= Cap /\ Taken(s) \subseteq 1..posted
      <3>1. left[s] \in 0..Cap /\ Cap \in Nat
        BY CrawlConstants DEF CrawlInv, CrawlTypeOK, SyncTypes
      <3>. QED
        BY <2>2, <2>3, <3>1
    <2>5. \A w \in Taken(s), m \in Users \cap Visible : m < w /\ 2 * m > Top(kept) => m \in Taken(s)
      BY <2>2, <2>3, NewIsAhead
    <2>. QED
      BY <1>0, <2>1, <2>3, <2>4, <2>5, StoresNoHole
  <1>. QED
    BY <1>1, <1>2, <1>3 DEF SyncStep, Compare, Backfill

LEMMA DeepOpensNoHole ==
    ASSUME CrawlerAssumption, CrawlInv, DeepStep
    PROVE  \A m \in Holes' \ Holes : 2 * m \in kept
  <1>0. /\ UNCHANGED channelVars
        /\ posted \in Nat /\ Visible \subseteq 1..posted
        /\ Radius \in Nat /\ Cap \in Nat /\ Radius <= Cap
        /\ gap \in Nat /\ Top(kept) \in Nat /\ gap <= Top(kept)
        /\ Moment(gap) \in Nat /\ Moment(gap) <= gap
    BY CrawlFacts, CrawlConstants, GapIs
    DEF DeepStep, Fetched, FillBefore, FillAfter, CrawlInv, CrawlTypeOK, DeepTypes
  <1>1. CASE Fetched
    BY <1>1 DEF Fetched, Holes, Visible, channelVars
  <1>2. CASE FillBefore
    <2>. DEFINE before == {m \in Visible : 2 * m <= Moment(gap)}
                ms == LastOf(Radius, before)
    <2>1. kept' = Stored(Rows(ms \cap Users))
      BY <1>2 DEF FillBefore
    <2>2. ms \subseteq before
      BY DEF LastOf
    <2>3. before \in SUBSET (0..posted)
      <3>1. before \subseteq Visible /\ 1..posted \subseteq 0..posted
        OBVIOUS
      <3>. QED
        BY <1>0, <3>1
    <2>4. IsFiniteSet(ms) /\ Cardinality(ms) <= Radius
      <3>. HIDE DEF before
      <3>. QED
        BY <1>0, <2>3, LastOfBounded
    <2>5. Cardinality(ms) <= Cap /\ ms \subseteq 1..posted
      <3>1. Cardinality(ms) \in Nat
        BY <2>4, FS_CardinalityType
      <3>. HIDE DEF ms
      <3>. QED
        BY <1>0, <2>2, <2>4, <3>1
    <2>6. \A w \in ms : 2 * w <= gap /\ w \in 1..posted
      <3>1. ASSUME NEW w \in before
            PROVE  2 * w <= gap /\ w \in 1..posted
        <4>1. w \in 1..posted /\ 2 * w <= Moment(gap)
          BY <1>0
        <4>. QED
          BY <1>0, <4>1
      <3>. HIDE DEF before, ms
      <3>. QED
        BY <2>2, <3>1
    <2>. HIDE DEF ms
    <2>7. ASSUME NEW w \in ms, NEW m \in Users \cap Visible, m < w, 2 * m > Top(kept)
          PROVE  m \in ms
      <3>1. w \in 1..posted /\ m \in 1..posted /\ 2 * w <= gap
        BY <1>0, <2>6
      <3>. QED
        BY <1>0, <2>7, <3>1
    <2>. QED
      BY <1>0, <2>1, <2>4, <2>5, <2>7, StoresNoHole
  <1>3. CASE FillAfter
    <2>. DEFINE after == {m \in Visible : 2 * m >= Moment(gap)}
                ms == First(Radius, after)
    <2>1. kept' = Stored(Rows(ms \cap Users))
      BY <1>3 DEF FillAfter
    <2>2. ms \subseteq after
      BY DEF First
    <2>3. after \in SUBSET (0..posted)
      <3>1. after \subseteq Visible /\ 1..posted \subseteq 0..posted
        OBVIOUS
      <3>. QED
        BY <1>0, <3>1
    <2>4. IsFiniteSet(ms) /\ Cardinality(ms) <= Radius
      <3>. HIDE DEF after
      <3>. QED
        BY <1>0, <2>3, FirstBounded
    <2>5. Cardinality(ms) <= Cap /\ ms \subseteq 1..posted
      <3>1. Cardinality(ms) \in Nat
        BY <2>4, FS_CardinalityType
      <3>. HIDE DEF ms
      <3>. QED
        BY <1>0, <2>2, <2>4, <3>1
    <2>6. \A w \in ms, m \in after : m < w => m \in ms
      <3>. HIDE DEF after
      <3>. QED
        BY <1>0, <2>3, FirstIsClosed
    <2>7. \A m \in Visible : 2 * m > Top(kept) => m \in after
      BY <1>0
    <2>. HIDE DEF ms, after
    <2>8. \A w \in ms, m \in Users \cap Visible : m < w /\ 2 * m > Top(kept) => m \in ms
      BY <2>6, <2>7
    <2>. QED
      BY <1>0, <2>1, <2>4, <2>5, <2>8, StoresNoHole
  <1>. QED
    BY <1>1, <1>2, <1>3 DEF DeepStep

THEOREM OpensNoHole == CrawlSpec => CrawlerOpensNoHole
  <1>. USE CrawlerAssumption
  <1>1. CrawlInv /\ [CrawlNext]_crawlVars
          => [(\E s \in Syncs : SyncStep(s)) \/ DeepStep
                => \A m \in Holes' \ Holes : 2 * m \in kept]_crawlVars
    BY SyncOpensNoHole, DeepOpensNoHole
  <1>. QED
    BY <1>1, CrawlerSound, PTL DEF CrawlSpec, CrawlerOpensNoHole

USE MemoryStoreAssumption

-----------------------------------------------------------------------------
(* The inductive invariant *)

\* The two stores say the same of whose a memory is.
AgreeOnPerson ==
  \A id \in DOMAIN points \cap DOMAIN rows : points[id].person = rows[id].person

\* A memory of a message belongs to its author.
AuthorsOwn ==
  /\ \A id \in DOMAIN points : id.source # NoSource => points[id].person = Author[id.source]
  /\ \A id \in DOMAIN rows : id.source # NoSource => rows[id].person = Author[id.source]

\* The id of a memory without a message was never used before it.
NoncesAreFresh ==
  \A id \in DOMAIN points \cup DOMAIN rows : id.source = NoSource => id.nonce <= writes

\* A row of the index is repeated by writes alone.
WritesRepeat == \A id \in DOMAIN rows : rows[id].count <= writes

\* Unless something failed, both stores have let go of what was cleaned.
CleanedIsGone == faults = 0 => cleaned \cap (DOMAIN points \cup DOMAIN rows) = {}

MemoryInv ==
  /\ TypeOK
  /\ AgreeOnPerson
  /\ AuthorsOwn
  /\ NoncesAreFresh
  /\ WritesRepeat
  /\ CleanedIsGone

LEMMA InitMemoryInv == Init => MemoryInv
  <1>. SUFFICES ASSUME Init
                PROVE  MemoryInv
    OBVIOUS
  <1>1. DOMAIN points = {} /\ DOMAIN rows = {}
    BY DEF Init
  <1>. QED
    BY <1>1
    DEF Init, MemoryInv, TypeOK, AgreeOnPerson, AuthorsOwn, NoncesAreFresh,
        WritesRepeat, CleanedIsGone

-----------------------------------------------------------------------------
(* A write *)

LEMMA ChunkTypes ==
    ASSUME NEW text \in Texts
    PROVE  /\ Len(Chunks(text)) \in 1..2
           /\ \A k \in 1..Len(Chunks(text)) :
                Chunks(text)[k] \in [body : Bodies, dots : 0..2, part : 0..2]
  <1>1. \A part \in 0..2, added \in 0..1 :
          Chunk(text, part, added) \in [body : Bodies, dots : 0..2, part : 0..2]
    BY DEF Texts, Chunk
  <1>2. CASE text.body \in LongBodies
    <2>1. Chunks(text) = <<Chunk(text, 1, 0), Chunk(text, 2, 1)>>
      BY <1>2 DEF Chunks
    <2>2. Len(Chunks(text)) = 2
      BY <2>1
    <2>3. Chunks(text)[1] = Chunk(text, 1, 0) /\ Chunks(text)[2] = Chunk(text, 2, 1)
      BY <2>1
    <2>. QED BY <1>1, <2>2, <2>3
  <1>3. CASE text.body \notin LongBodies
    <2>1. Chunks(text) = <<Chunk(text, 0, 1)>>
      BY <1>3 DEF Chunks
    <2>2. Len(Chunks(text)) = 1
      BY <2>1
    <2>3. Chunks(text)[1] = Chunk(text, 0, 1)
      BY <2>1
    <2>. QED BY <1>1, <2>2, <2>3
  <1>. QED BY <1>2, <1>3

\* The stores after a write, whatever reached them.
LEMMA WriteKeepsInv ==
    ASSUME MemoryInv,
           NEW person \in Persons, NEW text \in Texts,
           NEW source \in Sources \cup {NoSource}, NEW minor \in BOOLEAN,
           source # NoSource => person = Author[source],
           Write(person, text, source, minor)
    PROVE  MemoryInv'
  <1>. DEFINE chunks == Chunks(text)
              n == Len(chunks)
              id(i) == MemoryId(source, i)
  <1>0. /\ TypeOK /\ AgreeOnPerson /\ AuthorsOwn /\ NoncesAreFresh
        /\ WritesRepeat /\ CleanedIsGone
    BY DEF MemoryInv
  <1>1. /\ writes \in Nat /\ writes' = writes + 1 /\ writes' \in 0..MaxWrites
        /\ UNCHANGED <<serviceUp, client>>
    BY <1>0 DEF Write, TypeOK
  <1>2. CASE UNCHANGED <<stores, faults, cleaned>>
    <2>1. /\ points' = points /\ rows' = rows /\ faults' = faults /\ cleaned' = cleaned
      BY <1>2 DEF stores
    <2>2. TypeOK' /\ AgreeOnPerson' /\ AuthorsOwn' /\ CleanedIsGone'
      BY <1>0, <1>1, <2>1 DEF TypeOK, AgreeOnPerson, AuthorsOwn, CleanedIsGone
    <2>3. NoncesAreFresh'
      <3>1. \A i \in DOMAIN points \cup DOMAIN rows : i.nonce \in Nat
        BY <1>0 DEF TypeOK, Ids
      <3>. QED BY <1>0, <1>1, <2>1, <3>1 DEF NoncesAreFresh
    <2>4. WritesRepeat'
      <3>1. \A i \in DOMAIN rows : rows[i].count \in Nat
        BY <1>0 DEF TypeOK
      <3>. QED BY <1>0, <1>1, <2>1, <3>1 DEF WritesRepeat
    <2>. QED BY <2>2, <2>3, <2>4 DEF MemoryInv
  <1>3. ASSUME NEW ps \in SUBSET (1..n), NEW rs \in SUBSET (1..n),
               points' = Upserted(points, [i \in {id(k) : k \in ps} |->
                                             Point(chunks[i.chunk], person, minor)]),
               rows' = Upserted(rows, [i \in {id(k) : k \in rs} |->
                          [person |-> person,
                           count |-> IF i \in DOMAIN rows THEN rows[i].count + 1 ELSE 1]]),
               faults' \in {faults, faults + 1} \cap 0..MaxFaults,
               cleaned' = cleaned \ {id(k) : k \in ps \cup rs}
        PROVE  MemoryInv'
    <2>. DEFINE new == {id(k) : k \in ps}
                newRows == {id(k) : k \in rs}
    <2>1. n \in 1..2 /\ \A k \in 1..n : chunks[k] \in [body : Bodies, dots : 0..2, part : 0..2]
      BY ChunkTypes
    <2>2. \A k \in 1..n : /\ id(k) \in Ids /\ id(k).chunk = k /\ id(k).source = source
                          /\ source = NoSource => id(k).nonce = writes + 1
      BY <1>1, <2>1 DEF MemoryId, Ids
    <2>3. /\ DOMAIN points' = new \cup DOMAIN points
          /\ \A i \in new : points'[i] = Point(chunks[i.chunk], person, minor)
          /\ \A i \in DOMAIN points \ new : points'[i] = points[i]
      BY <1>3 DEF Upserted
    <2>4. /\ DOMAIN rows' = newRows \cup DOMAIN rows
          /\ \A i \in newRows :
               rows'[i] = [person |-> person,
                           count |-> IF i \in DOMAIN rows THEN rows[i].count + 1 ELSE 1]
          /\ \A i \in DOMAIN rows \ newRows : rows'[i] = rows[i]
      BY <1>3 DEF Upserted
    <2>5. \A i \in new \cup newRows :
            /\ i \in Ids /\ i.chunk \in 1..n /\ i.source = source
            /\ source = NoSource => i.nonce = writes + 1
      BY <2>2
    <2>6. \A i \in new : /\ points'[i] \in [text : [body : Bodies, dots : 0..2, part : 0..2],
                                            person : Persons, minor : BOOLEAN, old : BOOLEAN]
                         /\ points'[i].person = person
      <3>1. \A i \in new : chunks[i.chunk] \in [body : Bodies, dots : 0..2, part : 0..2]
        BY <2>1, <2>5
      <3>2. \A c \in [body : Bodies, dots : 0..2, part : 0..2] :
              /\ Point(c, person, minor) \in
                   [text : [body : Bodies, dots : 0..2, part : 0..2],
                    person : Persons, minor : BOOLEAN, old : BOOLEAN]
              /\ Point(c, person, minor).person = person
        BY DEF Point
      <3>. HIDE DEF chunks, n, id, new
      <3>. QED BY <2>3, <3>1, <3>2
    <2>7. \A i \in newRows : /\ rows'[i] \in [person : Persons, count : 1..MaxWrites]
                             /\ rows'[i].person = person
                             /\ rows'[i].count <= writes + 1
      <3>1. \A i \in DOMAIN rows : rows[i].count \in 1..writes
        BY <1>0, <1>1 DEF TypeOK, WritesRepeat
      <3>2. \A i \in newRows :
              (IF i \in DOMAIN rows THEN rows[i].count + 1 ELSE 1) \in 1..(writes + 1)
        <4>1. \A i \in newRows \cap DOMAIN rows : rows[i].count + 1 \in 1..(writes + 1)
          BY <1>1, <3>1
        <4>2. 1 \in 1..(writes + 1)
          BY <1>1
        <4>. QED BY <4>1, <4>2
      <3>3. 1..(writes + 1) \subseteq 1..MaxWrites
        BY <1>1
      <3>. HIDE DEF newRows
      <3>. QED BY <1>1, <2>4, <3>2, <3>3
    <2>. HIDE DEF new, newRows, chunks, n, id
    <2>8. TypeOK'
      <3>1. DOMAIN points' \subseteq Ids /\ DOMAIN rows' \subseteq Ids /\ cleaned' \subseteq Ids
        BY <1>0, <1>3, <2>3, <2>4, <2>5 DEF TypeOK
      <3>2. \A i \in DOMAIN points' :
              points'[i] \in [text : [body : Bodies, dots : 0..2, part : 0..2],
                              person : Persons, minor : BOOLEAN, old : BOOLEAN]
        BY <1>0, <2>3, <2>6 DEF TypeOK
      <3>3. \A i \in DOMAIN rows' : rows'[i] \in [person : Persons, count : 1..MaxWrites]
        BY <1>0, <2>4, <2>7 DEF TypeOK
      <3>4. {serviceUp', client'} \subseteq BOOLEAN /\ faults' \in 0..MaxFaults
        BY <1>0, <1>1, <1>3 DEF TypeOK
      <3>. QED BY <1>1, <3>1, <3>2, <3>3, <3>4 DEF TypeOK
    <2>9. AuthorsOwn'
      BY <1>0, <2>3, <2>4, <2>5, <2>6, <2>7 DEF AuthorsOwn
    <2>10. NoncesAreFresh'
      <3>1. \A i \in DOMAIN points' \cup DOMAIN rows' :
              i.source = NoSource => i.nonce <= writes + 1
        <4>. SUFFICES ASSUME NEW i \in DOMAIN points' \cup DOMAIN rows', i.source = NoSource
                      PROVE  i.nonce <= writes + 1
          OBVIOUS
        <4>1. CASE i \in new \cup newRows
          BY <1>1, <2>5, <4>1
        <4>2. CASE i \in DOMAIN points \cup DOMAIN rows
          <5>1. i.nonce <= writes /\ i \in Ids
            BY <1>0, <4>2 DEF NoncesAreFresh, TypeOK
          <5>. QED BY <1>1, <5>1 DEF Ids
        <4>. QED BY <2>3, <2>4, <4>1, <4>2
      <3>. QED BY <1>1, <3>1 DEF NoncesAreFresh
    <2>11. WritesRepeat'
      <3>1. \A i \in DOMAIN rows' : rows'[i].count <= writes + 1
        <4>1. \A i \in DOMAIN rows : rows[i].count <= writes + 1
          BY <1>0, <1>1 DEF WritesRepeat, TypeOK
        <4>. QED BY <2>4, <2>7, <4>1
      <3>. QED BY <1>1, <3>1 DEF WritesRepeat
    <2>12. AgreeOnPerson'
      <3>. SUFFICES ASSUME NEW i \in DOMAIN points' \cap DOMAIN rows'
                    PROVE  points'[i].person = rows'[i].person
        BY DEF AgreeOnPerson
      <3>1. CASE i \in new /\ i \in newRows
        BY <2>6, <2>7, <3>1
      <3>2. CASE i \notin new /\ i \notin newRows
        BY <1>0, <2>3, <2>4, <3>2 DEF AgreeOnPerson
      <3>3. CASE i \in new /\ i \notin newRows
        <4>1. i \in DOMAIN rows /\ i \in Ids /\ i.source = source
          BY <1>0, <2>4, <2>5, <3>3 DEF TypeOK
        <4>2. source # NoSource
          BY <1>0, <1>1, <2>5, <3>3, <4>1 DEF NoncesAreFresh, Ids
        <4>. QED BY <1>0, <2>4, <2>6, <3>3, <4>1, <4>2 DEF AuthorsOwn
      <3>4. CASE i \notin new /\ i \in newRows
        <4>1. i \in DOMAIN points /\ i \in Ids /\ i.source = source
          BY <1>0, <2>3, <2>5, <3>4 DEF TypeOK
        <4>2. source # NoSource
          BY <1>0, <1>1, <2>5, <3>4, <4>1 DEF NoncesAreFresh, Ids
        <4>. QED BY <1>0, <2>3, <2>7, <3>4, <4>1, <4>2 DEF AuthorsOwn
      <3>. QED BY <3>1, <3>2, <3>3, <3>4
    <2>13. CleanedIsGone'
      <3>. SUFFICES ASSUME faults' = 0
                    PROVE  cleaned' \cap (DOMAIN points' \cup DOMAIN rows') = {}
        BY DEF CleanedIsGone
      <3>1. faults = 0
        BY <1>0, <1>3 DEF TypeOK
      <3>2. cleaned' \cap (new \cup newRows) = {}
        BY <1>3 DEF new, newRows
      <3>3. cleaned' \cap (DOMAIN points \cup DOMAIN rows) = {}
        BY <1>0, <1>3, <3>1 DEF CleanedIsGone
      <3>. QED BY <2>3, <2>4, <3>2, <3>3
    <2>. QED BY <2>8, <2>9, <2>10, <2>11, <2>12, <2>13 DEF MemoryInv
  <1>. HIDE DEF chunks, n, id
  <1>4. ASSUME ~UNCHANGED <<stores, faults, cleaned>>
        PROVE  \E ps \in SUBSET (1..n), rs \in SUBSET (1..n) :
                 /\ points' = Upserted(points, [i \in {id(k) : k \in ps} |->
                                             Point(chunks[i.chunk], person, minor)])
                 /\ rows' = Upserted(rows, [i \in {id(k) : k \in rs} |->
                          [person |-> person,
                           count |-> IF i \in DOMAIN rows THEN rows[i].count + 1 ELSE 1]])
                 /\ faults' \in {faults, faults + 1} \cap 0..MaxFaults
                 /\ cleaned' = cleaned \ {id(k) : k \in ps \cup rs}
    <2>1. faults \in 0..MaxFaults
      BY <1>0 DEF TypeOK
    <2>2. PICK ps \in Reached(Reachable, n), rs \in Reached(TRUE, n) :
            /\ Existing(person, text) = {} \/ faults < MaxFaults
            /\ points' = Upserted(points, [i \in {id(k) : k \in ps} |->
                                             Point(chunks[i.chunk], person, minor)])
            /\ rows' = Upserted(rows, [i \in {id(k) : k \in rs} |->
                          [person |-> person,
                           count |-> IF i \in DOMAIN rows THEN rows[i].count + 1 ELSE 1]])
            /\ faults' = IF /\ rs = 1..n /\ ps = (IF Reachable THEN rs ELSE {})
                            /\ Existing(person, text) = {}
                         THEN faults ELSE faults + 1
            /\ cleaned' = cleaned \ {id(k) : k \in ps \cup rs}
      BY <1>4 DEF Write, chunks, n, id
    <2>3. ps \in SUBSET (1..n) /\ rs \in SUBSET (1..n)
      BY <2>2 DEF Reached
    <2>4. faults' \in {faults, faults + 1} \cap 0..MaxFaults
      <3>1. CASE faults < MaxFaults
        BY <2>1, <2>2, <3>1
      <3>2. CASE ~(faults < MaxFaults)
        <4>1. rs = 1..n /\ ps = (IF Reachable THEN rs ELSE {}) /\ Existing(person, text) = {}
          BY <2>2, <3>2 DEF Reached
        <4>. QED BY <2>1, <2>2, <4>1
      <3>. QED BY <3>1, <3>2
    <2>. QED BY <2>2, <2>3, <2>4
  <1>. QED BY <1>2, <1>3, <1>4

-----------------------------------------------------------------------------
(* The other steps *)

LEMMA StepMemoryInv == MemoryInv /\ [Next]_vars => MemoryInv'
  <1>. SUFFICES ASSUME MemoryInv, [Next]_vars
                PROVE  MemoryInv'
    OBVIOUS
  <1>0. /\ TypeOK /\ AgreeOnPerson /\ AuthorsOwn /\ NoncesAreFresh
        /\ WritesRepeat /\ CleanedIsGone
    BY DEF MemoryInv
  <1>1. ASSUME NEW s \in Sources, NEW t \in Texts, NEW minor \in BOOLEAN, Ingest(s, t, minor)
        PROVE  MemoryInv'
    <2>1. Author[s] \in Persons
      OBVIOUS
    <2>. QED BY <1>1, <2>1, WriteKeepsInv DEF Ingest
  <1>2. ASSUME NEW p \in Persons, NEW t \in Texts, NEW minor \in BOOLEAN,
               AddManually(p, t, minor)
        PROVE  MemoryInv'
    BY <1>2, WriteKeepsInv DEF AddManually
  <1>3. ASSUME NEW id \in DOMAIN points, Age(id)
        PROVE  MemoryInv'
    <2>1. /\ DOMAIN points' = DOMAIN points
          /\ \A i \in DOMAIN points :
               /\ points'[i].person = points[i].person
               /\ points'[i] \in [text : [body : Bodies, dots : 0..2, part : 0..2],
                                  person : Persons, minor : BOOLEAN, old : BOOLEAN]
      BY <1>0, <1>3 DEF Age, TypeOK
    <2>2. UNCHANGED <<rows, serviceUp, client, writes, faults, cleaned>>
      BY <1>3 DEF Age
    <2>. QED
      BY <1>0, <2>1, <2>2
      DEF MemoryInv, TypeOK, AgreeOnPerson, AuthorsOwn, NoncesAreFresh, WritesRepeat,
          CleanedIsGone
  <1>4. CASE CleanUp
    <2>1. PICK ids \in SUBSET Removable :
            /\ points' = Restrict(points, DOMAIN points \ ids)
            /\ cleaned' = cleaned \cup ids
            /\ \/ rows' = Restrict(rows, DOMAIN rows \ ids) /\ UNCHANGED faults
               \/ faults < MaxFaults /\ faults' = faults + 1 /\ UNCHANGED rows
      BY <1>4 DEF CleanUp
    <2>2. /\ DOMAIN points' = DOMAIN points \ ids
          /\ \A i \in DOMAIN points \ ids : points'[i] = points[i]
          /\ UNCHANGED <<serviceUp, client, writes>>
      BY <1>4, <2>1 DEF CleanUp, Restrict
    <2>3. /\ DOMAIN rows' \subseteq DOMAIN rows
          /\ \A i \in DOMAIN rows' : rows'[i] = rows[i]
      BY <2>1 DEF Restrict
    <2>4. ids \subseteq DOMAIN points
      BY <2>1 DEF Removable
    <2>5. faults' \in 0..MaxFaults /\ (faults' = 0 => faults = 0 /\ DOMAIN rows' = DOMAIN rows \ ids)
      BY <1>0, <2>1 DEF TypeOK, Restrict
    <2>6. TypeOK'
      BY <1>0, <2>1, <2>2, <2>3, <2>4, <2>5 DEF TypeOK
    <2>7. AgreeOnPerson' /\ AuthorsOwn' /\ NoncesAreFresh' /\ WritesRepeat'
      BY <1>0, <2>2, <2>3 DEF AgreeOnPerson, AuthorsOwn, NoncesAreFresh, WritesRepeat
    <2>8. CleanedIsGone'
      BY <1>0, <2>1, <2>2, <2>5 DEF CleanedIsGone
    <2>. QED BY <2>6, <2>7, <2>8 DEF MemoryInv
  <1>5. CASE ServiceStops \/ ServiceReturns \/ Restart \/ UNCHANGED vars
    <2>1. /\ UNCHANGED <<points, rows, writes, cleaned>>
          /\ {serviceUp', client'} \subseteq BOOLEAN
          /\ faults' \in 0..MaxFaults /\ faults' >= faults /\ faults \in Nat
      <3>1. faults \in 0..MaxFaults /\ serviceUp \in BOOLEAN /\ client \in BOOLEAN
        BY <1>0 DEF TypeOK
      <3>2. UNCHANGED <<points, rows, writes, cleaned>>
        BY <1>5 DEF ServiceStops, ServiceReturns, Restart, vars, stores
      <3>3. faults' = faults \/ (faults < MaxFaults /\ faults' = faults + 1)
        BY <1>5 DEF ServiceStops, ServiceReturns, Restart, vars
      <3>4. /\ serviceUp' \in {TRUE, FALSE, serviceUp}
            /\ client' \in {TRUE, serviceUp, client}
        BY <1>5 DEF ServiceStops, ServiceReturns, Restart, vars
      <3>5. {serviceUp', client'} \subseteq BOOLEAN
        BY <3>1, <3>4
      <3>. QED BY <3>1, <3>2, <3>3, <3>5
    <2>. QED
      BY <1>0, <2>1
      DEF MemoryInv, TypeOK, AgreeOnPerson, AuthorsOwn, NoncesAreFresh, WritesRepeat,
          CleanedIsGone
  <1>. QED BY <1>1, <1>2, <1>3, <1>4, <1>5 DEF Next

LEMMA MemoryInvariant == Spec => []MemoryInv
  BY InitMemoryInv, StepMemoryInv, PTL DEF Spec

\* Every point, row and counter keeps its type.
THEOREM MemoryTypeCorrect == Spec => []TypeOK
  <1>1. MemoryInv => TypeOK
    BY DEF MemoryInv
  <1>. QED BY <1>1, MemoryInvariant, PTL

-----------------------------------------------------------------------------
(* Searching *)

LEMMA ResultsAreOwn ==
    ASSUME MemoryInv, NEW p \in Persons, NEW n, NEW found \in Results(p, n), NEW id \in found
    PROVE  Owner(id) = p /\ (faults = 0 => id \notin cleaned)
  <1>1. PICK k \in KeywordHits(p), v \in VectorHits(p) : found \in Ranked(k \cup v, n)
    BY DEF Results
  <1>2. id \in k \cup v
    BY <1>1 DEF Ranked
  <1>3. id \in k => id \in DOMAIN rows /\ rows[id].person = p
    BY DEF KeywordHits
  <1>4. id \in v => id \in DOMAIN points /\ points[id].person = p
    BY DEF VectorHits
  <1>. QED BY <1>2, <1>3, <1>4 DEF Owner, MemoryInv, AgreeOnPerson, CleanedIsGone

\* For every limit and every n, a search for a person finds memories of that person
\* alone, in whichever of the two stores it finds them, and unless something failed
\* none of those that maintenance removed.
THEOREM SearchHolds == Spec => []SearchFindsOwn
  <1>1. MemoryInv => SearchFindsOwn
    <2>. SUFFICES ASSUME MemoryInv, NEW p \in Persons,
                         NEW name \in DOMAIN Sections(p),
                         NEW found \in Sections(p)[name], NEW id \in found
                  PROVE  Owner(id) = p /\ (faults = 0 => id \notin cleaned)
      BY DEF SearchFindsOwn
    <2>1. CASE name = "evidence"
      BY <2>1, ResultsAreOwn DEF Sections
    <2>2. CASE name = "episodes"
      BY <2>2, ResultsAreOwn DEF Sections
    <2>3. CASE name = "utterances"
      <3>1. \/ \E all \in Results(p, 2) : found \in SUBSET all
            \/ found \in Results(p, 3)
        <4>1. Sections(p)["utterances"] =
                (UNION {SUBSET all : all \in Results(p, 2)}) \cup Results(p, 3)
          BY DEF Sections
        <4>2. found \in Sections(p)["utterances"]
          BY <2>3, Zenon
        <4>3. \/ found \in UNION {SUBSET all : all \in Results(p, 2)}
              \/ found \in Results(p, 3)
          BY <4>1, <4>2, Zenon
        <4>. QED BY <4>3, Zenon
      <3>. QED BY <3>1, ResultsAreOwn
    <2>. QED BY <2>1, <2>2, <2>3 DEF Sections
  <1>. QED BY <1>1, MemoryInvariant, PTL

-----------------------------------------------------------------------------
(* Forgetting *)

LEMMA WriteForgetsNothing ==
    ASSUME NEW person, NEW text, NEW source, NEW minor, Write(person, text, source, minor)
    PROVE  Findable \subseteq Findable'
  <1>1. DOMAIN points \subseteq DOMAIN points' /\ DOMAIN rows \subseteq DOMAIN rows'
    BY DEF Write, Upserted, stores
  <1>2. Reachable' = Reachable
    BY DEF Write, Reachable
  <1>. QED BY <1>1, <1>2 DEF Findable

\* Whatever is written, fails or starts again, a memory that could be found can be
\* found after every step, unless maintenance just removed it as old and minor or the
\* service is gone.
THEOREM ForgettingIsDeliberate == Spec => ForgetsOnlyOldAndMinor
  <1>1. ASSUME [Next]_vars, NEW id \in Findable \ Findable', Reachable'
        PROVE  id \in Removable /\ id \in cleaned'
    <2>1. CASE \E t \in Texts, minor \in BOOLEAN :
                 \/ \E s \in Sources : Ingest(s, t, minor)
                 \/ \E p \in Persons : AddManually(p, t, minor)
      BY <1>1, <2>1, WriteForgetsNothing DEF Ingest, AddManually
    <2>2. CASE \E i \in DOMAIN points : Age(i)
      BY <1>1, <2>2 DEF Age, Findable, Reachable
    <2>3. CASE CleanUp
      <3>1. PICK ids \in SUBSET Removable :
              /\ points' = Restrict(points, DOMAIN points \ ids)
              /\ cleaned' = cleaned \cup ids
              /\ \/ rows' = Restrict(rows, DOMAIN rows \ ids)
                 \/ UNCHANGED rows
        BY <2>3 DEF CleanUp
      <3>2. Reachable' = Reachable
        BY <2>3 DEF CleanUp, Reachable
      <3>. QED BY <1>1, <3>1, <3>2 DEF Findable, Restrict
    <2>4. CASE ServiceStops \/ ServiceReturns \/ Restart \/ UNCHANGED vars
      BY <1>1, <2>4
      DEF ServiceStops, ServiceReturns, Restart, vars, stores, Findable, Reachable
    <2>. QED BY <1>1, <2>1, <2>2, <2>3, <2>4 DEF Next
  <1>2. [Next]_vars =>
          [\A id \in Findable \ Findable' :
             ~Reachable' \/ (id \in Removable /\ id \in cleaned')]_vars
    BY <1>1
  <1>. QED BY <1>2, PTL DEF Spec, ForgetsOnlyOldAndMinor

==============================================================================
