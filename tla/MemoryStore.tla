---------------------------- MODULE MemoryStore ----------------------------
(***************************************************************************)
(* The long-term memory: points of the Qdrant collection, found by         *)
(* similarity, and rows of an FTS5 index, found by keyword.  One call      *)
(* writes both, one maintenance pass cleans both, a search merges both.    *)
(* The two have no common transaction, and each failure of the one is      *)
(* logged and passed over.                                                 *)
(*                                                                         *)
(* All of it is synchronous Python, so that a call is one step; a crash    *)
(* may cut it short anywhere.  A text is a body and the dots it ends with; *)
(* what a search finds similar is left open.                               *)
(***************************************************************************)
EXTENDS Integers, Sequences, FiniteSets, FiniteSetsExt, Functions

CONSTANTS Persons,
          Sources,       \* messages of Discord
          Author,        \* the person who wrote a message
          NoSource,      \* the source of a reply, a summary, a correction
          Bodies,
          LongBodies,    \* the bodies of two chunks
          KeywordLimit,  \* rows a keyword search returns (20)
          VectorLimit,   \* points a vector search returns (50)
          CleanupLimit,  \* points one maintenance pass removes (1000)
          MaxWrites,     \* bound: memories written
          MaxFaults      \* bound: failures of a store and crashes

ASSUME MemoryStoreAssumption ==
  /\ NoSource \notin Sources /\ LongBodies \subseteq Bodies
  /\ Author \in [Sources -> Persons]
  /\ {KeywordLimit, VectorLimit, CleanupLimit} \subseteq Nat \ {0}
  /\ {MaxWrites, MaxFaults} \subseteq Nat

VARIABLES
  points,    \* the collection: memory id -> text, person, minor, old
  rows,      \* documents_fts: memory id -> person, number of rows
  serviceUp, \* Qdrant answers
  client,    \* qdrant_client is not None
  writes,    \* calls of add_memory_enhanced so far
  faults,    \* failures so far
  cleaned    \* history: the ids that maintenance removed

stores == <<points, rows>>
vars == <<stores, serviceUp, client, writes, faults, cleaned>>

Texts == [body : Bodies, dots : 0..1, part : {0}]
Ids == [source : Sources \cup {NoSource}, nonce : 0..MaxWrites, chunk : 1..2]

TypeOK ==
  /\ DOMAIN points \subseteq Ids
  /\ \A id \in DOMAIN points :
       points[id] \in [text : [body : Bodies, dots : 0..2, part : 0..2],
                       person : Persons, minor : BOOLEAN, old : BOOLEAN]
  /\ DOMAIN rows \subseteq Ids
  /\ \A id \in DOMAIN rows : rows[id] \in [person : Persons, count : 1..MaxWrites]
  /\ {serviceUp, client} \subseteq BOOLEAN
  /\ writes \in 0..MaxWrites /\ faults \in 0..MaxFaults
  /\ cleaned \subseteq Ids

Init ==
  /\ points = <<>> /\ rows = <<>>
  /\ serviceUp = TRUE /\ client = TRUE
  /\ writes = 0 /\ faults = 0 /\ cleaned = {}

Reachable == client /\ serviceUp

---------------------------------------------------------------------------
(* Writing.                                                                *)

(* _chunk_content ends every sentence with a dot of its own. *)
Chunk(text, part, added) ==
  [body |-> text.body, dots |-> text.dots + added, part |-> part]

Chunks(text) ==
  IF text.body \in LongBodies
  THEN <<Chunk(text, 1, 0), Chunk(text, 2, 1)>>
  ELSE <<Chunk(text, 0, 1)>>

(* generate_memory_id: made from the message if there is one, else random. *)
MemoryId(source, i) ==
  [source |-> source, nonce |-> IF source = NoSource THEN writes + 1 ELSE 0, chunk |-> i]

(* _get_existing_memory_id compares a whole text with the chunks.  What    *)
(* _is_duplicate says of the source changes nothing: without a chunk that  *)
(* is the whole text, the write goes on.                                   *)
Existing(person, text) ==
  {id \in DOMAIN points : /\ Reachable
                          /\ points[id].person = person /\ points[id].text = text}

(* The chunks i of a write that reach a store which is up or not. *)
Reached(up, n) == IF ~up THEN {{}}
                  ELSE IF faults < MaxFaults THEN SUBSET (1..n) ELSE {1..n}

Point(text, person, minor) ==
  [text |-> text, person |-> person, minor |-> minor, old |-> FALSE]

(* A store after entries were written to it. *)
Upserted(store, entries) ==
  [id \in DOMAIN entries \cup DOMAIN store |->
     IF id \in DOMAIN entries THEN entries[id] ELSE store[id]]

(* add_memory_enhanced: a text that exists is not written again, unless    *)
(* the question fails.  ps and rs are the chunks that reach the collection *)
(* and the index; a chunk that failed in the one is still written to the   *)
(* other, and upsert replaces a point where the index, whose id is no key, *)
(* gets one more row.                                                      *)
Write(person, text, source, minor) ==
  LET chunks == Chunks(text)
      n == Len(chunks)
      id(i) == MemoryId(source, i) IN
  /\ writes < MaxWrites /\ writes' = writes + 1
  /\ \/ Existing(person, text) # {} /\ UNCHANGED <<stores, faults, cleaned>>
     \/ /\ (Existing(person, text) = {} \/ faults < MaxFaults)
        /\ \E ps \in Reached(Reachable, n), rs \in Reached(TRUE, n) :
            /\ points' = Upserted(points, [i \in {id(k) : k \in ps} |->
                                             Point(chunks[i.chunk], person, minor)])
            /\ rows' = Upserted(rows, [i \in {id(k) : k \in rs} |->
                          [person |-> person,
                           count |-> IF i \in DOMAIN rows THEN rows[i].count + 1 ELSE 1]])
            /\ faults' = IF /\ rs = 1..n /\ ps = (IF Reachable THEN rs ELSE {})
                            /\ Existing(person, text) = {}
                         THEN faults ELSE faults + 1
            /\ cleaned' = cleaned \ {id(k) : k \in ps \cup rs}
  /\ UNCHANGED <<serviceUp, client>>

(* Ninety days pass: a point is old by the time it was written. *)
Age(id) ==
  /\ ~points[id].old
  /\ points' = [points EXCEPT ![id].old = TRUE]
  /\ UNCHANGED <<rows, serviceUp, client, writes, faults, cleaned>>

---------------------------------------------------------------------------
(* Maintenance.                                                            *)

Removable == {id \in DOMAIN points : points[id].old /\ points[id].minor}

\* Mutant: the index keeps what the collection forgets.
CleanUpPointsOnly ==
  /\ Reachable /\ Removable # {}
  /\ \E ids \in SUBSET Removable :
       /\ Cardinality(ids) = Min({CleanupLimit, Cardinality(Removable)})
       /\ points' = Restrict(points, DOMAIN points \ ids)
       /\ cleaned' = cleaned \cup ids
  /\ UNCHANGED <<rows, serviceUp, client, writes, faults>>
\* Mutant: all that is old goes.
CleanUpAllOld ==
  LET old == {id \in DOMAIN points : points[id].old} IN
  /\ Reachable /\ old # {}
  /\ points' = Restrict(points, DOMAIN points \ old)
  /\ rows' = Restrict(rows, DOMAIN rows \ old)
  /\ cleaned' = cleaned \cup old
  /\ UNCHANGED <<serviceUp, client, writes, faults>>
(* cleanup_old_memories: a batch of old and minor points is removed, then  *)
(* their rows.  If that fails, the rows stay: the next pass looks at       *)
(* points only.                                                            *)
CleanUp ==
  /\ Reachable /\ Removable # {}
  /\ \E ids \in SUBSET Removable :
       /\ Cardinality(ids) = Min({CleanupLimit, Cardinality(Removable)})
       /\ points' = Restrict(points, DOMAIN points \ ids)
       /\ cleaned' = cleaned \cup ids
       /\ \/ rows' = Restrict(rows, DOMAIN rows \ ids) /\ UNCHANGED faults
          \/ faults < MaxFaults /\ faults' = faults + 1 /\ UNCHANGED rows
  /\ UNCHANGED <<serviceUp, client, writes>>

(* The service stops, or comes back; the client of the process stays. *)
ServiceStops ==
  /\ serviceUp /\ faults < MaxFaults
  /\ serviceUp' = FALSE /\ faults' = faults + 1
  /\ UNCHANGED <<stores, client, writes, cleaned>>

ServiceReturns ==
  /\ ~serviceUp /\ serviceUp' = TRUE
  /\ UNCHANGED <<stores, client, writes, faults, cleaned>>

(* The process starts again: three attempts to connect, then Docker may    *)
(* start the service; else it runs without vectors to its end.             *)
Restart ==
  /\ faults < MaxFaults /\ faults' = faults + 1
  /\ \E up \in {TRUE, serviceUp} : serviceUp' = up /\ client' = up
  /\ UNCHANGED <<stores, writes, cleaned>>

(* A message of Discord, by the pipeline or the crawler, maybe once more.  *)
Ingest(source, text, minor) == Write(Author[source], text, source, minor)

(* The panel, a summary or a reply: a memory under a person's id that no   *)
(* message stands for.                                                     *)
AddManually(person, text, minor) == Write(person, text, NoSource, minor)

Next ==
  \/ \E t \in Texts, minor \in BOOLEAN :
       \/ \E s \in Sources : Ingest(s, t, minor)
       \/ \E p \in Persons : AddManually(p, t, minor)
  \/ \E id \in DOMAIN points : Age(id)
  \/ CleanUp \/ ServiceStops \/ ServiceReturns \/ Restart

Spec == Init /\ [][Next]_vars

---------------------------------------------------------------------------
(* Searching.                                                              *)

(* The rows a query may match, at most KeywordLimit of them, twins counted *)
KeywordHits(person) ==
  {hits \in SUBSET {id \in DOMAIN rows : rows[id].person = person} :
     FoldFunction(+, 0, [id \in hits |-> rows[id].count]) <= KeywordLimit}

VectorHits(person) ==
  IF ~Reachable THEN {{}}
  ELSE {hits \in SUBSET {id \in DOMAIN points : points[id].person = person} :
          Cardinality(hits) <= VectorLimit}

(* _merge_candidates: of a memory found in both stores the point counts. *)
Owner(id) == IF id \in DOMAIN points THEN points[id].person ELSE rows[id].person

(* _rerank_results_simple: which n of too many are best is left open. *)
Ranked(ids, n) ==
  {best \in SUBSET ids : Cardinality(best) = Min({n, Cardinality(ids)})}

(* search_hybrid: either part may fail or find nothing. *)
Results(person, n) ==
  UNION {Ranked(k \cup v, n) : k \in KeywordHits(person), v \in VectorHits(person)}

(* build_context: three searches for the author of the message; the third  *)
(* is thinned out when the mood is chill, and made again for one more when *)
(* it is energetic.                                                        *)
Sections(person) ==
  [evidence   |-> Results(person, 3),
   episodes   |-> Results(person, 2),
   utterances |-> (UNION {SUBSET found : found \in Results(person, 2)}) \cup Results(person, 3)]

---------------------------------------------------------------------------
(* Properties.                                                             *)

Findable == DOMAIN rows \cup (IF Reachable THEN DOMAIN points ELSE {})

(* A memory can be found until it is old and minor, or the service is      *)
(* gone, whatever is written, written again or cleaned in between.         *)
ForgetsOnlyOldAndMinor ==
  [][\A id \in Findable \ Findable' :
       ~Reachable' \/ (id \in Removable /\ id \in cleaned')]_vars

(* What a section of the context for a person holds is their own memory:   *)
(* the two stores agree on whose a memory is.  As long as nothing failed,  *)
(* it is none that maintenance removed, unless that was said again.        *)
SearchFindsOwn ==
  \A p \in Persons :
    LET sections == Sections(p) IN
    \A name \in DOMAIN sections : \A found \in sections[name] : \A id \in found :
      Owner(id) = p /\ (faults = 0 => id \notin cleaned)

==============================================================================
