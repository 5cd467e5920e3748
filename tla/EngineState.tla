----------------------------- MODULE EngineState -----------------------------
(***************************************************************************)
(* What the bot's engines accumulate and how it outlives the process: the  *)
(* rhythm of each channel (ConversationDynamicsEngine, table               *)
(* channel_dynamics), the feeling about each person (UserAffectEngine,     *)
(* table user_affect), the mood with each (PersonalityState, table         *)
(* user_mood_state), and what the tables relationships and activity_log    *)
(* say of each.                                                            *)
(*                                                                         *)
(* Each message manager has engines of its own.  The dynamics engine keeps *)
(* its state in memory and writes all of it when it is flushed; the affect *)
(* engine writes every change at once and caches what it wrote; the moods  *)
(* are written, all of them, at every SaveEvery-th change.  The state of a *)
(* channel or a person is the number of messages it accounts for.  A       *)
(* statement that fails is swallowed; statements before it in the same     *)
(* function are not rolled back, and are kept if anything is committed     *)
(* through the shared connection before the process ends.                  *)
(***************************************************************************)
EXTENDS Integers, FiniteSets

CONSTANTS Managers,    \* message managers that may come to exist
          Channels,
          People,
          SaveEvery,   \* changes of the mood between two saves (10)
          FaultLimit,  \* bound: statements that fail
          None

ASSUME EngineAssumption ==
  /\ SaveEvery \in Nat \ {0}
  /\ FaultLimit \in Nat
  /\ IsFiniteSet(Managers) /\ IsFiniteSet(Channels)
  /\ None \notin Managers \cup Channels \cup People \cup Nat

VARIABLES
  heard,    \* the engine's channels: messages accounted for, per manager
  saved,    \* channel_dynamics: messages accounted for
  known,    \* UserAffectEngine._rows: familiarity_count, or None when not cached
  stored,   \* user_affect.familiarity_count; 0 when there is no row
  loads,    \* background loads of an affect row that are scheduled
  mood,     \* PersonalityState._users, or None without a vector, per manager
  changes,  \* PersonalityState._per_user_update_count, per manager
  kept,     \* user_mood_state; 0 when there is no row
  met,      \* relationships.interaction_count of each person with the bot
  logged,   \* rows of each person in activity_log
  faults    \* statements that failed

moods == <<mood, changes, kept>>
contacts == <<met, logged>>
engines == <<heard, saved, known, stored, loads, moods, contacts, faults>>

EngineTypes ==
  /\ heard \in [Managers -> [Channels -> Nat]]
  /\ saved \in [Channels -> Nat]
  /\ known \in [Managers -> [People -> Nat \cup {None}]]
  /\ stored \in [People -> Nat]
  /\ loads \subseteq Managers \X People
  /\ mood \in [Managers -> [People -> Nat \cup {None}]]
  /\ changes \in [Managers -> Nat]
  /\ kept \in [People -> Nat]
  /\ met \in [People -> Nat]
  /\ logged \in [People -> Nat]
  /\ faults \in 0..FaultLimit

EngineInit ==
  /\ heard = [m \in Managers |-> [c \in Channels |-> 0]]
  /\ saved = [c \in Channels |-> 0]
  /\ known = [m \in Managers |-> [u \in People |-> None]]
  /\ stored = [u \in People |-> 0]
  /\ loads = {}
  /\ mood = [m \in Managers |-> [u \in People |-> None]]
  /\ changes = [m \in Managers |-> 0]
  /\ kept = [u \in People |-> 0]
  /\ met = [u \in People |-> 0]
  /\ logged = [u \in People |-> 0]
  /\ faults = 0

Fail == faults < FaultLimit /\ faults' = faults + 1

\* What a manager knows of the moods after reading user_mood_state.
Recalled == [u \in People |-> IF kept[u] = 0 THEN None ELSE kept[u]]

\* load_channel_dynamics: every row, or nothing when the read fails.
Snapshots(read) == IF read THEN saved ELSE [c \in Channels |-> 0]

\* At the creation of a manager, load_from_db and restore_from_snapshots.
Restore(m) ==
  \E moodsRead, rhythmRead \in BOOLEAN :
    /\ mood' = IF moodsRead THEN [mood EXCEPT ![m] = Recalled] ELSE mood
    /\ heard' = [heard EXCEPT ![m] = Snapshots(rhythmRead)]
    /\ faults' = faults + (IF moodsRead THEN 0 ELSE 1) + (IF rhythmRead THEN 0 ELSE 1)
    /\ faults' <= FaultLimit
    /\ UNCHANGED <<saved, known, stored, loads, changes, kept, contacts>>

\* The decision stage: observe_message, then snapshot_cached, which schedules a load
\* of a person who is not cached.
Decide(m, c, u) ==
  /\ heard' = [heard EXCEPT ![m][c] = @ + 1]
  /\ loads' = IF known[m][u] = None THEN loads \cup {<<m, u>>} ELSE loads
  /\ UNCHANGED <<saved, known, stored, faults, moods, contacts>>

\* Mutant: what is loaded is added to what is cached.
LoadAdds(m, u) ==
  /\ <<m, u>> \in loads
  /\ loads' = loads \ {<<m, u>>}
  /\ known' = [known EXCEPT ![m][u] = stored[u] + (IF @ = None THEN 0 ELSE @)]
  /\ UNCHANGED <<heard, saved, stored, faults, moods, contacts>>

\* get_user_affect: the row of a person, or None.
Row(u) == IF stored[u] = 0 THEN None ELSE stored[u]

\* _load_from_store: caches the row, if there is one.
Load(m, u) ==
  /\ <<m, u>> \in loads
  /\ loads' = loads \ {<<m, u>>}
  /\ \/ /\ known' = IF Row(u) = None THEN known ELSE [known EXCEPT ![m][u] = Row(u)]
        /\ UNCHANGED faults
     \/ Fail /\ UNCHANGED known
  /\ UNCHANGED <<heard, saved, stored, moods, contacts>>

\* The count that record_sentiment starts from: the cached row, else the stored one,
\* else none.
CountBefore(m, u) == IF known[m][u] # None THEN known[m][u] ELSE stored[u]

\* Mutant: a person who is not cached starts anew.
RecordUnread(m, u) ==
  LET n == 1 + (IF known[m][u] # None THEN known[m][u] ELSE 0)
  IN /\ known' = [known EXCEPT ![m][u] = n]
     /\ stored' = [stored EXCEPT ![u] = n]
     /\ UNCHANGED <<heard, saved, loads, faults, moods, contacts>>

\* upsert_user_affect: the row is created or replaced; if the statement fails, it stays.
Upsert(u, n) ==
  \/ stored' = [stored EXCEPT ![u] = n] /\ UNCHANGED faults
  \/ Fail /\ UNCHANGED stored

\* record_sentiment: the read, or the write, may fail; the cache is updated anyway.
\* After a failed read the row is overwritten by one that starts anew.
Record(m, u) ==
  /\ \/ LET n == CountBefore(m, u) + 1
        IN  Upsert(u, n) /\ known' = [known EXCEPT ![m][u] = n]
     \/ /\ known[m][u] = None
        /\ Fail
        /\ known' = [known EXCEPT ![m][u] = 1]
        /\ stored' = [stored EXCEPT ![u] = 1]
  /\ UNCHANGED <<heard, saved, loads, moods, contacts>>

\* save_to_db: the vector of every person the manager knows is written, one after the
\* other; when a statement fails, those before it may be kept.
SaveMoods(m, succeeds) ==
  LET vectors == {u \in People : mood'[m][u] # None}
  IN \E done \in IF succeeds THEN {vectors} ELSE SUBSET vectors :
       kept' = [u \in People |-> IF u \in done THEN mood'[m][u] ELSE kept[u]]

\* update_from_conversation for a person: a vector that is missing starts from the
\* default mood; all vectors are saved at every SaveEvery-th change, and at no other
\* time.
ChangeMood(m, u, succeeds) ==
  /\ mood' = [mood EXCEPT ![m][u] = IF @ = None THEN 1 ELSE @ + 1]
  /\ changes' = [changes EXCEPT ![m] = @ + 1]
  /\ \/ changes'[m] % SaveEvery = 0 /\ SaveMoods(m, succeeds)
     \/ changes'[m] % SaveEvery # 0 /\ succeeds /\ UNCHANGED kept

\* update_relationship: the count is increased within the statement; a statement after
\* that may fail.
Relate(u, succeeds) ==
  \/ met' = [met EXCEPT ![u] = @ + 1]
  \/ ~succeeds /\ UNCHANGED met

\* log_activity.
LogActivity(u, succeeds) ==
  logged' = IF succeeds THEN [logged EXCEPT ![u] = @ + 1] ELSE logged

\* What the memory stage does after the language model: mood, relationship, activity;
\* each may fail.
Finish(m, u) ==
  \E failed \in SUBSET {"mood", "relationship", "activity"} :
    /\ ChangeMood(m, u, "mood" \notin failed)
    /\ Relate(u, "relationship" \notin failed)
    /\ LogActivity(u, "activity" \notin failed)
    /\ faults' = faults + Cardinality(failed)
    /\ faults' <= FaultLimit
    /\ UNCHANGED <<heard, saved, known, stored, loads>>

\* Mutant: a channel whose row exists is left as it is.
UpsertNew(m, cs) == [c \in Channels |-> IF c \in cs /\ saved[c] = 0 THEN heard[m][c] ELSE saved[c]]

\* upsert_channel_dynamics for each of these channels.
Upserted(m, cs) == [c \in Channels |-> IF c \in cs THEN heard[m][c] ELSE saved[c]]

\* flush_to_store: every channel the engine has observed is written, row by row; the
\* writes of some may fail.
Flush(m) ==
  LET observed == {c \in Channels : heard[m][c] > 0}
  IN \E failed \in SUBSET observed :
       /\ saved' = Upserted(m, observed \ failed)
       /\ faults' = faults + Cardinality(failed)
       /\ faults' <= FaultLimit
       /\ UNCHANGED <<heard, known, stored, loads, moods, contacts>>

\* The process ends: what is in memory is gone.
Forget ==
  /\ heard' = [m \in Managers |-> [c \in Channels |-> 0]]
  /\ known' = [m \in Managers |-> [u \in People |-> None]]
  /\ loads' = {}
  /\ mood' = [m \in Managers |-> [u \in People |-> None]]
  /\ changes' = [m \in Managers |-> 0]
  /\ UNCHANGED <<saved, stored, kept, contacts, faults>>
==============================================================================
