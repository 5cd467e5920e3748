-------------------------- MODULE BotLifecycleProofs --------------------------
(***************************************************************************)
(* Proofs about BotLifecycle for every set of managers, channels, people   *)
(* and messages, every interval between saves and every number of failing  *)
(* statements and ends of the process.                                     *)
(***************************************************************************)
EXTENDS BotLifecycle, FiniteSetTheorems, TLAPS

USE EngineAssumption, LifecycleAssumption

-----------------------------------------------------------------------------
(* Who uses an engine *)

\* A run under way was given to a manager that exists.
GivenByManager ==
  \A x \in Messages : at[x] \in {"given", "decided", "felt"} => by[x] \in Created

\* Only managers that exist have loads scheduled or know anybody.
OnlyCreatedKnow ==
  /\ loads \subseteq Created \X People
  /\ \A m \in Managers \ Created, u \in People : known[m][u] = None

Structure == TypeOK /\ GivenByManager /\ OnlyCreatedKnow

\* The actions that leave the engines and their histories alone.
SetUpQuietly ==
  \/ \E m \in Managers : OnReady(m) \/ ModelReady(m) \/ ProcessorsReady(m)
                         \/ BackupDone(m) \/ BehaviourReady(m)
  \/ \E x \in Messages : Arrive(x)
  \/ Start
  \/ UNCHANGED vars

LEMMA QuietFrame ==
    ASSUME SetUpQuietly
    PROVE  /\ UNCHANGED <<heard, saved, known, stored, loads, mood, changes, kept, met, logged,
                          faults, heardEver, felt>>
  BY DEF SetUpQuietly, OnReady, ModelReady, ProcessorsReady, BackupDone, BehaviourReady,
         Arrive, Start, vars, engines, moods, contacts, lifecycle, history

\* The alternatives of a step, by what they do to the engines.
LEMMA StepCases ==
    ASSUME [Next]_vars
    PROVE  \/ SetUpQuietly
           \/ \E m \in Managers : VoiceReady(m)
           \/ \E x \in Messages : Decided(x)
           \/ \E x \in Messages : Felt(x)
           \/ \E x \in Messages : Written(x)
           \/ LoadAffect
           \/ Maintain
           \/ Exit
           \/ End
  BY DEF Next, SetUpStep, SetUpQuietly

-----------------------------------------------------------------------------
(* Types *)

LEMMA InitStructure == Init => Structure
  <1>. SUFFICES ASSUME Init
                PROVE  Structure
    OBVIOUS
  <1>1. EngineTypes
    BY DEF Init, EngineInit, EngineTypes
  <1>2. TypeOK
    BY <1>1 DEF Init, TypeOK, Processes, Stages, Places
  <1>. QED BY <1>2 DEF Init, EngineInit, Structure, GivenByManager, OnlyCreatedKnow

\* The managers that exist, as stages go.
LEMMA CreatedGrows ==
    ASSUME TypeOK, NEW m \in Managers, NEW to \in Stages,
           stage' = [stage EXCEPT ![m] = to],
           m \in Created => to \in {"backup", "behaviour", "ready"}
    PROVE  Created \subseteq Created'
  BY DEF Created, HasManager, TypeOK

LEMMA QuietStructure ==
    ASSUME Structure, SetUpQuietly
    PROVE  Structure' /\ Created \subseteq Created'
  <1>0. TypeOK /\ GivenByManager /\ OnlyCreatedKnow /\ EngineTypes
    BY DEF Structure, TypeOK
  <1>1. EngineTypes' /\ UNCHANGED <<known, loads, heardEver, felt>>
    BY <1>0, QuietFrame DEF EngineTypes
  <1>2. /\ Created \subseteq Created'
        /\ stage' \in [Managers -> Stages]
    <2>1. ASSUME NEW m \in Managers, OnReady(m)
          PROVE  Created \subseteq Created' /\ stage' \in [Managers -> Stages]
      BY <1>0, <2>1 DEF OnReady, Moves, Created, HasManager, TypeOK, Stages
    <2>2. ASSUME NEW m \in Managers, ModelReady(m) \/ ProcessorsReady(m)
          PROVE  Created \subseteq Created' /\ stage' \in [Managers -> Stages]
      BY <1>0, <2>2 DEF ModelReady, ProcessorsReady, Moves, Created, HasManager, TypeOK, Stages
    <2>3. ASSUME NEW m \in Managers, BackupDone(m) \/ BehaviourReady(m)
          PROVE  Created \subseteq Created' /\ stage' \in [Managers -> Stages]
      BY <1>0, <2>3 DEF BackupDone, BehaviourReady, Moves, Created, HasManager, TypeOK, Stages
    <2>4. CASE (\E x \in Messages : Arrive(x)) \/ Start \/ UNCHANGED vars
      BY <1>0, <2>4 DEF Arrive, Start, vars, lifecycle, Created, HasManager, TypeOK
    <2>. QED BY <2>1, <2>2, <2>3, <2>4 DEF SetUpQuietly
  <1>3. TypeOK' /\ GivenByManager'
    <2>1. CASE \E m \in Managers : OnReady(m) \/ ModelReady(m) \/ ProcessorsReady(m)
                                   \/ BackupDone(m) \/ BehaviourReady(m)
      <3>. PICK m \in Managers : OnReady(m) \/ ModelReady(m) \/ ProcessorsReady(m)
                                 \/ BackupDone(m) \/ BehaviourReady(m)
        BY <2>1
      <3>1. /\ initializer' \in {m, initializer}
            /\ UNCHANGED <<process, at, by, ends, expected>>
        BY DEF OnReady, ModelReady, ProcessorsReady, BackupDone, BehaviourReady, history
      <3>2. pipeline' \in {pipeline, [pipeline EXCEPT ![m] = "own"]} /\ panel' \in {panel, m}
        BY DEF OnReady, ModelReady, ProcessorsReady, BackupDone, BehaviourReady
      <3>3. exported' # None => exported' \in Created'
        <4>1. CASE exported' = exported
          BY <1>0, <1>2, <4>1 DEF TypeOK, Created
        <4>2. CASE BehaviourReady(m)
          BY <1>0, <1>2, <4>2 DEF BehaviourReady, ManagerOf, HasManager, Created, TypeOK
        <4>. QED
          BY <4>1, <4>2 DEF OnReady, ModelReady, ProcessorsReady, BackupDone
      <3>4. exported' # None => exported' \in Managers /\ HasManager(exported)'
        BY <3>3 DEF Created, HasManager
      <3>. QED
        BY <1>0, <1>1, <1>2, <3>1, <3>2, <3>4 DEF TypeOK, GivenByManager
    <2>2. ASSUME NEW x \in Messages, Arrive(x)
          PROVE  TypeOK' /\ GivenByManager'
      <3>1. UNCHANGED <<process, initializer, exported, panel, stage, ends, expected>>
        BY <2>2 DEF Arrive, history
      <3>2. Created' = Created
        BY <3>1 DEF Created, HasManager
      <3>3. CASE /\ HasManager(initializer)
                 /\ at' = [at EXCEPT ![x] = "given"]
                 /\ by' = [by EXCEPT ![x] = initializer]
                 /\ pipeline' = [pipeline EXCEPT ![initializer] =
                                   IF @ = "none" THEN "fallback" ELSE @]
        <4>1. initializer \in Created
          BY <1>0, <3>3 DEF HasManager, Created, TypeOK
        <4>2. initializer \in Managers
          BY <4>1 DEF Created
        <4>. QED
          BY <1>0, <1>1, <3>1, <3>2, <3>3, <4>1, <4>2
          DEF TypeOK, GivenByManager, Places, HasManager
      <3>4. CASE at' = [at EXCEPT ![x] = "rejected"] /\ UNCHANGED <<by, pipeline>>
        BY <1>0, <1>1, <3>1, <3>2, <3>4 DEF TypeOK, GivenByManager, Places, HasManager
      <3>. QED BY <2>2, <3>3, <3>4 DEF Arrive
    <2>3. CASE Start
      <3>1. UNCHANGED <<initializer, exported, panel, stage, pipeline, at, by, ends>>
            /\ process' = "up" /\ expected' = saved
        BY <2>3 DEF Start
      <3>2. Created' = Created
        BY <3>1 DEF Created, HasManager
      <3>. QED
        BY <1>0, <1>1, <3>1, <3>2
        DEF TypeOK, GivenByManager, EngineTypes, Processes, HasManager
    <2>4. CASE UNCHANGED vars
      BY <1>0, <1>1, <2>4 DEF vars, lifecycle, history, TypeOK, GivenByManager, Created, HasManager
    <2>. QED BY <2>1, <2>2, <2>3, <2>4 DEF SetUpQuietly
  <1>4. OnlyCreatedKnow'
    BY <1>0, <1>1, <1>2 DEF OnlyCreatedKnow
  <1>. QED BY <1>2, <1>3, <1>4 DEF Structure

\* A step that leaves the set-up alone: what remains to be shown of the structure.
LEMMA SameManagers ==
    ASSUME Structure, EngineTypes',
           UNCHANGED <<initializer, exported, panel, stage, pipeline, by, ends>>,
           process' \in Processes,
           expected' \in [Channels -> Nat], heardEver' \in [Channels -> Nat],
           felt' \in [People -> Nat],
           at' \in [Messages -> Places],
           \A x \in Messages : at'[x] \in {"given", "decided", "felt"}
             => at[x] \in {"given", "decided", "felt"},
           loads' \subseteq Created \X People,
           \A m \in Managers \ Created, u \in People : known'[m][u] = None
    PROVE  Structure' /\ Created' = Created
  <1>1. Created' = Created /\ (exported # None => HasManager(exported)' = HasManager(exported))
    BY DEF Created, HasManager
  <1>. QED BY <1>1 DEF Structure, TypeOK, GivenByManager, OnlyCreatedKnow, HasManager

LEMMA VoiceReadyStructure ==
    ASSUME Structure, NEW m \in Managers, VoiceReady(m)
    PROVE  /\ Structure'
           /\ m \notin Created /\ Created' = Created \cup {m}
  <1>0. TypeOK /\ GivenByManager /\ OnlyCreatedKnow /\ EngineTypes
    BY DEF Structure, TypeOK
  <1>1. /\ stage[m] = "voice" /\ stage' = [stage EXCEPT ![m] = "backup"]
        /\ UNCHANGED <<process, initializer, exported, panel, pipeline, at, by, ends,
                       expected, heardEver, felt, known, loads>>
    BY DEF VoiceReady, Moves, Restore, history
  <1>2. m # None
    OBVIOUS
  <1>3. m \notin Created /\ Created' = Created \cup {m} /\ stage' \in [Managers -> Stages]
    BY <1>0, <1>1, <1>2 DEF Created, HasManager, TypeOK, Stages
  <1>4. EngineTypes'
    <2>1. PICK moodsRead \in BOOLEAN, rhythmRead \in BOOLEAN :
            /\ mood' = IF moodsRead THEN [mood EXCEPT ![m] = Recalled] ELSE mood
            /\ heard' = [heard EXCEPT ![m] = Snapshots(rhythmRead)]
            /\ faults' = faults + (IF moodsRead THEN 0 ELSE 1) + (IF rhythmRead THEN 0 ELSE 1)
            /\ faults' <= FaultLimit
            /\ UNCHANGED <<saved, known, stored, loads, changes, kept, contacts>>
      BY DEF VoiceReady, Restore
    <2>2. Recalled \in [People -> Nat \cup {None}]
      BY <1>0 DEF Recalled, EngineTypes
    <2>3. Snapshots(rhythmRead) \in [Channels -> Nat]
      BY <1>0 DEF Snapshots, EngineTypes
    <2>4. faults' \in 0..FaultLimit
      BY <1>0, <2>1 DEF EngineTypes
    <2>5. mood' \in [Managers -> [People -> Nat \cup {None}]]
      BY <1>0, <2>1, <2>2 DEF EngineTypes
    <2>. QED BY <1>0, <2>1, <2>3, <2>4, <2>5 DEF EngineTypes, contacts
  <1>5. exported' # None => exported' \in Managers /\ HasManager(exported)'
    BY <1>0, <1>1, <1>3 DEF TypeOK, HasManager
  <1>. QED
    BY <1>0, <1>1, <1>3, <1>4, <1>5 DEF Structure, TypeOK, GivenByManager, OnlyCreatedKnow

LEMMA DecidedStructure ==
    ASSUME Structure, NEW x \in Messages, Decided(x)
    PROVE  Structure' /\ Created' = Created /\ by[x] \in Created /\ by[x] \in Managers
  <1>0. TypeOK /\ GivenByManager /\ OnlyCreatedKnow /\ EngineTypes
    BY DEF Structure, TypeOK
  <1>. DEFINE m == by[x]
              c == ChannelOf[x]
              u == AuthorOf[x]
  <1>1. m \in Created /\ m \in Managers /\ c \in Channels /\ u \in People
    BY <1>0 DEF Decided, GivenByManager, Created
  <1>2. /\ heard' = [heard EXCEPT ![m][c] = @ + 1]
        /\ loads' \in {loads, loads \cup {<<m, u>>}}
        /\ UNCHANGED <<saved, known, stored, faults, mood, changes, kept, met, logged>>
    BY DEF Decided, Decide, moods, contacts
  <1>3. EngineTypes'
    BY <1>0, <1>1, <1>2 DEF EngineTypes
  <1>4. /\ expected' \in [Channels -> Nat] /\ heardEver' \in [Channels -> Nat]
        /\ UNCHANGED <<felt, process, initializer, exported, panel, stage, pipeline, by, ends>>
    BY <1>0, <1>1 DEF Decided, TypeOK
  <1>5. /\ at' \in [Messages -> Places]
        /\ \A y \in Messages : at'[y] \in {"given", "decided", "felt"}
             => at[y] \in {"given", "decided", "felt"}
    BY <1>0 DEF Decided, TypeOK, Places
  <1>6. /\ loads' \subseteq Created \X People
        /\ \A k \in Managers \ Created, v \in People : known'[k][v] = None
    BY <1>0, <1>1, <1>2 DEF OnlyCreatedKnow
  <1>7. felt' \in [People -> Nat] /\ process' \in Processes
    BY <1>0, <1>4 DEF TypeOK
  <1>. HIDE DEF m, c, u
  <1>8. Structure' /\ Created' = Created
    BY <1>3, <1>4, <1>5, <1>6, <1>7, SameManagers
  <1>. QED BY <1>1, <1>8 DEF m

\* What the affect engine does with a message.
LEMMA RecordEffect ==
    ASSUME EngineTypes, NEW m \in Managers, NEW u \in People, Record(m, u)
    PROVE  /\ \E n \in Nat : /\ n <= CountBefore(m, u) + 1
                             /\ known' = [known EXCEPT ![m][u] = n]
                             /\ stored' \in {stored, [stored EXCEPT ![u] = n]}
                             /\ faults' = faults =>
                                  n = CountBefore(m, u) + 1 /\ stored'[u] = n
           /\ CountBefore(m, u) \in Nat
           /\ faults' \in 0..FaultLimit /\ faults' >= faults
           /\ UNCHANGED <<heard, saved, loads, mood, changes, kept, met, logged>>
  <1>1. CountBefore(m, u) \in Nat /\ faults \in 0..FaultLimit
    BY DEF CountBefore, EngineTypes
  <1>2. UNCHANGED <<heard, saved, loads, mood, changes, kept, met, logged>>
    BY DEF Record, moods, contacts
  <1>3. CASE /\ Upsert(u, CountBefore(m, u) + 1)
             /\ known' = [known EXCEPT ![m][u] = CountBefore(m, u) + 1]
    <2>. DEFINE n == CountBefore(m, u) + 1
    <2>1. n \in Nat /\ n <= CountBefore(m, u) + 1
      BY <1>1
    <2>2. \/ stored' = [stored EXCEPT ![u] = n] /\ faults' = faults
          \/ Fail /\ stored' = stored
      BY <1>3 DEF Upsert
    <2>3. faults' \in 0..FaultLimit /\ faults' >= faults
      BY <1>1, <2>2 DEF Fail
    <2>4. faults' = faults => stored'[u] = n
      BY <1>1, <2>2 DEF Fail, EngineTypes
    <2>. QED BY <1>1, <1>2, <1>3, <2>1, <2>2, <2>3, <2>4
  <1>4. CASE /\ Fail
             /\ known' = [known EXCEPT ![m][u] = 1]
             /\ stored' = [stored EXCEPT ![u] = 1]
    <2>1. faults' = faults + 1 /\ faults' \in 0..FaultLimit
      BY <1>1, <1>4 DEF Fail
    <2>2. 1 \in Nat /\ 1 <= CountBefore(m, u) + 1 /\ faults' # faults /\ faults' >= faults
      BY <1>1, <2>1
    <2>. QED BY <1>1, <1>2, <1>4, <2>1, <2>2
  <1>. QED BY <1>3, <1>4 DEF Record

\* One manager's entry for one person changes.
LEMMA CountsKept ==
    ASSUME NEW table \in [Managers -> [People -> Nat \cup {None}]],
           NEW m \in Managers, NEW u \in People, NEW n \in Nat \cup {None}
    PROVE  [table EXCEPT ![m][u] = n] \in [Managers -> [People -> Nat \cup {None}]]
  <1>1. [table[m] EXCEPT ![u] = n] \in [People -> Nat \cup {None}]
    OBVIOUS
  <1>2. [table EXCEPT ![m][u] = n] = [table EXCEPT ![m] = [table[m] EXCEPT ![u] = n]]
    OBVIOUS
  <1>. QED BY <1>1, <1>2

LEMMA FeltStructure ==
    ASSUME Structure, NEW x \in Messages, Felt(x)
    PROVE  Structure' /\ Created' = Created /\ by[x] \in Created /\ by[x] \in Managers
  <1>0. TypeOK /\ GivenByManager /\ OnlyCreatedKnow /\ EngineTypes
    BY DEF Structure, TypeOK
  <1>. DEFINE m == by[x]
              u == AuthorOf[x]
  <1>1. m \in Created /\ m \in Managers /\ u \in People /\ Record(m, u)
    BY <1>0 DEF Felt, GivenByManager, Created
  <1>2. PICK n \in Nat : /\ known' = [known EXCEPT ![m][u] = n]
                         /\ stored' \in {stored, [stored EXCEPT ![u] = n]}
    BY <1>0, <1>1, RecordEffect
  <1>3. /\ faults' \in 0..FaultLimit
        /\ UNCHANGED <<heard, saved, loads, mood, changes, kept, met, logged>>
    BY <1>0, <1>1, RecordEffect
  <1>4. EngineTypes'
    <2>. HIDE DEF m, u
    <2>1. known' \in [Managers -> [People -> Nat \cup {None}]]
      BY <1>0, <1>1, <1>2, CountsKept DEF EngineTypes
    <2>2. stored' \in [People -> Nat]
      BY <1>0, <1>1, <1>2 DEF EngineTypes
    <2>. QED BY <1>0, <1>3, <2>1, <2>2 DEF EngineTypes
  <1>5. UNCHANGED <<expected, heardEver, process, initializer, exported, panel, stage,
                    pipeline, by, ends>>
    BY DEF Felt
  <1>6. /\ at' \in [Messages -> Places]
        /\ \A y \in Messages : at'[y] \in {"given", "decided", "felt"}
             => at[y] \in {"given", "decided", "felt"}
    BY <1>0 DEF Felt, TypeOK, Places
  <1>7. /\ loads' \subseteq Created \X People
        /\ \A k \in Managers \ Created, v \in People : known'[k][v] = None
    BY <1>0, <1>1, <1>2, <1>3 DEF OnlyCreatedKnow, EngineTypes
  <1>8. /\ expected' \in [Channels -> Nat] /\ heardEver' \in [Channels -> Nat]
        /\ felt' \in [People -> Nat] /\ process' \in Processes
    BY <1>0, <1>1, <1>5 DEF Felt, TypeOK
  <1>. HIDE DEF m, u
  <1>9. Structure' /\ Created' = Created
    BY <1>4, <1>5, <1>6, <1>7, <1>8, SameManagers
  <1>. QED BY <1>1, <1>9 DEF m

\* What the memory stage does after the language model: each count is kept, or grows
\* by the message.
LEMMA FinishEffect ==
    ASSUME EngineTypes, NEW m \in Managers, NEW u \in People, Finish(m, u)
    PROVE  /\ mood' = [mood EXCEPT ![m][u] = IF @ = None THEN 1 ELSE @ + 1]
           /\ changes' \in [Managers -> Nat]
           /\ \A v \in People : \/ kept'[v] = kept[v]
                                \/ mood'[m][v] # None /\ kept'[v] = mood'[m][v]
           /\ kept' \in [People -> Nat]
           /\ met' \in {met, [met EXCEPT ![u] = @ + 1]}
           /\ logged' \in {logged, [logged EXCEPT ![u] = @ + 1]}
           /\ faults' \in 0..FaultLimit /\ faults' >= faults
           /\ UNCHANGED <<heard, saved, known, stored, loads>>
  <1>1. PICK failed \in SUBSET {"mood", "relationship", "activity"} :
          /\ ChangeMood(m, u, "mood" \notin failed)
          /\ Relate(u, "relationship" \notin failed)
          /\ LogActivity(u, "activity" \notin failed)
          /\ faults' = faults + Cardinality(failed)
          /\ faults' <= FaultLimit
          /\ UNCHANGED <<heard, saved, known, stored, loads>>
    BY DEF Finish
  <1>2. Cardinality(failed) \in Nat
    <2>1. IsFiniteSet({"mood"} \cup {"relationship"} \cup {"activity"})
      BY FS_Singleton, FS_Union
    <2>2. failed \subseteq {"mood"} \cup {"relationship"} \cup {"activity"}
      OBVIOUS
    <2>. QED BY <2>1, <2>2, FS_Subset, FS_CardinalityType
  <1>3. faults' \in 0..FaultLimit /\ faults' >= faults
    BY <1>1, <1>2 DEF EngineTypes
  <1>4. /\ mood' = [mood EXCEPT ![m][u] = IF @ = None THEN 1 ELSE @ + 1]
        /\ changes' = [changes EXCEPT ![m] = @ + 1]
    BY <1>1 DEF ChangeMood
  <1>5. mood' \in [Managers -> [People -> Nat \cup {None}]]
        /\ changes' \in [Managers -> Nat]
    BY <1>4 DEF EngineTypes
  <1>6. \/ kept' = kept
        \/ \E done \in SUBSET {v \in People : mood'[m][v] # None} :
             kept' = [v \in People |-> IF v \in done THEN mood'[m][v] ELSE kept[v]]
    BY <1>1 DEF ChangeMood, SaveMoods
  <1>7. /\ \A v \in People : \/ kept'[v] = kept[v]
                             \/ mood'[m][v] # None /\ kept'[v] = mood'[m][v]
        /\ kept' \in [People -> Nat]
    BY <1>5, <1>6 DEF EngineTypes
  <1>8. /\ met' \in {met, [met EXCEPT ![u] = @ + 1]}
        /\ logged' \in {logged, [logged EXCEPT ![u] = @ + 1]}
    BY <1>1 DEF Relate, LogActivity
  <1>. QED BY <1>1, <1>3, <1>4, <1>5, <1>7, <1>8

LEMMA WrittenStructure ==
    ASSUME Structure, NEW x \in Messages, Written(x)
    PROVE  Structure' /\ Created' = Created /\ by[x] \in Created /\ by[x] \in Managers
  <1>0. TypeOK /\ GivenByManager /\ OnlyCreatedKnow /\ EngineTypes
    BY DEF Structure, TypeOK
  <1>. DEFINE m == by[x]
              u == AuthorOf[x]
  <1>1. m \in Created /\ m \in Managers /\ u \in People /\ Finish(m, u)
    BY <1>0 DEF Written, GivenByManager, Created
  <1>2. /\ mood' = [mood EXCEPT ![m][u] = IF @ = None THEN 1 ELSE @ + 1]
        /\ changes' \in [Managers -> Nat]
        /\ kept' \in [People -> Nat]
        /\ met' \in {met, [met EXCEPT ![u] = @ + 1]}
        /\ logged' \in {logged, [logged EXCEPT ![u] = @ + 1]}
        /\ faults' \in 0..FaultLimit
        /\ UNCHANGED <<heard, saved, known, stored, loads>>
    BY <1>0, <1>1, FinishEffect
  <1>3. EngineTypes'
    <2>. HIDE DEF m, u
    <2>1. mood' \in [Managers -> [People -> Nat \cup {None}]]
      <3>1. mood[m][u] \in Nat \cup {None}
        BY <1>0, <1>1 DEF EngineTypes
      <3>2. (IF mood[m][u] = None THEN 1 ELSE mood[m][u] + 1) \in Nat \cup {None}
        BY <3>1
      <3>3. mood' = [mood EXCEPT ![m][u] = IF mood[m][u] = None THEN 1 ELSE mood[m][u] + 1]
        BY <1>0, <1>1, <1>2 DEF EngineTypes
      <3>. QED BY <1>0, <1>1, <3>2, <3>3, CountsKept DEF EngineTypes
    <2>2. met' \in [People -> Nat]
      <3>1. met \in [People -> Nat]
        BY <1>0 DEF EngineTypes
      <3>. QED BY <1>1, <1>2, <3>1
    <2>3. logged' \in [People -> Nat]
      <3>1. logged \in [People -> Nat]
        BY <1>0 DEF EngineTypes
      <3>. QED BY <1>1, <1>2, <3>1
    <2>. QED BY <1>0, <1>2, <2>1, <2>2, <2>3 DEF EngineTypes
  <1>4. UNCHANGED <<expected, heardEver, felt, process, initializer, exported, panel, stage,
                    pipeline, by, ends>>
    BY DEF Written, history
  <1>5. /\ at' \in [Messages -> Places]
        /\ \A y \in Messages : at'[y] \in {"given", "decided", "felt"}
             => at[y] \in {"given", "decided", "felt"}
    BY <1>0 DEF Written, TypeOK, Places
  <1>6. /\ loads' \subseteq Created \X People
        /\ \A k \in Managers \ Created, v \in People : known'[k][v] = None
    BY <1>0, <1>2 DEF OnlyCreatedKnow
  <1>7. /\ expected' \in [Channels -> Nat] /\ heardEver' \in [Channels -> Nat]
        /\ felt' \in [People -> Nat] /\ process' \in Processes
    BY <1>0, <1>4 DEF TypeOK
  <1>. HIDE DEF m, u
  <1>8. Structure' /\ Created' = Created
    BY <1>3, <1>4, <1>5, <1>6, <1>7, SameManagers
  <1>. QED BY <1>1, <1>8 DEF m

\* A background load caches the row of a person or nothing.
LEMMA LoadEffect ==
    ASSUME Structure, LoadAffect
    PROVE  \E m \in Created, u \in People :
             /\ m \in Managers
             /\ known' \in {known, [known EXCEPT ![m][u] = stored[u]]}
             /\ loads' \subseteq loads
             /\ faults' \in 0..FaultLimit /\ faults' >= faults
             /\ UNCHANGED <<heard, saved, stored, mood, changes, kept, met, logged>>
  <1>0. OnlyCreatedKnow /\ faults \in 0..FaultLimit
    BY DEF Structure, TypeOK, EngineTypes
  <1>1. PICK m \in Managers, u \in People : Load(m, u)
    BY DEF LoadAffect
  <1>2. m \in Created
    BY <1>0, <1>1 DEF Load, OnlyCreatedKnow
  <1>3. known' \in {known, [known EXCEPT ![m][u] = stored[u]]}
    BY <1>1 DEF Load, Row
  <1>4. faults' \in 0..FaultLimit /\ faults' >= faults
    BY <1>0, <1>1 DEF Load, Fail
  <1>5. /\ loads' \subseteq loads
        /\ UNCHANGED <<heard, saved, stored, mood, changes, kept, met, logged>>
    BY <1>1 DEF Load, moods, contacts
  <1>. QED BY <1>2, <1>3, <1>4, <1>5

LEMMA LoadStructure ==
    ASSUME Structure, LoadAffect
    PROVE  Structure' /\ Created' = Created
  <1>0. TypeOK /\ GivenByManager /\ OnlyCreatedKnow /\ EngineTypes
    BY DEF Structure, TypeOK
  <1>1. PICK m \in Created, u \in People :
          /\ m \in Managers
          /\ known' \in {known, [known EXCEPT ![m][u] = stored[u]]}
          /\ loads' \subseteq loads
          /\ faults' \in 0..FaultLimit
          /\ UNCHANGED <<heard, saved, stored, mood, changes, kept, met, logged>>
    BY LoadEffect
  <1>2. EngineTypes'
    <2>1. known' \in [Managers -> [People -> Nat \cup {None}]]
      <3>1. stored[u] \in Nat \cup {None}
        BY <1>0 DEF EngineTypes
      <3>2. known \in [Managers -> [People -> Nat \cup {None}]]
        BY <1>0 DEF EngineTypes
      <3>3. [known EXCEPT ![m][u] = stored[u]] \in [Managers -> [People -> Nat \cup {None}]]
        BY <1>1, <3>1, <3>2, CountsKept
      <3>. QED BY <1>1, <3>2, <3>3
    <2>2. loads' \subseteq Managers \X People
      BY <1>0, <1>1 DEF EngineTypes
    <2>. QED BY <1>0, <1>1, <2>1, <2>2 DEF EngineTypes
  <1>3. UNCHANGED <<expected, heardEver, felt, process, initializer, exported, panel, stage,
                    pipeline, at, by, ends>>
    BY DEF LoadAffect, lifecycle, history
  <1>4. /\ loads' \subseteq Created \X People
        /\ \A k \in Managers \ Created, v \in People : known'[k][v] = None
    BY <1>0, <1>1 DEF OnlyCreatedKnow, EngineTypes
  <1>5. /\ expected' \in [Channels -> Nat] /\ heardEver' \in [Channels -> Nat]
        /\ felt' \in [People -> Nat] /\ process' \in Processes /\ at' \in [Messages -> Places]
        /\ \A y \in Messages : at'[y] = at[y]
    BY <1>0, <1>3 DEF TypeOK
  <1>. QED BY <1>2, <1>3, <1>4, <1>5, SameManagers

\* A flush replaces rows by what the engine of a manager that exists has heard.
LEMMA FlushEffect ==
    ASSUME EngineTypes, NEW m \in Managers, Flush(m)
    PROVE  /\ \A c \in Channels : saved'[c] \in {saved[c], heard[m][c]}
           /\ saved' \in [Channels -> Nat]
           /\ faults' = faults => \A c \in Channels : heard[m][c] > 0 => saved'[c] = heard[m][c]
           /\ faults' \in 0..FaultLimit /\ faults' >= faults
           /\ UNCHANGED <<heard, known, stored, loads, mood, changes, kept, met, logged>>
  <1>. DEFINE observed == {c \in Channels : heard[m][c] > 0}
  <1>1. PICK failed \in SUBSET observed :
          /\ saved' = Upserted(m, observed \ failed)
          /\ faults' = faults + Cardinality(failed)
          /\ faults' <= FaultLimit
          /\ UNCHANGED <<heard, known, stored, loads, moods, contacts>>
    BY DEF Flush
  <1>2. IsFiniteSet(failed)
    <2>1. observed \in SUBSET Channels
      OBVIOUS
    <2>. QED BY <1>1, <2>1, FS_Subset
  <1>3. Cardinality(failed) \in Nat /\ (Cardinality(failed) = 0 => failed = {})
    BY <1>2, FS_CardinalityType, FS_EmptySet
  <1>4. faults \in Nat /\ faults' >= faults /\ faults' \in 0..FaultLimit
    BY <1>1, <1>3 DEF EngineTypes
  <1>5. /\ \A c \in Channels : saved'[c] \in {saved[c], heard[m][c]}
        /\ saved' \in [Channels -> Nat]
    BY <1>1 DEF Upserted, EngineTypes
  <1>6. faults' = faults => failed = {}
    BY <1>1, <1>3, <1>4
  <1>7. faults' = faults => \A c \in Channels : heard[m][c] > 0 => saved'[c] = heard[m][c]
    BY <1>1, <1>6 DEF Upserted
  <1>. QED BY <1>1, <1>4, <1>5, <1>7 DEF moods, contacts

\* A period of the maintenance task, and the flush at the end of main().
FlushesExported ==
  /\ \/ exported # None /\ Flush(exported)
     \/ UNCHANGED engines
  /\ UNCHANGED <<initializer, exported, panel, stage, pipeline, at, by, ends,
                 expected, heardEver, felt>>
  /\ process' \in Processes

LEMMA FlushCases ==
    ASSUME Structure, Maintain \/ Exit
    PROVE  FlushesExported
  BY DEF Structure, TypeOK, Maintain, Exit, FlushesExported, lifecycle, history, Processes

LEMMA FlushExportedEffect ==
    ASSUME Structure, FlushesExported
    PROVE  \/ UNCHANGED engines
           \/ exported \in Created /\ exported \in Managers /\ Flush(exported)
  BY DEF Structure, TypeOK, FlushesExported, Created

LEMMA FlushStructure ==
    ASSUME Structure, FlushesExported
    PROVE  Structure' /\ Created' = Created
  <1>0. TypeOK /\ GivenByManager /\ OnlyCreatedKnow /\ EngineTypes
    BY DEF Structure, TypeOK
  <1>1. EngineTypes' /\ UNCHANGED <<known, loads>>
    <2>1. CASE UNCHANGED engines
      BY <1>0, <2>1 DEF EngineTypes, engines, moods, contacts
    <2>2. CASE exported \in Managers /\ Flush(exported)
      BY <1>0, <2>2, FlushEffect DEF EngineTypes
    <2>. QED BY <2>1, <2>2, FlushExportedEffect
  <1>2. /\ UNCHANGED <<initializer, exported, panel, stage, pipeline, by, ends>>
        /\ \A y \in Messages : at'[y] = at[y]
        /\ expected' \in [Channels -> Nat] /\ heardEver' \in [Channels -> Nat]
        /\ felt' \in [People -> Nat] /\ process' \in Processes /\ at' \in [Messages -> Places]
    BY <1>0 DEF FlushesExported, TypeOK
  <1>3. /\ loads' \subseteq Created \X People
        /\ \A k \in Managers \ Created, v \in People : known'[k][v] = None
    BY <1>0, <1>1 DEF OnlyCreatedKnow
  <1>. QED BY <1>1, <1>2, <1>3, SameManagers

LEMMA EndStructure ==
    ASSUME Structure, End
    PROVE  Structure' /\ Created' = {}
  <1>0. TypeOK /\ EngineTypes
    BY DEF Structure, TypeOK
  <1>1. /\ heard' = [m \in Managers |-> [c \in Channels |-> 0]]
        /\ known' = [m \in Managers |-> [u \in People |-> None]]
        /\ loads' = {}
        /\ mood' = [m \in Managers |-> [u \in People |-> None]]
        /\ changes' = [m \in Managers |-> 0]
        /\ UNCHANGED <<saved, stored, kept, met, logged, faults>>
    BY DEF End, Forget, contacts
  <1>2. EngineTypes'
    BY <1>0, <1>1 DEF EngineTypes
  <1>3. \A m \in Managers : stage'[m] \in {"none", "gone"}
    BY <1>0 DEF End, TypeOK, Begun
  <1>4. stage' \in [Managers -> Stages]
    BY <1>0 DEF End, TypeOK, Begun, Stages
  <1>5. Created' = {}
    BY <1>3 DEF Created, HasManager
  <1>6. /\ at' \in [Messages -> Places]
        /\ \A x \in Messages : at'[x] \notin {"given", "decided", "felt"}
    BY <1>0 DEF End, TypeOK, Places
  <1>7. /\ process' \in Processes /\ initializer' = None /\ exported' = None /\ panel' = None
        /\ UNCHANGED <<expected, heardEver, felt, pipeline, by>>
        /\ ends' \in 0..EndLimit
    BY <1>0 DEF End, TypeOK, Processes, history
  <1>. QED
    BY <1>0, <1>1, <1>2, <1>4, <1>5, <1>6, <1>7
    DEF Structure, TypeOK, GivenByManager, OnlyCreatedKnow

LEMMA StepStructure == Structure /\ [Next]_vars => Structure'
  BY StepCases, QuietStructure, VoiceReadyStructure, DecidedStructure, FeltStructure,
     WrittenStructure, LoadStructure, FlushCases, FlushStructure, EndStructure

LEMMA StructureInvariant == Spec => []Structure
  BY InitStructure, StepStructure, PTL DEF Spec

\* Every variable of the engines, the tables and the set-up keeps its type, and what the
\* package exports is a manager that exists.
THEOREM LifecycleTypeCorrect == Spec => []TypeOK
  <1>1. Structure => TypeOK
    BY DEF Structure
  <1>. QED BY <1>1, StructureInvariant, PTL

-----------------------------------------------------------------------------
(* Nothing is counted twice: the rhythm *)

HeardBounded ==
  \A c \in Channels : /\ saved[c] <= heardEver[c]
                      /\ \A m \in Managers : heard[m][c] <= heardEver[c]

LEMMA StepHeardBounded ==
    ASSUME Structure, HeardBounded, [Next]_vars
    PROVE  HeardBounded'
  <1>0. /\ heard \in [Managers -> [Channels -> Nat]]
        /\ saved \in [Channels -> Nat]
        /\ heardEver \in [Channels -> Nat]
        /\ ChannelOf \in [Messages -> Channels]
    BY DEF Structure, TypeOK, EngineTypes
  <1>1. CASE UNCHANGED <<heard, saved, heardEver>>
    BY <1>1 DEF HeardBounded
  <1>2. CASE SetUpQuietly
    BY <1>1, <1>2, QuietFrame
  <1>3. ASSUME NEW m \in Managers, VoiceReady(m)
        PROVE  HeardBounded'
    <2>1. /\ UNCHANGED <<saved, heardEver>>
          /\ \E read \in BOOLEAN : heard' = [heard EXCEPT ![m] = Snapshots(read)]
      BY <1>3 DEF VoiceReady, Restore, history
    <2>2. \A k \in Managers, c \in Channels : heard'[k][c] \in {heard[k][c], saved[c], 0}
      BY <1>0, <2>1 DEF Snapshots
    <2>. QED BY <1>0, <2>1, <2>2 DEF HeardBounded
  <1>4. ASSUME NEW x \in Messages, Decided(x)
        PROVE  HeardBounded'
    <2>1. by[x] \in Managers
      BY <1>4, DecidedStructure
    <2>2. /\ heard' = [heard EXCEPT ![by[x]][ChannelOf[x]] = @ + 1]
          /\ heardEver' = [heardEver EXCEPT ![ChannelOf[x]] = @ + 1]
          /\ saved' = saved
      BY <1>4 DEF Decided, Decide
    <2>. QED BY <1>0, <2>1, <2>2 DEF HeardBounded
  <1>5. ASSUME NEW x \in Messages, Felt(x)
        PROVE  HeardBounded'
    BY <1>1, <1>5 DEF Felt, Record
  <1>6. ASSUME NEW x \in Messages, Written(x)
        PROVE  HeardBounded'
    BY <1>1, <1>6 DEF Written, Finish, history
  <1>7. CASE LoadAffect
    BY <1>1, <1>7 DEF LoadAffect, Load, history
  <1>8. CASE FlushesExported
    <2>1. heardEver' = heardEver /\ heard' = heard
      BY <1>8, FlushExportedEffect, FlushEffect DEF FlushesExported, Structure, TypeOK, engines
    <2>2. CASE saved' = saved
      BY <1>1, <2>1, <2>2
    <2>3. CASE exported \in Managers /\ Flush(exported)
      <3>1. \A c \in Channels : saved'[c] \in {saved[c], heard[exported][c]}
        BY <2>3, FlushEffect DEF Structure, TypeOK
      <3>. QED BY <1>0, <2>1, <2>3, <3>1 DEF HeardBounded
    <2>. QED BY <1>8, <2>2, <2>3, FlushExportedEffect DEF engines
  <1>9. CASE End
    BY <1>0, <1>9 DEF End, Forget, history, HeardBounded
  <1>. QED
    BY <1>2, <1>3, <1>4, <1>5, <1>6, <1>7, <1>8, <1>9, StepCases, FlushCases

-----------------------------------------------------------------------------
(* Nothing is counted twice: the feeling about a person *)

FeltBounded ==
  \A u \in People : /\ stored[u] <= felt[u]
                    /\ \A m \in Managers : known[m][u] # None => known[m][u] <= felt[u]

LEMMA StepFeltBounded ==
    ASSUME Structure, FeltBounded, [Next]_vars
    PROVE  FeltBounded'
  <1>0. /\ known \in [Managers -> [People -> Nat \cup {None}]]
        /\ stored \in [People -> Nat]
        /\ felt \in [People -> Nat]
        /\ AuthorOf \in [Messages -> People]
    BY DEF Structure, TypeOK, EngineTypes
  <1>1. CASE UNCHANGED <<known, stored, felt>>
    BY <1>1 DEF FeltBounded
  <1>2. CASE SetUpQuietly
    BY <1>1, <1>2, QuietFrame
  <1>3. ASSUME NEW m \in Managers, VoiceReady(m)
        PROVE  FeltBounded'
    BY <1>1, <1>3 DEF VoiceReady, Restore, history
  <1>4. ASSUME NEW x \in Messages, Decided(x)
        PROVE  FeltBounded'
    BY <1>1, <1>4 DEF Decided, Decide
  <1>5. ASSUME NEW x \in Messages, Felt(x)
        PROVE  FeltBounded'
    <2>. DEFINE m == by[x]
                u == AuthorOf[x]
    <2>1. m \in Managers /\ u \in People /\ Record(m, u) /\ EngineTypes
      BY <1>0, <1>5, FeltStructure DEF Felt, Structure, TypeOK
    <2>2. felt' = [felt EXCEPT ![u] = @ + 1]
      BY <1>5 DEF Felt
    <2>3. CountBefore(m, u) <= felt[u] /\ CountBefore(m, u) \in Nat
      BY <1>0, <2>1 DEF CountBefore, FeltBounded
    <2>. HIDE DEF m, u
    <2>4. PICK n \in Nat : /\ n <= CountBefore(m, u) + 1
                           /\ known' = [known EXCEPT ![m][u] = n]
                           /\ stored' \in {stored, [stored EXCEPT ![u] = n]}
      BY <2>1, RecordEffect
    <2>5. n <= felt[u] + 1
      BY <1>0, <2>1, <2>3, <2>4
    <2>6. ASSUME NEW v \in People
          PROVE  /\ stored'[v] <= felt'[v]
                 /\ \A k \in Managers : known'[k][v] # None => known'[k][v] <= felt'[v]
      <3>1. CASE v = u
        <4>1. felt'[v] = felt[u] + 1 /\ stored'[v] \in {stored[u], n}
          BY <1>0, <2>1, <2>2, <2>4, <3>1
        <4>2. \A k \in Managers : known'[k][v] \in {known[k][u], n}
          BY <1>0, <2>1, <2>4, <3>1
        <4>. QED BY <1>0, <2>1, <2>5, <4>1, <4>2 DEF FeltBounded
      <3>2. CASE v # u
        <4>1. felt'[v] = felt[v] /\ stored'[v] = stored[v]
          BY <1>0, <2>1, <2>2, <2>4, <3>2
        <4>2. \A k \in Managers : known'[k][v] = known[k][v]
          BY <1>0, <2>1, <2>4, <3>2
        <4>. QED BY <4>1, <4>2 DEF FeltBounded
      <3>. QED BY <3>1, <3>2
    <2>. QED BY <2>6 DEF FeltBounded
  <1>6. ASSUME NEW x \in Messages, Written(x)
        PROVE  FeltBounded'
    BY <1>1, <1>6 DEF Written, Finish, history
  <1>7. CASE LoadAffect
    <2>1. PICK m \in Managers, u \in People :
            known' \in {known, [known EXCEPT ![m][u] = stored[u]]}
      BY <1>7, LoadEffect
    <2>2. UNCHANGED <<stored, felt>>
      BY <1>7 DEF LoadAffect, Load, history
    <2>3. \A k \in Managers, v \in People : known'[k][v] \in {known[k][v], stored[v]}
      BY <1>0, <2>1
    <2>. QED BY <2>2, <2>3 DEF FeltBounded
  <1>8. CASE FlushesExported
    <2>1. UNCHANGED <<known, stored>>
      BY <1>8, FlushExportedEffect, FlushEffect DEF Structure, TypeOK, engines
    <2>. QED BY <1>1, <1>8, <2>1 DEF FlushesExported
  <1>9. CASE End
    BY <1>0, <1>9 DEF End, Forget, history, FeltBounded
  <1>. QED
    BY <1>2, <1>3, <1>4, <1>5, <1>6, <1>7, <1>8, <1>9, StepCases, FlushCases

-----------------------------------------------------------------------------
(* Nothing is counted twice: mood, relationship and activity *)

\* The messages of a person that wait for the language model.
Waiting(places, u) == {x \in Messages : places[x] = "felt" /\ AuthorOf[x] = u}

\* What has been counted after the language model and what will be is within what
\* reached the affect engine.
FinishBounded ==
  \A u \in People :
    LET waiting == Cardinality(Waiting(at, u)) IN
      /\ kept[u] + waiting <= felt[u]
      /\ met[u] + waiting <= felt[u]
      /\ logged[u] + waiting <= felt[u]
      /\ \A m \in Managers : mood[m][u] # None => mood[m][u] + waiting <= felt[u]

LEMMA WaitingCount ==
    ASSUME NEW places, NEW u
    PROVE  IsFiniteSet(Waiting(places, u)) /\ Cardinality(Waiting(places, u)) \in Nat
  <1>1. Waiting(places, u) \in SUBSET Messages
    BY DEF Waiting
  <1>. QED BY <1>1, FS_Subset, FS_CardinalityType

\* Runs that neither begin nor end to wait.
LEMMA SameWaiting ==
    ASSUME NEW u, \A x \in Messages : at'[x] = "felt" <=> at[x] = "felt"
    PROVE  Waiting(at', u) = Waiting(at, u)
  BY DEF Waiting

LEMMA WaitingGrows ==
    ASSUME TypeOK, NEW x \in Messages, at[x] # "felt", at' = [at EXCEPT ![x] = "felt"]
    PROVE  \A u \in People :
             Cardinality(Waiting(at', u)) =
               IF u = AuthorOf[x] THEN Cardinality(Waiting(at, u)) + 1
                                  ELSE Cardinality(Waiting(at, u))
  <1>1. ASSUME NEW u \in People, u = AuthorOf[x]
        PROVE  Cardinality(Waiting(at', u)) = Cardinality(Waiting(at, u)) + 1
    <2>1. Waiting(at', u) = Waiting(at, u) \cup {x} /\ x \notin Waiting(at, u)
      BY <1>1 DEF Waiting, TypeOK
    <2>. QED BY <2>1, WaitingCount, FS_AddElement
  <1>2. ASSUME NEW u \in People, u # AuthorOf[x]
        PROVE  Waiting(at', u) = Waiting(at, u)
    BY <1>2 DEF Waiting, TypeOK
  <1>. QED BY <1>1, <1>2

LEMMA WaitingShrinks ==
    ASSUME TypeOK, NEW x \in Messages, at[x] = "felt", at' = [at EXCEPT ![x] = "written"]
    PROVE  \A u \in People :
             Cardinality(Waiting(at, u)) =
               IF u = AuthorOf[x] THEN Cardinality(Waiting(at', u)) + 1
                                  ELSE Cardinality(Waiting(at', u))
  <1>1. ASSUME NEW u \in People, u = AuthorOf[x]
        PROVE  Cardinality(Waiting(at, u)) = Cardinality(Waiting(at', u)) + 1
    <2>1. Waiting(at, u) = Waiting(at', u) \cup {x} /\ x \notin Waiting(at', u)
      BY <1>1 DEF Waiting, TypeOK
    <2>. QED BY <2>1, WaitingCount, FS_AddElement
  <1>2. ASSUME NEW u \in People, u # AuthorOf[x]
        PROVE  Waiting(at', u) = Waiting(at, u)
    BY <1>2 DEF Waiting, TypeOK
  <1>. QED BY <1>1, <1>2

LEMMA InitFinishBounded == Init => FinishBounded
  <1>. SUFFICES ASSUME Init
                PROVE  FinishBounded
    OBVIOUS
  <1>1. ASSUME NEW u \in People
        PROVE  Cardinality(Waiting(at, u)) = 0
    <2>1. Waiting(at, u) = {}
      BY DEF Init, Waiting
    <2>. QED BY <2>1, FS_EmptySet
  <1>2. /\ \A u \in People : kept[u] = 0 /\ met[u] = 0 /\ logged[u] = 0 /\ felt[u] = 0
        /\ \A u \in People, m \in Managers : mood[m][u] = None
    BY DEF Init, EngineInit
  <1>. QED BY <1>1, <1>2 DEF FinishBounded

\* A step after which each count is one that was there, and as many runs wait.
LEMMA SameFinish ==
    ASSUME Structure, FinishBounded,
           UNCHANGED <<kept, met, logged, felt>>,
           \A x \in Messages : at'[x] = "felt" <=> at[x] = "felt",
           \A m \in Managers, u \in People : mood'[m][u] \in {mood[m][u], kept[u], None}
    PROVE  FinishBounded'
  <1>1. \A u \in People : Waiting(at', u) = Waiting(at, u)
    BY SameWaiting
  <1>. QED BY <1>1 DEF FinishBounded

LEMMA FeltFinish ==
    ASSUME Structure, FinishBounded, NEW x \in Messages, Felt(x)
    PROVE  FinishBounded'
  <1>. DEFINE m == by[x]
              u == AuthorOf[x]
  <1>1. m \in Managers /\ u \in People /\ Record(m, u) /\ TypeOK /\ EngineTypes
    BY FeltStructure DEF Felt, Structure, TypeOK
  <1>2. /\ felt' = [felt EXCEPT ![u] = @ + 1]
        /\ at[x] # "felt" /\ at' = [at EXCEPT ![x] = "felt"]
    BY DEF Felt
  <1>3. UNCHANGED <<mood, kept, met, logged>>
    BY <1>1, RecordEffect
  <1>4. \A v \in People :
          Cardinality(Waiting(at', v)) =
            IF v = u THEN Cardinality(Waiting(at, v)) + 1 ELSE Cardinality(Waiting(at, v))
    BY <1>1, <1>2, WaitingGrows
  <1>5. \A v \in People : felt'[v] = IF v = u THEN felt[v] + 1 ELSE felt[v]
    BY <1>1, <1>2 DEF TypeOK
  <1>. HIDE DEF m, u
  <1>6. ASSUME NEW v \in People
        PROVE  /\ kept'[v] + Cardinality(Waiting(at', v)) <= felt'[v]
               /\ met'[v] + Cardinality(Waiting(at', v)) <= felt'[v]
               /\ logged'[v] + Cardinality(Waiting(at', v)) <= felt'[v]
               /\ \A k \in Managers : mood'[k][v] # None
                    => mood'[k][v] + Cardinality(Waiting(at', v)) <= felt'[v]
    <2>. DEFINE before == Cardinality(Waiting(at, v))
                after == Cardinality(Waiting(at', v))
    <2>1. /\ before \in Nat /\ felt[v] \in Nat /\ kept[v] \in Nat
          /\ met[v] \in Nat /\ logged[v] \in Nat
          /\ \A k \in Managers : mood[k][v] \in Nat \cup {None}
      BY <1>1, WaitingCount DEF TypeOK, EngineTypes
    <2>2. \/ after = before + 1 /\ felt'[v] = felt[v] + 1
          \/ after = before /\ felt'[v] = felt[v]
      BY <1>4, <1>5
    <2>3. /\ kept[v] + before <= felt[v] /\ met[v] + before <= felt[v]
          /\ logged[v] + before <= felt[v]
          /\ \A k \in Managers : mood[k][v] # None => mood[k][v] + before <= felt[v]
      BY DEF FinishBounded
    <2>. HIDE DEF before, after
    <2>4. /\ kept'[v] + after <= felt'[v] /\ met'[v] + after <= felt'[v]
          /\ logged'[v] + after <= felt'[v]
          /\ \A k \in Managers : mood'[k][v] # None => mood'[k][v] + after <= felt'[v]
      BY <1>3, <2>1, <2>2, <2>3
    <2>. QED BY <2>4 DEF after
  <1>. QED BY <1>6 DEF FinishBounded

LEMMA WrittenFinish ==
    ASSUME Structure, FinishBounded, NEW x \in Messages, Written(x)
    PROVE  FinishBounded'
  <1>. DEFINE m == by[x]
              u == AuthorOf[x]
  <1>1. m \in Managers /\ u \in People /\ Finish(m, u) /\ TypeOK /\ EngineTypes
    BY WrittenStructure DEF Written, Structure, TypeOK
  <1>2. /\ felt' = felt
        /\ at[x] = "felt" /\ at' = [at EXCEPT ![x] = "written"]
    BY DEF Written, history
  <1>3. /\ mood' = [mood EXCEPT ![m][u] = IF @ = None THEN 1 ELSE @ + 1]
        /\ \A v \in People : \/ kept'[v] = kept[v]
                             \/ mood'[m][v] # None /\ kept'[v] = mood'[m][v]
        /\ met' \in {met, [met EXCEPT ![u] = @ + 1]}
        /\ logged' \in {logged, [logged EXCEPT ![u] = @ + 1]}
    BY <1>1, FinishEffect
  <1>4. \A v \in People :
          Cardinality(Waiting(at, v)) =
            IF v = u THEN Cardinality(Waiting(at', v)) + 1 ELSE Cardinality(Waiting(at', v))
    BY <1>1, <1>2, WaitingShrinks
  <1>. HIDE DEF m, u
  <1>5. ASSUME NEW v \in People
        PROVE  /\ kept'[v] + Cardinality(Waiting(at', v)) <= felt'[v]
               /\ met'[v] + Cardinality(Waiting(at', v)) <= felt'[v]
               /\ logged'[v] + Cardinality(Waiting(at', v)) <= felt'[v]
               /\ \A k \in Managers : mood'[k][v] # None
                    => mood'[k][v] + Cardinality(Waiting(at', v)) <= felt'[v]
    <2>. DEFINE before == Cardinality(Waiting(at, v))
                after == Cardinality(Waiting(at', v))
    <2>1. /\ before \in Nat /\ after \in Nat /\ felt[v] \in Nat /\ kept[v] \in Nat
          /\ met[v] \in Nat /\ logged[v] \in Nat
          /\ \A k \in Managers : mood[k][v] \in Nat \cup {None}
      BY <1>1, WaitingCount DEF TypeOK, EngineTypes
    <2>2. /\ kept[v] + before <= felt[v] /\ met[v] + before <= felt[v]
          /\ logged[v] + before <= felt[v]
          /\ \A k \in Managers : mood[k][v] # None => mood[k][v] + before <= felt[v]
      BY DEF FinishBounded
    <2>3. before = IF v = u THEN after + 1 ELSE after
      BY <1>4
    <2>4. /\ met'[v] = met[v] \/ (v = u /\ met'[v] = met[v] + 1)
          /\ logged'[v] = logged[v] \/ (v = u /\ logged'[v] = logged[v] + 1)
      BY <1>1, <1>3 DEF TypeOK, EngineTypes
    <2>5. \A k \in Managers :
            \/ mood'[k][v] = mood[k][v]
            \/ /\ v = u
               /\ mood[k][v] = None => mood'[k][v] = 1
               /\ mood[k][v] # None => mood'[k][v] = mood[k][v] + 1
      BY <1>1, <1>3 DEF TypeOK, EngineTypes
    <2>. HIDE DEF before, after
    <2>6. met'[v] + after <= felt[v] /\ logged'[v] + after <= felt[v]
      BY <2>1, <2>2, <2>3, <2>4
    <2>7. ASSUME NEW k \in Managers, mood'[k][v] # None
          PROVE  mood'[k][v] + after <= felt[v]
      BY <2>1, <2>2, <2>3, <2>5, <2>7
    <2>8. kept'[v] + after <= felt[v]
      BY <1>1, <1>3, <2>1, <2>2, <2>3, <2>7
    <2>. QED BY <1>2, <2>6, <2>7, <2>8 DEF after
  <1>. QED BY <1>5 DEF FinishBounded

LEMMA EndFinish ==
    ASSUME Structure, FinishBounded, End
    PROVE  FinishBounded'
  <1>1. /\ UNCHANGED <<kept, met, logged, felt>>
        /\ mood' = [m \in Managers |-> [u \in People |-> None]]
    BY DEF End, Forget, contacts, history
  <1>2. \A u \in People : Waiting(at', u) = {}
    BY DEF End, Waiting, Structure, TypeOK
  <1>3. \A u \in People : Cardinality(Waiting(at', u)) = 0
    BY <1>2, FS_EmptySet
  <1>4. ASSUME NEW u \in People
        PROVE  kept[u] <= felt[u] /\ met[u] <= felt[u] /\ logged[u] <= felt[u]
    <2>1. /\ felt[u] \in Nat /\ kept[u] \in Nat /\ met[u] \in Nat /\ logged[u] \in Nat
          /\ Cardinality(Waiting(at, u)) \in Nat
      BY WaitingCount DEF Structure, TypeOK, EngineTypes
    <2>. QED BY <2>1 DEF FinishBounded
  <1>5. \A u \in People : kept[u] \in Nat /\ met[u] \in Nat /\ logged[u] \in Nat
    BY DEF Structure, TypeOK, EngineTypes
  <1>. QED BY <1>1, <1>3, <1>4, <1>5 DEF FinishBounded

LEMMA StepFinishBounded ==
    ASSUME Structure, FinishBounded, [Next]_vars
    PROVE  FinishBounded'
  <1>0. at \in [Messages -> Places] /\ mood \in [Managers -> [People -> Nat \cup {None}]]
    BY DEF Structure, TypeOK, EngineTypes
  <1>1. CASE /\ UNCHANGED <<mood, kept, met, logged, felt>>
             /\ \A x \in Messages : at'[x] = "felt" <=> at[x] = "felt"
    BY <1>1, SameFinish
  <1>2. CASE SetUpQuietly
    <2>1. \A x \in Messages : at'[x] = "felt" <=> at[x] = "felt"
      BY <1>0, <1>2 DEF SetUpQuietly, OnReady, ModelReady, ProcessorsReady, BackupDone,
         BehaviourReady, Arrive, Start, vars, lifecycle
    <2>. QED BY <1>1, <1>2, <2>1, QuietFrame
  <1>3. ASSUME NEW m \in Managers, VoiceReady(m)
        PROVE  FinishBounded'
    <2>1. UNCHANGED <<kept, met, logged, felt, at>>
      BY <1>3 DEF VoiceReady, Restore, contacts, history
    <2>2. mood' = mood \/ mood' = [mood EXCEPT ![m] = Recalled]
      BY <1>3 DEF VoiceReady, Restore
    <2>3. \A k \in Managers, u \in People : mood'[k][u] \in {mood[k][u], kept[u], None}
      BY <1>0, <2>2 DEF Recalled
    <2>. QED BY <2>1, <2>3, SameFinish
  <1>4. ASSUME NEW x \in Messages, Decided(x)
        PROVE  FinishBounded'
    <2>1. UNCHANGED <<mood, kept, met, logged, felt>>
      BY <1>4 DEF Decided, Decide, moods, contacts
    <2>2. \A y \in Messages : at'[y] = "felt" <=> at[y] = "felt"
      BY <1>0, <1>4 DEF Decided
    <2>. QED BY <1>1, <2>1, <2>2
  <1>5. CASE LoadAffect
    BY <1>1, <1>5 DEF LoadAffect, Load, moods, contacts, lifecycle, history
  <1>6. CASE FlushesExported
    <2>1. UNCHANGED <<mood, kept, met, logged>>
      BY <1>6, FlushExportedEffect, FlushEffect
      DEF Structure, TypeOK, engines, moods, contacts
    <2>. QED BY <1>1, <1>6, <2>1 DEF FlushesExported
  <1>. QED
    BY <1>2, <1>3, <1>4, <1>5, <1>6, StepCases, FlushCases, FeltFinish, WrittenFinish, EndFinish

-----------------------------------------------------------------------------
(* Nothing is counted twice *)

Bounded == Structure /\ HeardBounded /\ FeltBounded /\ FinishBounded

LEMMA InitBounded == Init => Bounded
  <1>1. Init => HeardBounded /\ FeltBounded
    BY DEF Init, EngineInit, HeardBounded, FeltBounded
  <1>. QED BY <1>1, InitStructure, InitFinishBounded DEF Bounded

LEMMA StepBounded == Bounded /\ [Next]_vars => Bounded'
  BY StepStructure, StepHeardBounded, StepFeltBounded, StepFinishBounded DEF Bounded

LEMMA BoundedCounts == Bounded => NothingCountedTwice
  <1>. SUFFICES ASSUME Bounded
                PROVE  NothingCountedTwice
    OBVIOUS
  <1>1. ASSUME NEW u \in People
        PROVE  /\ kept[u] <= felt[u] /\ met[u] <= felt[u] /\ logged[u] <= felt[u]
               /\ \A m \in Managers : mood[m][u] # None => mood[m][u] <= felt[u]
    <2>. DEFINE waiting == Cardinality(Waiting(at, u))
    <2>1. /\ waiting \in Nat /\ felt[u] \in Nat /\ kept[u] \in Nat
          /\ met[u] \in Nat /\ logged[u] \in Nat
          /\ \A m \in Managers : mood[m][u] \in Nat \cup {None}
      BY WaitingCount DEF Bounded, Structure, TypeOK, EngineTypes
    <2>2. /\ kept[u] + waiting <= felt[u] /\ met[u] + waiting <= felt[u]
          /\ logged[u] + waiting <= felt[u]
          /\ \A m \in Managers : mood[m][u] # None => mood[m][u] + waiting <= felt[u]
      BY DEF Bounded, FinishBounded
    <2>. HIDE DEF waiting
    <2>. QED BY <2>1, <2>2
  <1>. QED BY <1>1 DEF Bounded, HeardBounded, FeltBounded, NothingCountedTwice

\* No engine and no row accounts for more messages than there were, whatever managers,
\* background loads, failing statements and restarts overlap.
THEOREM CountsOnce == Spec => []NothingCountedTwice
  BY InitBounded, StepBounded, BoundedCounts, PTL DEF Spec

-----------------------------------------------------------------------------
(* What was saved is not replaced by less *)

\* What a manager has in memory of a person's mood, as a number.
InMind(m, u) == IF mood[m][u] = None THEN 0 ELSE mood[m][u]

\* The only manager has read, or made, everything that is in the tables.
KnowsTables(m) ==
  /\ \A c \in Channels : saved[c] <= heard[m][c]
  /\ \A u \in People : /\ kept[u] <= InMind(m, u)
                       /\ known[m][u] \in {None, stored[u]}

AloneKnows == \A m \in Managers : Created = {m} /\ faults = 0 => KnowsTables(m)

\* At most one manager exists.
LEMMA AtMostOne ==
    ASSUME Cardinality(Created) <= 1
    PROVE  Created = {} \/ \E m \in Managers : Created = {m}
  <1>1. Created \in SUBSET Managers
    BY DEF Created
  <1>2. IsFiniteSet(Created)
    BY <1>1, FS_Subset
  <1>3. CASE Created # {}
    <2>1. PICK m \in Created : TRUE
      BY <1>3
    <2>2. IsFiniteSet(Created \ {m}) /\ Cardinality(Created \ {m}) = Cardinality(Created) - 1
      BY <1>2, <2>1, FS_RemoveElement
    <2>3. Cardinality(Created \ {m}) \in Nat /\ Cardinality(Created) \in Nat
      BY <1>2, <2>2, FS_CardinalityType
    <2>4. Cardinality(Created \ {m}) = 0
      BY <2>2, <2>3
    <2>5. Created \ {m} = {}
      BY <2>2, <2>4, FS_EmptySet
    <2>. QED BY <1>1, <2>1, <2>5
  <1>. QED BY <1>3

\* The tables keep what they have and count what is felt.
TablesKeep ==
  /\ \A c \in Channels : saved'[c] >= saved[c]
  /\ \A u \in People : kept'[u] >= kept[u] /\ stored'[u] - stored[u] = felt'[u] - felt[u]

LEMMA SameTables ==
    ASSUME Structure, UNCHANGED <<saved, kept, stored, felt>>
    PROVE  TablesKeep
  BY DEF TablesKeep, Structure, TypeOK, EngineTypes

LEMMA VoiceReadyAlone ==
    ASSUME Structure, AloneKnows, NEW k \in Managers, VoiceReady(k)
    PROVE  AloneKnows' /\ faults' >= faults /\ TablesKeep
  <1>0. /\ heard \in [Managers -> [Channels -> Nat]]
        /\ mood \in [Managers -> [People -> Nat \cup {None}]]
        /\ saved \in [Channels -> Nat] /\ kept \in [People -> Nat] /\ faults \in Nat
        /\ OnlyCreatedKnow
    BY DEF Structure, TypeOK, EngineTypes
  <1>1. k \notin Created /\ Created' = Created \cup {k}
    BY VoiceReadyStructure
  <1>2. PICK moodsRead \in BOOLEAN, rhythmRead \in BOOLEAN :
          /\ mood' = IF moodsRead THEN [mood EXCEPT ![k] = Recalled] ELSE mood
          /\ heard' = [heard EXCEPT ![k] = Snapshots(rhythmRead)]
          /\ faults' = faults + (IF moodsRead THEN 0 ELSE 1) + (IF rhythmRead THEN 0 ELSE 1)
          /\ UNCHANGED <<saved, known, stored, kept>>
    BY DEF VoiceReady, Restore
  <1>3. faults' >= faults
    BY <1>0, <1>2
  <1>4. ASSUME NEW m \in Managers, Created' = {m}, faults' = 0
        PROVE  KnowsTables(m)'
    <2>1. m = k
      BY <1>1, <1>4
    <2>2. moodsRead /\ rhythmRead
      BY <1>0, <1>2, <1>4
    <2>3. heard'[k] = saved
      BY <1>0, <1>2, <2>2 DEF Snapshots
    <2>4. \A u \in People : mood'[k][u] = IF kept[u] = 0 THEN None ELSE kept[u]
      BY <1>0, <1>2, <2>2 DEF Recalled
    <2>5. \A u \in People : known'[k][u] = None
      BY <1>0, <1>1, <1>2 DEF OnlyCreatedKnow
    <2>. QED BY <1>0, <1>2, <2>1, <2>3, <2>4, <2>5 DEF KnowsTables, InMind
  <1>5. TablesKeep
    BY <1>2, SameTables DEF VoiceReady, history
  <1>. QED BY <1>3, <1>4, <1>5 DEF AloneKnows

\* A step of the only manager.
LEMMA OnlyManagerSteps ==
    ASSUME Structure, NEW m \in Managers, KnowsTables(m), Created = {m}, faults = 0, faults' = 0,
           \/ \E x \in Messages : Decided(x) \/ Felt(x) \/ Written(x)
           \/ LoadAffect
           \/ FlushesExported
    PROVE  KnowsTables(m)' /\ TablesKeep
  <1>0. /\ heard \in [Managers -> [Channels -> Nat]]
        /\ saved \in [Channels -> Nat]
        /\ known \in [Managers -> [People -> Nat \cup {None}]]
        /\ mood \in [Managers -> [People -> Nat \cup {None}]]
        /\ kept \in [People -> Nat]
        /\ stored \in [People -> Nat]
        /\ felt \in [People -> Nat]
        /\ ChannelOf \in [Messages -> Channels] /\ AuthorOf \in [Messages -> People]
        /\ EngineTypes
    BY DEF Structure, TypeOK, EngineTypes
  <1>1. ASSUME NEW x \in Messages, Decided(x)
        PROVE  KnowsTables(m)' /\ TablesKeep
    <2>1. by[x] = m
      BY <1>1, DecidedStructure
    <2>2. /\ heard' = [heard EXCEPT ![m][ChannelOf[x]] = @ + 1]
          /\ UNCHANGED <<saved, known, stored, mood, kept, felt>>
      BY <1>1, <2>1 DEF Decided, Decide, moods
    <2>3. \A c \in Channels : heard'[m][c] >= heard[m][c]
      BY <1>0, <2>2
    <2>4. \A c \in Channels : heard'[m][c] \in Nat
      BY <1>0, <2>2
    <2>. QED BY <1>0, <2>2, <2>3, <2>4, SameTables DEF KnowsTables, InMind
  <1>2. ASSUME NEW x \in Messages, Felt(x)
        PROVE  KnowsTables(m)' /\ TablesKeep
    <2>. DEFINE u == AuthorOf[x]
    <2>1. by[x] = m /\ u \in People /\ Record(m, u) /\ felt' = [felt EXCEPT ![u] = @ + 1]
      BY <1>0, <1>2, FeltStructure DEF Felt
    <2>2. CountBefore(m, u) = stored[u]
      BY <1>0, <2>1 DEF CountBefore, KnowsTables
    <2>. HIDE DEF u
    <2>3. PICK n \in Nat : /\ known' = [known EXCEPT ![m][u] = n]
                           /\ stored' \in {stored, [stored EXCEPT ![u] = n]}
                           /\ n = CountBefore(m, u) + 1 /\ stored'[u] = n
      <3>1. EngineTypes /\ u \in People /\ Record(m, u) /\ faults' = faults
        BY <1>0, <2>1
      <3>. QED BY <3>1, RecordEffect
    <2>4. UNCHANGED <<heard, saved, mood, kept>>
      BY <1>0, <2>1, RecordEffect
    <2>5. \A v \in People : IF v = u THEN stored'[v] = stored[v] + 1 /\ felt'[v] = felt[v] + 1
                                     ELSE stored'[v] = stored[v] /\ felt'[v] = felt[v]
      BY <1>0, <2>1, <2>2, <2>3
    <2>6. \A v \in People : known'[m][v] = IF v = u THEN stored'[u] ELSE known[m][v]
      BY <1>0, <2>1, <2>3
    <2>7. \A v \in People : known'[m][v] \in {None, stored'[v]}
      BY <2>5, <2>6 DEF KnowsTables
    <2>8. TablesKeep
      <3>1. \A c \in Channels : saved'[c] >= saved[c]
        BY <1>0, <2>4
      <3>2. ASSUME NEW v \in People
            PROVE  kept'[v] >= kept[v] /\ stored'[v] - stored[v] = felt'[v] - felt[v]
        <4>1. kept[v] \in Nat /\ stored[v] \in Nat /\ felt[v] \in Nat /\ kept'[v] = kept[v]
          BY <1>0, <2>4
        <4>2. \/ stored'[v] = stored[v] + 1 /\ felt'[v] = felt[v] + 1
              \/ stored'[v] = stored[v] /\ felt'[v] = felt[v]
          BY <2>5
        <4>. QED BY <4>1, <4>2
      <3>. QED BY <3>1, <3>2 DEF TablesKeep
    <2>. QED BY <2>4, <2>7, <2>8 DEF KnowsTables, InMind
  <1>3. ASSUME NEW x \in Messages, Written(x)
        PROVE  KnowsTables(m)' /\ TablesKeep
    <2>. DEFINE u == AuthorOf[x]
    <2>1. by[x] = m /\ u \in People /\ Finish(m, u) /\ felt' = felt
      BY <1>0, <1>3, WrittenStructure DEF Written, history
    <2>. HIDE DEF u
    <2>2. /\ mood' = [mood EXCEPT ![m][u] = IF @ = None THEN 1 ELSE @ + 1]
          /\ \A v \in People : \/ kept'[v] = kept[v]
                               \/ mood'[m][v] # None /\ kept'[v] = mood'[m][v]
          /\ kept' \in [People -> Nat]
          /\ UNCHANGED <<heard, saved, known, stored>>
      BY <1>0, <2>1, FinishEffect
    <2>3. \A v \in People :
            \/ mood'[m][v] = mood[m][v]
            \/ mood[m][v] = None /\ mood'[m][v] = 1
            \/ mood[m][v] # None /\ mood'[m][v] = mood[m][v] + 1
      BY <1>0, <2>1, <2>2
    <2>4. \A v \in People : InMind(m, v)' >= InMind(m, v)
                            /\ InMind(m, v)' \in Nat /\ InMind(m, v) \in Nat
      <3>. SUFFICES ASSUME NEW v \in People
                    PROVE  InMind(m, v)' >= InMind(m, v)
                           /\ InMind(m, v)' \in Nat /\ InMind(m, v) \in Nat
        OBVIOUS
      <3>1. mood[m][v] \in Nat \cup {None} /\ None \notin Nat
        BY <1>0
      <3>. QED BY <2>3, <3>1 DEF InMind
    <2>5. \A v \in People : kept'[v] >= kept[v] /\ kept'[v] <= InMind(m, v)'
      <3>. SUFFICES ASSUME NEW v \in People
                    PROVE  kept'[v] >= kept[v] /\ kept'[v] <= InMind(m, v)'
        OBVIOUS
      <3>1. kept[v] <= InMind(m, v) /\ kept[v] \in Nat
        BY <1>0 DEF KnowsTables
      <3>2. kept'[v] = kept[v] \/ kept'[v] = InMind(m, v)'
        BY <2>2 DEF InMind
      <3>. QED BY <2>4, <3>1, <3>2
    <2>. QED BY <1>0, <2>1, <2>2, <2>5 DEF KnowsTables, TablesKeep
  <1>4. CASE LoadAffect
    <2>1. PICK u \in People : known' \in {known, [known EXCEPT ![m][u] = stored[u]]}
      BY <1>4, LoadEffect
    <2>2. UNCHANGED <<heard, saved, stored, mood, kept, felt>>
      BY <1>4 DEF LoadAffect, Load, moods, history
    <2>3. \A v \in People : known'[m][v] \in {known[m][v], stored[v]}
      BY <1>0, <2>1
    <2>. QED BY <1>0, <2>2, <2>3, SameTables DEF KnowsTables, InMind
  <1>5. CASE FlushesExported
    <2>1. UNCHANGED <<heard, known, stored, mood, kept, felt>>
      BY <1>0, <1>5, FlushExportedEffect, FlushEffect DEF FlushesExported, engines, moods
    <2>2. \A c \in Channels : saved'[c] \in {saved[c], heard[m][c]}
      BY <1>0, <1>5, FlushExportedEffect, FlushEffect DEF engines
    <2>3. ASSUME NEW c \in Channels
          PROVE  saved'[c] >= saved[c] /\ saved'[c] <= heard[m][c]
      <3>1. saved[c] <= heard[m][c] /\ saved[c] \in Nat /\ heard[m][c] \in Nat
        BY <1>0 DEF KnowsTables
      <3>2. saved'[c] = saved[c] \/ saved'[c] = heard[m][c]
        BY <2>2
      <3>. QED BY <3>1, <3>2
    <2>. QED BY <1>0, <2>1, <2>3 DEF KnowsTables, InMind, TablesKeep
  <1>. QED BY <1>1, <1>2, <1>3, <1>4, <1>5

\* Only what exists takes such a step.
LEMMA SomebodySteps ==
    ASSUME Structure,
           \/ \E x \in Messages : Decided(x) \/ Felt(x) \/ Written(x)
           \/ LoadAffect
    PROVE  Created # {}
  BY DecidedStructure, FeltStructure, WrittenStructure, LoadEffect

LEMMA FaultsGrow ==
    ASSUME Structure, [Next]_vars
    PROVE  faults' >= faults /\ faults \in Nat
  <1>0. faults \in Nat /\ EngineTypes
    BY DEF Structure, TypeOK, EngineTypes
  <1>1. CASE faults' = faults
    BY <1>0, <1>1
  <1>2. ASSUME NEW m \in Managers, VoiceReady(m)
        PROVE  faults' >= faults
    BY <1>0, <1>2 DEF VoiceReady, Restore
  <1>3. ASSUME NEW x \in Messages, Decided(x) \/ Felt(x) \/ Written(x)
        PROVE  faults' >= faults
    <2>1. CASE Decided(x)
      BY <1>1, <2>1 DEF Decided, Decide
    <2>2. CASE Felt(x)
      <3>1. by[x] \in Managers /\ AuthorOf[x] \in People
        BY <2>2, FeltStructure
      <3>. QED BY <1>0, <2>2, <3>1, RecordEffect DEF Felt
    <2>3. CASE Written(x)
      <3>1. by[x] \in Managers /\ AuthorOf[x] \in People
        BY <2>3, WrittenStructure
      <3>. QED BY <1>0, <2>3, <3>1, FinishEffect DEF Written
    <2>. QED BY <1>3, <2>1, <2>2, <2>3
  <1>4. CASE LoadAffect
    <2>1. PICK m \in Created, u \in People : faults' >= faults
      BY <1>4, LoadEffect
    <2>. QED BY <1>0, <2>1
  <1>5. CASE FlushesExported
    BY <1>0, <1>1, <1>5, FlushExportedEffect, FlushEffect DEF engines
  <1>6. CASE End
    BY <1>1, <1>6 DEF End, Forget
  <1>. QED
    BY <1>0, <1>1, <1>2, <1>3, <1>4, <1>5, <1>6, StepCases, QuietFrame, FlushCases

LEMMA StepAloneKnows ==
    ASSUME Structure, AloneKnows, [Next]_vars
    PROVE  AloneKnows' /\ (Cardinality(Created) <= 1 /\ faults' = 0 => TablesKeep)
  <1>0. Structure' /\ faults' >= faults /\ faults \in Nat
    BY StepStructure, FaultsGrow
  <1>1. CASE SetUpQuietly
    <2>1. UNCHANGED <<heard, saved, known, stored, mood, kept, faults, felt>>
      BY <1>1, QuietFrame
    <2>2. TablesKeep
      BY <2>1, SameTables
    <2>3. Created \subseteq Created'
      BY <1>1, QuietStructure
    <2>4. Created' \ Created = {}
      BY <1>1 DEF SetUpQuietly, OnReady, ModelReady, ProcessorsReady, BackupDone,
         BehaviourReady, Arrive, Start, Moves, Created, HasManager, Structure, TypeOK, vars,
         lifecycle
    <2>5. Created' = Created
      BY <2>3, <2>4
    <2>. QED BY <2>1, <2>2, <2>5 DEF AloneKnows, KnowsTables, InMind
  <1>2. ASSUME NEW m \in Managers, VoiceReady(m)
        PROVE  AloneKnows' /\ TablesKeep
    BY <1>2, VoiceReadyAlone
  <1>3. CASE \/ \E x \in Messages : Decided(x) \/ Felt(x) \/ Written(x)
             \/ LoadAffect
             \/ FlushesExported
    <2>1. Created' = Created
      BY <1>3, DecidedStructure, FeltStructure, WrittenStructure, LoadStructure, FlushStructure
    <2>2. ASSUME NEW m \in Managers, Created = {m}, faults' = 0
          PROVE  KnowsTables(m)' /\ TablesKeep
      <3>1. faults = 0
        BY <1>0, <2>2
      <3>2. KnowsTables(m)
        BY <2>2, <3>1 DEF AloneKnows
      <3>. QED BY <1>3, <2>2, <3>1, <3>2, OnlyManagerSteps
    <2>3. ASSUME Created = {}
          PROVE  TablesKeep
      <3>1. FlushesExported
        BY <1>3, <2>3, SomebodySteps
      <3>2. UNCHANGED engines /\ felt' = felt
        BY <2>3, <3>1, FlushExportedEffect DEF FlushesExported
      <3>. QED BY <3>2, SameTables DEF engines, moods
    <2>. QED BY <2>1, <2>2, <2>3, AtMostOne DEF AloneKnows
  <1>4. CASE End
    <2>1. Created' = {}
      BY <1>4, EndStructure
    <2>2. UNCHANGED <<saved, kept, stored, felt>>
      BY <1>4 DEF End, Forget, history
    <2>. QED BY <2>1, <2>2, SameTables DEF AloneKnows
  <1>. QED BY <1>1, <1>2, <1>3, <1>4, StepCases, FlushCases

LEMMA InitAlone == Init => AloneKnows
  BY DEF Init, Created, HasManager, AloneKnows

\* As long as one manager exists and no statement fails, no row is replaced by less, and
\* a person's row counts every message that reaches the affect engine.
THEOREM SavedNeverLess == Spec => SavedKeepsCount
  <1>1. Init => Structure /\ AloneKnows
    BY InitStructure, InitAlone
  <1>2. Structure /\ AloneKnows /\ [Next]_vars => Structure' /\ AloneKnows'
    BY StepStructure, StepAloneKnows
  <1>3. Structure /\ AloneKnows /\ [Next]_vars =>
          [Cardinality(Created) <= 1 /\ faults' = 0 =>
             /\ \A c \in Channels : saved'[c] >= saved[c]
             /\ \A u \in People : kept'[u] >= kept[u] /\ stored'[u] - stored[u] = felt'[u] - felt[u]]_vars
    BY StepAloneKnows DEF TablesKeep
  <1>. QED BY <1>1, <1>2, <1>3, PTL DEF Spec, SavedKeepsCount

-----------------------------------------------------------------------------
(* What a clean exit leaves *)

\* Between two saves at most as many messages are missing in the table of moods as the
\* mood has changed since the last save.
FewUnsaved(m) ==
  /\ IsFiniteSet(UnsavedMoods(m))
  /\ Cardinality(UnsavedMoods(m)) <= changes[m] % SaveEvery

\* Without a manager the rows hold all that was heard; the only manager has heard it all.
AloneHasAll ==
  faults = 0 =>
    /\ Created = {} /\ process # "down" => saved = expected
    /\ \A m \in Managers : Created = {m} => heard[m] = expected /\ FewUnsaved(m)

\* The latest initializer is one that was begun, and a single complete one is exported.
LatestExported ==
  /\ Created # {} => process # "down"
  /\ initializer = None => Begun = {}
  /\ initializer # None => initializer \in Begun
  /\ \A m \in Managers : Begun = {m} /\ stage[m] = "ready" => exported = m

LEMMA StepLatestExported ==
    ASSUME Structure, LatestExported, [Next]_vars
    PROVE  LatestExported'
  <1>0. /\ stage \in [Managers -> Stages]
        /\ initializer \in Managers \cup {None}
        /\ None \notin Managers
        /\ process \in Processes
    BY DEF Structure, TypeOK
  <1>1. ASSUME UNCHANGED <<initializer, exported, stage>>,
               process' = "down" => process = "down"
        PROVE  LatestExported'
    BY <1>1 DEF LatestExported, Begun, Created, HasManager
  <1>2. ASSUME NEW k \in Managers, OnReady(k)
        PROVE  LatestExported'
    <2>1. /\ process' = "up" /\ initializer' = k /\ exported' = exported
          /\ stage[k] = "none" /\ stage' \in {[stage EXCEPT ![k] = "model"],
                                              [stage EXCEPT ![k] = "failed"]}
      BY <1>2 DEF OnReady, Moves
    <2>2. Begun' = Begun \cup {k} /\ stage'[k] # "ready"
      BY <1>0, <2>1 DEF Begun
    <2>. QED BY <1>0, <2>1, <2>2 DEF LatestExported
  <1>3. ASSUME NEW k \in Managers, SetUpStep(k)
        PROVE  LatestExported'
    <2>1. /\ process # "down" /\ UNCHANGED <<process, initializer>>
          /\ stage[k] \notin {"none", "gone"}
          /\ \E to \in {"processors", "failed", "voice", "backup", "behaviour", "ready"} :
               /\ stage' = [stage EXCEPT ![k] = to]
               /\ to = "ready" => exported' = ManagerOf(initializer)
               /\ to # "ready" => exported' = exported
      BY <1>3 DEF SetUpStep, ModelReady, ProcessorsReady, VoiceReady, BackupDone,
         BehaviourReady, Moves
    <2>2. PICK to \in {"processors", "failed", "voice", "backup", "behaviour", "ready"} :
               /\ stage' = [stage EXCEPT ![k] = to]
               /\ to = "ready" => exported' = ManagerOf(initializer)
               /\ to # "ready" => exported' = exported
      BY <2>1
    <2>3. Begun' = Begun /\ k \in Begun
      BY <1>0, <2>1, <2>2 DEF Begun
    <2>4. ASSUME NEW m \in Managers, Begun' = {m}, stage'[m] = "ready"
          PROVE  exported' = m
      <3>1. m = k /\ to = "ready"
        BY <1>0, <2>2, <2>3, <2>4
      <3>2. initializer = k
        BY <1>0, <2>3, <2>4, <3>1 DEF LatestExported
      <3>3. SetUpStep(k) /\ stage[k] = "behaviour"
        BY <1>0, <1>3, <2>2, <3>1 DEF SetUpStep, ModelReady, ProcessorsReady, VoiceReady,
           BackupDone, BehaviourReady, Moves
      <3>. QED BY <1>0, <2>2, <3>1, <3>2, <3>3 DEF ManagerOf, HasManager
    <2>. QED BY <1>0, <2>1, <2>3, <2>4 DEF LatestExported
  <1>4. CASE End
    <2>1. stage' = [m \in Managers |-> IF m \in Begun THEN "gone" ELSE stage[m]]
          /\ initializer' = None
      BY <1>4 DEF End
    <2>2. \A m \in Managers : stage'[m] \in {"none", "gone"}
      BY <1>0, <2>1 DEF Begun
    <2>. QED BY <2>1, <2>2 DEF LatestExported, Begun, Created, HasManager
  <1>5. CASE \/ \E x \in Messages : Arrive(x) \/ Decided(x) \/ Felt(x) \/ Written(x)
             \/ LoadAffect \/ Maintain \/ Exit \/ Start \/ UNCHANGED vars
    BY <1>1, <1>5 DEF Arrive, Decided, Felt, Written, LoadAffect, Maintain, Exit, Start, vars,
       lifecycle
  <1>. QED BY <1>2, <1>3, <1>4, <1>5 DEF Next

\* One change of a mood, when nothing fails.
LEMMA ChangeEffect ==
    ASSUME EngineTypes, NEW m \in Managers, NEW u \in People, Finish(m, u), faults' = faults
    PROVE  /\ changes' = [changes EXCEPT ![m] = @ + 1]
           /\ \/ /\ (changes[m] + 1) % SaveEvery = 0
                 /\ \A v \in People : mood'[m][v] # None => kept'[v] = mood'[m][v]
              \/ (changes[m] + 1) % SaveEvery # 0 /\ kept' = kept
  <1>1. PICK failed \in SUBSET {"mood", "relationship", "activity"} :
          ChangeMood(m, u, "mood" \notin failed) /\ faults' = faults + Cardinality(failed)
    BY DEF Finish
  <1>2. failed = {}
    <2>1. IsFiniteSet({"mood"} \cup {"relationship"} \cup {"activity"})
      BY FS_Singleton, FS_Union
    <2>2. failed \subseteq {"mood"} \cup {"relationship"} \cup {"activity"}
      OBVIOUS
    <2>3. IsFiniteSet(failed) /\ Cardinality(failed) \in Nat
      BY <2>1, <2>2, FS_Subset, FS_CardinalityType
    <2>4. faults \in Nat
      BY DEF EngineTypes
    <2>5. Cardinality(failed) = 0
      BY <1>1, <2>3, <2>4
    <2>. QED BY <2>3, <2>5, FS_EmptySet
  <1>3. ChangeMood(m, u, TRUE)
    BY <1>1, <1>2
  <1>4. changes' = [changes EXCEPT ![m] = @ + 1] /\ changes'[m] = changes[m] + 1
    BY <1>3 DEF ChangeMood, EngineTypes
  <1>5. CASE changes'[m] % SaveEvery = 0 /\ SaveMoods(m, TRUE)
    <2>1. kept' = [v \in People |-> IF v \in {w \in People : mood'[m][w] # None}
                                    THEN mood'[m][v] ELSE kept[v]]
      BY <1>5 DEF SaveMoods
    <2>. QED BY <1>4, <1>5, <2>1
  <1>6. CASE changes'[m] % SaveEvery # 0 /\ kept' = kept
    BY <1>4, <1>6
  <1>. QED BY <1>3, <1>5, <1>6 DEF ChangeMood

\* Counting one more between two saves.
LEMMA NextChange ==
    ASSUME NEW n \in Nat
    PROVE  /\ n % SaveEvery \in Nat /\ n % SaveEvery < SaveEvery
           /\ (n + 1) % SaveEvery # 0 => (n + 1) % SaveEvery = (n % SaveEvery) + 1
  OBVIOUS

LEMMA FinishFew ==
    ASSUME EngineTypes, NEW m \in Managers, NEW u \in People, Finish(m, u), faults' = faults,
           FewUnsaved(m)
    PROVE  FewUnsaved(m)'
  <1>0. /\ mood \in [Managers -> [People -> Nat \cup {None}]]
        /\ kept \in [People -> Nat] /\ changes \in [Managers -> Nat] /\ None \notin Nat
    BY DEF EngineTypes
  <1>1. /\ mood' = [mood EXCEPT ![m][u] = IF @ = None THEN 1 ELSE @ + 1]
        /\ changes' = [changes EXCEPT ![m] = @ + 1]
        /\ kept' \in [People -> Nat]
    BY FinishEffect, ChangeEffect
  <1>2. changes'[m] = changes[m] + 1 /\ changes[m] \in Nat
    BY <1>0, <1>1
  <1>3. CASE /\ (changes[m] + 1) % SaveEvery = 0
             /\ \A v \in People : mood'[m][v] # None => kept'[v] = mood'[m][v]
    <2>1. UnsavedMoods(m)' = {}
      <3>1. ASSUME NEW v \in People, mood'[m][v] # None
            PROVE  ((kept'[v] + 1)..mood'[m][v]) = {}
        BY <1>1, <1>3, <3>1
      <3>. QED BY <3>1 DEF UnsavedMoods
    <2>2. IsFiniteSet({}) /\ Cardinality({}) = 0
      BY FS_EmptySet
    <2>3. changes'[m] % SaveEvery = 0
      BY <1>2, <1>3
    <2>. QED BY <2>1, <2>2, <2>3 DEF FewUnsaved
  <1>4. CASE (changes[m] + 1) % SaveEvery # 0 /\ kept' = kept
    <2>. DEFINE new == <<u, mood'[m][u]>>
    <2>1. UnsavedMoods(m)' \subseteq UnsavedMoods(m) \cup {new}
      <3>. SUFFICES ASSUME NEW pair \in UnsavedMoods(m)', pair # new
                    PROVE  pair \in UnsavedMoods(m)
        OBVIOUS
      <3>1. PICK v \in People : mood'[m][v] # None
                                /\ pair \in {v} \X ((kept[v] + 1)..mood'[m][v])
        BY <1>4 DEF UnsavedMoods
      <3>2. PICK k \in (kept[v] + 1)..mood'[m][v] : pair = <<v, k>>
        BY <3>1
      <3>3. mood[m][v] # None /\ k \in (kept[v] + 1)..mood[m][v]
        <4>1. CASE v # u
          <5>1. mood'[m][v] = mood[m][v]
            BY <1>0, <1>1, <4>1
          <5>. QED BY <3>1, <3>2, <5>1
        <4>2. CASE v = u
          <5>1. k # mood'[m][u]
            BY <3>2, <4>2
          <5>2. mood'[m][u] = IF mood[m][u] = None THEN 1 ELSE mood[m][u] + 1
            BY <1>0, <1>1
          <5>3. kept[u] \in Nat /\ mood[m][u] \in Nat \cup {None}
            BY <1>0
          <5>. QED BY <3>2, <4>2, <5>1, <5>2, <5>3
        <4>. QED BY <4>1, <4>2
      <3>. QED BY <3>2, <3>3 DEF UnsavedMoods
    <2>2. /\ IsFiniteSet(UnsavedMoods(m)')
          /\ Cardinality(UnsavedMoods(m)') <= Cardinality(UnsavedMoods(m)) + 1
          /\ Cardinality(UnsavedMoods(m)') \in Nat /\ Cardinality(UnsavedMoods(m)) \in Nat
      <3>. HIDE DEF new
      <3>. DEFINE old == UnsavedMoods(m)
                  more == old \cup {new}
      <3>1. IsFiniteSet(old)
        BY DEF FewUnsaved
      <3>. HIDE DEF old
      <3>2. /\ IsFiniteSet(more)
            /\ Cardinality(more) = Cardinality(old) \/ Cardinality(more) = Cardinality(old) + 1
        BY <3>1, FS_AddElement
      <3>3. IsFiniteSet(UnsavedMoods(m)') /\ Cardinality(UnsavedMoods(m)') <= Cardinality(more)
        BY <2>1, <3>2, FS_Subset DEF old
      <3>4. /\ Cardinality(UnsavedMoods(m)') \in Nat /\ Cardinality(old) \in Nat
            /\ Cardinality(more) \in Nat
        BY <3>1, <3>2, <3>3, FS_CardinalityType
      <3>. HIDE DEF more
      <3>5. Cardinality(UnsavedMoods(m)') <= Cardinality(old) + 1
        BY <3>2, <3>3, <3>4
      <3>. QED BY <3>3, <3>4, <3>5 DEF old
    <2>3. /\ changes'[m] % SaveEvery = (changes[m] % SaveEvery) + 1
          /\ changes[m] % SaveEvery \in Nat
      BY <1>2, <1>4, NextChange
    <2>4. Cardinality(UnsavedMoods(m)) <= changes[m] % SaveEvery
      BY DEF FewUnsaved
    <2>5. Cardinality(UnsavedMoods(m)') <= changes'[m] % SaveEvery
      BY <2>2, <2>3, <2>4
    <2>. QED BY <2>2, <2>5 DEF FewUnsaved
  <1>. QED BY <1>3, <1>4, ChangeEffect

LEMMA SameUnsaved ==
    ASSUME UNCHANGED <<mood, kept, changes>>, NEW m \in Managers, FewUnsaved(m)
    PROVE  FewUnsaved(m)'
  BY DEF FewUnsaved, UnsavedMoods

LEMMA VoiceReadyHasAll ==
    ASSUME Structure, AloneHasAll, NEW k \in Managers, VoiceReady(k)
    PROVE  AloneHasAll'
  <1>0. /\ heard \in [Managers -> [Channels -> Nat]]
        /\ mood \in [Managers -> [People -> Nat \cup {None}]]
        /\ kept \in [People -> Nat] /\ changes \in [Managers -> Nat] /\ faults \in Nat
    BY DEF Structure, TypeOK, EngineTypes
  <1>1. k \notin Created /\ Created' = Created \cup {k}
    BY VoiceReadyStructure
  <1>2. PICK moodsRead \in BOOLEAN, rhythmRead \in BOOLEAN :
          /\ mood' = IF moodsRead THEN [mood EXCEPT ![k] = Recalled] ELSE mood
          /\ heard' = [heard EXCEPT ![k] = Snapshots(rhythmRead)]
          /\ faults' = faults + (IF moodsRead THEN 0 ELSE 1) + (IF rhythmRead THEN 0 ELSE 1)
          /\ UNCHANGED <<saved, kept, changes>>
    BY DEF VoiceReady, Restore
  <1>3. process # "down" /\ expected' = expected
    BY DEF VoiceReady, Moves, history
  <1>4. ASSUME NEW m \in Managers, Created' = {m}, faults' = 0
        PROVE  heard'[m] = expected' /\ FewUnsaved(m)'
    <2>1. m = k /\ Created = {}
      BY <1>1, <1>4
    <2>2. moodsRead /\ rhythmRead /\ faults = 0
      BY <1>0, <1>2, <1>4
    <2>3. heard'[k] = expected'
      BY <1>0, <1>2, <1>3, <2>1, <2>2 DEF Snapshots, AloneHasAll
    <2>4. \A u \in People : mood'[k][u] = IF kept[u] = 0 THEN None ELSE kept[u]
      BY <1>0, <1>2, <2>2 DEF Recalled
    <2>5. UnsavedMoods(k)' = {}
      <3>1. ASSUME NEW v \in People, mood'[k][v] # None
            PROVE  ((kept'[v] + 1)..mood'[k][v]) = {}
        BY <1>0, <1>2, <2>4, <3>1
      <3>. QED BY <3>1 DEF UnsavedMoods
    <2>6. IsFiniteSet({}) /\ Cardinality({}) = 0
      BY FS_EmptySet
    <2>7. changes'[k] % SaveEvery \in Nat
      BY <1>0, <1>2, NextChange
    <2>8. FewUnsaved(k)'
      BY <2>5, <2>6, <2>7 DEF FewUnsaved
    <2>. QED BY <2>1, <2>3, <2>8
  <1>5. Created' # {}
    BY <1>1
  <1>. QED BY <1>4, <1>5 DEF AloneHasAll

LEMMA StepHasAll ==
    ASSUME Structure, AloneHasAll, LatestExported, [Next]_vars
    PROVE  AloneHasAll'
  <1>0. /\ faults' >= faults /\ faults \in Nat /\ EngineTypes
        /\ heard \in [Managers -> [Channels -> Nat]]
        /\ ChannelOf \in [Messages -> Channels]
    BY FaultsGrow DEF Structure, TypeOK, EngineTypes
  <1>. SUFFICES ASSUME faults' = 0
                PROVE  /\ Created' = {} /\ process' # "down" => saved' = expected'
                       /\ \A m \in Managers :
                            Created' = {m} => heard'[m] = expected' /\ FewUnsaved(m)'
    BY DEF AloneHasAll
  <1>1. faults = 0
    BY <1>0
  <1>2. CASE SetUpQuietly
    <2>1. UNCHANGED <<heard, saved, mood, changes, kept>>
      BY <1>2, QuietFrame
    <2>2. Created' = Created
      BY <1>2, QuietStructure DEF SetUpQuietly, OnReady, ModelReady, ProcessorsReady,
         BackupDone, BehaviourReady, Arrive, Start, Moves, Created, HasManager, Structure,
         TypeOK, vars, lifecycle
    <2>3. CASE Start
      <3>1. expected' = saved /\ process = "down"
        BY <2>3 DEF Start
      <3>2. Created = {}
        BY <3>1 DEF LatestExported
      <3>. QED BY <2>1, <2>2, <3>1, <3>2
    <2>4. CASE UNCHANGED <<process, expected>>
      BY <1>1, <2>1, <2>2, <2>4, SameUnsaved DEF AloneHasAll
    <2>. QED BY <1>2, <2>3, <2>4 DEF SetUpQuietly, OnReady, ModelReady, ProcessorsReady,
         BackupDone, BehaviourReady, Arrive, vars, lifecycle, history
  <1>3. ASSUME NEW k \in Managers, VoiceReady(k)
        PROVE  AloneHasAll'
    BY <1>3, VoiceReadyHasAll
  <1>4. ASSUME NEW x \in Messages, Decided(x)
        PROVE  AloneHasAll'
    <2>. DEFINE c == ChannelOf[x]
    <2>1. by[x] \in Created /\ Created' = Created
      BY <1>4, DecidedStructure
    <2>2. /\ heard' = [heard EXCEPT ![by[x]][c] = @ + 1]
          /\ expected' = [expected EXCEPT ![c] = @ + 1]
          /\ UNCHANGED <<mood, changes, kept>>
      BY <1>4 DEF Decided, Decide, moods
    <2>3. ASSUME NEW m \in Managers, Created = {m}
          PROVE  heard'[m] = expected' /\ FewUnsaved(m)'
      <3>1. by[x] = m /\ heard[m] = expected /\ FewUnsaved(m)
        BY <1>1, <2>1, <2>3 DEF AloneHasAll
      <3>2. heard'[m] = [heard[m] EXCEPT ![c] = heard[m][c] + 1]
        BY <1>0, <2>2, <3>1
      <3>3. expected' = [expected EXCEPT ![c] = expected[c] + 1]
        BY <2>2
      <3>. QED BY <2>2, <3>1, <3>2, <3>3, SameUnsaved
    <2>. QED BY <2>1, <2>3 DEF AloneHasAll
  <1>5. ASSUME NEW x \in Messages, Felt(x)
        PROVE  AloneHasAll'
    <2>1. by[x] \in Created /\ Created' = Created
      BY <1>5, FeltStructure
    <2>2. UNCHANGED <<heard, mood, changes, kept, expected>>
      BY <1>5 DEF Felt, Record, moods
    <2>. QED BY <1>1, <2>1, <2>2, SameUnsaved DEF AloneHasAll
  <1>6. ASSUME NEW x \in Messages, Written(x)
        PROVE  AloneHasAll'
    <2>1. by[x] \in Created /\ Created' = Created /\ AuthorOf[x] \in People
      BY <1>6, WrittenStructure
    <2>2. Finish(by[x], AuthorOf[x]) /\ UNCHANGED <<heard, expected>>
      BY <1>6 DEF Written, Finish, history
    <2>3. ASSUME NEW m \in Managers, Created = {m}
          PROVE  heard'[m] = expected' /\ FewUnsaved(m)'
      <3>1. by[x] = m /\ heard[m] = expected /\ FewUnsaved(m)
        BY <1>1, <2>1, <2>3 DEF AloneHasAll
      <3>2. Finish(m, AuthorOf[x])
        BY <2>2, <3>1
      <3>. QED BY <1>0, <1>1, <2>1, <2>2, <3>1, <3>2, FinishFew
    <2>. QED BY <2>1, <2>3 DEF AloneHasAll
  <1>7. CASE LoadAffect
    <2>1. Created # {} /\ Created' = Created
      BY <1>7, LoadStructure, SomebodySteps
    <2>2. UNCHANGED <<heard, mood, changes, kept, expected>>
      BY <1>7 DEF LoadAffect, Load, moods, history
    <2>. QED BY <1>1, <2>1, <2>2, SameUnsaved DEF AloneHasAll
  <1>8. CASE Maintain \/ Exit
    <2>1. FlushesExported /\ Created' = Created
      BY <1>8, FlushCases, FlushStructure
    <2>2. UNCHANGED <<heard, mood, changes, kept, expected>>
      BY <1>0, <2>1, FlushExportedEffect, FlushEffect DEF FlushesExported, engines, moods
    <2>3. Created = {} => saved' = saved
      BY <2>1, FlushExportedEffect DEF engines
    <2>4. process # "down"
      BY <1>8 DEF Maintain, Exit
    <2>. QED BY <1>1, <2>1, <2>2, <2>3, <2>4, SameUnsaved DEF AloneHasAll
  <1>9. CASE End
    <2>1. Created' = {} /\ process' = "down"
      BY <1>9, EndStructure DEF End
    <2>. QED BY <2>1
  <1>. QED
    BY <1>1, <1>2, <1>3, <1>4, <1>5, <1>6, <1>7, <1>8, <1>9, StepCases DEF AloneHasAll

\* The flush at the end of main().
LEMMA ExitSaves ==
    ASSUME Structure, AloneKnows, AloneHasAll, LatestExported, [Next]_vars,
           NEW m \in Managers, process = "up", process' = "closing",
           Begun = {m}, stage[m] = "ready", faults' = 0
    PROVE  saved' = expected /\ Cardinality(UnsavedMoods(m)) < SaveEvery
  <1>0. /\ EngineTypes /\ faults = 0
        /\ saved \in [Channels -> Nat] /\ heard \in [Managers -> [Channels -> Nat]]
        /\ changes \in [Managers -> Nat]
    BY FaultsGrow DEF Structure, TypeOK, EngineTypes
  <1>1. Created = {m}
    BY DEF Created, HasManager, Begun
  <1>2. heard[m] = expected /\ FewUnsaved(m) /\ KnowsTables(m) /\ exported = m
    BY <1>0, <1>1 DEF AloneHasAll, AloneKnows, LatestExported
  <1>3. Exit
    BY DEF Next, OnReady, SetUpStep, ModelReady, ProcessorsReady, VoiceReady, BackupDone,
       BehaviourReady, Arrive, Decided, Felt, Written, LoadAffect, Maintain, End, Start, vars,
       lifecycle
  <1>4. Flush(m)
    BY <1>2, <1>3 DEF Exit
  <1>5. /\ \A c \in Channels : saved'[c] \in {saved[c], heard[m][c]}
        /\ saved' \in [Channels -> Nat]
        /\ \A c \in Channels : heard[m][c] > 0 => saved'[c] = heard[m][c]
    BY <1>0, <1>4, FlushEffect
  <1>6. ASSUME NEW c \in Channels
        PROVE  saved'[c] = heard[m][c]
    <2>1. saved[c] <= heard[m][c] /\ saved[c] \in Nat /\ heard[m][c] \in Nat
      BY <1>0, <1>2 DEF KnowsTables
    <2>2. saved'[c] = saved[c] \/ saved'[c] = heard[m][c]
      BY <1>5
    <2>. QED BY <1>5, <2>1, <2>2
  <1>7. saved' = heard[m]
    BY <1>0, <1>5, <1>6
  <1>8. Cardinality(UnsavedMoods(m)) < SaveEvery
    <2>1. /\ Cardinality(UnsavedMoods(m)) <= changes[m] % SaveEvery
          /\ Cardinality(UnsavedMoods(m)) \in Nat
      BY <1>2, FS_CardinalityType DEF FewUnsaved
    <2>2. changes[m] % SaveEvery \in Nat /\ changes[m] % SaveEvery < SaveEvery
      BY <1>0, NextChange
    <2>. QED BY <2>1, <2>2
  <1>. QED BY <1>2, <1>7, <1>8

LEMMA InitHasAll == Init => AloneHasAll /\ LatestExported
  BY DEF Init, EngineInit, Created, Begun, HasManager, AloneHasAll, LatestExported

\* When the set-up of the only session of a process has been completed and nothing failed,
\* main() leaves all that was heard in the rows, and fewer changes of mood are lost than
\* the throttle allows.
THEOREM ExitLosesLittle == Spec => CleanExitSaves
  <1>. DEFINE Inv == Structure /\ AloneKnows /\ AloneHasAll /\ LatestExported
  <1>1. Init => Inv
    BY InitStructure, InitAlone, InitHasAll
  <1>2. Inv /\ [Next]_vars => Inv'
    BY StepStructure, StepAloneKnows, StepHasAll, StepLatestExported
  <1>3. Inv /\ [Next]_vars =>
          [\A m \in Managers :
             process = "up" /\ process' = "closing" /\ Begun = {m} /\ stage[m] = "ready"
               /\ faults' = 0
             => saved' = expected /\ Cardinality(UnsavedMoods(m)) < SaveEvery]_vars
    BY ExitSaves
  <1>. QED BY <1>1, <1>2, <1>3, PTL DEF Spec, CleanExitSaves

==============================================================================
