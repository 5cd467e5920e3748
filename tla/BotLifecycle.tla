---------------------------- MODULE BotLifecycle ----------------------------
(***************************************************************************)
(* From main() to the end of the process: the set-up that runs at every    *)
(* on_ready, the messages that arrive before, during and after it, the     *)
(* periodic maintenance and the ways the process ends, together with what  *)
(* the engines of each message manager have accumulated.                   *)
(*                                                                         *)
(* Discord reports on_ready again whenever a session is not resumed.  Each *)
(* report makes an initializer, which is the one that messages go to from  *)
(* then on, and sets everything up anew with several awaits in between; an *)
(* earlier set-up may still be under way.  A manager and its initializer   *)
(* have the same name here.                                                *)
(***************************************************************************)
EXTENDS EngineState

CONSTANTS Messages,
          ChannelOf,   \* the channel of each message
          AuthorOf,    \* its author
          EndLimit     \* bound: how often the process ends

ASSUME LifecycleAssumption ==
  /\ ChannelOf \in [Messages -> Channels]
  /\ AuthorOf \in [Messages -> People]
  /\ EndLimit \in Nat
  /\ IsFiniteSet(Messages)

VARIABLES
  process,      \* up, closing (the client closes, after the last flush) or down
  initializer,  \* _initializer of the package
  exported,     \* message_manager of the package, which maintenance and main use
  panel,        \* the manager that the panel's bot_state refers to
  stage,        \* how far the set-up of each initializer is
  pipeline,     \* whether each manager has no pipeline, the fallback one or its own
  at,           \* how far the run of each message is
  by,           \* the manager that a message was given to
  ends,         \* how often the process ended
  expected,     \* history: rows at the start of the process and messages heard since
  heardEver,    \* history: messages heard in each channel
  felt          \* history: messages of each person that reached the affect engine

lifecycle == <<process, initializer, exported, panel, stage, pipeline, at, by, ends>>
history == <<expected, heardEver, felt>>
vars == <<engines, lifecycle, history>>

Processes == {"up", "closing", "down"}
Stages == {"none", "model", "processors", "voice", "backup", "behaviour", "ready", "failed", "gone"}
Places == {"new", "given", "decided", "felt", "written", "rejected", "lost"}

\* Initializers of the running process, and those whose manager exists.
Begun == {m \in Managers : stage[m] \notin {"none", "gone"}}
HasManager(m) == m # None /\ stage[m] \in {"backup", "behaviour", "ready"}
Created == {m \in Managers : HasManager(m)}

TypeOK ==
  /\ EngineTypes
  /\ process \in Processes
  /\ initializer \in Managers \cup {None}
  /\ exported # None => exported \in Managers /\ HasManager(exported)
  /\ panel \in Managers \cup {None}
  /\ stage \in [Managers -> Stages]
  /\ pipeline \in [Managers -> {"none", "fallback", "own"}]
  /\ at \in [Messages -> Places]
  /\ by \in [Messages -> Managers \cup {None}]
  /\ ends \in 0..EndLimit
  /\ expected \in [Channels -> Nat]
  /\ heardEver \in [Channels -> Nat]
  /\ felt \in [People -> Nat]

Init ==
  /\ EngineInit
  /\ process = "up"
  /\ initializer = None
  /\ exported = None
  /\ panel = None
  /\ stage = [m \in Managers |-> "none"]
  /\ pipeline = [m \in Managers |-> "none"]
  /\ at = [x \in Messages |-> "new"]
  /\ by = [x \in Messages |-> None]
  /\ ends = 0
  /\ expected = [c \in Channels |-> 0]
  /\ heardEver = [c \in Channels |-> 0]
  /\ felt = [u \in People |-> 0]

(***************************************************************************)
(* The set-up                                                              *)
(***************************************************************************)
Moves(m, from, to) ==
  /\ process # "down"
  /\ stage[m] = from
  /\ stage' = [stage EXCEPT ![m] = to]

\* on_ready: a new initializer at once; translator and database protection, which may
\* refuse to start; then the connection to the language model is awaited.
OnReady(m) ==
  /\ process = "up"
  /\ \/ Moves(m, "none", "model")
     \/ Moves(m, "none", "failed")
  /\ initializer' = m
  /\ UNCHANGED <<engines, history, process, exported, panel, pipeline, at, by, ends>>

\* The memory system is created, or raises; the start of the background processor is
\* awaited.
ModelReady(m) ==
  /\ \/ Moves(m, "model", "processors")
     \/ Moves(m, "model", "failed")
  /\ UNCHANGED <<engines, history, process, initializer, exported, panel, pipeline, at, by, ends>>

\* Crawler and monitor are started, or the crawler raises; the start of the voice
\* system, whose errors are swallowed, is awaited.
ProcessorsReady(m) ==
  /\ \/ Moves(m, "processors", "voice")
     \/ Moves(m, "processors", "failed")
  /\ UNCHANGED <<engines, history, process, initializer, exported, panel, pipeline, at, by, ends>>

\* The manager is created and restores its engines; the backup is awaited.
VoiceReady(m) ==
  /\ Moves(m, "voice", "backup")
  /\ Restore(m)
  /\ UNCHANGED <<history, process, initializer, exported, panel, pipeline, at, by, ends>>

\* The manager gets its pipeline, unless building it fails; the start of the voice
\* behaviour is awaited.
BackupDone(m) ==
  /\ Moves(m, "backup", "behaviour")
  /\ pipeline' \in {pipeline, [pipeline EXCEPT ![m] = "own"]}
  /\ UNCHANGED <<engines, history, process, initializer, exported, panel, at, by, ends>>

ManagerOf(m) == IF HasManager(m) THEN m ELSE None

\* The panel is told of this initializer's objects; on_ready goes on and exports the
\* manager of the initializer that is the latest by now.
BehaviourReady(m) ==
  /\ Moves(m, "behaviour", "ready")
  /\ panel' = m
  /\ exported' = ManagerOf(initializer)
  /\ UNCHANGED <<engines, history, process, initializer, pipeline, at, by, ends>>

SetUpStep(m) ==
  \/ ModelReady(m) \/ ProcessorsReady(m) \/ VoiceReady(m)
  \/ BackupDone(m) \/ BehaviourReady(m)

(***************************************************************************)
(* Messages                                                                *)
(***************************************************************************)
\* on_message: the manager of the latest initializer takes the message; before that
\* exists it is counted as an error.  A manager without a pipeline builds one.
Arrive(x) ==
  /\ process # "down"
  /\ at[x] = "new"
  /\ \/ /\ HasManager(initializer)
        /\ at' = [at EXCEPT ![x] = "given"]
        /\ by' = [by EXCEPT ![x] = initializer]
        /\ pipeline' = [pipeline EXCEPT ![initializer] = IF @ = "none" THEN "fallback" ELSE @]
     \/ /\ ~HasManager(initializer)
        /\ at' = [at EXCEPT ![x] = "rejected"]
        /\ UNCHANGED <<by, pipeline>>
  /\ UNCHANGED <<engines, history, process, initializer, exported, panel, stage, ends>>

\* The decision stage of the run.
Decided(x) ==
  /\ at[x] = "given"
  /\ at' = [at EXCEPT ![x] = "decided"]
  /\ Decide(by[x], ChannelOf[x], AuthorOf[x])
  /\ expected' = [expected EXCEPT ![ChannelOf[x]] = @ + 1]
  /\ heardEver' = [heardEver EXCEPT ![ChannelOf[x]] = @ + 1]
  /\ UNCHANGED <<felt, process, initializer, exported, panel, stage, pipeline, by, ends>>

\* The memory stage of the run up to the language model, which it waits for.
Felt(x) ==
  /\ at[x] = "decided"
  /\ at' = [at EXCEPT ![x] = "felt"]
  /\ Record(by[x], AuthorOf[x])
  /\ felt' = [felt EXCEPT ![AuthorOf[x]] = @ + 1]
  /\ UNCHANGED <<expected, heardEver, process, initializer, exported, panel, stage, pipeline,
                 by, ends>>

\* The memory stage after that.
Written(x) ==
  /\ at[x] = "felt"
  /\ at' = [at EXCEPT ![x] = "written"]
  /\ Finish(by[x], AuthorOf[x])
  /\ UNCHANGED <<history, process, initializer, exported, panel, stage, pipeline, by, ends>>

LoadAffect ==
  /\ \E m \in Managers, u \in People : Load(m, u)
  /\ UNCHANGED <<lifecycle, history>>

(***************************************************************************)
(* Maintenance and the end                                                 *)
(***************************************************************************)
\* One period of a maintenance task: the exported manager is flushed.
Maintain ==
  /\ process # "down"
  /\ exported # None
  /\ Flush(exported)
  /\ UNCHANGED <<lifecycle, history>>

\* Mutant: main() ends without the last flush.
ExitUnflushed ==
  /\ process = "up"
  /\ process' = "closing"
  /\ UNCHANGED <<engines, history, initializer, exported, panel, stage, pipeline, at, by, ends>>

\* client.start returned or raised: main() flushes the exported manager, if there is
\* one, and closes the client; what is suspended goes on meanwhile.
Exit ==
  /\ process = "up"
  /\ process' = "closing"
  /\ \/ exported # None /\ Flush(exported)
     \/ exported = None /\ UNCHANGED engines
  /\ UNCHANGED <<history, initializer, exported, panel, stage, pipeline, at, by, ends>>

\* The end: after closing, by the signal handler (os._exit), or by a kill.
End ==
  /\ process # "down"
  /\ process = "closing" \/ ends < EndLimit
  /\ process' = "down"
  /\ ends' = IF process = "closing" THEN ends ELSE ends + 1
  /\ Forget
  /\ initializer' = None
  /\ exported' = None
  /\ panel' = None
  /\ stage' = [m \in Managers |-> IF m \in Begun THEN "gone" ELSE stage[m]]
  /\ at' = [x \in Messages |-> IF at[x] \in {"given", "decided", "felt"} THEN "lost" ELSE at[x]]
  /\ UNCHANGED <<history, pipeline, by>>

\* The process is started again (by hand or by the hot reloader).
Start ==
  /\ process = "down"
  /\ process' = "up"
  /\ expected' = saved
  /\ UNCHANGED <<engines, heardEver, felt, initializer, exported, panel, stage, pipeline, at,
                 by, ends>>

Next ==
  \/ \E m \in Managers : OnReady(m) \/ SetUpStep(m)
  \/ \E x \in Messages : Arrive(x) \/ Decided(x) \/ Felt(x) \/ Written(x)
  \/ LoadAffect
  \/ Maintain
  \/ Exit
  \/ End
  \/ Start

Spec == Init /\ [][Next]_vars

\* What a set-up waits for comes, and the timer of the maintenance task goes off.
FairSpec ==
  /\ Spec
  /\ \A m \in Managers : WF_vars(SetUpStep(m))
  /\ WF_vars(Maintain)

(***************************************************************************)
(* Properties                                                              *)
(***************************************************************************)
\* No message is counted twice: neither an engine nor a row, the relationship and the
\* activity of a person included, accounts for more messages than there were, however
\* managers, background loads and restarts overlap.
NothingCountedTwice ==
  /\ \A c \in Channels :
       /\ saved[c] <= heardEver[c]
       /\ \A m \in Managers : heard[m][c] <= heardEver[c]
  /\ \A u \in People :
       /\ stored[u] <= felt[u]
       /\ kept[u] <= felt[u]
       /\ met[u] <= felt[u] /\ logged[u] <= felt[u]
       /\ \A m \in Managers : /\ known[m][u] # None => known[m][u] <= felt[u]
                              /\ mood[m][u] # None => mood[m][u] <= felt[u]

\* What is in memory of the moods with people and not in the table: the messages that a
\* person's mood accounts for and the row does not.
UnsavedMoods(m) ==
  UNION {{u} \X ((kept[u] + 1)..mood[m][u]) : u \in {v \in People : mood[m][v] # None}}

\* When the set-up of a session has been completed and no other was begun, main() leaves
\* every message heard since the start in the rows, and loses fewer than SaveEvery
\* changes of mood although nothing saves them at the end, unless a statement failed.
CleanExitSaves ==
  [][\A m \in Managers :
       process = "up" /\ process' = "closing" /\ Begun = {m} /\ stage[m] = "ready" /\ faults' = 0
       => saved' = expected /\ Cardinality(UnsavedMoods(m)) < SaveEvery]_vars

\* As long as one manager exists and no statement fails, what was saved of a channel is
\* or a mood is never replaced by less, and a person's row counts every message felt.
SavedKeepsCount ==
  [][Cardinality(Created) <= 1 /\ faults' = 0 =>
       /\ \A c \in Channels : saved'[c] >= saved[c]
       /\ \A u \in People : kept'[u] >= kept[u] /\ stored'[u] - stored[u] = felt'[u] - felt[u]]_vars

\* The rhythm that the latest manager has heard is saved in the end, even by a process
\* that is killed later: its set-up gets there, and the periodic task then saves it.
RhythmIsSaved ==
  \A m \in Managers, c \in Channels :
    (initializer = m /\ HasManager(m) /\ heard[m][c] > saved[c])
      ~> (saved[c] = heard[m][c] \/ initializer # m \/ process # "up")
==============================================================================
