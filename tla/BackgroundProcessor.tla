------------------------- MODULE BackgroundProcessor -------------------------
(***************************************************************************)
(* BackgroundProcessor collects the raw messages of every channel in a     *)
(* bounded deque and summarises them in batches.  The deque has several    *)
(* writers (the passive monitor and the crawler) and several readers: the  *)
(* processing loop that start() creates, and run_maintenance.  All of them *)
(* are coroutines of one loop; they meet at the awaits: the loading of the *)
(* model in start(), the sleeps of the loop, and the LLM call per group of *)
(* messages.                                                               *)
(*                                                                         *)
(* A call of start() and the loop it creates are one process (Start), a    *)
(* call of run_maintenance is another (Round).  todo[t] is what is left of *)
(* the batch process t has taken, sorted as _group_by_conversation sorts   *)
(* it.  The text of a summary, and whether the model returned a usable one,*)
(* is not modelled: the messages of a group count as processed either way. *)
(***************************************************************************)
EXTENDS Integers, Sequences, FiniteSets, Functions

CONSTANTS
    Msg,            \* the raw messages that are long enough to be queued
    Start,          \* calls of start(), with the loops they create
    Round,          \* calls of run_maintenance
    Channel,        \* text channels
    channel,        \* the channel of each message
    stamp,          \* its timestamp, in minutes
    TalkGap,        \* messages this far apart are two conversations (5)
    MaxQueue,       \* maxlen of the deque (1000)
    Enough,         \* messages that make a batch at once (3)
    BatchLimit,     \* the largest batch of the loop (10)
    NoTask          \* the value of self.task before the first start

ASSUME ProcessorAssumption ==
    /\ channel \in [Msg -> Channel]
    /\ stamp \in [Msg -> Nat]
    /\ TalkGap \in Nat
    /\ MaxQueue \in Nat \ {0}
    /\ Enough \in Nat \ {0}
    /\ BatchLimit \in Nat \ {0}
    /\ Start \cap Round = {}
    /\ NoTask \notin Start

Task == Start \cup Round

StartPC == {"none", "loading", "asleep", "batch", "ended"}
RoundPC == {"none", "batch", "tending", "done"}

VARIABLES
    queue,          \* self.processing_queue
    lastMessage,    \* self.last_message_time: None, or is it 10 s old yet?
    isRunning,      \* self.is_running
    task,           \* self.task, the loop that stop() cancels
    booted,         \* the initialiser's start() has returned
    pc,             \* where each process is suspended
    todo,           \* the messages it has taken and not yet summarised
    fromIdle,       \* it is busy with a batch taken by the idle option
    queued,         \* the messages passed to queue_message so far
    processed,      \* the messages counted in stats["total_processed"]
    evicted,        \* the messages the full deque dropped
    lost            \* the messages of batches that were cancelled

control == <<isRunning, task, booted>>
outcome == <<processed, evicted, lost>>
vars == <<queue, lastMessage, control, pc, todo, fromIdle, queued, outcome>>

TypeOK ==
    /\ queue \in Seq(Msg)
    /\ lastMessage \in {"none", "recent", "idle"}
    /\ isRunning \in BOOLEAN
    /\ task \in Start \cup {NoTask}
    /\ booted \in BOOLEAN
    /\ pc \in [Task -> StartPC \cup RoundPC]
    /\ \A s \in Start : pc[s] \in StartPC
    /\ \A r \in Round : pc[r] \in RoundPC
    /\ todo \in [Task -> Seq(Msg)]
    /\ fromIdle \in [Task -> BOOLEAN]
    /\ queued \subseteq Msg
    /\ processed \subseteq Msg
    /\ evicted \subseteq Msg
    /\ lost \subseteq Msg

Init ==
    /\ queue = <<>>
    /\ lastMessage = "none"
    /\ isRunning = FALSE
    /\ task = NoTask
    /\ booted = FALSE
    /\ pc = [t \in Task |-> "none"]
    /\ todo = [t \in Task |-> <<>>]
    /\ fromIdle = [t \in Task |-> FALSE]
    /\ queued = {}
    /\ processed = {}
    /\ evicted = {}
    /\ lost = {}

Goto(t, p) == pc' = [pc EXCEPT ![t] = p]

-----------------------------------------------------------------------------
(* Grouping: _group_by_conversation sorts a batch by timestamp and cuts it *)
(* where the channel changes or a conversation paused.                     *)

(* The stable sort of a batch by timestamp.                                *)
SortedBy(batch, f) ==
    \A i, j \in DOMAIN batch : i < j =>
        LET a == stamp[batch[f[i]]]
            b == stamp[batch[f[j]]]
        IN  a < b \/ (a = b /\ f[i] < f[j])

Sortings(batch) ==
    {[i \in DOMAIN batch |-> batch[f[i]]] :
        f \in {g \in Bijection(DOMAIN batch, DOMAIN batch) : SortedBy(batch, g)}}

(* A mutant of SameTalk: the channel is not compared.                      *)
SameTalkAnywhere(a, b) == stamp[b] - stamp[a] < TalkGap

SameTalk(a, b) ==
    /\ channel[a] = channel[b]
    /\ stamp[b] - stamp[a] < TalkGap

(* Is sorted[1..n] the first group?                                        *)
IsFirstGroup(sorted, n) ==
    /\ n \in DOMAIN sorted
    /\ \A i \in 1..(n - 1) : SameTalk(sorted[i], sorted[i + 1])
    /\ n < Len(sorted) => ~SameTalk(sorted[n], sorted[n + 1])

-----------------------------------------------------------------------------
(* Writers of the queue *)

(* queue_message: the full deque silently drops its oldest message.  The   *)
(* callers exist once the initialiser has started the processor.           *)
QueueMessage(m) ==
    /\ booted
    /\ m \notin queued
    /\ queued' = queued \cup {m}
    /\ IF Len(queue) = MaxQueue
       THEN /\ queue' = Append(Tail(queue), m)
            /\ evicted' = evicted \cup {Head(queue)}
       ELSE /\ queue' = Append(queue, m)
            /\ UNCHANGED evicted
    /\ lastMessage' = "recent"
    /\ UNCHANGED <<control, pc, todo, fromIdle, processed, lost>>

(* Ten seconds without a message.                                          *)
GoIdle ==
    /\ lastMessage = "recent"
    /\ lastMessage' = "idle"
    /\ UNCHANGED <<queue, control, pc, todo, fromIdle, queued, outcome>>

-----------------------------------------------------------------------------
(* start() and stop() *)

(* The initialiser calls start() once; the control panel may call it later *)
(* at any time.                                                            *)
BeginStart(s) ==
    /\ pc[s] = "none"
    /\ booted \/ \A t \in Start : pc[t] = "none"
    /\ Goto(s, IF isRunning THEN "ended" ELSE "loading")
    /\ UNCHANGED <<queue, lastMessage, control, todo, fromIdle, queued, outcome>>

(* The model is loaded (or will be retried in a thread): create the loop.  *)
FinishStart(s) ==
    /\ pc[s] = "loading"
    /\ isRunning' = TRUE
    /\ task' = s
    /\ booted' = TRUE
    /\ Goto(s, "asleep")
    /\ UNCHANGED <<queue, lastMessage, todo, fromIdle, queued, outcome>>

(* stop() cancels the loop it knows of at its await and waits for its end; *)
(* the rest of that loop's batch is gone.                                  *)
Stop ==
    /\ booted
    /\ isRunning' = FALSE
    /\ IF pc[task] \in {"asleep", "batch"}
       THEN /\ Goto(task, "ended")
            /\ todo' = [todo EXCEPT ![task] = <<>>]
            /\ lost' = lost \cup Range(todo[task])
            /\ fromIdle' = [fromIdle EXCEPT ![task] = FALSE]
       ELSE UNCHANGED <<pc, todo, lost, fromIdle>>
    /\ UNCHANGED <<queue, lastMessage, task, booted, queued,
                   processed, evicted>>

-----------------------------------------------------------------------------
(* Readers of the queue *)

(* A mutant of Take: the messages are read and stay in the queue.          *)
TakeByReading(t, n) ==
    /\ \E sorted \in Sortings(SubSeq(queue, 1, n)) :
            todo' = [todo EXCEPT ![t] = sorted]
    /\ UNCHANGED queue

(* popleft n messages, group them and await the summary of the first group *)
Take(t, n) ==
    /\ \E sorted \in Sortings(SubSeq(queue, 1, n)) :
            todo' = [todo EXCEPT ![t] = sorted]
    /\ queue' = SubSeq(queue, n + 1, Len(queue))

(* The loop wakes and finds that it should not go on.                      *)
LeaveLoop(s) ==
    /\ pc[s] = "asleep"
    /\ ~isRunning
    /\ Goto(s, "ended")
    /\ UNCHANGED <<queue, lastMessage, control, todo, fromIdle, queued, outcome>>

(* A mutant of TakeFull: one message too many is waited for.               *)
TakeFullLate(s) ==
    /\ pc[s] = "asleep"
    /\ isRunning
    /\ Len(queue) > Enough
    /\ Take(s, IF Len(queue) < BatchLimit THEN Len(queue) ELSE BatchLimit)
    /\ fromIdle' = [fromIdle EXCEPT ![s] = FALSE]
    /\ Goto(s, "batch")
    /\ UNCHANGED <<lastMessage, control, queued, outcome>>

(* Option 1 of the loop: enough messages for a batch.                      *)
TakeFull(s) ==
    /\ pc[s] = "asleep"
    /\ isRunning
    /\ Len(queue) >= Enough
    /\ Take(s, IF Len(queue) < BatchLimit THEN Len(queue) ELSE BatchLimit)
    /\ fromIdle' = [fromIdle EXCEPT ![s] = FALSE]
    /\ Goto(s, "batch")
    /\ UNCHANGED <<lastMessage, control, queued, outcome>>

(* A mutant of TakeIdle: a single message is not worth a batch.            *)
TakeIdleSeveral(s) ==
    /\ pc[s] = "asleep"
    /\ isRunning
    /\ Len(queue) \in 2..(Enough - 1)
    /\ lastMessage = "idle"
    /\ Take(s, Len(queue))
    /\ fromIdle' = [fromIdle EXCEPT ![s] = TRUE]
    /\ Goto(s, "batch")
    /\ UNCHANGED <<lastMessage, control, queued, outcome>>

(* Option 2: fewer, and nothing has come for ten seconds.  In every other  *)
(* case (option 3 and the else of option 2) the loop sleeps on.            *)
TakeIdle(s) ==
    /\ pc[s] = "asleep"
    /\ isRunning
    /\ Len(queue) \in 1..(Enough - 1)
    /\ lastMessage = "idle"
    /\ Take(s, Len(queue))
    /\ fromIdle' = [fromIdle EXCEPT ![s] = TRUE]
    /\ Goto(s, "batch")
    /\ UNCHANGED <<lastMessage, control, queued, outcome>>

(* What follows a batch: the loop sleeps again, and after an idle batch it *)
(* first clears last_message_time; run_maintenance goes on to its engines. *)
AfterBatch(t) ==
    /\ fromIdle' = [fromIdle EXCEPT ![t] = FALSE]
    /\ IF t \in Start
       THEN /\ Goto(t, "asleep")
            /\ lastMessage' = IF fromIdle[t] THEN "none" ELSE lastMessage
       ELSE Goto(t, "tending") /\ UNCHANGED lastMessage

(* The summary of the first group has been created, rejected or has failed.*)
SummaryReturns(t) ==
    /\ pc[t] = "batch"
    /\ \E n \in DOMAIN todo[t] :
        /\ IsFirstGroup(todo[t], n)
        /\ processed' = processed \cup Range(SubSeq(todo[t], 1, n))
        /\ todo' = [todo EXCEPT ![t] = SubSeq(@, n + 1, Len(@))]
        /\ IF n = Len(todo[t])
           THEN AfterBatch(t)
           ELSE UNCHANGED <<pc, lastMessage, fromIdle>>
    /\ UNCHANGED <<queue, control, queued, evicted, lost>>

-----------------------------------------------------------------------------
(* Maintenance *)

(* run_maintenance, which only the control panel's route reaches: the      *)
(* periodic task looks for the processor where it was never bound.         *)
Maintain(r) ==
    /\ booted
    /\ pc[r] = "none"
    /\ \/ /\ ~isRunning
          /\ Goto(r, "done")
          /\ UNCHANGED <<queue, todo>>
       \/ /\ isRunning
          /\ queue = <<>>
          /\ Goto(r, "tending")
          /\ UNCHANGED <<queue, todo>>
       \/ /\ isRunning
          /\ queue # <<>>
          /\ Take(r, Len(queue))
          /\ Goto(r, "batch")
    /\ UNCHANGED <<lastMessage, control, fromIdle, queued, outcome>>

(* The dynamics, goals, affect and metrics upkeep is over.                 *)
Tended(r) ==
    /\ pc[r] = "tending"
    /\ Goto(r, "done")
    /\ UNCHANGED <<queue, lastMessage, control, todo, fromIdle, queued, outcome>>

-----------------------------------------------------------------------------
LoopStep(s) ==
    FinishStart(s) \/ LeaveLoop(s) \/ TakeFull(s) \/ TakeIdle(s) \/ SummaryReturns(s)

RoundStep(r) == SummaryReturns(r) \/ Tended(r)

Next ==
    \/ \E m \in Msg : QueueMessage(m)
    \/ GoIdle
    \/ \E s \in Start : BeginStart(s) \/ LoopStep(s)
    \/ Stop
    \/ \E r \in Round : Maintain(r) \/ RoundStep(r)

Spec == Init /\ [][Next]_vars

(* Every sleep and every LLM call of a process ends, and messages pause    *)
(* for ten seconds at some time.                                           *)
FairSpec ==
    /\ Spec
    /\ WF_vars(GoIdle)
    /\ \A s \in Start : WF_vars(LoopStep(s))
    /\ \A r \in Round : WF_vars(RoundStep(r))

-----------------------------------------------------------------------------
(* Properties *)

Pending(t) == Range(todo[t])

(* Every queued message is in exactly one place: waiting, in the batch of  *)
(* one process, processed, evicted or lost with a cancelled batch.  With   *)
(* several readers of one deque none is taken twice and none disappears.   *)
OnePlaceEach ==
    /\ IsInjective(queue)
    /\ \A t \in Task : /\ IsInjective(todo[t])
                       /\ Pending(t) \cap (Range(queue) \cup processed \cup evicted \cup lost) = {}
    /\ \A t, u \in Task : t # u => Pending(t) \cap Pending(u) = {}
    /\ Range(queue) \cap (processed \cup evicted \cup lost) = {}
    /\ processed \cap (evicted \cup lost) = {}
    /\ evicted \cap lost = {}

Accounted ==
    /\ OnePlaceEach
    /\ queued = Range(queue) \cup (UNION {Pending(t) : t \in Task})
                    \cup processed \cup evicted \cup lost

(* A process holds messages only while it is summarising a batch, so a     *)
(* loop that sleeps or has ended hides none.                               *)
HoldsOnlyInBatch ==
    \A t \in Task : pc[t] = "batch" <=> todo[t] # <<>>

(* The messages summarised together are one conversation: one channel, and *)
(* none but the last of them without a follower within the gap.            *)
SummaryIsOneTalk ==
    [][LET group == processed' \ processed
       IN  \A a \in group :
            \/ \A b \in group : channel[a] = channel[b] /\ stamp[b] <= stamp[a]
            \/ \E b \in group \ {a} : /\ channel[a] = channel[b]
                                      /\ stamp[b] >= stamp[a]
                                      /\ stamp[b] - stamp[a] < TalkGap]_vars

(* A backlog of a full batch is worked off while the processor runs, also  *)
(* when it was stopped and started in between.                             *)
BacklogShrinks ==
    Len(queue) >= Enough ~> (Len(queue) < Enough \/ ~isRunning)

(* Waiting messages are taken, however few they are, unless the processor  *)
(* stops or the end of an idle batch clears the time of the last message,  *)
(* which is the fate of one that came during that batch.                   *)
TimedMessageIsTaken ==
    (queue # <<>> /\ lastMessage # "none")
        ~> (queue = <<>> \/ lastMessage = "none" \/ ~isRunning)
=============================================================================
