# A TLA+ model of Serin

Serin is a Discord bot that keeps a memory of the people it talks to. It is a
Python program (`serin/`, five layers) with one asyncio event loop, an SQLite
database, a Qdrant vector store, a language model behind HTTP, a web control
panel, and a Rust process (`voice/rust_receiver`) that sends and receives voice.
This directory holds TLA+ specifications of its parts, the TLC configurations
that check them on small instances, and proofs of their main properties.

    tlc -config MCGoalsEngine.cfg MCGoalsEngine   # one run
    tlapm GoalsEngineProofs.tla                   # the proofs of a module

## 1. Inventory of the system

| Component | State it keeps | Operations | Interacts with | What makes it hard |
|---|---|---|---|---|
| Message intake (`d4_4_core_manager.py`, `on_message`) | `last_bot_response`, `stats`, `pending_visual_contexts`, the abort flag | `on_message`, `process_message`, `abort_current_generation` | pipeline, `recent_messages`, voice decider | one task per message, all suspended at awaits of the others |
| Message pipeline (`d4_2_runners_pipeline.py`, ten stages) | one `MessageContext` per message, `_pipeline_started_ts` shared by all | `process` and the stages | stores, engines, model, Discord, panel | a stage may halt or raise, yet the last one must run exactly once |
| Prompt assembly, generation, model connector | the connection and its retry thread | assemble, generate, filter thoughts, reconnect | pipeline, history | three windows cut out of one history; timestamps of two clocks |
| Memory stores, search and maintenance (`d4_1_core_storage`, `d4_4_core_store.py`) | `recent_messages`, Qdrant points, FTS5 rows | add, search, build a context, clean up | pipeline, panel, background processor | two stores without a common transaction |
| Belief engine (`d3_3_belief_dynamics.py`) | `facts`, `fact_observations` | store, observe, decay, read | `MemoryWriteStage` | read, await, write; two commits per observation |
| Goals engine (`d3_4_goals_engine.py`) | `goals`, `goal_evidence` | review, promote, form | background processor, planner | rounds overlap around the model's answer |
| Affect, dynamics and mood engines | caches over SQLite rows, one set per message manager | apply, load, flush | pipeline, maintenance, shutdown | write-back caches, two managers, restarts |
| Start-up and shutdown (`d3_1_pipeline_init`) | the globals of the package | `on_ready`, the initializer, the final flush | all | `on_ready` fires again during its own awaits |
| Background processor (`d2_2_tooling_background`) | `processing_queue`, `last_message_time`, `is_running` | start, stop, queue, loop, maintenance | monitor, crawler, model, goals | a bounded queue with several readers |
| Crawler and backfill (`d3_3_ingest_sync`) | none but `recent_messages` | quick sync, backfill, deep validation | Discord, background processor | resumes at the newest row, whoever wrote it |
| Voice: audio processor, lock, output; Rust receiver | buffers, silence timers, a lock per guild, two queues, the track | frames, transcription, speech, interruption | bridge, model | the lock is released by an event with no correlation, or by time |
| Voice: bridge, listener, behaviour, tracking | one connection, one bridge, pending joins, sessions | join, leave, consider, check | Discord, chat, panel | three callers, one reference |
| Database protection (`d2_1_db_protect`) | backups on disk, the database files | back up, validate, recover, signal handler | entry point | a crash between two steps of a recovery |
| Hot reloader (`d2_3_hot_reloader.py`) | `prev_mtimes`, the child process | poll, restart, rebuild | the bot's process | changes that arrive while it handles one |
| Control panel (`d2_1_control_panel`) | `active_websockets`, `_ws_lock` | broadcast, routes | every component | its requests come at any time |
| Topic and style analysis, configuration, scripts, memory classes nothing calls | scores, strings | - | stages | no protocol; left out |

What makes each component correct: a run of the *pipeline* is written to memory
exactly once, sends at most one reply and none after it was written, does not
react and reply, and remembers what was said; the model *reads* the turns that
have ended. The *memory* finds a person's own memories, and forgets none by
accident. *Beliefs* depend on what was observed and on time, not on how messages
interleave. *Goals* are bounded and explained by their ledger. *Caches* are
written back and never count twice. The *background processor* loses no message
silently. The *crawler* leaves no hole behind. The *voice lock* admits one turn at
a time and every turn ends; the *listener* agrees with Discord. What is
listed of the latest *backups* is whole, and the *reloader* ends up running the newest
Python code.

The behaviours that are hard to test are listed in `PROJECT.json` under
`hazards`, each at its line; the properties below are aimed at them.

## 2. The modules

| Component | Modules | Run | Proofs |
|---|---|---|---|
| Message pipeline | `MessagePipeline`, the abstract `ConversationTurn` it implements | `pipeline_faults` | `MessagePipelineProofs` |
| What the model reads | `MessagePipelineObserved` (history variables), `ReplyContent`, each extending the one before | `pipeline` | `MessagePipelineProofs` |
| Background processor | `BackgroundProcessor` | `background` | `BackgroundProcessorProofs` |
| Belief engine | `BeliefDynamics` | `beliefs` | `BeliefDynamicsProofs` |
| Goals engine | `GoalsEngine` | `goals` | `GoalsEngineProofs` |
| Engines and life of the process | `EngineState`, extended by `BotLifecycle` | `lifecycle` | `BotLifecycleProofs` |
| Long-term memory | `MemoryStore` | `memory_store` | `MemoryProofs` |
| Crawler | `Crawler` | `crawler` | `MemoryProofs` |
| Joining and leaving voice | `VoiceSession` | `voice_session` | `VoiceProofs` |
| A conversation by voice | `VoiceConversation` | `voice_conversation` | `VoiceProofs` |
| Database protection | `DatabaseProtection` | `backups` | `DatabaseProtectionProofs` |
| Hot reloader and the process it restarts | `HotReloader`, extending `DatabaseProtection` | `hot_reloader` | `DatabaseProtectionProofs` |

A module `MC...` gives the constants of a run their values; its `.cfg` names the
specification and the properties. One run answers each component's question. No
module that is proved about reaches a recursive operator: recursion is written as
recursive functions or folds.

The asyncio program has one event loop, so in every module the code between two
awaits is one action, and two tasks interleave only at awaits. Where the code
commits row by row, or where a process may be killed inside a synchronous
function, the commits are steps of their own.

## 3. The message pipeline

`MessagePipeline` models the live path of a message.

| Variable | Code |
|---|---|
| `pc[m]` | the await, or the stage, at which the task of message m is suspended |
| `halt`, `raw`, `final`, `sent`, `seen` | `ctx.halt_reason`, `ctx.raw_response` and `ctx.final_response` (empty or not), `ctx.metadata["message_sent"]`, `ctx.recent_messages` |
| `writes[m]` | how often `MemoryWriteStage` has run |
| `reaction[m]` | the task `_delayed_react` |
| `delivered` | what Discord has accepted |
| `recent`, `memory` | the rows of `recent_messages`, the entries of the vector memory |
| `lastReply`, `responses`, `startOwner`, `runRow`, `abortFlag` | attributes of the manager and of the one shared `MessagePipeline`, and the `pipeline_runs` row |
| `up` | the process is running |

`Receive` and `Ingest` are `on_message` and the head of `process_message`;
`Decide` to `SendReply` are the first nine stages; `StageError` is the `except`
of `process()`; `StartWrite`, `FactsReturn` and `ContradictionsReturn` are the
three sections of `MemoryWriteStage`; `LeaveLoop` is what `process()` does after
its loop; `VoiceChecked` ends `process_message`. `AbortGeneration` is the
panel's abort and `Shutdown` the end of the loop. `Plan`, `ResolveTime`,
`ReadPersonality` and `AssemblePrompt` fill the context from state this module
does not hold: they are steps at which others interleave and which may raise.

`ConversationTurn` is what a run promises without its stages: a turn is opened,
may be answered at most once and only while it is not yet remembered, is
remembered once, and is closed only when it was remembered; or it is lost with
the process. `MessagePipeline` maps `pc` to the phase, `delivered` to the
answers and `writes` to what is remembered.

`MessagePipelineObserved` adds history variables: the turns that had ended, and
the replies that had been delivered, when a message arrived.

`ReplyContent` adds what the language model is given to read and what becomes of
its answer:

| Variable | Code |
|---|---|
| `zone`, `timeline` | the clock of the host, and the order in which rows were said; rows sort by the text of their timestamps, Discord's UTC for users, local time for the bot |
| `answer[m]` | `ctx.raw_response`, then `ctx.final_response`: blank, words, or thoughts closed, foreign, cut off, or closed without being opened |
| `endpoint`, `connected`, `retrying` | the model's server, `is_connected`, and whether `_retry_thread` is alive |

`Given(m)` is the request: the rows of the history query, cut to ten by the prompt
assembly and to eight by `[2:][-8:]` of the generator. `ModelReadsEndedTurns` lets a
row with a text be missing from it only if as many newer rows with a text as a call
passes on, or as many newer rows as the query returns, are in the channel. `Retry` is
one round of the connector's thread; the texts pass the adapter's filter and the
cleaning stage.

| Run | Bounds | Shows |
|---|---|---|
| `pipeline` | two messages of one channel, one addressed to the bot and one file that may be ignored; history of 3 rows, of which the prompt takes 2 and the call 1; a clock at UTC or behind it; one change of the model's server; no storage faults | a message with a reaction has no reply anywhere; delivered replies are remembered; the model reads both sides of every ended turn, but for rows behind a full window; no known thoughts reach Discord or memory; the connection is retried while the bot is not connected |
| `pipeline_faults` | the same messages, every storage call may fail, history of 1 row; fairness | the refinement of `ConversationTurn`; every received message is written unless the process stops |

Two messages are enough for the interleavings: the runs interact through the
stores, the start time and the counters, and each such interaction is between
two runs. Both kinds of message occur, so every halt reason does. The windows are
scaled so that the four rows two turns produce overflow each of them.

`FairSpec` asks weak fairness of `Step(m)`: a task that can go on does. The code
justifies it because every await of a run ends: the HTTP client of the model
connector has connect, read, write and pool time-outs, `discord.py` calls return
or raise, and the typing delay is a bounded sleep. Two things are assumed: that
a panel client does not stall inside `broadcast_event`, which holds a lock
while it awaits the socket, and that the process is not starved. `Receive`,
`DelayedReact`, `AbortGeneration` and `Shutdown` have no fairness: users, the
panel and the operator owe nothing.

## 4. The background processor

`BackgroundProcessor` models the deque of raw messages, its writers and its
readers. A call of `start()` with the loop it creates is one process, a call of
`run_maintenance` another; they interleave at the loading of the model, the
sleeps and the LLM call per group of messages.

| Variable | Code |
|---|---|
| `queue`, `lastMessage`, `isRunning`, `task` | `processing_queue`, `last_message_time` (none, recent, ten seconds old), `is_running`, `self.task` |
| `pc[t]`, `todo[t]`, `fromIdle[t]` | where process t is suspended, what is left of its batch, and whether option 2 of the loop took it |
| `booted` | the initializer's `start()` has returned, so that the monitor, the crawler and the panel exist |
| `processed` | the messages counted in `stats["total_processed"]` |
| `queued`, `evicted`, `lost` | bookkeeping: what was queued, dropped by the full deque, or cancelled with a batch |

`QueueMessage` is `queue_message`; `BeginStart`, `FinishStart` and `Stop` are
`start` and `stop`; `TakeFull` and `TakeIdle` are the options of the loop;
`SummaryReturns` is one iteration of `_process_batch`; `Maintain` and `Tended`
are `run_maintenance`. `SortedBy`, `SameTalk` and `IsFirstGroup` are
`_group_by_conversation`.

Run `background`: four messages of two channels, a queue of 3 (code: 1000), a
batch at 2 (3) and at most 3 (10) messages, three calls of `start()`, any number
of stops, one round of maintenance. Every queued message is in exactly one place;
the messages of one summary are one conversation; a backlog of a batch is worked
off; and a message whose idle timer runs is taken, unless the processor is
stopped (section 14 tells which message is left without a timer). The bounds are
the code's constants scaled down so that four messages fill the queue, overflow
it, make a full batch and an idle one. Three messages are of one channel, one of
them after a pause, and one of another channel lies between, so that a batch has
up to three groups. The processor may be stopped for good, and messages and
starts run out, so the check for deadlock is off.

`FairSpec` asks that messages pause for ten seconds at some time and that each
sleep, model load and LLM call ends: sleeps are bounded, the HTTP client has
time-outs, and a failed call ends like a successful one. `Stop` and
`BeginStart` have no fairness.

## 5. Beliefs

`BeliefDynamics` is the belief engine and the sections of `MemoryWriteStage` that
feed it.

| Variable | Code |
|---|---|
| `stored`, `belief`, `state`, `age`, `count` | the rows of `facts`: `belief`, `state`, the time since `last_confirmed` (below, at, or beyond a half-life), `observation_count` |
| `logged` | the rows of `fact_observations` |
| `pc[m]`, `todo[m]`, `listed[m]` | where the writing of message m is suspended, the facts or contradictions it has still to apply, the facts its prompt showed |
| `running`, `unlogged` | the task that has the event loop; the fact whose update is committed and not yet logged |
| `kills`, `lastKind` | ends of the process; the kind of each fact's latest observation |

A belief is a probability, here a whole number of thousandths, rounded down. The
engine adds the logarithm of a likelihood ratio to the log-odds, which is to multiply
the odds: by 5/2 for a corroboration, by 3/20 for a contradiction by the person
(`Ratio`, the weights 2.5 and 0.15 of `SOURCE_WEIGHTS`). It clamps a belief to 0.01
and 0.99 before it uses it and never what it stores (`Posterior`), and a label
changes only above 0.6 or below 0.4 and is kept in between (`NextState`). Decay halves
the distance from 0.5 not at all, once or twice, by the age of the row. The extraction
prompt, `store_fact`, the contradiction prompt and `observe` are actions of a message's task;
`LogObservation` is the second commit of an observation; `ReadForPrompt` is
`get_facts_for_user`, which decays and stores what it reads; `TimePasses` makes facts
older; `Kill` may come between any two commits.

Run `beliefs`: one person and the subject "unknown", three facts, two messages
whose extraction and contradiction checks overlap, a prompt that shows one known
fact, answers of at most two items with repetitions and unknown claims, one end of
the process. Two messages are the smallest number that reads before and writes
after each other. The confidences are 1.0, which is stored as it is, and 0.75: contradicted
it comes to about 0.31, corroborated then to 0.53, and keeps its label. The log lags
the counters by one entry at most per end of the process (`AuditTrail`); a fact that
was corroborated last is not called contested above 0.6, and one that was contradicted
last not supported below 0.4, however far it has faded (`LastWordCounts`); and without
an observation a belief moves toward doubt and not beyond (`FadesOnly`). No fairness
is needed.

## 6. Goals

`GoalsEngine` is the tables `goals` and `goal_evidence` and the part of
maintenance that reviews, promotes and forms goals.

| Variable | Code |
|---|---|
| `status`, `owner`, `salience`, `stamp` | the columns; salience counts the reviews a goal survives, `last_reviewed_at` is never, within the interval, or stale |
| `evidence` | the entries of the ledger, per goal and kind |
| `pc`, `todo`, `users`, `asked`, `promoted` | where each round is, and its local variables |
| `running`, `entry`, `kind` | the round that has the loop; the ledger entry that comes next |
| `faults`, `kills`, `moves` | statements that failed, ends of the process, transitions committed |

A round has the loop to itself except while the model is asked for a goal. Each
transition and its entry in the ledger are two commits; a statement that fails is
swallowed, and the end of the process may come between any two.

Run `goals`: two goals of one user, two rounds, saliences 0 and 2, and limits of
one for live goals, promotions and reviews, so that each limit is met; one failing
statement, one end of the process. The ledger explains every goal
(`LedgerExplainsGoals`), a user has at most the configured number of live goals and
one more for every other round that waited with the same stale count
(`CapWithOverlap`), and however many rounds overlap a goal fades once per interval
(`FadesOncePerInterval`).

## 7. Engines and the life of the process

`EngineState` is what the engines accumulate and how it outlives the process;
`BotLifecycle` is every `on_ready` with its set-up, the messages that arrive
before, during and after it, maintenance, and the ways the process ends. The state
of a channel or a person is the number of messages it accounts for: the floating
point behind it does not matter to whether it is saved, lost or counted twice.

| Variable | Code |
|---|---|
| `heard`, `saved` | the channels of each manager's `ConversationDynamicsEngine`; table `channel_dynamics` |
| `known`, `stored`, `loads` | `UserAffectEngine._rows`; `user_affect`; the loads in the background |
| `mood`, `changes`, `kept` | `PersonalityState._users`, `_per_user_update_count`; `user_mood_state` |
| `met`, `logged` | `relationships.interaction_count`, rows of `activity_log` |
| `process`, `initializer`, `exported`, `panel` | up, closing or down; the package's `_initializer` and `message_manager`; the panel's `bot_state` |
| `stage`, `pipeline` | how far the set-up of each initializer is; which pipeline its manager has |
| `at`, `by` | where the run of each message is, and the manager it was given to |
| `expected`, `heardEver`, `felt` | history: what there was to count |

`OnReady` and `SetUpStep` are `on_ready` and the initializer's `initialize` cut at their
awaits; `Arrive` to `Written` are the steps of a message at which engines are
touched; `LoadAffect` is the task a missing row schedules; `Maintain` is the
periodic task, `Exit` the return of the client with the final flush, `End` a
signal or a kill.

Run `lifecycle`: two managers, which are two set-ups that overlap or follow a
restart; one channel, one person, two messages; moods saved at every second change
(code: every tenth), one failing statement, one end of the process. No engine and no
row counts a message twice (`NothingCountedTwice`); a clean exit leaves nothing of
the dynamics engine unsaved and fewer changes of mood than the throttle (`CleanExitSaves`);
while there is one manager and no failure, no row is replaced by less
(`SavedKeepsCount`); what the latest manager has heard is saved, by its set-up or the
periodic task, unless the process ends or another `on_ready` comes first
(`RhythmIsSaved`). With two messages a save falls between them or after both, and
with two managers each of them may have either.

`FairSpec` asks that what a set-up waits for comes and that the timer of the
maintenance task goes off. Nothing is asked of messages, of Discord or of the end
of the process.

## 8. The long-term memory

`MemoryStore` is one call that writes Qdrant and the FTS5 index, one pass that
cleans both, and the searches that merge both.

| Variable | Code |
|---|---|
| `points` | the collection: memory id to text, person, unimportant, old |
| `rows` | `documents_fts`: memory id to person and number of rows (the index has no key, so `INSERT OR REPLACE` repeats) |
| `serviceUp`, `client` | Qdrant answers; `qdrant_client` is not `None` |
| `writes`, `faults`, `cleaned` | bounds, and the ids that maintenance removed |

`Ingest` and `AddManually` are `add_memory_enhanced` from a Discord message and from
the panel: ids, chunks (two for a long text; the dot that `_chunk_content` appends is
modelled, because deduplication compares the text), the write to each store, and
every place where it may be cut short. `CleanUp` is the pass of the maintenance,
`ServiceStops`, `ServiceReturns` and `Restart` are the faults. Searches change nothing:
they are operators whose results are sets of possible answers, because ranking and
similarity are left open, and `build_context` is three of them.

Run `memory_store`: two persons, one message of Discord, two bodies (one long), two
writes, search limits of 2, one memory removed per pass (code: 20, 50 and 1000), one
fault. A context holds memories of its own person, and without a failure none that
was removed (`SearchFindsOwn`); a memory that could be found can be found after every
step, unless maintenance removed it as old and unimportant or the service is gone
(`ForgetsOnlyOldAndMinor`). Two writes make a duplicate, an overwrite and a pair; one
fault puts the stores out of step once. No fairness is needed.

## 9. The crawler

`Crawler` is how the messages of a channel reach `recent_messages`: as the bot sees
them, from the newest it reads at start, and from the crawler.

| Variable | Code |
|---|---|
| `answered`, `posted`, `deleted` | the channel: in `ALLOWED_CHANNEL_IDS` or not, and what is in it |
| `up`, `running` | the process; `is_running` |
| `kept`, `arriving`, `recent`, `started` | `recent_messages`; messages the bot is about to store; what the start-up task has read |
| `pc`, `newest`, `cursor`, `left`, `page`, `batch` | where each sync is, and its local variables |
| `gap`, `around` | where deep validation is |
| `unqueued`, `forgone`, `troubles` | history: stored and not passed on; given up by a sync; faults |

A message is its position in the channel and a row its timestamp: that of a user's
message is `2m`, that of a reply is odd, because it has the time of its writing. The
two come from different clocks. A reply's time is the host's, written without a zone,
and the table sorts times as text: on a host ahead of UTC the row sorts above the
messages of the next hours, which are `Lead` messages here. `Moment` is the time a row
stands for when Discord is asked for what comes after it, because py-cord takes a time
without a zone for local time. A host behind UTC is not modelled. `Ask`,
`Compare`, `Resume` and `Backfill` are the quick sync, `ForceBackfill` the panel's
request, `Validate`, `Fetched`, `FillBefore` and `FillAfter` the deep validation,
`ReadRecent` and `StoreRecent` the start-up task, `LiveStore` the bot's own writes.

Run `crawler`: one channel of up to three messages, of which the second is a reply
or another bot's; two rows kept (code: 20000), pages and batches of two (100), one
neighbour, every second row validated (100); a host one message ahead of UTC; the
loop's sync and one started by hand; one deletion, failed request, stop or restart. A
failed request ends a comparison or a resumed sync; a backfill may end or go on, since
py-cord's iterator asks again. Three messages are the fewest
with a hole in the middle, and two rows kept let the prune meet it. No step of a
sync leaves out a message below one it stores, in the order of the table, unless the
prune took it (`CrawlerOpensNoHole`): with a page longer than the rows kept, or
more neighbours of a gap, the prune would take rows of the very page that is stored,
so the assumption asks for `Page <= Cap` and `Radius <= Cap` (100 and 50 against
20000). What a sync has stored is in its batch or was passed to summarisation, unless
the batch was given up, because its task was ended or because the row of a reply,
whose time has no zone, kept it from being sorted (`CrawledIsQueued`). Once bot and
crawler stay up, the users' messages of the page that follows the newest row are
stored, for ever from some time on (`CatchesUp`). It says no more because the sync
asks for one page and looks at the newest row again: where that page has only
messages of bots, or only messages above which a reply's row sorts, it asks for the
same page each time, and what comes after is left to the bot's own writes. With `Lead`
at 0 and no such page this is that the newest message of a user gets stored.

The property was explored on a second instance besides, where a page that a reply's
row sorts above is met: four messages, pages of one, a host two messages ahead, three
rows kept, no faults (660 thousand states). It holds there too. It needs the table to
have room for the messages of the hours the host is ahead, as 20000 rows have.

`FairCrawlSpec` asks that the loop of the quick sync comes round again and that every
request is answered or fails. Channels are visited one after the other and share
nothing but the queue of `BackgroundProcessor`, which `unqueued` stands for.

## 10. Joining and leaving voice

`VoiceSession` is the listener with its one reference to a gateway connection and one
to a bridge, and its three callers: the loop that considers joining, the voice
decisions of a chat, the buttons of the panel.

| Variable | Code |
|---|---|
| `links` | the connections and bridges made so far; a join gives both one number |
| `protocol`, `bridge`, `active`, `joining` | `_protocol`, `rust_bridge`, `_active_guild_id`, `_join_in_progress` |
| `registered` | py-cord's voice client of each guild (external) |
| `barred`, `astray` | history: guilds whose voice client nobody will remove; guilds where Discord and the bot part, because an order to leave was not sent or the bot was put out |
| `calls`, `turn`, `overlapped` | what each caller is doing; who has the loop; did calls overlap |
| `pending`, `sessions`, `round` | `_pending_joins`, `_voice_session_guilds`, what the manager's loop has still to look at |
| `tracked`, `where`, `botIn`, `updates` | the tracker's `current_voice_states`; Discord's state; the changes on their way |

A call is a sequence of awaits (leaving the old channel, connecting, spawning the
process, undoing all of it), each of which may fail; others interleave at each. The two
awaits of starting the process are one. An order to the bot's own voice state may fail
to be sent (`Unsent`): a leave goes on as if it had been obeyed, so that the bot stays
in a channel it believes it left (`Remains`); a join ends with py-cord's voice client
registered and no reference to it, so that later joins of that guild fail. A moderator
may move the bot or put it out (`BotMoved`), and the listener takes no notice.

Run `voice_session`: two guilds with a channel each, one move, of a user, seen or
unseen, or of the bot, one order that is not sent, two connections, one message of a
chat about voice, one request of the panel. Calls that never overlapped leave the
listener, py-cord and Discord in agreement, but for what is said of `astray` and
`barred` (`AgreesWithDiscord`); a Rust process that nobody can stop any more comes from
an overlap only (`StrandedOnlyByOverlap`); each guild comes to rest, with no session
and no consideration (`SessionsEnd`). With one channel per guild a moderator can only
put the bot out; a move within a guild is covered by the proofs. Two guilds are needed
for a join that leaves the other one, and two connections for a call that finds
another's.

`FairSessionSpec`: every await of a call ends, because the gateway answers or the wait times
out and a process ends or is killed; the manager's loop wakes up every 15 seconds.
Strong fairness of `CheckLeave` says that its dice fall on every side sooner or later.

## 11. A conversation by voice

`VoiceConversation` is the audio path of one guild, from the frames of its speakers to
the TTS_DONE of the answer, with the Rust process in between.

| Variable | Code |
|---|---|
| `buffer`, `silence`, `burst`, `speaking`, `timer` | per user: `user_buffers`, `user_silence_frames`, `user_voice_burst`, `currently_speaking`, the silence timer |
| `lock`, `expired` | `_processing_lock_until`, as the turn it was set for; did one run out |
| `queue`, `worker`, `lost` | `processing_queue` (50), the turn `_transcribe_and_store` is at, turns refused by a full queue |
| `sentences`, `output` | `sentence_queue`, the turn of the output loop |
| `stopping`, `interrupting`, `frozen` | tasks of `stop_speaking` that wait for the loop; one that holds `_stdin_lock` while the pipe drains; an event loop that waits for that lock |
| `stdin`, `track`, `done`, `rustUp` | commands to the Rust process, `current_handle`, TTS_DONE on its way, the process |

A turn is an utterance taken from a buffer. The lock is a time 300 seconds ahead, so
`LockExpires` may happen at any moment. `KeepFrame`, `VoiceFrame` and `SilentFrame` are
`process_audio_chunk`; the actions of `Step` are the worker, the output manager, the
commands of the bridge and `main.rs`.

Run `voice_conversation`: two users, utterances of two to three frames, silence of two,
a burst of one (code: 50 and more, 75, 25), a queue of one utterance, two turns, two
commands on their way. While no lock ran out there is one turn at a time and the lock
is its own (`LockCoversTurn`). Each speaker who begins makes a task of `stop_speaking`,
and each write, INTERRUPT included, holds the pipe's threading lock across its drain; a
second write meanwhile freezes the event loop. That happens only after a lock ran out,
or when the process died, so that its pipe no longer drains (`FreezesOnlyWithCause`).
Every turn ends, or the loop has frozen (`TurnsEnd`). Two turns are what a lock keeps
apart, and a queue of one is full when a second lock was taken after the first ran out.

`FairSpec` asks weak fairness of the model's calls, the output loop, the pipe, the
track and the interrupts, and strong fairness of `TakeTurn`, because a worker that is
free between two speakers takes the next, and of the last waiting `stop_speaking`,
because the loop runs its tasks in turn. Of the synthesis it assumes more than the code
ensures: edge-tts and ffmpeg (`tts_engine.py:158-224`) have no time-out of their own, so
a synthesis that hangs leaves its turn in flight. The guild is then freed by the expiry
of its lock only, and no other turn is spoken. Nothing asks a lock to run out.

The reader of the bridge ends before it has passed on a frame at this commit (section
14). The module takes the frames where `process_audio_chunk` would be called with them.

## 12. Database protection and the hot reloader

`DatabaseProtection` is the life of the bot's process as its databases see it.

| Code | Model |
|---|---|
| `bot_data.db`, `chroma_data/` | `sqlite` and `chroma`: there or not, sound or corrupt; "fresh" is a well-formed file without the rows |
| the backup directory | `paths` in the order of their modification times, `dir`, `tar`, `holds` for `databases_backed_up` and `failed` for `errors` |
| a call of `create_backup` | `job[j]`: its stage, its name and the paths its clean-up has still to remove; `loop` and `handler` share the main thread, `thread` is the worker of `asyncio.to_thread` |
| copying, writing the metadata, `make_archive` | `BeginPiece`/`EndPiece`, `BeginArchive`/`EndArchive`: a file is torn in between; `FailPiece`, `FailCompression` are the `except` branches |
| `rmtree`, `unlink` | `Erase`, one entry at a time, the directory last |
| `_cleanup_old_backups` | `Doomed` when it lists the directory, `Prune` for each path, `EndBackup` |
| `list_backups` | `ListedTar`, `ListedDir`; entries of one time keep the archive first, because `sort` is stable |
| `validate_all_databases`, `init_database_protection` | `OverallStatus`, `Validate` |
| the repairs | `UnlinkSqlite`, `RewriteSqlite`, `RepairChroma`, `FailRepair` |
| SIGINT, SIGTERM | `Terminate`: the default action before the handlers are installed, a last backup, or `os._exit(1)` at the second signal |
| SIGKILL, a crash | `Die`, between any two steps |

`HotReloader` extends it with the supervising process: `watcher` is where its one
coroutine is suspended, `edits`, `prev` and `loaded` are versions of the kinds of
source files. `StopBot` is `start_bot` up to its first await and sends the
signal; `GraceExpires` is the time-out of `kill_bot`; `Spawn` is everything up to
the next sleep. The cooldown has no action: a sleep is as long as it, so it only
swallows a signal file found right after a restart. A build without `cargo` or
`maturin` raises and ends the reloader (`EndBuild`). The child is `uv run`
(`d2_3_hot_reloader.py:98`), which passes SIGTERM on and cannot pass on SIGKILL: a bot
that hangs may be orphaned by it and run on beside the next, which is not modelled.

Only the first `on_ready` of a process is modelled. The code validates and repairs at
each (`d3_1_pipeline_init/__init__.py:64`, `d4_1_pipeline_initializer.py:105`), when its
databases are open, and starts a start-up backup in a thread of its own at each
(`:80`): no property speaks of those.

| Run | Bounds | Shows |
|---|---|---|
| `backups` | ten old backups, two new ones, at most twelve paths, two faults | what is listed of the latest backups is whole; a reported backup was not pruned; the bot starts on sound databases; a repair removes a database that its backup has in full, or whose copy is recorded as failed |
| `hot_reloader` | one Python and one Rust source, an edit of each, two backups, no faults | a requested restart happens; an edited Python file is loaded |

Two new backups make every pair of calls overlap (worker and handler, worker and
maintenance task, the one before a repair and a later one), and every cut-off
backup has a successor. A directory that is being compressed, or a whole backup, is
pruned once enough later paths are on the disk; so `ListedIsWhole` and
`ReportsWholeBackup` are about a backup that is `Recent`: the limit has room for three
paths of each call begun since, of its own, and of the two that may have been under way
when it began. The three are the call's directory, its archive, and the directory its
clean-up is removing, which each removed entry makes newer, or was removing when it was
cut off. With the code's limit of 50 a backup is recent until 14 more have been begun,
however many of them were cut off. The run's limit of twelve makes the last two
backups begun recent, and lets the clean-ups remove older archives.
`ProtectionAssumption` asks for a limit of at least two, which a backup fills while its
archive lies beside its directory: with a limit of one the clean-up after a failed
compression would remove what the call is about to report.

`FairSpec` of the reloader asks weak fairness of its own steps and nothing of
the bot: the polls, the build (the one of the voice receiver has a time-out,
`maturin` is assumed to end) and the grace period. The bot may hang anywhere, the
last backup included.

## 13. What is proved

Each theorem holds for every value of the constants that satisfies the module's named
assumption: `PipelineAssumption`, `ProcessorAssumption`, `ProtectionAssumption`,
`ReloaderAssumption`, `BeliefAssumption`, `GoalsAssumption`, `MemoryStoreAssumption`,
`CrawlerAssumption`, `EngineAssumption` with `LifecycleAssumption`,
`VoiceConversationAssumption`, `VoiceSessionAssumption`, and `ContentAssumption` with
that of the pipeline. TLC evaluates them in every run. Each proof has one step per
action, and under it one per conjunct the action can disturb.

- `MessagePipelineProofs`: `TypeCorrect`; `RunCorrect`, the inductive invariant
  `RunInv`; from it `WritesOnce`, `ReactsOrReplies`, `RemembersDelivered`,
  `SendsBeforeWriting`; and `Implements`, that every step maps to a step or a stutter
  of `ConversationTurn`. None of the properties is inductive by itself: that a run is
  written once depends on where a run can be with which halt reason (`WriteState`),
  and what memory may say of a reply depends on `final_response` being fixed before
  the send (`ReplyState`). `EndWrite`, which three actions share, has its own lemma.
  Of `ReplyContent`, whose every step is a step of the pipeline, `ContentCorrect` (the
  connector goes on trying), `KeepsThoughts` and `ReadsEndedTurns`. The last rests on
  `HistoryCorrect`: a row is said once, a user's when the message arrives and a reply
  when it is stored (`TimelineInv`); the turns that had ended when a message arrived
  are in the table and say nothing more (`EndedInv`); so every row owed to a prompt
  was among those the query sorted, and is in its window or behind as many newer ones
  (`WindowInv`). Rows only get newer neighbours as time goes on (`NewerGrows`), and of
  a window the assembly and the generator keep the newest with a text (`NewestOrFull`).
- `BackgroundProcessorProofs`: `ProcessorTypeCorrect`, `AccountsForMessages`,
  `HoldsNothingElsewhere`, inductive together (`ProcessorInv`) and not alone: that
  `Take` loses nothing needs that a process outside a batch holds nothing, and that
  `Stop` cancels a loop needs that `task` is one. Lemmas on sequences say what append,
  popleft, the split of a batch and the sort do to the set of elements; `Places`
  states `Accounted` on those sets. `SummarisesOneTalk` needs besides that what a
  process has still to summarise stays in the order of its times (`Ordered`) and holds
  no message twice; that the first group is of one channel then goes along its
  neighbours, from a last message of another channel (`GroupIsOfOneChannel`).
- `DatabaseProtectionProofs`: `ProtectionTypeCorrect`, `OnlySoundDatabases` and
  `RepairsWhatIsBackedUp`. `RepairInv` says that until a repair is over it is one of a
  single database while the other one has passed validation; without it, the end of a
  repair could open the way to a database nobody looked at. `StatusIsRight` is the
  lemma about validation. That the backup before a repair has, when the repair begins,
  each database in full or on its list of failed copies, is followed through its call
  (`BackedUp`): until the bot has opened anything
  no other call is under way (`Alone`), its name is not on the disk yet
  (`FreshNames`), and each step leaves its directory, and then its archive, last among
  the paths by time (`TouchedLast`), so that with a limit of at least two its clean-up
  does not list the one that is whole (`NearStays`). Without `Alone`, another call's
  clean-up could. `ReloaderImplements` says that each step of `HotReloader` is a step of
  `ProtectionSpec` or leaves the bot's process alone; so both properties hold under the
  reloader (`ReloaderProtects`), which begins where `ProtectionSpec` is after its first
  step. `ReloaderTypeCorrect` is its type invariant. `OffersWholeBackups` and
  `ReportsWhatIsThere` (`ReloaderKeepsBackups` under the reloader) are about all calls at
  once. `CrowdInv` says what can have been changed after a path of backup `n`: only paths
  of the calls begun since and of up to two others, and one directory for each of these
  calls, which its clean-up is removing or was (`Company`, `Debris`); so fewer than three
  per call come later (`LaterFew`), and no clean-up lists a path of a recent backup
  (`GoesOld`, `Spared`). `Intact` then follows the backup through the stages of its own
  call, each of which may be its last. Neither is inductive without the other: what
  makes a path of another call later is what that call removes.
- `BeliefDynamicsProofs`: `BeliefTypeCorrect`, `AuditTrailHolds`, `LastWordHolds`,
  `SubjectsContradict`, `NothingIsCertain` and the action property `BeliefsFade`.
  `BeliefInv` adds to them `Unstored` (a fact without a row has no history) and
  `ListedOK` (a message was shown facts about its author), which is what keeps a
  contradiction found after an await from reaching somebody else's fact. Lemmas over the
  integers say that decay takes a belief toward 0.5 and not past it, and so never across
  a threshold from there, and that an observation, from wherever it starts, ends in the
  range of `NeverCertain`, one observation beyond the clamps.
- `GoalsEngineProofs`: `GoalsTypeCorrect`, `LedgerHolds`, `GoalsFadeOnce`, `CapHolds`.
  `GoalsInv` says in addition that a ledger entry is pending only while a round has
  the loop (`EntryInRound`), that what a round has still to review was not reviewed
  since it was read (`ReviewsWhatIsDue`), and that a row not yet inserted has no
  salience (`FormedHaveSalience`). The cap is an argument about finite sets: the live goals
  of a user and the rounds that wait for one change by one at a time, and a round
  begins to wait below the cap or after a failed read.
- `BotLifecycleProofs`: `LifecycleTypeCorrect`, `CountsOnce`, and of the action
  properties `SavedNeverLess` and `ExitLosesLittle`. The
  invariant bounds each counter by the messages that reached it (`HeardBounded`,
  `FeltBounded`), those in flight included (`FinishBounded`: what the tables count and
  the runs still to be written are together at most what was felt). `Structure` says
  who can be exported or given a message; `AloneKnows` that a single manager without
  failures knows what the tables say. For a clean exit `AloneHasAll` adds that the rows
  (before there is a manager) or the only manager account for everything heard in this
  process, and that the messages missing in the table of moods are at most the changes
  since the last save (`FewUnsaved`); `LatestExported`, that a single complete set-up is
  the one `main()` flushes.
- `MemoryProofs`: `MemoryTypeCorrect`, `SearchHolds`, `ForgettingIsDeliberate`.
  `MemoryInv` says that the stores agree on whom an id belongs to (`AgreeOnPerson`,
  `AuthorsOwn`), that a new random id is new (`NoncesAreFresh`), that a repeated row
  comes from a repeated write (`WritesRepeat`), and where cleaned ids can still be
  (`CleanedIsGone`). Without the first, a merged search could show one person
  another's memory. Of `Crawler`, `CrawlTypeCorrect`, `CrawledGoesOn` and the action
  property `OpensNoHole`. `CrawlInv` says that a sync has nothing in hand but in the
  middle of a backfill, and a batch that is not full (`InHand`); that what is left of
  an answer comes after its cursor and leaves nothing out before its end
  (`PageAhead`); and that what a sync has read up to is no newer than the newest row
  (`ReadIsStored`), whatever others store and the prune takes. The moment a sync
  resumes at is never later than the newest row (`MomentIs`), also where that is a
  reply's. From these each answer begins at or before the newest row and has no gap, and
  `StoresNoHole` shows that rows without a gap, stored so, open no hole.
- `VoiceProofs`: `ConversationTypeCorrect`, `LockCovers`, `FreezesWithCause`.
  `Covered` says that, until a lock runs out, a free guild has no turn anywhere and a
  locked one has its lock's turn in exactly one of seven places, from the queue over
  the worker, the sentences, the synthesis, the pipe and the track to its TTS_DONE
  (`OneTurn`), and that an interrupt comes first on the pipe (`StopsFirst`). That no
  second turn is in any of them is what makes a TTS_DONE without correlation release
  the right lock. Of `VoiceSession`, `SessionTypeCorrect`, `Agrees` and `Strands`.
  Neither property is inductive: `Quiet` says that, while no two calls have
  overlapped, at most one is under way (`Sole`), what the listener, the links and
  Discord hold at each of its awaits (`JoinPlaced`, `LeavePlaced`), and that between
  two calls the bot is out of voice or in one guild with all it needs (`Standing`).
  Each call is then followed from `Standing` to `Standing`, through every failure. What
  they say of Discord excepts the guilds in `astray`, and of py-cord those in `barred`,
  which an order that is not sent or a moderator adds to.

Model-checked only: all liveness (`EveryMessageIsWritten`, `BacklogShrinks`,
`TimedMessageIsTaken`, `RhythmIsSaved`, `CatchesUp`, `SessionsEnd`, `TurnsEnd`,
`RestartIsServed`, `PythonEditIsLoaded`), because liveness under fairness and
`ENABLED` are out of the prover's reach. Every other property a run checks has its
theorem.

## 14. Where the code and its documentation part

None of these has a run. The models behave as the code does here, and each property
above is stated so as to hold with it.

Messages and memory:
- A reply whose sending raised is stored as if it had been said
  (`d4_3_memory_write.py:225`; the docstring says "after the response has been sent").
- A visible reply is missing from the next prompt while facts are being extracted
  (`:131`; the comment at `:238-246` says that `recent_messages` carries both sides).
  A failed generation's fallback line is sent and remembered.
- Rows of `recent_messages` mix UTC and local time; a bot's replies sort hours early or
  late. The generator gives every entry the role "user". The voice path passes a
  one-entry list, of which `[2:]` leaves nothing.
- `thinking_filter` lets thoughts pass that were cut off or closed without being
  opened. `_connected` is never reset, `load_model` blocks the event loop, and an
  auto-selected model name replaces the configured one.
- Overlapping pipeline runs record each other's start time (`startOwner`, `runRow`).
- FTS5's `INSERT OR REPLACE` with `id UNINDEXED` repeats rows, where the comments of
  `d5_3_write_store.py` claim idempotency; the dot of `_chunk_content` makes equal texts
  differ; a write is acknowledged though both stores failed; what was written while
  Qdrant was down never reaches the vectors; a failed delete of the index leaves
  orphans; the three searches of `build_context` are identical, so one type can
  dominate (`d4_1_context_builder.py:46-48`); type and channel filters are ignored;
  a panel search without a user searches everyone.
- Belief decay: every read stores the belief decayed by the whole time since
  `last_confirmed` (`d3_3_belief_dynamics.py:90`), so the half-life of 30 days
  (`docs/SUBSYSTEM_state_core_db.md:55`) holds only for a fact read once. Replies stored
  under the user "serin" are never recalled.

Processes and engines:
- A message that arrives during an idle batch loses its timer
  (`d5_1_tooling_background.py:215`); two overlapping calls of `start()` create two loops
  (`:103`); `queue_drops` counts exceptions and never evictions.
- `run_maintenance` may add more than "at most one new goal per cycle" (344-346), and
  `promote_ready` does not ask for "one review window" (202-203). The planner reads the
  goals of all users.
- Moods are not saved at shutdown; two managers overwrite each other's with stale
  copies; 'chill' raises energy; the panel's preset reaches only people without a vector.
- SIGTERM does not reach the final flush (`d4_1_main_entry.py:100-102` says it does): the
  handler ends the process with `os._exit`. Overlapping set-ups leave stale references
  in the panel; a second `on_ready` rejects messages meanwhile; retries of the
  connection create extra maintenance tasks; the periodic task looks for the background
  processor where it is never bound.
- The quick sync resumes at the newest row whoever stored it, so messages of a downtime
  stay out (`d4_2_sync_crawler.py:191`; "ensure no messages are missed"). A hundred
  messages of bots stall it, and so does, on a host ahead of UTC, the row of a reply that
  sorts above the next hundred. Rows of replies count as gaps.
- A Rust source saved together with a Python file, or during a build, is never built
  (`d2_3_hot_reloader.py:225`; "automatically" in `README.md:72-73`). A repair removes the
  database although its copy failed, when the ChromaDB directory could be copied
  (`d3_3_protect_recovery.py:49`).

Voice:
- The reading loop of the bridge ends at once (`async for` over an object without
  `__aiter__`, which `test_wire_protocol.py:628` pins), the events it should pass on are
  queued unread, the default path of the binary is wrong, the supervisor waits for
  `_death_event`, which nobody sets, and `_running` stays true after the process died.
- A leave discards the join guard and ignores the guild; a chat's join reports "joined"
  even when it failed; the panel's joins never become sessions; a tracker that sees a
  leave after the join forgets the user. A leave whose order cannot be sent counts as
  done (`d3_1_system_listener.py:81-87`), a connect whose order cannot be sent bars the
  guild to later joins (`:50`), and a moderator's move or kick is ignored (`:71-77`).
- `_write_stdin` holds a `threading.Lock` across an await, so that two speakers who begin
  while a dead process's pipe is full freeze the bot; `stop_speaking` does not clear
  the queue; `interrupt_event` is cleared right before it is checked; a user cannot
  interrupt in the locked branch.

## 15. What is not modelled

- Texts and numbers: what a message says, scores by which the bot decides to answer, to
  join or to speak, similarity and ranking, the physics of rhythm and affect, topic and
  style analysis. They are choices left open, or counts.
- The description of images in the background: its row's text is all it changes. The
  broadcast to the panel's clients: a stalled client stops every pipeline by inspection
  (`d5_2_server_websocket.py:101`), which `EveryMessageIsWritten` assumes not to happen.
- A host behind UTC as the crawler sees it; later `on_ready` events as the protection of
  the databases sees them; a bot that outlives the SIGKILL of its `uv run`.
- Of the memory, that a chunk reaches both stores, or that a crash between two deletes
  leaves none behind: the code promises neither, and `MemoryStore` shows the states that
  come of it.
- The sound, the framing of the bridge, HTTP, SQLite's write-ahead log, the retries of
  the connection to Discord, statistics and the table `users`.
- Restoring a backup, the batch path of the manager, the correction handler,
  `d4_4_knowledge_retrieval.py`, `d3_4_memory_store.py`, the tables `beliefs` and
  `evidence`, `BotPersonality.set_opinion` and the like: no path of the program reaches
  them.
- Configuration, logging, scripts, tests, and the vendored songbird crate.
