-------------------------- MODULE VoiceConversation --------------------------
(***************************************************************************)
(* A conversation by voice in one guild: the frames of its speakers are    *)
(* buffered until they fall silent, one utterance at a time is transcribed *)
(* and answered, the answer is synthesized, sent to the Rust process and   *)
(* played, and its TTS_DONE gives the floor back.  A processing lock keeps *)
(* a second utterance out while one is being answered.                     *)
(*                                                                         *)
(* The module takes the frames and TTS_DONE where process_audio_chunk and  *)
(* _handle_tts_done take them; that the bridge's reading loop ends before  *)
(* it has passed on anything is told in the README.  A turn is an          *)
(* utterance taken from a buffer, numbered in order.  The lock is a point  *)
(* in time 300 seconds ahead: it may run out at any moment.  What is said  *)
(* does not matter, only whether there is an answer.  Text that reaches    *)
(* memory on the way is left to the modules of the stores.                 *)
(***************************************************************************)
EXTENDS Integers, Sequences, FiniteSets, SequencesExt, FiniteSetsExt

CONSTANTS Users,
          MinFrames,     \* frames of the shortest utterance (50, one second)
          MaxFrames,     \* frames of the longest (MAX_BUFFER_BYTES)
          BurstFrames,   \* voice frames that restart the count of silence (25)
          SilenceFrames, \* silent frames that end an utterance (75)
          QueueCap,      \* size of processing_queue (50)
          FrameBound,    \* bound: frames buffered while the lock is held
          MaxTurns,      \* bound: turns taken
          MaxCommands    \* bound: commands on their way to the Rust process

Turns == 1..MaxTurns
NoTurn == 0

ASSUME VoiceConversationAssumption ==
  /\ {MinFrames, MaxFrames, BurstFrames, SilenceFrames, QueueCap} \subseteq Nat \ {0}
  /\ MinFrames <= MaxFrames /\ MaxFrames <= FrameBound /\ FrameBound \in Nat
  /\ {MaxTurns, MaxCommands} \subseteq Nat

VARIABLES
  buffer,    \* user_buffers: frames of each user
  silence,   \* user_silence_frames
  burst,     \* user_voice_burst, counted up to BurstFrames
  speaking,  \* currently_speaking
  timer,     \* the users whose silence timer is set
  lock,      \* _processing_lock_until: the turn it was set for, or NoTurn
  taken,     \* turns taken so far
  queue,     \* processing_queue
  worker,    \* the turn _transcribe_and_store is at, and what it awaits
  lost,      \* turns refused by a full queue
  sentences, \* sentence_queue of the output manager
  output,    \* the turn its loop is at, and what it awaits
  stopping,  \* stop_speaking tasks that wait for the loop
  interrupting, \* one of them holds _stdin_lock and waits for the pipe to drain
  frozen,    \* the event loop waits for _stdin_lock, which only it could release
  stdin,     \* commands on their way to the Rust process
  track,     \* current_handle: the turn being played
  done,      \* TTS_DONE on its way back, with the turn it is about
  rustUp,    \* the Rust process runs
  expired    \* history: a lock ran out

speech == <<buffer, silence, burst, speaking, timer>>
answering == <<lock, taken, queue, worker, lost>>
interrupts == <<stopping, interrupting, frozen>>
speaker == <<sentences, output, stopping, interrupting, frozen>>
rust == <<stdin, track, done, rustUp>>
vars == <<speech, answering, speaker, rust, expired>>

Interrupt == 0       \* a command is INTERRUPT or the SPEAK of a turn
Idle == [at |-> "idle", turn |-> NoTurn]

TypeOK ==
  /\ buffer \in [Users -> 0..FrameBound]
  /\ silence \in [Users -> 0..SilenceFrames - 1]
  /\ burst \in [Users -> 0..BurstFrames]
  /\ speaking \subseteq Users /\ timer \subseteq Users
  /\ taken \in 0..MaxTurns /\ lock \in 0..taken
  /\ worker \in [at : {"idle", "hearing", "transcribing", "responding"}, turn : 0..taken]
  /\ queue \in Seq(1..taken) /\ Len(queue) <= QueueCap
  /\ lost \subseteq 1..taken
  /\ sentences \in Seq(1..taken)
  /\ output \in [at : {"idle", "synthesizing", "sending"}, turn : 0..taken]
  /\ stopping \in 0..MaxCommands /\ interrupting \in BOOLEAN /\ frozen \in BOOLEAN
  /\ stdin \in Seq(0..taken)
  /\ track \in 0..taken
  /\ done \in Seq(1..taken)
  /\ rustUp \in BOOLEAN /\ expired \in BOOLEAN

Init ==
  /\ buffer = [u \in Users |-> 0] /\ silence = [u \in Users |-> 0]
  /\ burst = [u \in Users |-> 0] /\ speaking = {} /\ timer = {}
  /\ lock = NoTurn /\ taken = 0 /\ queue = <<>> /\ worker = Idle /\ lost = {}
  /\ sentences = <<>> /\ output = Idle
  /\ stopping = 0 /\ interrupting = FALSE /\ frozen = FALSE
  /\ stdin = <<>> /\ track = NoTurn /\ done = <<>> /\ rustUp = TRUE
  /\ expired = FALSE

Locked == lock # NoTurn

---------------------------------------------------------------------------
(* The audio processor.                                                    *)

(* _queue_for_transcription: what user u said, frames long, becomes a turn *)
(* and locks the guild.  A locked guild keeps the buffer, a short          *)
(* utterance is thrown away, and the lock is set even if the queue is full *)
Takes(u, frames) ==
  IF Locked \/ taken = MaxTurns THEN /\ buffer' = [buffer EXCEPT ![u] = frames]
                                     /\ UNCHANGED answering
  ELSE /\ buffer' = [buffer EXCEPT ![u] = 0]
       /\ IF frames < MinFrames THEN UNCHANGED answering
          ELSE /\ taken' = taken + 1
               /\ lock' = taken'
               /\ IF Len(queue) < QueueCap
                  THEN queue' = Append(queue, taken') /\ UNCHANGED lost
                  ELSE lost' = lost \cup {taken'} /\ UNCHANGED queue
               /\ UNCHANGED worker

\* Mutant: whoever speaks while the bot answers interrupts it.
KeepFrameInterrupts(u) ==
  /\ ~frozen /\ Locked /\ buffer[u] < FrameBound /\ stopping < MaxCommands
  /\ buffer' = [buffer EXCEPT ![u] = @ + 1]
  /\ timer' = timer \ {u}
  /\ stopping' = stopping + 1
  /\ UNCHANGED <<silence, burst, speaking, answering, sentences, output, interrupting, frozen,
                 rust, expired>>
(* process_audio_chunk while the guild is locked: the frame is kept, the   *)
(* timer is cancelled, nothing else is looked at.                          *)
KeepFrame(u) ==
  /\ ~frozen /\ Locked /\ buffer[u] < FrameBound
  /\ buffer' = [buffer EXCEPT ![u] = @ + 1]
  /\ timer' = timer \ {u}
  /\ UNCHANGED <<silence, burst, speaking, answering, speaker, rust, expired>>

(* A voice frame: a sustained burst restarts the count of silence, a full  *)
(* buffer is taken at once, and whoever begins to speak has a task of its  *)
(* own that is to stop the bot.                                            *)
VoiceFrame(u) ==
  LET frames == buffer[u] + 1
      sustained == Min({burst[u] + 1, BurstFrames}) IN
  /\ ~frozen /\ ~Locked /\ buffer[u] < FrameBound /\ taken < MaxTurns
  /\ Len(stdin) < MaxCommands /\ stopping < MaxCommands
  /\ burst' = [burst EXCEPT ![u] = sustained]
  /\ silence' = IF sustained = BurstFrames THEN [silence EXCEPT ![u] = 0] ELSE silence
  /\ IF frames >= MaxFrames
     THEN /\ Takes(u, frames)
          /\ speaking' = speaking \ {u} /\ timer' = timer \ {u}
          /\ UNCHANGED stopping
     ELSE /\ buffer' = [buffer EXCEPT ![u] = frames]
          /\ speaking' = speaking \cup {u} /\ timer' = timer \cup {u}
          /\ stopping' = IF u \in speaking THEN stopping ELSE stopping + 1
          /\ UNCHANGED answering
  /\ UNCHANGED <<sentences, output, interrupting, frozen, rust, expired>>

(* A silent frame: enough of them in a row end the utterance. *)
SilentFrame(u) ==
  LET frames == buffer[u] + 1 IN
  /\ ~frozen /\ ~Locked /\ buffer[u] < FrameBound /\ taken < MaxTurns
  /\ burst' = [burst EXCEPT ![u] = 0]
  /\ IF silence[u] + 1 >= SilenceFrames
     THEN /\ Takes(u, frames)
          /\ silence' = [silence EXCEPT ![u] = 0]
          /\ speaking' = speaking \ {u} /\ timer' = timer \ {u}
     ELSE /\ buffer' = [buffer EXCEPT ![u] = frames]
          /\ silence' = [silence EXCEPT ![u] = @ + 1]
          /\ timer' = timer \cup {u}
          /\ UNCHANGED <<speaking, answering>>
  /\ UNCHANGED <<speaker, rust, expired>>

(* No frame came for the whole silence window. *)
TimerFires(u) ==
  /\ ~frozen /\ u \in timer
  /\ timer' = timer \ {u}
  /\ IF buffer[u] > 0 /\ u \in speaking
     THEN Takes(u, buffer[u]) /\ speaking' = speaking \ {u}
     ELSE UNCHANGED <<buffer, speaking, answering>>
  /\ UNCHANGED <<silence, burst, speaker, rust, expired>>

(* The lock runs out, and nothing is flushed. *)
LockExpires ==
  /\ ~frozen /\ Locked
  /\ lock' = NoTurn /\ expired' = TRUE
  /\ UNCHANGED <<speech, taken, queue, worker, lost, speaker, rust>>

\* Mutant: the lock is released after the flush has set it again.
TtsDoneReleasesLast ==
  /\ ~frozen /\ done # <<>> /\ taken < MaxTurns
  /\ done' = Tail(done) /\ lock' = NoTurn
  /\ \E u \in Users :
       /\ buffer[u] >= MinFrames /\ Len(queue) < QueueCap
       /\ buffer' = [buffer EXCEPT ![u] = 0]
       /\ taken' = taken + 1 /\ queue' = Append(queue, taken')
  /\ UNCHANGED <<silence, burst, speaking, timer, worker, lost, speaker, stdin, track,
                 rustUp, expired>>
(* _handle_tts_done: whatever turn it is about, the lock is released, and  *)
(* of those who spoke during the lock the one with most is taken.          *)
TtsDone ==
  /\ ~frozen /\ done # <<>>
  /\ done' = Tail(done)
  /\ LET waiting == {u \in Users : buffer[u] >= MinFrames} IN
     IF waiting = {} \/ taken = MaxTurns
     THEN lock' = NoTurn /\ UNCHANGED <<buffer, taken, queue, worker, lost>>
     ELSE \E u \in waiting :
            /\ \A v \in waiting : buffer[v] <= buffer[u]
            /\ buffer' = [buffer EXCEPT ![u] = 0]
            /\ taken' = taken + 1 /\ lock' = taken'
            /\ IF Len(queue) < QueueCap
               THEN queue' = Append(queue, taken') /\ UNCHANGED lost
               ELSE lost' = lost \cup {taken'} /\ UNCHANGED queue
            /\ UNCHANGED worker
  /\ UNCHANGED <<silence, burst, speaking, timer, speaker, stdin, track, rustUp, expired>>

(* _process_queue, one turn at a time.  The loop runs what is ready in     *)
(* order, so the stop_speaking tasks made before the turn come first.      *)
TakeTurn ==
  /\ ~frozen /\ stopping = 0 /\ worker = Idle /\ queue # <<>>
  /\ worker' = [at |-> "hearing", turn |-> Head(queue)] /\ queue' = Tail(queue)
  /\ UNCHANGED <<speech, lock, taken, lost, speaker, rust, expired>>

(* A model that hears answers from the sound alone; without one, or if it  *)
(* fails or is silent, the turn goes on to Whisper.                        *)
Hear ==
  /\ ~frozen /\ worker.at = "hearing"
  /\ \/ worker' = Idle /\ sentences' = Append(sentences, worker.turn)
     \/ worker' = [worker EXCEPT !.at = "transcribing"] /\ UNCHANGED sentences
  /\ UNCHANGED <<speech, lock, taken, queue, lost, output, interrupts, rust, expired>>

(* Whisper returns a text the voice pipeline stores and hands to the       *)
(* message manager; or no model is loaded, it fails, the text is empty,    *)
(* short or a placeholder, or storing it fails.                            *)
Transcribe ==
  /\ ~frozen /\ worker.at = "transcribing"
  /\ worker' \in {Idle, [worker EXCEPT !.at = "responding"]}
  /\ UNCHANGED <<speech, lock, taken, queue, lost, speaker, rust, expired>>

(* process_voice_input: the context is built and the language model asked; *)
(* its answer is queued by speak, and without one the lock stays.          *)
Respond ==
  /\ ~frozen /\ worker.at = "responding"
  /\ worker' = Idle
  /\ sentences' \in {sentences, Append(sentences, worker.turn)}
  /\ UNCHANGED <<speech, lock, taken, queue, lost, output, interrupts, rust, expired>>

---------------------------------------------------------------------------
(* The output manager and the Rust process.                                *)

(* The manager's loop; it clears the interrupt it is about to look at.     *)
TakeSentence ==
  /\ ~frozen /\ output = Idle /\ sentences # <<>>
  /\ output' = [at |-> "synthesizing", turn |-> Head(sentences)]
  /\ sentences' = Tail(sentences)
  /\ UNCHANGED <<speech, answering, interrupts, rust, expired>>

\* Mutant: a sentence that could not be synthesized is tried again.
SynthesisFailsAgain ==
  /\ ~frozen /\ output.at = "synthesizing"
  /\ output' = Idle /\ sentences' = Append(sentences, output.turn)
  /\ UNCHANGED <<speech, answering, interrupts, rust, expired>>
(* Synthesis fails: the sentence is dropped, and the lock stays. *)
SynthesisFails ==
  /\ ~frozen /\ output.at = "synthesizing"
  /\ output' = Idle
  /\ UNCHANGED <<speech, answering, sentences, interrupts, rust, expired>>

(* _write_stdin holds the threading lock _stdin_lock until the pipe has    *)
(* drained.  A task that meets the lock held stops the thread of the event *)
(* loop, and with it the task that could release the lock.                 *)
StdinLocked == output.at = "sending" \/ interrupting

(* SPEAK is written.  What is written to a process that died is lost.      *)
Synthesized ==
  /\ ~frozen /\ output.at = "synthesizing"
  /\ IF StdinLocked THEN frozen' = TRUE /\ UNCHANGED <<output, stdin>>
     ELSE /\ output' = [output EXCEPT !.at = "sending"]
          /\ stdin' = IF rustUp THEN Append(stdin, output.turn) ELSE stdin
          /\ UNCHANGED frozen
  /\ UNCHANGED <<speech, answering, sentences, stopping, interrupting, track, done, rustUp,
                 expired>>

Drained ==
  /\ ~frozen /\ output.at = "sending"
  /\ output' = Idle
  /\ UNCHANGED <<speech, answering, sentences, interrupts, rust, expired>>

(* stop_speaking writes INTERRUPT; the sentences stay in their queue.  Its *)
(* drain suspends if the pipe is closing, and may while it still holds an  *)
(* answer.                                                                 *)
StopSpeaking ==
  /\ ~frozen /\ stopping > 0
  /\ IF StdinLocked THEN frozen' = TRUE /\ UNCHANGED <<stopping, interrupting, stdin>>
     ELSE /\ stopping' = stopping - 1
          /\ stdin' = IF rustUp THEN Append(stdin, Interrupt) ELSE stdin
          /\ interrupting' \in {FALSE, ~rustUp \/ \E t \in Turns : t \in ToSet(stdin)}
          /\ UNCHANGED frozen
  /\ UNCHANGED <<speech, answering, sentences, output, track, done, rustUp, expired>>

(* ... and its drain returns, or raises what interrupt catches. *)
Interrupted ==
  /\ ~frozen /\ interrupting
  /\ interrupting' = FALSE
  /\ UNCHANGED <<speech, answering, sentences, output, stopping, frozen, rust, expired>>

(* A track that is stopped ends like one that was played. *)
Ended == IF track = NoTurn THEN done ELSE Append(done, track)

(* main.rs: a SPEAK replaces the track, if its file can be written.  It is *)
(* read whole only once the pipe has drained.                              *)
RustSpeaks ==
  /\ stdin # <<>> /\ Head(stdin) # Interrupt
  /\ output # [at |-> "sending", turn |-> Head(stdin)]
  /\ stdin' = Tail(stdin) /\ done' = Ended
  /\ track' \in {Head(stdin), NoTurn}
  /\ UNCHANGED <<speech, answering, speaker, rustUp, expired>>

RustInterrupts ==
  /\ stdin # <<>> /\ Head(stdin) = Interrupt
  /\ stdin' = Tail(stdin) /\ done' = Ended /\ track' = NoTurn
  /\ UNCHANGED <<speech, answering, speaker, rustUp, expired>>

TrackEnds ==
  /\ track # NoTurn
  /\ done' = Ended /\ track' = NoTurn
  /\ UNCHANGED <<speech, answering, speaker, stdin, rustUp, expired>>

(* The process dies, and nobody notices: what was on its way is gone. *)
RustDies ==
  /\ rustUp /\ rustUp' = FALSE
  /\ stdin' = <<>> /\ track' = NoTurn
  /\ UNCHANGED <<speech, answering, speaker, done, expired>>

Step ==
  \/ \E u \in Users : TimerFires(u)
  \/ TtsDone \/ TakeTurn \/ Hear \/ Transcribe \/ Respond
  \/ TakeSentence \/ SynthesisFails \/ Synthesized \/ Drained
  \/ StopSpeaking \/ Interrupted
  \/ RustSpeaks \/ RustInterrupts \/ TrackEnds

Next ==
  \/ \E u \in Users : KeepFrame(u) \/ VoiceFrame(u) \/ SilentFrame(u)
  \/ LockExpires \/ RustDies
  \/ Step

Spec == Init /\ [][Next]_vars

(* Calls of the models and of the synthesis end, the process reads its     *)
(* pipe, a track ends, and the loop runs its tasks in the order they were  *)
(* made: those that stop the bot do not keep a turn waiting for ever.  No  *)
(* lock needs to run out.                                                  *)
FairSpec ==
  /\ Spec
  /\ SF_vars(TakeTurn) /\ WF_vars(Hear \/ Transcribe \/ Respond)
  /\ WF_vars(TakeSentence) /\ WF_vars(SynthesisFails \/ Synthesized) /\ WF_vars(Drained)
  /\ WF_vars(StopSpeaking) /\ SF_vars(StopSpeaking /\ stopping = 1) /\ WF_vars(Interrupted)
  /\ WF_vars(RustSpeaks \/ RustInterrupts) /\ WF_vars(TrackEnds) /\ WF_vars(TtsDone)

---------------------------------------------------------------------------
(* Properties.                                                             *)

InFlight(t) ==
  \/ t \in ToSet(queue) \/ t = worker.turn \/ t \in ToSet(sentences) \/ t = output.turn
  \/ t \in ToSet(stdin) \/ t = track \/ t \in ToSet(done)

(* While no lock ran out, there is one turn at a time from its taking to   *)
(* its TTS_DONE, and the lock is its own: two users who fall silent        *)
(* together, a timer that fires late, an interrupt and a replaced track    *)
(* all find the guild locked.                                              *)
LockCoversTurn == ~expired => \A t \in 1..taken : InFlight(t) => lock = t

(* The event loop freezes on _stdin_lock in two ways only: a lock ran out, *)
(* so that a speaker can interrupt an answer that is being sent; or the    *)
(* process has died, so that an INTERRUPT waits in its drain while the     *)
(* task of a second speaker runs.  As long as neither happened no order of *)
(* speakers, answers and interrupts makes two writes meet.                 *)
FreezesOnlyWithCause == frozen => expired \/ ~rustUp

(* Every turn comes to an end, whatever fails on its way. *)
TurnsEnd == \A t \in Turns : InFlight(t) ~> (~InFlight(t) \/ frozen)
==============================================================================
