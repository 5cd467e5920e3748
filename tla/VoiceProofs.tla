---------------------------- MODULE VoiceProofs ----------------------------
(***************************************************************************)
(* Proofs about the voice system: VoiceConversation for every set of       *)
(* speakers, every length of utterance, silence and queue, and every       *)
(* number of turns; then VoiceSession for every set of guilds, channels    *)
(* and people, and every number of calls, moves and connections.           *)
(***************************************************************************)
EXTENDS VoiceConversation, VoiceSession, SequenceTheorems, TLAPS

USE VoiceConversationAssumption

-----------------------------------------------------------------------------
(* Where the turn is *)

\* The worker and the output manager are at a turn whenever they are not idle.
Seated ==
  /\ worker.at # "idle" => worker.turn # NoTurn
  /\ output.at # "idle" => output.turn # NoTurn

Unheard == queue = <<>> /\ worker = Idle
Unspoken == sentences = <<>> /\ output = Idle
NoSpeak == \A i \in DOMAIN stdin : stdin[i] = Interrupt
Unsounded == NoSpeak /\ track = NoTurn /\ done = <<>>

\* The places a turn passes through, each with the others empty.
Unplaced == Unheard /\ Unspoken /\ Unsounded
InQueue == queue = <<lock>> /\ worker = Idle /\ Unspoken /\ Unsounded
AtWorker == queue = <<>> /\ worker.at # "idle" /\ worker.turn = lock /\ Unspoken /\ Unsounded
InSentences == Unheard /\ sentences = <<lock>> /\ output = Idle /\ Unsounded
AtSynthesis ==
  Unheard /\ sentences = <<>> /\ output = [at |-> "synthesizing", turn |-> lock] /\ Unsounded
InPipe ==
  /\ Unheard
  /\ sentences = <<>> /\ output \in {Idle, [at |-> "sending", turn |-> lock]}
  /\ \A i \in DOMAIN stdin : stdin[i] \in {Interrupt, lock}
  /\ \A i, j \in DOMAIN stdin : stdin[i] = lock /\ stdin[j] = lock => i = j
  /\ track = NoTurn /\ done = <<>>
OnTrack == Unheard /\ Unspoken /\ NoSpeak /\ track \in {NoTurn, lock} /\ done = <<>>
Answered == Unheard /\ Unspoken /\ NoSpeak /\ track = NoTurn /\ done = <<lock>>

\* A free guild has no turn, a locked one has its lock's turn in one place.
OneTurn ==
  IF lock = NoTurn THEN Unplaced
  ELSE InQueue \/ AtWorker \/ InSentences \/ AtSynthesis \/ InPipe \/ OnTrack \/ Answered

\* Speech is stopped before the next turn is looked at.
StopsFirst == stopping = 0 \/ (worker = Idle /\ Unspoken /\ NoSpeak)

\* No write waits, and none meets another, as long as the process reads its pipe.
Writes == rustUp => ~interrupting /\ ~frozen

Covered == ~expired => OneTurn /\ StopsFirst /\ Writes

-----------------------------------------------------------------------------
(* Types *)

SpeechTypes ==
  /\ buffer \in [Users -> 0..FrameBound]
  /\ silence \in [Users -> 0..SilenceFrames - 1]
  /\ burst \in [Users -> 0..BurstFrames]
  /\ speaking \subseteq Users /\ timer \subseteq Users

AnsweringTypes ==
  /\ taken \in 0..MaxTurns /\ lock \in 0..taken
  /\ worker \in [at : {"idle", "hearing", "transcribing", "responding"}, turn : 0..taken]
  /\ queue \in Seq(1..taken) /\ Len(queue) <= QueueCap
  /\ lost \subseteq 1..taken

OutputTypes ==
  /\ sentences \in Seq(1..taken)
  /\ output \in [at : {"idle", "synthesizing", "sending"}, turn : 0..taken]
  /\ stdin \in Seq(0..taken)
  /\ track \in 0..taken
  /\ done \in Seq(1..taken)

FlagTypes ==
  /\ stopping \in 0..MaxCommands
  /\ interrupting \in BOOLEAN /\ frozen \in BOOLEAN
  /\ rustUp \in BOOLEAN /\ expired \in BOOLEAN

LEMMA TypeParts == TypeOK <=> SpeechTypes /\ AnsweringTypes /\ OutputTypes /\ FlagTypes
  BY DEF TypeOK, SpeechTypes, AnsweringTypes, OutputTypes, FlagTypes

Typed == TypeOK /\ Seated

LEMMA NextTyped ==
    ASSUME SpeechTypes', AnsweringTypes', OutputTypes', FlagTypes', Seated'
    PROVE  Typed'
  BY DEF Typed, TypeOK, SpeechTypes, AnsweringTypes, OutputTypes, FlagTypes

LEMMA QueueTypes ==
    ASSUME NEW S, NEW s \in Seq(S)
    PROVE  /\ s # <<>> => Head(s) \in S /\ Tail(s) \in Seq(S)
           /\ \A e \in S : Append(s, e) \in Seq(S)
  BY HeadTailProperties, AppendProperties

LEMMA InitTyped == Init => Typed
  <1>. SUFFICES ASSUME Init
                PROVE  Typed
    OBVIOUS
  <1>1. SpeechTypes
    BY DEF Init, SpeechTypes
  <1>2. AnsweringTypes
    BY DEF Init, AnsweringTypes, Idle, NoTurn
  <1>3. OutputTypes
    BY DEF Init, OutputTypes, Idle, NoTurn
  <1>4. FlagTypes /\ Seated
    <2>1. stopping \in 0..MaxCommands
      BY DEF Init
    <2>2. Seated
      BY DEF Init, Seated, Idle
    <2>. QED BY <2>1, <2>2, Zenon DEF Init, FlagTypes
  <1>. QED BY <1>1, <1>2, <1>3, <1>4, TypeParts DEF Typed

\* One more turn leaves what there is well typed.
LEMMA Widened ==
    ASSUME NEW n \in Nat
    PROVE  Seq(1..n) \subseteq Seq(1..n + 1) /\ Seq(0..n) \subseteq Seq(0..n + 1)
  <1>1. 1..n \subseteq 1..n + 1 /\ 0..n \subseteq 0..n + 1
    OBVIOUS
  <1>2. ASSUME NEW S, NEW T, S \subseteq T
        PROVE  Seq(S) \subseteq Seq(T)
    BY <1>2
  <1>. QED BY <1>1, <1>2

\* A new turn: it has the lock, and is queued unless the queue is full.
NewTurn ==
  /\ taken < MaxTurns
  /\ taken' = taken + 1
  /\ lock' = taken'
  /\ \/ queue' = Append(queue, taken') /\ Len(queue) < QueueCap /\ lost' = lost
     \/ queue' = queue /\ lost' = lost \cup {taken'}
  /\ worker' = worker

LEMMA NewTurnTypes ==
    ASSUME AnsweringTypes, NewTurn
    PROVE  AnsweringTypes'
  <1>1. taken \in Nat /\ taken' \in 0..MaxTurns /\ lock' \in 0..taken'
    BY DEF AnsweringTypes, NewTurn
  <1>2. queue \in Seq(1..taken') /\ Len(queue) <= QueueCap
    BY <1>1, Widened DEF AnsweringTypes, NewTurn
  <1>3. queue' \in Seq(1..taken') /\ Len(queue') <= QueueCap
    <2>1. taken' \in 1..taken'
      BY <1>1 DEF NewTurn
    <2>2. CASE queue' = Append(queue, taken') /\ Len(queue) < QueueCap
      BY <1>2, <2>1, <2>2
    <2>3. CASE queue' = queue
      BY <1>2, <2>3
    <2>. QED BY <2>2, <2>3 DEF NewTurn
  <1>4. lost' \subseteq 1..taken'
    <2>1. 1..taken \subseteq 1..taken' /\ taken' \in 1..taken'
      BY <1>1 DEF NewTurn
    <2>2. lost' = lost \/ lost' = lost \cup {taken'}
      BY DEF NewTurn
    <2>. QED BY <2>1, <2>2 DEF AnsweringTypes
  <1>5. worker' \in [at : {"idle", "hearing", "transcribing", "responding"}, turn : 0..taken']
    BY <1>1 DEF AnsweringTypes, NewTurn
  <1>. QED BY <1>1, <1>3, <1>4, <1>5 DEF AnsweringTypes

LEMMA SameOutput ==
    ASSUME AnsweringTypes, OutputTypes, taken' \in {taken, taken + 1},
           UNCHANGED <<sentences, output, stdin, track, done>>
    PROVE  OutputTypes'
  <1>1. taken \in Nat
    BY DEF AnsweringTypes
  <1>2. sentences \in Seq(1..taken') /\ stdin \in Seq(0..taken') /\ done \in Seq(1..taken')
    BY <1>1, Widened DEF OutputTypes
  <1>3. /\ output \in [at : {"idle", "synthesizing", "sending"}, turn : 0..taken']
        /\ track \in 0..taken'
    BY <1>1 DEF OutputTypes
  <1>. QED BY <1>2, <1>3 DEF OutputTypes

\* What _queue_for_transcription does.
LEMMA TakesEffect ==
    ASSUME SpeechTypes, AnsweringTypes, NEW u \in Users, NEW frames \in 1..FrameBound,
           Takes(u, frames)
    PROVE  /\ buffer' \in [Users -> 0..FrameBound]
           /\ (lock = NoTurn /\ NewTurn) \/ UNCHANGED answering
           /\ AnsweringTypes'
           /\ taken' \in {taken, taken + 1}
           /\ worker' = worker
  <1>1. buffer' \in [Users -> 0..FrameBound]
    <2>1. \/ buffer' = [buffer EXCEPT ![u] = frames]
          \/ buffer' = [buffer EXCEPT ![u] = 0]
      BY DEF Takes
    <2>2. /\ buffer \in [Users -> 0..FrameBound]
          /\ frames \in 0..FrameBound /\ 0 \in 0..FrameBound
      BY DEF SpeechTypes
    <2>. QED BY <2>1, <2>2
  <1>2. (lock = NoTurn /\ NewTurn) \/ UNCHANGED answering
    BY DEF Takes, NewTurn, Locked, AnsweringTypes, answering
  <1>3. CASE NewTurn
    BY <1>1, <1>2, <1>3, NewTurnTypes DEF NewTurn
  <1>4. CASE UNCHANGED answering
    BY <1>1, <1>2, <1>4 DEF answering, AnsweringTypes
  <1>. QED BY <1>2, <1>3, <1>4

\* The actions of the frames and the timer.
Frames == \E u \in Users : KeepFrame(u) \/ VoiceFrame(u) \/ SilentFrame(u) \/ TimerFires(u)

\* Whoever begins to speak in a free guild has a task that is to stop the bot.
Stops ==
  \/ stopping' = stopping
  \/ lock = NoTurn /\ stopping' = stopping + 1 /\ stopping' \in 0..MaxCommands

\* What they do apart from the speech itself.
LEMMA FramesEffect ==
    ASSUME Typed, Frames
    PROVE  /\ SpeechTypes'
           /\ (lock = NoTurn /\ NewTurn) \/ UNCHANGED answering
           /\ Stops
           /\ UNCHANGED <<sentences, output, interrupting, frozen, rust, expired>>
           /\ taken' \in {taken, taken + 1} /\ AnsweringTypes' /\ worker' = worker
  <1>0. SpeechTypes /\ AnsweringTypes /\ FlagTypes
    BY TypeParts DEF Typed
  <1>1. ASSUME NEW u \in Users, KeepFrame(u)
        PROVE  /\ SpeechTypes' /\ UNCHANGED answering
               /\ UNCHANGED <<stopping, sentences, output, interrupting, frozen, rust, expired>>
    BY <1>0, <1>1 DEF KeepFrame, SpeechTypes, speaker
  <1>2. ASSUME NEW u \in Users, VoiceFrame(u)
        PROVE  /\ SpeechTypes'
               /\ (lock = NoTurn /\ NewTurn) \/ UNCHANGED answering
               /\ taken' \in {taken, taken + 1} /\ AnsweringTypes' /\ worker' = worker
               /\ Stops
               /\ UNCHANGED <<sentences, output, interrupting, frozen, rust, expired>>
    <2>. DEFINE frames == buffer[u] + 1
                sustained == Min({burst[u] + 1, BurstFrames})
    <2>1. frames \in 1..FrameBound
      BY <1>0, <1>2 DEF VoiceFrame, SpeechTypes
    <2>2. sustained \in 0..BurstFrames
      <3>1. burst[u] \in 0..BurstFrames
        BY <1>0 DEF SpeechTypes
      <3>2. \A a, b \in Nat : Min({a, b}) \in Nat /\ Min({a, b}) <= b
        <4>. SUFFICES ASSUME NEW a \in Nat, NEW b \in Nat
                      PROVE  Min({a, b}) \in Nat /\ Min({a, b}) <= b
          OBVIOUS
        <4>1. \E x \in {a, b} : \A y \in {a, b} : x <= y
          OBVIOUS
        <4>. QED BY <4>1 DEF Min
      <3>. QED BY <3>1, <3>2
    <2>3. /\ burst' = [burst EXCEPT ![u] = sustained]
          /\ silence' = silence \/ silence' = [silence EXCEPT ![u] = 0]
          /\ speaking' \subseteq Users /\ timer' \subseteq Users
          /\ UNCHANGED <<sentences, output, interrupting, frozen, rust, expired>>
      BY <1>0, <1>2 DEF VoiceFrame, SpeechTypes
    <2>4. Stops
      BY <1>0, <1>2 DEF VoiceFrame, Locked, FlagTypes, Stops
    <2>5. \/ Takes(u, frames)
          \/ buffer' = [buffer EXCEPT ![u] = frames] /\ UNCHANGED answering
      BY <1>2 DEF VoiceFrame
    <2>. HIDE DEF frames, sustained
    <2>6. /\ buffer' \in [Users -> 0..FrameBound]
          /\ (lock = NoTurn /\ NewTurn) \/ UNCHANGED answering
          /\ taken' \in {taken, taken + 1} /\ AnsweringTypes' /\ worker' = worker
      <3>1. CASE Takes(u, frames)
        BY <1>0, <2>1, <3>1, TakesEffect
      <3>2. CASE buffer' = [buffer EXCEPT ![u] = frames] /\ UNCHANGED answering
        BY <1>0, <2>1, <3>2 DEF SpeechTypes, answering, AnsweringTypes
      <3>. QED BY <2>5, <3>1, <3>2
    <2>7. burst' \in [Users -> 0..BurstFrames]
      BY <1>0, <2>2, <2>3 DEF SpeechTypes
    <2>8. silence' \in [Users -> 0..SilenceFrames - 1]
      BY <1>0, <2>3 DEF SpeechTypes
    <2>. QED BY <2>3, <2>4, <2>6, <2>7, <2>8 DEF SpeechTypes
  <1>3. ASSUME NEW u \in Users, SilentFrame(u)
        PROVE  /\ SpeechTypes'
               /\ (lock = NoTurn /\ NewTurn) \/ UNCHANGED answering
               /\ taken' \in {taken, taken + 1} /\ AnsweringTypes' /\ worker' = worker
               /\ UNCHANGED <<stopping, sentences, output, interrupting, frozen, rust, expired>>
    <2>. DEFINE frames == buffer[u] + 1
    <2>1. frames \in 1..FrameBound
      BY <1>0, <1>3 DEF SilentFrame, SpeechTypes
    <2>2. /\ burst' = [burst EXCEPT ![u] = 0]
          /\ \/ silence' = [silence EXCEPT ![u] = 0]
             \/ silence[u] + 1 < SilenceFrames /\ silence' = [silence EXCEPT ![u] = @ + 1]
          /\ speaking' \subseteq Users /\ timer' \subseteq Users
          /\ UNCHANGED <<stopping, sentences, output, interrupting, frozen, rust, expired>>
      BY <1>0, <1>3 DEF SilentFrame, SpeechTypes, speaker
    <2>3. \/ Takes(u, frames)
          \/ buffer' = [buffer EXCEPT ![u] = frames] /\ UNCHANGED answering
      BY <1>3 DEF SilentFrame
    <2>. HIDE DEF frames
    <2>4. /\ buffer' \in [Users -> 0..FrameBound]
          /\ (lock = NoTurn /\ NewTurn) \/ UNCHANGED answering
          /\ taken' \in {taken, taken + 1} /\ AnsweringTypes' /\ worker' = worker
      <3>1. CASE Takes(u, frames)
        BY <1>0, <2>1, <3>1, TakesEffect
      <3>2. CASE buffer' = [buffer EXCEPT ![u] = frames] /\ UNCHANGED answering
        BY <1>0, <2>1, <3>2 DEF SpeechTypes, answering, AnsweringTypes
      <3>. QED BY <2>3, <3>1, <3>2
    <2>5. burst' \in [Users -> 0..BurstFrames]
      BY <1>0, <2>2 DEF SpeechTypes
    <2>6. silence' \in [Users -> 0..SilenceFrames - 1]
      BY <1>0, <2>2 DEF SpeechTypes
    <2>. QED BY <2>2, <2>4, <2>5, <2>6 DEF SpeechTypes
  <1>4. ASSUME NEW u \in Users, TimerFires(u)
        PROVE  /\ SpeechTypes'
               /\ (lock = NoTurn /\ NewTurn) \/ UNCHANGED answering
               /\ taken' \in {taken, taken + 1} /\ AnsweringTypes' /\ worker' = worker
               /\ UNCHANGED <<stopping, sentences, output, interrupting, frozen, rust, expired>>
    <2>1. /\ speaking' \subseteq Users /\ timer' \subseteq Users
          /\ UNCHANGED <<silence, burst, stopping, sentences, output, interrupting, frozen, rust, expired>>
      BY <1>0, <1>4 DEF TimerFires, SpeechTypes, speaker
    <2>2. CASE buffer[u] > 0 /\ Takes(u, buffer[u])
      <3>1. buffer[u] \in 1..FrameBound
        BY <1>0, <2>2 DEF SpeechTypes
      <3>. QED BY <1>0, <2>1, <2>2, <3>1, TakesEffect DEF SpeechTypes
    <2>3. CASE UNCHANGED <<buffer, answering>>
      BY <1>0, <2>1, <2>3 DEF SpeechTypes, answering, AnsweringTypes
    <2>. QED BY <1>4, <2>2, <2>3 DEF TimerFires
  <1>5. UNCHANGED answering => taken' = taken /\ AnsweringTypes' /\ worker' = worker
    BY <1>0 DEF answering, AnsweringTypes
  <1>6. stopping' = stopping => Stops
    BY DEF Stops
  <1>. QED BY <1>1, <1>2, <1>3, <1>4, <1>5, <1>6 DEF Frames

LEMMA FramesTyped ==
    ASSUME Typed, Frames
    PROVE  Typed'
  <1>1. AnsweringTypes /\ OutputTypes /\ FlagTypes /\ Seated
    BY TypeParts DEF Typed
  <1>2. SpeechTypes' /\ AnsweringTypes' /\ taken' \in {taken, taken + 1}
    BY FramesEffect
  <1>3. UNCHANGED <<sentences, output, interrupting, frozen, stdin, track, done, rustUp, expired, worker>>
    BY FramesEffect DEF rust
  <1>4. OutputTypes'
    BY <1>1, <1>2, <1>3, SameOutput
  <1>5. FlagTypes' /\ Seated'
    BY <1>1, <1>3, FramesEffect DEF FlagTypes, Seated, Stops, rust
  <1>. QED BY <1>2, <1>4, <1>5, NextTyped

LEMMA TtsDoneEffect ==
    ASSUME Typed, TtsDone
    PROVE  /\ NewTurn \/ (lock' = NoTurn /\ UNCHANGED <<taken, queue, worker, lost>>)
           /\ buffer' \in [Users -> 0..FrameBound]
           /\ done # <<>> /\ done' = Tail(done)
           /\ UNCHANGED <<silence, burst, speaking, timer, speaker, stdin, track, rustUp, expired,
                          worker>>
  <1>0. SpeechTypes /\ AnsweringTypes
    BY TypeParts DEF Typed
  <1>1. /\ done # <<>> /\ done' = Tail(done)
        /\ UNCHANGED <<silence, burst, speaking, timer, speaker, stdin, track, rustUp, expired,
                       worker>>
    BY DEF TtsDone
  <1>2. NewTurn \/ (lock' = NoTurn /\ UNCHANGED <<taken, queue, worker, lost>>)
    <2>1. CASE taken = MaxTurns
      BY <2>1 DEF TtsDone
    <2>2. CASE taken # MaxTurns
      <3>1. taken < MaxTurns
        BY <1>0, <2>2 DEF AnsweringTypes
      <3>. QED BY <2>2, <3>1 DEF TtsDone, NewTurn
    <2>. QED BY <2>1, <2>2
  <1>3. buffer' = buffer \/ \E u \in Users : buffer' = [buffer EXCEPT ![u] = 0]
    BY DEF TtsDone
  <1>4. buffer' \in [Users -> 0..FrameBound]
    BY <1>0, <1>3 DEF SpeechTypes
  <1>. QED BY <1>1, <1>2, <1>4

LEMMA TtsDoneTyped ==
    ASSUME Typed, TtsDone
    PROVE  Typed'
  <1>1. SpeechTypes /\ AnsweringTypes /\ OutputTypes /\ FlagTypes /\ Seated
    BY TypeParts DEF Typed
  <1>2. SpeechTypes'
    BY <1>1, TtsDoneEffect DEF SpeechTypes
  <1>3. AnsweringTypes' /\ taken' \in {taken, taken + 1}
    <2>1. CASE NewTurn
      BY <1>1, <2>1, NewTurnTypes DEF NewTurn
    <2>2. CASE lock' = NoTurn /\ UNCHANGED <<taken, queue, worker, lost>>
      BY <1>1, <2>2 DEF AnsweringTypes, NoTurn
    <2>. QED BY <2>1, <2>2, TtsDoneEffect
  <1>4. OutputTypes'
    <2>1. taken \in Nat
      BY <1>1 DEF AnsweringTypes
    <2>2. /\ sentences \in Seq(1..taken') /\ stdin \in Seq(0..taken') /\ done \in Seq(1..taken')
          /\ output \in [at : {"idle", "synthesizing", "sending"}, turn : 0..taken']
          /\ track \in 0..taken'
      <3>1. CASE taken' = taken
        BY <1>1, <3>1 DEF OutputTypes
      <3>2. CASE taken' = taken + 1
        <4>1. sentences \in Seq(1..taken') /\ stdin \in Seq(0..taken') /\ done \in Seq(1..taken')
          BY <1>1, <2>1, <3>2, Widened DEF OutputTypes
        <4>. QED BY <1>1, <2>1, <3>2, <4>1 DEF OutputTypes
      <3>. QED BY <1>3, <3>1, <3>2
    <2>3. done' \in Seq(1..taken')
      <3>1. done # <<>> /\ done' = Tail(done) /\ done \in Seq(1..taken')
        BY <2>2, TtsDoneEffect
      <3>2. Tail(done) \in Seq(1..taken')
        BY <3>1, QueueTypes
      <3>. QED BY <3>1, <3>2
    <2>. QED BY <2>2, <2>3, TtsDoneEffect DEF OutputTypes, speaker
  <1>5. FlagTypes' /\ Seated'
    BY <1>1, TtsDoneEffect DEF FlagTypes, Seated, speaker
  <1>. QED BY <1>2, <1>3, <1>4, <1>5, NextTyped

\* The other steps take no turn.
LEMMA WorkerTyped ==
    ASSUME Typed, LockExpires \/ TakeTurn \/ Hear \/ Transcribe \/ Respond
    PROVE  Typed'
  <1>1. SpeechTypes /\ AnsweringTypes /\ OutputTypes /\ FlagTypes /\ Seated
    BY TypeParts DEF Typed
  <1>2. UNCHANGED <<speech, taken, lost, output, interrupts, rust>>
    BY DEF LockExpires, TakeTurn, Hear, Transcribe, Respond, speaker, interrupts
  <1>3. SpeechTypes' /\ FlagTypes'
    BY <1>1, <1>2 DEF LockExpires, TakeTurn, Hear, Transcribe, Respond, SpeechTypes, FlagTypes, interrupts,
       speech, rust
  <1>4. /\ lock' \in 0..taken
        /\ worker' \in [at : {"idle", "hearing", "transcribing", "responding"}, turn : 0..taken]
        /\ queue' \in Seq(1..taken) /\ Len(queue') <= QueueCap
        /\ worker'.at # "idle" => worker'.turn # NoTurn
    <2>1. CASE LockExpires
      BY <1>1, <2>1 DEF LockExpires, AnsweringTypes, Seated, NoTurn
    <2>2. CASE TakeTurn
      <3>1. /\ queue # <<>> /\ queue' = Tail(queue) /\ lock' = lock
            /\ worker' = [at |-> "hearing", turn |-> Head(queue)]
        BY <2>2 DEF TakeTurn
      <3>2. Head(queue) \in 1..taken /\ Tail(queue) \in Seq(1..taken)
            /\ Len(Tail(queue)) <= QueueCap
        <4>1. queue \in Seq(1..taken) /\ Len(queue) <= QueueCap /\ queue # <<>>
          BY <1>1, <3>1 DEF AnsweringTypes
        <4>2. Head(queue) \in 1..taken /\ Tail(queue) \in Seq(1..taken)
          BY <4>1, QueueTypes
        <4>3. Len(queue) \in Nat /\ Len(Tail(queue)) = Len(queue) - 1
          BY <4>1, HeadTailProperties
        <4>. QED BY <4>1, <4>2, <4>3
      <3>. QED BY <1>1, <3>1, <3>2 DEF AnsweringTypes, NoTurn
    <2>3. CASE Hear \/ Transcribe \/ Respond
      <3>1. UNCHANGED <<lock, queue>>
        BY <2>3 DEF Hear, Transcribe, Respond
      <3>2. \/ worker' = Idle
            \/ \E place \in {"transcribing", "responding"} :
                 worker' = [worker EXCEPT !.at = place] /\ worker.at # "idle"
        BY <2>3 DEF Hear, Transcribe, Respond
      <3>3. /\ lock \in 0..taken /\ queue \in Seq(1..taken) /\ Len(queue) <= QueueCap
            /\ worker \in [at : {"idle", "hearing", "transcribing", "responding"},
                            turn : 0..taken]
            /\ 0 \in 0..taken
        BY <1>1 DEF AnsweringTypes
      <3>4. worker.at # "idle" => worker.turn # NoTurn
        BY <1>1 DEF Seated
      <3>. QED BY <3>1, <3>2, <3>3, <3>4 DEF Idle, NoTurn
    <2>. QED BY <2>1, <2>2, <2>3
  <1>5. AnsweringTypes' /\ Seated'
    BY <1>1, <1>2, <1>4 DEF AnsweringTypes, Seated
  <1>6. sentences' \in Seq(1..taken)
    <2>1. sentences' = sentences
          \/ (worker.at # "idle" /\ sentences' = Append(sentences, worker.turn))
      BY DEF LockExpires, TakeTurn, Hear, Transcribe, Respond, speaker, interrupts
    <2>2. worker.at # "idle" => worker.turn \in 1..taken
      BY <1>1 DEF AnsweringTypes, Seated, NoTurn
    <2>3. sentences \in Seq(1..taken)
      BY <1>1 DEF OutputTypes
    <2>4. worker.at # "idle" => Append(sentences, worker.turn) \in Seq(1..taken)
      BY <2>2, <2>3, QueueTypes
    <2>. QED BY <2>1, <2>3, <2>4
  <1>7. OutputTypes'
    BY <1>1, <1>2, <1>6 DEF OutputTypes, rust
  <1>. QED BY <1>3, <1>5, <1>7, NextTyped

LEMMA SpeakerTyped ==
    ASSUME Typed,
           TakeSentence \/ SynthesisFails \/ Synthesized \/ Drained \/ StopSpeaking \/ Interrupted
    PROVE  Typed'
  <1>1. SpeechTypes /\ AnsweringTypes /\ OutputTypes /\ FlagTypes /\ Seated
    BY TypeParts DEF Typed
  <1>2. UNCHANGED <<speech, answering, track, done, rustUp, expired>>
    BY DEF TakeSentence, SynthesisFails, Synthesized, Drained, StopSpeaking, Interrupted, rust
  <1>3. SpeechTypes' /\ AnsweringTypes'
    BY <1>1, <1>2 DEF SpeechTypes, speech, AnsweringTypes, answering
  <1>4. FlagTypes'
    <2>1. \/ stopping' = stopping
          \/ stopping # 0 /\ stopping' = stopping - 1
      <3>1. StopSpeaking => stopping' = stopping \/ (stopping > 0 /\ stopping' = stopping - 1)
        BY DEF StopSpeaking
      <3>2. stopping > 0 => stopping # 0
        BY <1>1 DEF FlagTypes
      <3>. QED
        BY <3>1, <3>2
        DEF interrupts, TakeSentence, SynthesisFails, Synthesized, Drained, Interrupted
    <2>2. stopping' \in 0..MaxCommands
      BY <1>1, <2>1 DEF FlagTypes
    <2>3. frozen' \in BOOLEAN /\ interrupting' \in BOOLEAN
      BY <1>1
      DEF FlagTypes, interrupts, TakeSentence, SynthesisFails, Synthesized, Drained,
          StopSpeaking, Interrupted
    <2>. QED BY <1>1, <1>2, <2>2, <2>3, Zenon DEF FlagTypes
  <1>5. /\ sentences' \in Seq(1..taken)
        /\ output' \in [at : {"idle", "synthesizing", "sending"}, turn : 0..taken]
        /\ output'.at # "idle" => output'.turn # NoTurn
        /\ stdin' \in Seq(0..taken)
    <2>1. CASE TakeSentence
      <3>1. /\ sentences # <<>> /\ sentences' = Tail(sentences) /\ stdin' = stdin
            /\ output' = [at |-> "synthesizing", turn |-> Head(sentences)]
        BY <2>1 DEF TakeSentence, rust
      <3>2. Head(sentences) \in 1..taken /\ Tail(sentences) \in Seq(1..taken)
        BY <1>1, <3>1, QueueTypes DEF OutputTypes
      <3>. QED BY <1>1, <3>1, <3>2 DEF OutputTypes, NoTurn
    <2>2. CASE SynthesisFails \/ Drained
      <3>1. UNCHANGED <<sentences, stdin>> /\ output' = Idle
        BY <2>2 DEF SynthesisFails, Drained, rust
      <3>. QED BY <1>1, <3>1 DEF OutputTypes, AnsweringTypes, Idle, NoTurn
    <2>3. CASE Synthesized
      <3>1. /\ output.at = "synthesizing" /\ sentences' = sentences
            /\ stdin' \in {stdin, Append(stdin, output.turn)}
            /\ \/ output' = [output EXCEPT !.at = "sending"]
               \/ output' = output
        BY <2>3 DEF Synthesized
      <3>2. output.turn \in 0..taken /\ output.turn # NoTurn
        BY <1>1, <3>1 DEF OutputTypes, Seated
      <3>3. stdin' \in Seq(0..taken)
        <4>1. stdin \in Seq(0..taken)
          BY <1>1 DEF OutputTypes
        <4>2. Append(stdin, output.turn) \in Seq(0..taken)
          BY <3>2, <4>1, QueueTypes
        <4>. QED BY <3>1, <4>1, <4>2
      <3>4. /\ taken \in Nat /\ sentences \in Seq(1..taken)
            /\ output \in [at : {"idle", "synthesizing", "sending"}, turn : 0..taken]
        BY <1>1 DEF OutputTypes, AnsweringTypes
      <3>5. \/ output' = [output EXCEPT !.at = "sending"]
            \/ output' = output
        BY <3>1, <3>4
      <3>6. /\ output' \in [at : {"idle", "synthesizing", "sending"}, turn : 0..taken]
            /\ output'.at # "idle" => output'.turn # NoTurn
        BY <3>2, <3>4, <3>5 DEF NoTurn
      <3>. QED BY <3>1, <3>3, <3>4, <3>6
    <2>4. CASE StopSpeaking
      <3>1. UNCHANGED <<sentences, output>> /\ stdin' \in {stdin, Append(stdin, Interrupt)}
        BY <2>4 DEF StopSpeaking
      <3>2. Interrupt \in 0..taken
        BY <1>1 DEF Interrupt, AnsweringTypes
      <3>3. stdin' \in Seq(0..taken)
        <4>1. stdin \in Seq(0..taken)
          BY <1>1 DEF OutputTypes
        <4>2. Append(stdin, Interrupt) \in Seq(0..taken)
          BY <3>2, <4>1, QueueTypes
        <4>. QED BY <3>1, <4>1, <4>2
      <3>. QED BY <1>1, <3>1, <3>3 DEF OutputTypes, Seated
    <2>5. CASE Interrupted
      <3>1. UNCHANGED <<sentences, output, stdin>>
        BY <2>5 DEF Interrupted, rust
      <3>. QED BY <1>1, <3>1 DEF OutputTypes, Seated
    <2>. QED BY <2>1, <2>2, <2>3, <2>4, <2>5
  <1>6. OutputTypes' /\ Seated'
    BY <1>1, <1>2, <1>5 DEF OutputTypes, Seated, answering
  <1>. QED BY <1>3, <1>4, <1>6, NextTyped

LEMMA RustTyped ==
    ASSUME Typed, RustSpeaks \/ RustInterrupts \/ TrackEnds \/ RustDies
    PROVE  Typed'
  <1>1. SpeechTypes /\ AnsweringTypes /\ OutputTypes /\ FlagTypes /\ Seated
    BY TypeParts DEF Typed
  <1>2. UNCHANGED <<speech, answering, speaker, expired>> /\ rustUp' \in BOOLEAN
    BY <1>1 DEF RustSpeaks, RustInterrupts, TrackEnds, RustDies, FlagTypes
  <1>3. SpeechTypes' /\ AnsweringTypes' /\ FlagTypes' /\ Seated'
    BY <1>1, <1>2
    DEF SpeechTypes, speech, AnsweringTypes, answering, FlagTypes, speaker, Seated
  <1>4. Ended \in Seq(1..taken)
    <2>1. done \in Seq(1..taken) /\ (track # NoTurn => track \in 1..taken)
      BY <1>1 DEF OutputTypes, NoTurn
    <2>. QED BY <2>1, QueueTypes DEF Ended
  <1>5. /\ stdin' \in {stdin, <<>>} \/ (stdin # <<>> /\ stdin' = Tail(stdin))
        /\ done' \in {done, Ended}
        /\ track' = NoTurn \/ (stdin # <<>> /\ track' = Head(stdin))
    BY DEF RustSpeaks, RustInterrupts, TrackEnds, RustDies
  <1>6. stdin' \in Seq(0..taken)
    <2>1. stdin \in Seq(0..taken) /\ <<>> \in Seq(0..taken)
      BY <1>1 DEF OutputTypes
    <2>2. stdin # <<>> => Tail(stdin) \in Seq(0..taken)
      BY <2>1, QueueTypes
    <2>. QED BY <1>5, <2>1, <2>2
  <1>7. track' \in 0..taken
    <2>1. taken \in Nat /\ NoTurn \in 0..taken /\ stdin \in Seq(0..taken)
      BY <1>1 DEF OutputTypes, AnsweringTypes, NoTurn
    <2>2. stdin # <<>> => Head(stdin) \in 0..taken
      BY <2>1, QueueTypes
    <2>. QED BY <1>5, <2>1, <2>2
  <1>8. OutputTypes'
    BY <1>1, <1>2, <1>4, <1>5, <1>6, <1>7 DEF OutputTypes, speaker, answering
  <1>. QED BY <1>3, <1>8, NextTyped

\* The groups of steps.
LEMMA StepGroups ==
    ASSUME [Next]_vars
    PROVE  \/ Frames
           \/ TtsDone
           \/ LockExpires \/ TakeTurn \/ Hear \/ Transcribe \/ Respond
           \/ TakeSentence \/ SynthesisFails \/ Synthesized \/ Drained \/ StopSpeaking
           \/ Interrupted
           \/ RustSpeaks \/ RustInterrupts \/ TrackEnds \/ RustDies
           \/ UNCHANGED vars
  BY DEF Next, Step, Frames

LEMMA StepTyped == Typed /\ [Next]_vars => Typed'
  <1>1. Typed /\ UNCHANGED vars => Typed'
    BY DEF Typed, TypeOK, Seated, vars, speech, answering, speaker, rust
  <1>. QED
    BY <1>1, StepGroups, FramesTyped, TtsDoneTyped, WorkerTyped, SpeakerTyped, RustTyped

LEMMA TypedInvariant == Spec => []Typed
  BY InitTyped, StepTyped, PTL DEF Spec

\* Buffers, timers, queues and the commands on their way keep their types, and no queue
\* or buffer exceeds its size.
THEOREM ConversationTypeCorrect == Spec => []TypeOK
  <1>1. Typed => TypeOK
    BY DEF Typed
  <1>. QED BY <1>1, TypedInvariant, PTL

-----------------------------------------------------------------------------
(* The lock covers the turn *)

LEMMA InitCovered == Init => Covered
  BY DEF Init, Covered, OneTurn, Unplaced, Unheard, Unspoken, Unsounded, NoSpeak, StopsFirst, Writes

\* A free guild takes a turn.
LEMMA NewTurnCovered ==
    ASSUME Typed, Unplaced, NewTurn,
           UNCHANGED <<sentences, output, stdin, track>>, done' = <<>>
    PROVE  OneTurn'
  <1>1. taken \in Nat /\ lock' = taken + 1 /\ lock' # NoTurn
    BY TypeParts DEF Typed, AnsweringTypes, NewTurn, NoTurn
  <1>2. queue' = <<lock'>> \/ queue' = <<>>
    BY DEF NewTurn, Unplaced, Unheard
  <1>3. worker' = Idle /\ Unspoken' /\ Unsounded'
    BY DEF NewTurn, Unplaced, Unheard, Unspoken, Unsounded, NoSpeak
  <1>. QED BY <1>1, <1>2, <1>3 DEF OneTurn, InQueue, OnTrack, Unheard, Unsounded

LEMMA SameTurn ==
    ASSUME OneTurn, UNCHANGED <<lock, queue, worker, sentences, output, stdin, track, done>>
    PROVE  OneTurn'
  BY DEF OneTurn, Unplaced, InQueue, AtWorker, InSentences, AtSynthesis, InPipe, OnTrack,
     Answered, Unheard, Unspoken, Unsounded, NoSpeak

LEMMA FramesCovered ==
    ASSUME Typed, Covered, Frames
    PROVE  Covered'
  <1>. SUFFICES ASSUME ~expired
                PROVE  OneTurn' /\ StopsFirst' /\ Writes'
    BY FramesEffect DEF Covered
  <1>1. OneTurn /\ StopsFirst /\ Writes
    BY DEF Covered
  <1>2. /\ UNCHANGED <<sentences, output, interrupting, frozen, stdin, track, done, rustUp, worker>>
        /\ stopping' = stopping \/ lock = NoTurn
        /\ (lock = NoTurn /\ NewTurn) \/ UNCHANGED answering
    BY FramesEffect DEF rust, Stops
  <1>3. lock = NoTurn => Unplaced
    BY <1>1 DEF OneTurn
  <1>4. OneTurn'
    <2>1. CASE lock = NoTurn /\ NewTurn
      <3>1. done' = <<>>
        BY <1>2, <1>3, <2>1 DEF Unplaced, Unsounded
      <3>. QED BY <1>2, <1>3, <2>1, <3>1, NewTurnCovered
    <2>2. CASE UNCHANGED answering
      BY <1>1, <1>2, <2>2, SameTurn DEF answering
    <2>. QED BY <1>2, <2>1, <2>2
  <1>5. StopsFirst'
    BY <1>1, <1>2, <1>3 DEF StopsFirst, Unplaced, Unheard, Unspoken, Unsounded, NoSpeak
  <1>. QED BY <1>1, <1>2, <1>4, <1>5 DEF Writes

LEMMA TtsDoneCovered ==
    ASSUME Typed, Covered, TtsDone
    PROVE  Covered'
  <1>. SUFFICES ASSUME ~expired
                PROVE  OneTurn' /\ StopsFirst' /\ Writes'
    BY TtsDoneEffect DEF Covered
  <1>1. OneTurn /\ StopsFirst /\ Writes
    BY DEF Covered
  <1>2. /\ done # <<>> /\ done' = Tail(done)
        /\ UNCHANGED <<sentences, output, stopping, interrupting, frozen, stdin, track, rustUp, worker>>
        /\ NewTurn \/ (lock' = NoTurn /\ UNCHANGED <<taken, queue, worker, lost>>)
    BY TtsDoneEffect DEF speaker
  <1>3. lock # NoTurn /\ Answered
    BY <1>1, <1>2
    DEF OneTurn, Unplaced, InQueue, AtWorker, InSentences, AtSynthesis, InPipe, OnTrack, Unsounded
  <1>4. done' = <<>>
    BY <1>2, <1>3 DEF Answered
  <1>5. OneTurn'
    <2>1. CASE NewTurn
      <3>1. /\ taken \in Nat /\ lock' = taken + 1 /\ lock' # NoTurn
        BY <2>1, TypeParts DEF Typed, AnsweringTypes, NewTurn, NoTurn
      <3>2. queue' = <<lock'>> \/ queue' = <<>>
        BY <1>3, <2>1 DEF NewTurn, Answered, Unheard
      <3>3. worker' = Idle /\ Unspoken' /\ Unsounded'
        BY <1>2, <1>3, <1>4 DEF Answered, Unheard, Unspoken, Unsounded, NoSpeak
      <3>. QED BY <3>1, <3>2, <3>3 DEF OneTurn, InQueue, OnTrack, Unheard, Unsounded
    <2>2. CASE lock' = NoTurn /\ UNCHANGED <<taken, queue, worker, lost>>
      BY <1>2, <1>3, <1>4, <2>2
      DEF OneTurn, Unplaced, Answered, Unheard, Unspoken, Unsounded, NoSpeak
    <2>. QED BY <1>2, <2>1, <2>2
  <1>. QED BY <1>1, <1>2, <1>5 DEF StopsFirst, Unspoken, NoSpeak, Writes

LEMMA TakeTurnCovered ==
    ASSUME Typed, Covered, TakeTurn
    PROVE  Covered'
  <1>. SUFFICES ASSUME ~expired
                PROVE  OneTurn' /\ StopsFirst' /\ Writes'
    BY DEF TakeTurn, Covered
  <1>1. OneTurn /\ Writes /\ stopping = 0
    BY DEF Covered, TakeTurn
  <1>2. /\ queue # <<>> /\ queue' = Tail(queue)
        /\ worker' = [at |-> "hearing", turn |-> Head(queue)]
        /\ UNCHANGED <<lock, sentences, output, stopping, interrupting, frozen, stdin, track, done, rustUp>>
    BY DEF TakeTurn, speaker, rust
  <1>3. lock # NoTurn /\ InQueue
    BY <1>1, <1>2
    DEF OneTurn, Unplaced, AtWorker, InSentences, AtSynthesis, InPipe, OnTrack, Answered, Unheard
  <1>4. AtWorker'
    BY <1>2, <1>3 DEF InQueue, AtWorker, Unspoken, Unsounded, NoSpeak
  <1>. QED BY <1>1, <1>2, <1>3, <1>4 DEF OneTurn, StopsFirst, Writes

LEMMA WorkerCovered ==
    ASSUME Typed, Covered, Hear \/ Transcribe \/ Respond
    PROVE  Covered'
  <1>. SUFFICES ASSUME ~expired
                PROVE  OneTurn' /\ StopsFirst' /\ Writes'
    BY DEF Hear, Transcribe, Respond, Covered
  <1>1. OneTurn /\ StopsFirst /\ Writes
    BY DEF Covered
  <1>2. /\ worker.at # "idle"
        /\ \/ worker' = Idle /\ sentences' \in {sentences, Append(sentences, worker.turn)}
           \/ \E place \in {"transcribing", "responding"} :
                worker' = [worker EXCEPT !.at = place] /\ sentences' = sentences
        /\ UNCHANGED <<lock, queue, output, stopping, interrupting, frozen, stdin, track, done, rustUp>>
    BY DEF Hear, Transcribe, Respond, speaker, interrupts, rust
  <1>3. worker # Idle
    BY <1>2 DEF Idle
  <1>4. lock # NoTurn /\ AtWorker /\ stopping = 0
    BY <1>1, <1>3
    DEF OneTurn, Unplaced, InQueue, InSentences, AtSynthesis, InPipe, OnTrack, Answered, Unheard,
        StopsFirst
  <1>5. sentences = <<>> /\ output = Idle /\ queue = <<>>
    BY <1>4 DEF AtWorker, Unspoken
  <1>6. CASE worker' = Idle /\ sentences' = sentences
    <2>1. OnTrack'
      BY <1>2, <1>4, <1>5, <1>6
      DEF OnTrack, AtWorker, Unheard, Unspoken, Unsounded, NoSpeak
    <2>. QED BY <1>1, <1>2, <1>4, <2>1 DEF OneTurn, StopsFirst, Writes
  <1>7. CASE worker' = Idle /\ sentences' = Append(sentences, worker.turn)
    <2>1. sentences' = <<lock>>
      BY <1>4, <1>5, <1>7 DEF AtWorker
    <2>2. InSentences'
      BY <1>2, <1>4, <1>5, <1>7, <2>1 DEF InSentences, AtWorker, Unheard, Unsounded, NoSpeak
    <2>. QED BY <1>1, <1>2, <1>4, <2>2 DEF OneTurn, StopsFirst, Writes
  <1>8. ASSUME NEW place \in {"transcribing", "responding"},
               worker' = [worker EXCEPT !.at = place], sentences' = sentences
        PROVE  OneTurn' /\ StopsFirst' /\ Writes'
    <2>1. worker'.at # "idle" /\ worker'.turn = worker.turn
      BY <1>8, TypeParts DEF Typed, AnsweringTypes
    <2>2. AtWorker'
      BY <1>2, <1>4, <1>8, <2>1 DEF AtWorker, Unspoken, Unsounded, NoSpeak
    <2>. QED BY <1>1, <1>2, <1>4, <2>2 DEF OneTurn, StopsFirst, Writes
  <1>. QED BY <1>2, <1>6, <1>7, <1>8

LEMMA TakeSentenceCovered ==
    ASSUME Typed, Covered, TakeSentence
    PROVE  Covered'
  <1>. SUFFICES ASSUME ~expired
                PROVE  OneTurn' /\ StopsFirst' /\ Writes'
    BY DEF TakeSentence, Covered
  <1>1. OneTurn /\ StopsFirst /\ Writes
    BY DEF Covered
  <1>2. /\ sentences # <<>> /\ sentences' = Tail(sentences)
        /\ output' = [at |-> "synthesizing", turn |-> Head(sentences)]
        /\ UNCHANGED <<lock, queue, worker, stopping, interrupting, frozen, stdin, track, done, rustUp>>
    BY DEF TakeSentence, answering, interrupts, rust
  <1>3. lock # NoTurn /\ InSentences /\ stopping = 0
    BY <1>1, <1>2
    DEF OneTurn, Unplaced, InQueue, AtWorker, AtSynthesis, InPipe, OnTrack, Answered, Unspoken,
        StopsFirst, Idle
  <1>4. AtSynthesis'
    BY <1>2, <1>3 DEF InSentences, AtSynthesis, Unheard, Unsounded, NoSpeak
  <1>. QED BY <1>1, <1>2, <1>3, <1>4 DEF OneTurn, StopsFirst, Writes

LEMMA SynthesisCovered ==
    ASSUME Typed, Covered, SynthesisFails \/ Synthesized
    PROVE  Covered'
  <1>. SUFFICES ASSUME ~expired
                PROVE  OneTurn' /\ StopsFirst' /\ Writes'
    BY DEF SynthesisFails, Synthesized, Covered
  <1>1. OneTurn /\ StopsFirst /\ Writes /\ stdin \in Seq(0..taken)
    BY TypeParts DEF Covered, Typed, OutputTypes
  <1>2. /\ output.at = "synthesizing"
        /\ \/ output' = Idle /\ stdin' = stdin
           \/ output' = output /\ stdin' = stdin
           \/ output' = [output EXCEPT !.at = "sending"] /\ stdin' = stdin
           \/ /\ stdin' = Append(stdin, output.turn)
              /\ output' = [output EXCEPT !.at = "sending"]
        /\ UNCHANGED <<lock, queue, worker, sentences, stopping, track, done>>
    BY DEF SynthesisFails, Synthesized, answering, interrupts, rust
  <1>0. Writes'
    BY <1>1, <1>2 DEF SynthesisFails, Synthesized, StdinLocked, Writes, interrupts, rust
  <1>3. output # Idle
    BY <1>2 DEF Idle
  <1>4. lock # NoTurn /\ AtSynthesis /\ stopping = 0
    BY <1>1, <1>2, <1>3
    DEF OneTurn, Unplaced, InQueue, AtWorker, InSentences, InPipe, OnTrack, Answered, Unspoken,
        StopsFirst, Idle
  <1>5. CASE output' = Idle /\ stdin' = stdin
    <2>1. OnTrack'
      BY <1>2, <1>4, <1>5 DEF OnTrack, AtSynthesis, Unheard, Unspoken, Unsounded, NoSpeak
    <2>. QED BY <1>0, <1>2, <1>4, <2>1 DEF OneTurn, StopsFirst
  <1>6. CASE /\ stdin' = Append(stdin, output.turn)
             /\ output' = [output EXCEPT !.at = "sending"]
    <2>1. stdin' = Append(stdin, lock) /\ output' = [at |-> "sending", turn |-> lock]
      BY <1>4, <1>6 DEF AtSynthesis
    <2>2. /\ \A i \in DOMAIN stdin' : stdin'[i] \in {Interrupt, lock}
          /\ \A i, j \in DOMAIN stdin' : stdin'[i] = lock /\ stdin'[j] = lock => i = j
      <3>1. \A i \in DOMAIN stdin' :
              stdin'[i] = IF i = Len(stdin) + 1 THEN lock ELSE stdin[i]
        BY <1>1, <2>1
      <3>2. \A i \in DOMAIN stdin' : i # Len(stdin) + 1 => i \in DOMAIN stdin
        BY <1>1, <2>1
      <3>3. \A i \in DOMAIN stdin : stdin[i] = Interrupt
        BY <1>4 DEF AtSynthesis, Unsounded, NoSpeak
      <3>. QED BY <1>4, <3>1, <3>2, <3>3 DEF Interrupt, NoTurn
    <2>3. InPipe'
      BY <1>2, <1>4, <2>1, <2>2 DEF InPipe, AtSynthesis, Unheard, Unsounded
    <2>. QED BY <1>0, <1>2, <1>4, <2>3 DEF OneTurn, StopsFirst
  <1>7. CASE output' = output /\ stdin' = stdin
    BY <1>0, <1>1, <1>2, <1>4, <1>7, SameTurn DEF StopsFirst
  <1>8. CASE stdin' = stdin /\ output' = [output EXCEPT !.at = "sending"]
    <2>1. output' = [at |-> "sending", turn |-> lock]
      BY <1>4, <1>8 DEF AtSynthesis
    <2>2. \A i \in DOMAIN stdin : stdin[i] = Interrupt
      BY <1>4 DEF AtSynthesis, Unsounded, NoSpeak
    <2>3. InPipe'
      BY <1>2, <1>4, <1>8, <2>1, <2>2
      DEF InPipe, AtSynthesis, Unheard, Unsounded, Interrupt, NoTurn
    <2>. QED BY <1>0, <1>2, <1>4, <2>3 DEF OneTurn, StopsFirst
  <1>. QED BY <1>2, <1>5, <1>6, <1>7, <1>8

LEMMA DrainedCovered ==
    ASSUME Typed, Covered, Drained
    PROVE  Covered'
  <1>. SUFFICES ASSUME ~expired
                PROVE  OneTurn' /\ StopsFirst' /\ Writes'
    BY DEF Drained, Covered
  <1>1. OneTurn /\ StopsFirst /\ Writes
    BY DEF Covered
  <1>2. /\ output.at = "sending" /\ output' = Idle
        /\ UNCHANGED <<lock, queue, worker, sentences, stopping, interrupting, frozen, stdin, track, done, rustUp>>
    BY DEF Drained, answering, interrupts, rust
  <1>3. output # Idle
    BY <1>2 DEF Idle
  <1>4. lock # NoTurn /\ InPipe /\ stopping = 0
    BY <1>1, <1>2, <1>3
    DEF OneTurn, Unplaced, InQueue, AtWorker, InSentences, AtSynthesis, OnTrack, Answered,
        Unspoken, StopsFirst, Idle
  <1>5. InPipe'
    BY <1>2, <1>4 DEF InPipe, Unheard
  <1>. QED BY <1>1, <1>2, <1>4, <1>5 DEF OneTurn, StopsFirst, Writes

\* INTERRUPT is added to the commands.
LEMMA InterruptKept ==
    ASSUME Typed, OneTurn, stdin' = Append(stdin, Interrupt),
           UNCHANGED <<lock, queue, worker, sentences, output, track, done>>
    PROVE  OneTurn'
  <1>1. stdin \in Seq(0..taken)
    BY TypeParts DEF Typed, OutputTypes
  <1>2. \A i \in DOMAIN stdin' :
          stdin'[i] = Interrupt \/ (i \in DOMAIN stdin /\ stdin'[i] = stdin[i])
    BY <1>1
  <1>3. NoSpeak => NoSpeak'
    BY <1>2 DEF NoSpeak
  <1>4. CASE lock # NoTurn /\ InPipe
    <2>1. InPipe'
      BY <1>2, <1>4 DEF InPipe, Unheard, Interrupt, NoTurn
    <2>. QED BY <1>4, <2>1 DEF OneTurn
  <1>5. CASE ~(lock # NoTurn /\ InPipe)
    BY <1>3, <1>5
    DEF OneTurn, Unplaced, InQueue, AtWorker, InSentences, AtSynthesis, OnTrack, Answered,
        Unheard, Unspoken, Unsounded
  <1>. QED BY <1>4, <1>5

LEMMA StopSpeakingCovered ==
    ASSUME Typed, Covered, StopSpeaking
    PROVE  Covered'
  <1>. SUFFICES ASSUME ~expired
                PROVE  OneTurn' /\ StopsFirst' /\ Writes'
    BY DEF StopSpeaking, rust, Covered
  <1>1. OneTurn /\ StopsFirst /\ Writes /\ stopping # 0
    BY DEF Covered, StopSpeaking
  <1>2. worker = Idle /\ Unspoken /\ NoSpeak /\ output.at # "sending"
    BY <1>1 DEF StopsFirst, Unspoken, Idle
  <1>3. /\ stdin' = stdin \/ stdin' = Append(stdin, Interrupt)
        /\ UNCHANGED <<lock, queue, worker, sentences, output, track, done, rustUp>>
    BY DEF StopSpeaking, answering
  <1>4. OneTurn'
    BY <1>1, <1>3, InterruptKept, SameTurn
  <1>5. NoSpeak'
    <2>1. stdin \in Seq(0..taken)
      BY TypeParts DEF Typed, OutputTypes
    <2>2. \A i \in DOMAIN stdin : stdin[i] = Interrupt
      BY <1>2 DEF NoSpeak
    <2>3. CASE stdin' = Append(stdin, Interrupt)
      <3>1. \A i \in DOMAIN stdin' : i # Len(stdin) + 1 => i \in DOMAIN stdin
        BY <2>1, <2>3
      <3>2. \A i \in DOMAIN stdin' :
              stdin'[i] = IF i = Len(stdin) + 1 THEN Interrupt ELSE stdin[i]
        BY <2>1, <2>3
      <3>. QED BY <2>2, <3>1, <3>2 DEF NoSpeak
    <2>. QED BY <1>2, <1>3, <2>3 DEF NoSpeak
  <1>6. \A t \in Turns : t \notin ToSet(stdin)
    <2>1. \A t \in Turns : t # Interrupt
      BY DEF Turns, Interrupt
    <2>2. \A t \in ToSet(stdin) : t = Interrupt
      BY <1>2, Zenon DEF NoSpeak, ToSet
    <2>. QED BY <2>1, <2>2
  <1>7. ASSUME rustUp
        PROVE  ~interrupting' /\ ~frozen'
    <2>1. ~StdinLocked /\ ~frozen
      BY <1>1, <1>2, <1>7 DEF Writes, StdinLocked
    <2>. QED BY <1>6, <1>7, <2>1 DEF StopSpeaking
  <1>. QED BY <1>2, <1>3, <1>4, <1>5, <1>7 DEF StopsFirst, Unspoken, Writes

LEMMA InterruptedCovered ==
    ASSUME Typed, Covered, Interrupted
    PROVE  Covered'
  <1>. SUFFICES ASSUME ~expired
                PROVE  OneTurn' /\ StopsFirst' /\ Writes'
    BY DEF Interrupted, Covered
  <1>1. /\ UNCHANGED <<lock, queue, worker, sentences, output, stdin, track, done, rustUp>>
        /\ UNCHANGED <<stopping, frozen>> /\ ~interrupting'
    BY DEF Interrupted, answering, rust
  <1>. QED BY <1>1, SameTurn DEF Covered, StopsFirst, Unspoken, NoSpeak, Writes

LEMMA RustSpeaksCovered ==
    ASSUME Typed, Covered, RustSpeaks
    PROVE  Covered'
  <1>. SUFFICES ASSUME ~expired
                PROVE  OneTurn' /\ StopsFirst' /\ Writes'
    BY DEF RustSpeaks, Covered
  <1>1. OneTurn /\ StopsFirst /\ Writes /\ stdin \in Seq(0..taken)
    BY TypeParts DEF Covered, Typed, OutputTypes
  <1>2. /\ stdin # <<>> /\ Head(stdin) # Interrupt
        /\ output # [at |-> "sending", turn |-> Head(stdin)]
        /\ stdin' = Tail(stdin) /\ done' = Ended /\ track' \in {Head(stdin), NoTurn}
        /\ UNCHANGED <<lock, queue, worker, sentences, output, stopping, interrupting, frozen>>
    BY DEF RustSpeaks, answering, speaker
  <1>0. Writes'
    BY <1>1, <1>2 DEF RustSpeaks, Writes
  <1>3. 1 \in DOMAIN stdin /\ Head(stdin) = stdin[1]
    BY <1>1, <1>2
  <1>4. ~NoSpeak
    BY <1>2, <1>3 DEF NoSpeak
  <1>5. lock # NoTurn /\ InPipe
    BY <1>1, <1>4
    DEF OneTurn, Unplaced, InQueue, AtWorker, InSentences, AtSynthesis, OnTrack, Answered,
        Unsounded
  <1>6. Head(stdin) = lock /\ output = Idle
    BY <1>2, <1>3, <1>5 DEF InPipe
  <1>7. NoSpeak'
    <2>1. \A i \in DOMAIN stdin' : i + 1 \in DOMAIN stdin /\ stdin'[i] = stdin[i + 1] /\ i + 1 # 1
      BY <1>1, <1>2
    <2>. QED BY <1>3, <1>5, <1>6, <2>1 DEF InPipe, NoSpeak
  <1>8. OnTrack'
    BY <1>2, <1>5, <1>6, <1>7 DEF OnTrack, InPipe, Unheard, Unspoken, Ended
  <1>. QED BY <1>0, <1>1, <1>2, <1>4, <1>5, <1>8 DEF OneTurn, StopsFirst

\* Commands are read or lost.
LEMMA RustCovered ==
    ASSUME Typed, Covered, RustInterrupts \/ TrackEnds \/ RustDies
    PROVE  Covered'
  <1>. SUFFICES ASSUME ~expired
                PROVE  OneTurn' /\ StopsFirst' /\ Writes'
    BY DEF RustInterrupts, TrackEnds, RustDies, Covered
  <1>1. OneTurn /\ StopsFirst /\ Writes /\ stdin \in Seq(0..taken)
    BY TypeParts DEF Covered, Typed, OutputTypes
  <1>2. /\ stdin' \in {stdin, <<>>} \/ (stdin # <<>> /\ stdin' = Tail(stdin))
        /\ track' = NoTurn /\ done' \in {done, Ended}
        /\ UNCHANGED <<lock, queue, worker, sentences, output, stopping, interrupting, frozen>>
    BY DEF RustInterrupts, TrackEnds, RustDies, answering, speaker
  <1>3. \E shift \in {0, 1} : \A i \in DOMAIN stdin' :
          i + shift \in DOMAIN stdin /\ stdin'[i] = stdin[i + shift] /\ i \in Nat
    <2>1. CASE stdin' \in {stdin, <<>>}
      BY <1>1, <2>1
    <2>2. CASE stdin # <<>> /\ stdin' = Tail(stdin)
      BY <1>1, <2>2
    <2>. QED BY <1>2, <2>1, <2>2
  <1>4. NoSpeak => NoSpeak'
    BY <1>3 DEF NoSpeak
  <1>9. StopsFirst'
    BY <1>1, <1>2, <1>4 DEF StopsFirst, Unspoken
  <1>10. Writes'
    BY <1>1, <1>2 DEF RustInterrupts, TrackEnds, RustDies, Writes
  <1>5. CASE track = NoTurn
    <2>1. done' = done
      BY <1>2, <1>5 DEF Ended
    <2>2. CASE lock # NoTurn /\ InPipe
      <3>1. /\ \A i \in DOMAIN stdin' : stdin'[i] \in {Interrupt, lock}
            /\ \A i, j \in DOMAIN stdin' : stdin'[i] = lock /\ stdin'[j] = lock => i = j
        BY <1>3, <2>2 DEF InPipe
      <3>2. InPipe'
        BY <1>2, <1>5, <2>1, <2>2, <3>1 DEF InPipe, Unheard
      <3>. QED BY <1>2, <1>9, <1>10, <2>2, <3>2 DEF OneTurn
    <2>3. CASE ~(lock # NoTurn /\ InPipe)
      <3>1. OneTurn'
        BY <1>1, <1>2, <1>4, <1>5, <2>1, <2>3
        DEF OneTurn, Unplaced, InQueue, AtWorker, InSentences, AtSynthesis, OnTrack, Answered,
            Unheard, Unspoken, Unsounded
      <3>. QED BY <1>9, <1>10, <3>1
    <2>. QED BY <2>2, <2>3
  <1>6. CASE track # NoTurn
    <2>1. lock # NoTurn /\ OnTrack /\ track = lock
      BY <1>1, <1>6
      DEF OneTurn, Unplaced, InQueue, AtWorker, InSentences, AtSynthesis, InPipe, OnTrack,
          Answered, Unsounded
    <2>2. done' \in {<<>>, <<lock>>}
      BY <1>2, <1>6, <2>1 DEF OnTrack, Ended
    <2>3. OnTrack' \/ Answered'
      BY <1>2, <1>4, <2>1, <2>2 DEF OnTrack, Answered, Unheard, Unspoken
    <2>. QED BY <1>2, <1>9, <1>10, <2>1, <2>3 DEF OneTurn
  <1>. QED BY <1>5, <1>6

LEMMA StepCovered == Typed /\ Covered /\ [Next]_vars => Covered'
  <1>1. Covered /\ LockExpires => Covered'
    BY DEF Covered, LockExpires
  <1>2. Covered /\ UNCHANGED vars => Covered'
    BY SameTurn
    DEF Covered, StopsFirst, Unspoken, NoSpeak, Writes, vars, speech, answering, speaker, rust
  <1>. QED
    BY <1>1, <1>2, StepGroups, FramesCovered, TtsDoneCovered, TakeTurnCovered, WorkerCovered,
       TakeSentenceCovered, SynthesisCovered, DrainedCovered, StopSpeakingCovered,
       InterruptedCovered,
       RustSpeaksCovered, RustCovered

LEMMA CoveredInvariant == Spec => [](Typed /\ Covered)
  BY InitTyped, InitCovered, StepTyped, StepCovered, PTL DEF Spec

\* While no lock ran out, whatever is anywhere between the transcription queue and the
\* TTS_DONE on its way back is the one turn that has the lock.
THEOREM LockCovers == Spec => []LockCoversTurn
  <1>1. Typed /\ Covered => LockCoversTurn
    <2>. SUFFICES ASSUME Typed, Covered, ~expired, NEW t \in 1..taken, InFlight(t)
                  PROVE  lock = t
      BY DEF LockCoversTurn
    <2>1. OneTurn /\ t # NoTurn /\ t # Interrupt
      BY DEF Covered, NoTurn, Interrupt
    <2>2. Idle.turn = NoTurn
      BY DEF Idle
    <2>3. t \notin ToSet(<<>>) /\ (t \in ToSet(<<lock>>) => t = lock)
      BY DEF ToSet
    <2>4. /\ NoSpeak => t \notin ToSet(stdin)
          /\ (\A i \in DOMAIN stdin : stdin[i] \in {Interrupt, lock})
               => (t \in ToSet(stdin) => t = lock)
      BY <2>1 DEF NoSpeak, ToSet
    <2>. QED
      BY <2>1, <2>2, <2>3, <2>4
      DEF OneTurn, Unplaced, InQueue, AtWorker, InSentences, AtSynthesis, InPipe, OnTrack,
          Answered, Unheard, Unspoken, Unsounded, InFlight
  <1>. QED BY <1>1, CoveredInvariant, PTL

\* The event loop freezes on the lock of the pipe only after a processing lock ran out or
\* the Rust process died.
THEOREM FreezesWithCause == Spec => []FreezesOnlyWithCause
  <1>1. Covered => FreezesOnlyWithCause
    BY DEF Covered, Writes, FreezesOnlyWithCause
  <1>. QED BY <1>1, CoveredInvariant, PTL

HIDE VoiceConversationAssumption

-----------------------------------------------------------------------------
(* Joining and leaving: types *)

\* The places of a call that has a connection, and of a join that makes one.
Linked == {"disconnecting", "stopping", "connecting", "spawning", "failing"}
Connecting == {"connect", "connecting", "spawning", "failing"}

\* What a call is about, when made links exist.
CallSound(k, made) ==
  /\ k.at \notin {"idle", "deciding"} => k.op \in {"join", "leave"} /\ k.guild \in Guilds
  /\ k.op = "join" => k.channel \in Channels /\ GuildOf[k.channel] = k.guild
  /\ k.at \in Linked => k.link \in 1..made
  /\ k.at \in Connecting => k.op = "join"
  /\ k.at = "finish" => k.op = "leave"

CallsSound == \A c \in Callers : CallSound(calls[c], Len(links))
UpdatesSound == \A i \in DOMAIN updates : updates[i].before # updates[i].after
SessionSound == SessionTypeOK /\ CallsSound /\ UpdatesSound

LEMMA NoCallSound == NoCall \in VoiceCall /\ \A made : CallSound(NoCall, made)
<1>1. NoCall \in VoiceCall
  BY VoiceSessionAssumption DEF NoCall, VoiceCall, Ops, Places, Nowhere
<1>2. \A made : CallSound(NoCall, made)
  BY DEF NoCall, CallSound, Linked, Connecting
<1> QED
  BY <1>1, <1>2

LEMMA SoundInit == ASSUME SessionInit PROVE SessionSound
<1>1. ListenerTypes
  BY VoiceSessionAssumption DEF SessionInit, ListenerTypes
<1>2. CallTypes
  BY NoCallSound DEF SessionInit, CallTypes
<1>3. ManagerTypes
  BY DEF SessionInit, ManagerTypes
<1>4. DiscordTypes
  BY DEF SessionInit, DiscordTypes, Members, Nowhere
<1>5. BudgetTypes
  BY VoiceSessionAssumption DEF SessionInit, BudgetTypes
<1>6. CallsSound
  BY NoCallSound DEF SessionInit, CallsSound
<1>7. UpdatesSound
  BY DEF SessionInit, UpdatesSound
<1> QED
  BY <1>1, <1>2, <1>3, <1>4, <1>5, <1>6, <1>7 DEF SessionSound, SessionTypeOK

\* One link is replaced: the others stay, and so does the number of links.
LEMMA LinkSet ==
  ASSUME NEW s \in Seq(Link), NEW n \in 1..Len(s), NEW r \in Link, NEW t,
         t = [s EXCEPT ![n] = r]
  PROVE  /\ t \in Seq(Link) /\ Len(t) = Len(s) /\ DOMAIN t = 1..Len(s)
         /\ t[n] = r /\ \A m \in 1..Len(s) : m # n => t[m] = s[m]
<1>1. t \in Seq(Link) /\ Len(t) = Len(s)
  BY ExceptSeq
<1> QED
  BY <1>1, LenProperties

\* A call that keeps its place in the code stays sound as links are made.
LEMMA SoundUpward ==
  ASSUME NEW k, NEW a \in Nat, NEW b \in Nat, a <= b, CallSound(k, a)
  PROVE  CallSound(k, b)
  BY DEF CallSound

\* One caller's call is replaced by a sound one.
LEMMA CallSet ==
  ASSUME NEW f \in [Callers -> VoiceCall], NEW made \in Nat, NEW more \in Nat,
         made <= more, \A d \in Callers : CallSound(f[d], made),
         NEW c \in Callers, NEW k \in VoiceCall, CallSound(k, more),
         NEW h, h = [f EXCEPT ![c] = k]
  PROVE  h \in [Callers -> VoiceCall] /\ \A d \in Callers : CallSound(h[d], more)
<1>1. \A d \in Callers : CallSound(f[d], more)
  BY SoundUpward
<1>2. \A d \in Callers : h[d] = IF d = c THEN k ELSE f[d]
  OBVIOUS
<1> QED
  BY <1>1, <1>2

\* The links there are, one by one.
LEMMA LinksMade ==
  ASSUME ListenerTypes
  PROVE  /\ Len(links) \in Nat /\ DOMAIN links = 1..Len(links)
         /\ \A n \in 1..Len(links) : links[n] \in Link
  BY LenProperties, ElementOfSeq DEF ListenerTypes

\* A call goes on to a place that it may be at.
LEMMA CallMoves ==
  ASSUME NEW k \in VoiceCall, NEW made, NEW more, NEW place \in Places, NEW m \in 0..MaxLinks,
         k.at \notin {"idle", "deciding"}, CallSound(k, made),
         NEW j \in VoiceCall, j.at = place, j.link = m,
         j.op = k.op, j.guild = k.guild, j.channel = k.channel,
         place \in Linked => m \in 1..more,
         place \in Connecting => k.op = "join", place = "finish" => k.op = "leave"
  PROVE  CallSound(j, more)
  BY DEF CallSound

LEMMA GoesSound ==
  ASSUME CallTypes, CallsSound, NEW c \in Callers, NEW place \in Places,
         calls' = [calls EXCEPT ![c].at = place], turn' \in Callers \cup {NoOne},
         calls[c].at \notin {"idle", "deciding"}, place \notin Linked \/ calls[c].at \in Linked,
         place \in Connecting => calls[c].op = "join",
         place = "finish" => calls[c].op = "leave",
         Len(links) \in Nat, Len(links)' = Len(links), overlapped' = overlapped
  PROVE  CallTypes' /\ CallsSound'
<1> DEFINE i == calls[c]
           m == calls[c].link
           k == [calls[c] EXCEPT !.at = place]
           h == calls'
           n == Len(links)
<1>1. /\ i \in VoiceCall /\ h = [calls EXCEPT ![c] = k]
      /\ m \in 0..MaxLinks /\ k \in VoiceCall /\ k.at = place /\ k.link = m
      /\ k.op = i.op /\ k.guild = i.guild /\ k.channel = i.channel
  <2>1. i \in VoiceCall /\ h = [calls EXCEPT ![c] = k]
    BY DEF CallTypes
  <2>2. /\ m \in 0..MaxLinks /\ k \in VoiceCall /\ k.at = place /\ k.link = m
        /\ k.op = i.op /\ k.guild = i.guild /\ k.channel = i.channel
    BY <2>1 DEF VoiceCall
  <2> QED
    BY <2>1, <2>2
<1>2. /\ \A d \in Callers : CallSound(calls[d], n)
      /\ CallSound(i, n) /\ (place \in Linked => m \in 1..n)
  BY DEF CallsSound, CallSound
<1>3. n \in Nat /\ calls \in [Callers -> VoiceCall] /\ i.at \notin {"idle", "deciding"}
  BY DEF CallTypes
<1>4. (place \in Connecting => i.op = "join") /\ (place = "finish" => i.op = "leave")
  OBVIOUS
<1> HIDE DEF i, m, k, h, n
<1>5. k \in VoiceCall /\ CallSound(k, n)
  BY <1>1, <1>2, <1>3, <1>4, CallMoves
<1>6. h \in [Callers -> VoiceCall] /\ \A d \in Callers : CallSound(h[d], n)
  BY <1>1, <1>2, <1>3, <1>5, CallSet
<1> QED
  BY <1>6 DEF h, n, CallTypes, CallsSound

LEMMA AwaitsSound ==
  ASSUME CallTypes, CallsSound, NEW c \in Callers, NEW place \in Places,
         NEW m \in 0..MaxLinks, Awaits(c, place, m),
         calls[c].at \notin {"idle", "deciding"}, place \in Linked => m \in 1..Len(links)',
         place \in Connecting => calls[c].op = "join",
         place = "finish" => calls[c].op = "leave",
         Len(links) \in Nat, Len(links)' \in Nat, Len(links) <= Len(links)',
         overlapped' = overlapped
  PROVE  CallTypes' /\ CallsSound'
<1> DEFINE i == calls[c]
           k == [calls[c] EXCEPT !.at = place, !.link = m]
           h == calls'
           n == Len(links)
           l == Len(links)'
<1>1. /\ i \in VoiceCall /\ h = [calls EXCEPT ![c] = k]
      /\ k \in VoiceCall /\ k.at = place /\ k.link = m
      /\ k.op = i.op /\ k.guild = i.guild /\ k.channel = i.channel
  <2>1. i \in VoiceCall /\ h = [calls EXCEPT ![c] = k]
    BY DEF Awaits, CallTypes
  <2>2. /\ k \in VoiceCall /\ k.at = place /\ k.link = m
        /\ k.op = i.op /\ k.guild = i.guild /\ k.channel = i.channel
    BY <2>1 DEF VoiceCall
  <2> QED
    BY <2>1, <2>2
<1>2. /\ \A d \in Callers : CallSound(calls[d], n)
      /\ CallSound(i, n) /\ (place \in Linked => m \in 1..l)
  BY DEF CallsSound
<1>3. /\ n \in Nat /\ l \in Nat /\ n <= l
      /\ calls \in [Callers -> VoiceCall] /\ i.at \notin {"idle", "deciding"}
  BY DEF CallTypes
<1>4. (place \in Connecting => i.op = "join") /\ (place = "finish" => i.op = "leave")
  OBVIOUS
<1> HIDE DEF i, k, h, n, l
<1>5. k \in VoiceCall /\ CallSound(k, l)
  BY <1>1, <1>2, <1>3, <1>4, CallMoves
<1>6. h \in [Callers -> VoiceCall] /\ \A d \in Callers : CallSound(h[d], l)
  BY <1>1, <1>2, <1>3, <1>5, CallSet
<1> QED
  BY <1>6 DEF h, l, Awaits, CallTypes, CallsSound

LEMMA ResetSound ==
  ASSUME CallTypes, CallsSound, NEW c \in Callers, calls' = [calls EXCEPT ![c] = NoCall],
         turn' \in Callers \cup {NoOne}, overlapped' \in BOOLEAN,
         Len(links) \in Nat, Len(links)' \in Nat, Len(links) <= Len(links)'
  PROVE  CallTypes' /\ CallsSound'
<1> DEFINE h == calls'
           n == Len(links)
           l == Len(links)'
           k == NoCall
<1>1. k \in VoiceCall /\ CallSound(k, l)
  BY NoCallSound
<1>2. h = [calls EXCEPT ![c] = k] /\ \A d \in Callers : CallSound(calls[d], n)
  BY DEF CallsSound
<1>3. n \in Nat /\ l \in Nat /\ n <= l /\ calls \in [Callers -> VoiceCall]
  BY DEF CallTypes
<1> HIDE DEF k, h, n, l
<1>4. h \in [Callers -> VoiceCall] /\ \A d \in Callers : CallSound(h[d], l)
  BY <1>1, <1>2, <1>3, CallSet
<1> QED
  BY <1>4 DEF h, l, CallTypes, CallsSound

\* What is left of the end of a call when its result is forgotten.
EndsCall(c) ==
  /\ calls' = [calls EXCEPT ![c] = NoCall] /\ turn' \in {Loop, NoOne}
  /\ sessions' \subseteq sessions \cup {calls[c].guild}
  /\ pending' = pending \/ pending' = [pending EXCEPT ![calls[c].guild] = {}]
  /\ round' = round

LEMMA EndsSound ==
  ASSUME SessionSound, NEW c \in Callers, calls[c].guild \in Guilds, EndsCall(c),
         overlapped' = overlapped, Len(links)' \in Nat, Len(links) <= Len(links)'
  PROVE  CallTypes' /\ CallsSound' /\ ManagerTypes'
<1>1. CallTypes /\ CallsSound /\ ManagerTypes /\ Len(links) \in Nat
  BY LinksMade DEF SessionSound, SessionTypeOK
<1>2. CallTypes' /\ CallsSound'
  <2>1. /\ calls' = [calls EXCEPT ![c] = NoCall] /\ turn' \in Callers \cup {NoOne}
        /\ overlapped' \in BOOLEAN
    BY <1>1 DEF EndsCall, CallTypes, Callers
  <2> QED
    BY <1>1, <2>1, ResetSound
<1>3. ManagerTypes'
  <2>1. sessions' \subseteq Guilds
    BY <1>1 DEF EndsCall, ManagerTypes
  <2>2. pending' \in [Guilds -> SUBSET (Members \X Channels)]
    BY <1>1 DEF EndsCall, ManagerTypes
  <2> QED
    BY <1>1, <2>1, <2>2 DEF EndsCall, ManagerTypes
<1> QED
  BY <1>2, <1>3

\* A change that is one is told last.
LEMMA AppendedSound ==
  ASSUME updates \in Seq(Change), UpdatesSound, NEW e \in Change, e.before # e.after,
         updates' = Append(updates, e)
  PROVE  updates' \in Seq(Change) /\ UpdatesSound'
<1>1. /\ updates' \in Seq(Change) /\ Len(updates') = Len(updates) + 1
      /\ \A i \in 1..Len(updates) : updates'[i] = updates[i]
      /\ updates'[Len(updates) + 1] = e
  BY AppendProperties
<1>2. UpdatesSound'
  BY <1>1, LenProperties DEF UpdatesSound
<1> QED
  BY <1>1, <1>2

LEMMA BotMovesSound ==
  ASSUME DiscordTypes, UpdatesSound, NEW g \in Guilds, NEW ch \in Channels \cup {Nowhere},
         BotMoves(g, ch), tracked' = tracked, where' = where
  PROVE  DiscordTypes' /\ UpdatesSound'
<1> DEFINE e == [who |-> Bot, guild |-> g, before |-> botIn[g], after |-> ch]
<1>1. e \in Change /\ botIn[g] \in Channels \cup {Nowhere}
  BY DEF DiscordTypes, Change, Members
<1>2. botIn' \in [Guilds -> Channels \cup {Nowhere}] /\ astray' \subseteq Guilds
  BY DEF BotMoves, DiscordTypes
<1>3. CASE botIn[g] = ch
  BY <1>2, <1>3 DEF BotMoves, DiscordTypes, UpdatesSound
<1>4. CASE botIn[g] # ch
  <2>1. updates' = Append(updates, e) /\ updates \in Seq(Change)
    BY <1>4 DEF BotMoves, DiscordTypes
  <2>2. e.before # e.after
    BY <1>4
  <2> HIDE DEF e
  <2>3. updates' \in Seq(Change) /\ UpdatesSound'
    BY <1>1, <2>1, <2>2, AppendedSound
  <2> QED
    BY <1>2, <2>3 DEF DiscordTypes
<1> QED
  BY <1>3, <1>4

\* An order that is not sent moves nobody and is counted.
LEMMA UnsentSound ==
  ASSUME DiscordTypes, UpdatesSound, BudgetTypes, Unsent, astray' \subseteq Guilds,
         tracked' = tracked, where' = where
  PROVE  DiscordTypes' /\ UpdatesSound' /\ BudgetTypes'
<1>1. DiscordTypes' /\ UpdatesSound'
  BY DEF Unsent, DiscordTypes, UpdatesSound
<1>2. BudgetTypes'
  BY VoiceSessionAssumption DEF Unsent, BudgetTypes
<1> QED
  BY <1>1, <1>2

LEMMA CleansUpSound ==
  ASSUME ListenerTypes, NEW n \in 1..Len(links), CleansUp(n), protocol' \in {0, protocol},
         bridge' = bridge, active' = active, joining' \subseteq joining
  PROVE  ListenerTypes' /\ Len(links)' = Len(links)
<1>1. links[n] \in Link /\ links[n].guild \in Guilds
  BY LinksMade DEF Link
<1> DEFINE r == [links[n] EXCEPT !.gathered = FALSE]
           t == links'
<1>2. r \in Link /\ t = [links EXCEPT ![n] = r]
  BY <1>1 DEF CleansUp, Link
<1> HIDE DEF r, t
<1>3. t \in Seq(Link) /\ Len(t) = Len(links)
  BY <1>1, <1>2, LinkSet DEF ListenerTypes
<1>4. registered' \in [Guilds -> 0..Len(links)] /\ barred' \subseteq Guilds
  <2>1. Len(links) \in Nat
    BY LinksMade
  <2> QED
    BY <1>1, <2>1 DEF ListenerTypes, CleansUp
<1>5. ListenerTypes'
  BY <1>3, <1>4 DEF t, ListenerTypes
<1> QED
  BY <1>3, <1>5 DEF t

LEMMA DisconnectedSound ==
  ASSUME SessionSound, NEW n \in 1..Len(links), Disconnected(n), protocol' \in {0, protocol},
         bridge' = bridge, active' = active, joining' \subseteq joining,
         tracked' = tracked, where' = where
  PROVE  /\ ListenerTypes' /\ DiscordTypes' /\ UpdatesSound' /\ BudgetTypes'
         /\ Len(links)' = Len(links) /\ Len(links) \in Nat
<1>1. /\ ListenerTypes /\ DiscordTypes /\ UpdatesSound /\ BudgetTypes /\ Len(links) \in Nat
      /\ links[n].guild \in Guilds
  BY LinksMade DEF SessionSound, SessionTypeOK, Link
<1>2. ListenerTypes' /\ Len(links)' = Len(links)
  BY <1>1, CleansUpSound DEF Disconnected
<1> DEFINE g == links[n].guild
<1>3. (BotMoves(g, Nowhere) \/ Remains(g)) /\ g \in Guilds
  BY <1>1 DEF Disconnected
<1> HIDE DEF g
<1>4. CASE BotMoves(g, Nowhere)
  <2>1. DiscordTypes' /\ UpdatesSound'
    BY <1>1, <1>3, <1>4, BotMovesSound
  <2>2. BudgetTypes'
    BY <1>1, <1>4 DEF BotMoves, BudgetTypes
  <2> QED
    BY <1>1, <1>2, <2>1, <2>2
<1>5. CASE Remains(g)
  <2>1. Unsent /\ astray' \subseteq Guilds
    BY <1>1, <1>3, <1>5 DEF Remains, DiscordTypes
  <2> QED
    BY <1>1, <1>2, <2>1, UnsentSound
<1> QED
  BY <1>3, <1>4, <1>5

SessionRest == ManagerTypes /\ DiscordTypes /\ UpdatesSound /\ BudgetTypes

LEMMA RestKept ==
  ASSUME SessionSound, UNCHANGED <<manager, discord, budget>>
  PROVE  SessionRest'
  BY DEF SessionSound, SessionTypeOK, SessionRest, ManagerTypes, DiscordTypes, UpdatesSound,
         BudgetTypes, manager, discord

LEMMA SoundParts ==
  ASSUME SessionSound, NEW c \in Callers
  PROVE  /\ ListenerTypes /\ CallTypes /\ CallsSound /\ SessionRest
         /\ Len(links) \in Nat /\ DOMAIN links = 1..Len(links)
         /\ \A n \in 1..Len(links) : links[n] \in Link
         /\ calls[c] \in VoiceCall /\ CallSound(calls[c], Len(links))
  BY LinksMade DEF SessionSound, SessionTypeOK, SessionRest, CallsSound, CallTypes

LEMMA SeeProtocolSound ==
  ASSUME SessionSound, NEW c \in Callers, SeeProtocol(c)
  PROVE  SessionSound'
<1>1. /\ ListenerTypes /\ CallTypes /\ CallsSound /\ Len(links) \in Nat
      /\ calls[c] \in VoiceCall /\ CallSound(calls[c], Len(links))
  BY SoundParts
<1>2. calls[c].at = "protocol" /\ Len(links)' = Len(links)
  BY DEF SeeProtocol, Runs
<1>3. ListenerTypes'
  <2>1. protocol' \in {0, protocol}
    BY DEF SeeProtocol
  <2>2. registered' \in [Guilds -> 0..Len(links)]
    BY <1>1 DEF SeeProtocol, ListenerTypes
  <2> QED
    BY <1>1, <2>1, <2>2 DEF SeeProtocol, ListenerTypes
<1>4. CallTypes' /\ CallsSound'
  <2>1. CASE Awaits(c, "disconnecting", protocol) /\ protocol # 0
    <3>1. protocol \in 1..Len(links) /\ protocol \in 0..MaxLinks
      BY <1>1, <2>1, VoiceSessionAssumption DEF ListenerTypes
    <3> QED
      BY <1>1, <1>2, <2>1, <3>1, AwaitsSound DEF SeeProtocol, Places, Linked, Connecting
  <2>2. CASE Goes(c, PastProtocol(c))
    <3>1. /\ PastProtocol(c) \in {"bridge", "finish"}
          /\ PastProtocol(c) = "finish" => calls[c].op = "leave"
      BY <1>1, <1>2 DEF PastProtocol, CallSound
    <3> QED
      BY <1>1, <1>2, <2>2, <3>1, GoesSound
      DEF SeeProtocol, Goes, CallTypes, Places, Linked, Connecting
  <2> QED
    BY <2>1, <2>2 DEF SeeProtocol
<1>5. SessionRest'
  BY RestKept DEF SeeProtocol
<1> QED
  BY <1>3, <1>4, <1>5 DEF SessionSound, SessionTypeOK, SessionRest

LEMMA DisconnectSound ==
  ASSUME SessionSound, NEW c \in Callers, Disconnect(c)
  PROVE  SessionSound'
<1>1. /\ CallTypes /\ CallsSound /\ SessionRest
      /\ calls[c] \in VoiceCall /\ CallSound(calls[c], Len(links))
  BY SoundParts
<1>2. calls[c].at = "disconnecting"
  BY DEF Disconnect, Resumes
<1> DEFINE n == calls[c].link
<1>3. n \in 1..Len(links)
  BY <1>1, <1>2 DEF CallSound, Linked
<1>4. /\ Disconnected(n) /\ protocol' \in {0, protocol} /\ bridge' = bridge /\ active' = active
      /\ joining' \subseteq joining /\ tracked' = tracked /\ where' = where
  BY DEF Disconnect
<1> HIDE DEF n
<1>5. /\ ListenerTypes' /\ DiscordTypes' /\ UpdatesSound' /\ BudgetTypes'
      /\ Len(links)' = Len(links) /\ Len(links) \in Nat
  BY <1>3, <1>4, DisconnectedSound
<1>6. CallTypes' /\ CallsSound'
  <2>1. /\ PastProtocol(c) \in {"bridge", "finish"}
        /\ PastProtocol(c) = "finish" => calls[c].op = "leave"
    BY <1>1, <1>2 DEF PastProtocol, CallSound
  <2> QED
    BY <1>1, <1>2, <1>5, <2>1, GoesSound DEF Disconnect, Places, Linked, Connecting
<1>7. SessionRest'
  BY <1>1, <1>5 DEF Disconnect, SessionRest, ManagerTypes, manager
<1> QED
  BY <1>5, <1>6, <1>7 DEF SessionSound, SessionTypeOK, SessionRest

LEMMA SeeBridgeSound ==
  ASSUME SessionSound, NEW c \in Callers, SeeBridge(c)
  PROVE  SessionSound'
<1>1. /\ ListenerTypes /\ CallTypes /\ CallsSound /\ Len(links) \in Nat
      /\ \A n \in 1..Len(links) : links[n] \in Link
      /\ calls[c] \in VoiceCall /\ CallSound(calls[c], Len(links))
  BY SoundParts
<1>2. calls[c].at = "bridge"
  BY DEF SeeBridge, Runs
<1>3. CASE IsConnected
  <2>1. bridge \in 1..Len(links) /\ bridge \in 0..MaxLinks
    BY <1>1, <1>3, VoiceSessionAssumption DEF ListenerTypes, IsConnected, IsRunning
  <2> DEFINE r == [links[bridge] EXCEPT !.running = FALSE]
             t == links'
  <2>2. r \in Link /\ t = [links EXCEPT ![bridge] = r]
    BY <1>1, <1>3, <2>1 DEF SeeBridge, Link
  <2> HIDE DEF r, t
  <2>3. t \in Seq(Link) /\ Len(t) = Len(links)
    BY <1>1, <2>1, <2>2, LinkSet DEF ListenerTypes
  <2>4. ListenerTypes' /\ Len(links)' = Len(links)
    BY <1>1, <2>3 DEF t, ListenerTypes, SeeBridge
  <2>5. CallTypes' /\ CallsSound'
    BY <1>1, <1>2, <1>3, <2>1, <2>4, AwaitsSound DEF SeeBridge, Places, Linked, Connecting
  <2> QED
    BY <2>4, <2>5, RestKept DEF SeeBridge, SessionSound, SessionTypeOK, SessionRest
<1>4. CASE ~IsConnected
  <2>1. ListenerTypes' /\ Len(links)' = Len(links)
    BY <1>1, <1>4 DEF SeeBridge, ListenerTypes
  <2>2. /\ PastBridge(c) \in {"connect", "protocol"}
        /\ PastBridge(c) = "connect" => calls[c].op = "join"
    BY DEF PastBridge
  <2>3. CallTypes' /\ CallsSound'
    BY <1>1, <1>2, <1>4, <2>1, <2>2, GoesSound
    DEF SeeBridge, Goes, CallTypes, Places, Linked, Connecting
  <2> QED
    BY <2>1, <2>3, RestKept DEF SeeBridge, SessionSound, SessionTypeOK, SessionRest
<1> QED
  BY <1>3, <1>4

LEMMA StopSound ==
  ASSUME SessionSound, NEW c \in Callers, Stop(c)
  PROVE  SessionSound'
<1>1. /\ ListenerTypes /\ CallTypes /\ CallsSound /\ Len(links) \in Nat
      /\ \A n \in 1..Len(links) : links[n] \in Link
      /\ calls[c] \in VoiceCall /\ CallSound(calls[c], Len(links))
  BY SoundParts
<1>2. calls[c].at = "stopping"
  BY DEF Stop, Resumes
<1> DEFINE n == calls[c].link
           r == [links[n] EXCEPT !.alive = FALSE]
           t == links'
<1>3. n \in 1..Len(links)
  BY <1>1, <1>2 DEF CallSound, Linked
<1>4. r \in Link /\ t = [links EXCEPT ![n] = r]
  BY <1>1, <1>3 DEF Stop, Link
<1> HIDE DEF n, r, t
<1>5. t \in Seq(Link) /\ Len(t) = Len(links)
  BY <1>1, <1>3, <1>4, LinkSet DEF ListenerTypes
<1>6. ListenerTypes' /\ Len(links)' = Len(links)
  BY <1>1, <1>5 DEF t, ListenerTypes, Stop
<1>7. /\ PastBridge(c) \in {"connect", "protocol"}
      /\ PastBridge(c) = "connect" => calls[c].op = "join"
  BY DEF PastBridge
<1>8. CallTypes' /\ CallsSound'
  BY <1>1, <1>2, <1>6, <1>7, GoesSound DEF Stop, Places, Linked, Connecting
<1> QED
  BY <1>6, <1>8, RestKept DEF Stop, SessionSound, SessionTypeOK, SessionRest

\* A connection is made, and py-cord registers it in its guild.
LEMMA MadeSound ==
  ASSUME SessionSound, NEW g \in Guilds, NEW n, n = Len(links) + 1, n <= MaxLinks,
         links' = Append(links, [guild |-> g, gathered |-> FALSE, running |-> FALSE,
                                 alive |-> FALSE]),
         registered' = [registered EXCEPT ![g] = n], barred' \in {barred, barred \cup {g}},
         joining' \subseteq joining, UNCHANGED <<protocol, bridge, active>>
  PROVE  ListenerTypes' /\ Len(links)' = n /\ Len(links) \in Nat
<1> DEFINE r == [guild |-> g, gathered |-> FALSE, running |-> FALSE, alive |-> FALSE]
<1>1. ListenerTypes /\ Len(links) \in Nat
  BY LinksMade DEF SessionSound, SessionTypeOK
<1>2. r \in Link /\ links' = Append(links, r) /\ links \in Seq(Link)
  BY <1>1 DEF Link, ListenerTypes
<1> HIDE DEF r
<1>3. links' \in Seq(Link) /\ Len(links)' = n
  BY <1>2, AppendProperties
<1>4. registered' \in [Guilds -> 0..n]
  <2>1. registered \in [Guilds -> 0..n] /\ n \in 0..n
    BY <1>1 DEF ListenerTypes
  <2> QED
    BY <2>1
<1>5. barred' \subseteq Guilds
  BY <1>1 DEF ListenerTypes
<1> QED
  BY <1>1, <1>3, <1>4, <1>5 DEF ListenerTypes

LEMMA FailsSound ==
  ASSUME SessionSound, NEW c \in Callers, calls[c].guild \in Guilds, Fails(c),
         Len(links)' \in Nat, Len(links) <= Len(links)'
  PROVE  CallTypes' /\ CallsSound' /\ ManagerTypes'
<1>1. EndsCall(c) /\ overlapped' = overlapped
  BY DEF Fails, Ends, Result, EndsCall
<1> QED
  BY <1>1, EndsSound

LEMMA ConnectSound ==
  ASSUME SessionSound, NEW c \in Callers, Connect(c)
  PROVE  SessionSound'
<1>1. /\ ListenerTypes /\ CallTypes /\ CallsSound /\ SessionRest /\ Len(links) \in Nat
      /\ calls[c] \in VoiceCall /\ CallSound(calls[c], Len(links))
  BY SoundParts
<1>2. /\ calls[c].at = "connect" /\ calls[c].op = "join" /\ calls[c].guild \in Guilds
      /\ calls[c].channel \in Channels
  BY <1>1 DEF Connect, Runs, CallSound, Connecting
<1>0. PICK g, n : g = calls[c].guild /\ n = Len(links) + 1
  OBVIOUS
<1> DEFINE made == Append(links, [guild |-> g, gathered |-> FALSE, running |-> FALSE,
                                  alive |-> FALSE])
<1>3. CASE Fails(c) /\ UNCHANGED <<links, registered, barred, botIn, astray, updates, budget>>
  <2>1. ListenerTypes' /\ Len(links)' = Len(links)
    BY <1>1, <1>3 DEF Fails, ListenerTypes
  <2>2. CallTypes' /\ CallsSound' /\ ManagerTypes'
    BY <1>1, <1>2, <1>3, <2>1, FailsSound
  <2>3. DiscordTypes' /\ UpdatesSound' /\ BudgetTypes'
    BY <1>1, <1>3 DEF Fails, SessionRest, DiscordTypes, UpdatesSound, BudgetTypes
  <2> QED
    BY <2>1, <2>2, <2>3 DEF SessionSound, SessionTypeOK
<1>4. CASE /\ n <= MaxLinks /\ links' = made /\ registered' = [registered EXCEPT ![g] = n]
           /\ barred' = barred \cup {g} /\ Fails(c) /\ Unsent /\ UNCHANGED astray
  <2>1. joining' \subseteq joining /\ UNCHANGED <<protocol, bridge, active, tracked, where>>
    BY <1>4 DEF Fails
  <2>2. ListenerTypes' /\ Len(links)' = n
    BY <1>0, <1>2, <1>4, <2>1, MadeSound
  <2>3. CallTypes' /\ CallsSound' /\ ManagerTypes'
    BY <1>0, <1>1, <1>2, <1>4, <2>2, FailsSound
  <2>4. DiscordTypes' /\ UpdatesSound' /\ BudgetTypes'
    <3>1. astray' \subseteq Guilds
      BY <1>1, <1>4 DEF SessionRest, DiscordTypes
    <3> QED
      BY <1>1, <1>4, <2>1, <3>1, UnsentSound DEF SessionRest
  <2> QED
    BY <2>2, <2>3, <2>4 DEF SessionSound, SessionTypeOK
<1>5. CASE /\ n <= MaxLinks /\ links' = made /\ registered' = [registered EXCEPT ![g] = n]
           /\ BotMoves(g, calls[c].channel) /\ Awaits(c, "connecting", n)
           /\ UNCHANGED <<protocol, bridge, active, joining, barred, overlapped, manager,
                          tracked, where>>
  <2>1. ListenerTypes' /\ Len(links)' = n
    BY <1>0, <1>2, <1>5, MadeSound
  <2>2. CallTypes' /\ CallsSound'
    <3>1. n \in 0..MaxLinks /\ n \in 1..Len(links)' /\ Len(links) <= Len(links)'
      BY <1>0, <1>1, <1>5, <2>1, VoiceSessionAssumption
    <3>2. Len(links)' \in Nat /\ overlapped' = overlapped
      BY <1>5, <2>1, <3>1
    <3> QED
      BY <1>1, <1>2, <1>5, <3>1, <3>2, AwaitsSound DEF Places, Linked, Connecting
  <2>3. DiscordTypes' /\ UpdatesSound'
    <3> DEFINE ch == calls[c].channel
    <3>1. BotMoves(g, ch) /\ g \in Guilds /\ ch \in Channels \cup {Nowhere}
      BY <1>0, <1>2, <1>5
    <3> HIDE DEF ch
    <3> QED
      BY <1>1, <1>5, <3>1, BotMovesSound DEF SessionRest
  <2>4. ManagerTypes' /\ BudgetTypes'
    BY <1>1, <1>5 DEF SessionRest, ManagerTypes, BudgetTypes, manager, BotMoves
  <2> QED
    BY <2>1, <2>2, <2>3, <2>4 DEF SessionSound, SessionTypeOK
<1> QED
  BY <1>0, <1>3, <1>4, <1>5 DEF Connect

LEMMA ConnectedSound ==
  ASSUME SessionSound, NEW c \in Callers, Connected(c)
  PROVE  SessionSound'
<1>1. /\ ListenerTypes /\ CallTypes /\ CallsSound /\ Len(links) \in Nat
      /\ \A n \in 1..Len(links) : links[n] \in Link
      /\ calls[c] \in VoiceCall /\ CallSound(calls[c], Len(links))
  BY SoundParts
<1>2. calls[c].at = "connecting" /\ calls[c].op = "join"
  BY <1>1 DEF Connected, Resumes, CallSound, Connecting
<1> DEFINE n == calls[c].link
           r == [links[n] EXCEPT !.gathered = TRUE]
           t == links'
<1>3. n \in 1..Len(links) /\ n \in 0..MaxLinks
  BY <1>1, <1>2 DEF CallSound, Linked, VoiceCall
<1>4. r \in Link /\ t = [links EXCEPT ![n] = r]
  BY <1>1, <1>3 DEF Connected, Link
<1>5. bridge' = n /\ \E place \in {"spawning", "failing"} : Awaits(c, place, n)
  BY DEF Connected
<1> HIDE DEF n, r, t
<1>6. t \in Seq(Link) /\ Len(t) = Len(links)
  BY <1>1, <1>3, <1>4, LinkSet DEF ListenerTypes
<1>7. ListenerTypes' /\ Len(links)' = Len(links)
  BY <1>1, <1>3, <1>5, <1>6 DEF t, ListenerTypes, Connected
<1>8. CallTypes' /\ CallsSound'
  <2>1. PICK place \in {"spawning", "failing"} : Awaits(c, place, n)
    BY <1>5
  <2> QED
    BY <1>1, <1>2, <1>3, <1>7, <2>1, AwaitsSound DEF Connected, Places, Linked, Connecting
<1> QED
  BY <1>7, <1>8, RestKept DEF Connected, SessionSound, SessionTypeOK, SessionRest

\* A join that fails once its connection is ended again.
LEMMA EndedSound ==
  ASSUME SessionSound, NEW c \in Callers, calls[c].at \in {"connecting", "failing"},
         Disconnected(calls[c].link), Fails(c)
  PROVE  SessionSound'
<1>1. CallSound(calls[c], Len(links))
  BY SoundParts
<1> DEFINE n == calls[c].link
<1>2. n \in 1..Len(links) /\ calls[c].guild \in Guilds
  BY <1>1 DEF CallSound, Linked
<1>3. /\ Disconnected(n) /\ protocol' \in {0, protocol} /\ bridge' = bridge /\ active' = active
      /\ joining' \subseteq joining /\ tracked' = tracked /\ where' = where
  BY DEF Fails
<1> HIDE DEF n
<1>4. /\ ListenerTypes' /\ DiscordTypes' /\ UpdatesSound' /\ BudgetTypes'
      /\ Len(links)' = Len(links) /\ Len(links) \in Nat
  BY <1>2, <1>3, DisconnectedSound
<1>5. CallTypes' /\ CallsSound' /\ ManagerTypes'
  BY <1>2, <1>4, FailsSound
<1> QED
  BY <1>4, <1>5 DEF SessionSound, SessionTypeOK

LEMMA TimesOutSound ==
  ASSUME SessionSound, NEW c \in Callers, TimesOut(c)
  PROVE  SessionSound'
<1>1. /\ ListenerTypes /\ SessionRest /\ Len(links) \in Nat
      /\ \A m \in 1..Len(links) : links[m] \in Link
      /\ CallSound(calls[c], Len(links)) /\ calls[c].at = "connecting"
  BY SoundParts DEF TimesOut, Resumes
<1>0. PICK n, g : n = calls[c].link /\ g = links[n].guild
  OBVIOUS
<1>2. n \in 1..Len(links) /\ calls[c].guild \in Guilds /\ g \in Guilds
  BY <1>0, <1>1 DEF CallSound, Linked, Link
<1>3. CASE CleansUp(n) /\ BotMoves(g, Nowhere)
  BY <1>0, <1>1, <1>3, EndedSound DEF TimesOut, Disconnected
<1>4. CASE Remains(g) /\ barred' = barred \cup {g} /\ UNCHANGED <<links, registered>>
  <2>1. Fails(c) /\ Unsent /\ astray' \subseteq Guilds
    BY <1>1, <1>2, <1>4 DEF TimesOut, Remains, SessionRest, DiscordTypes
  <2>2. ListenerTypes' /\ Len(links)' = Len(links)
    BY <1>1, <1>2, <1>4, <2>1 DEF Fails, ListenerTypes
  <2>3. CallTypes' /\ CallsSound' /\ ManagerTypes'
    BY <1>1, <1>2, <2>1, <2>2, FailsSound
  <2>4. DiscordTypes' /\ UpdatesSound' /\ BudgetTypes'
    BY <1>1, <2>1, UnsentSound DEF SessionRest, Fails
  <2> QED
    BY <2>2, <2>3, <2>4 DEF SessionSound, SessionTypeOK
<1> QED
  BY <1>0, <1>3, <1>4 DEF TimesOut

LEMMA SpawnedSound ==
  ASSUME SessionSound, NEW c \in Callers, Spawned(c)
  PROVE  SessionSound'
<1>1. /\ ListenerTypes /\ CallTypes /\ CallsSound /\ SessionRest /\ Len(links) \in Nat
      /\ \A n \in 1..Len(links) : links[n] \in Link
      /\ calls[c] \in VoiceCall /\ CallSound(calls[c], Len(links))
  BY SoundParts
<1> DEFINE n == calls[c].link
           r == [links[n] EXCEPT !.alive = TRUE, !.running = TRUE]
           t == links'
<1>2. n \in 1..Len(links) /\ calls[c].guild \in Guilds
  BY <1>1 DEF Spawned, Resumes, CallSound, Linked
<1>3. r \in Link /\ t = [links EXCEPT ![n] = r]
  BY <1>1, <1>2 DEF Spawned, Link
<1>4. /\ protocol' = n /\ bridge' = bridge /\ active' = calls[c].guild
      /\ joining' \subseteq joining /\ registered' = registered /\ barred' = barred
  BY DEF Spawned
<1> HIDE DEF n, r, t
<1>5. t \in Seq(Link) /\ Len(t) = Len(links)
  BY <1>1, <1>2, <1>3, LinkSet DEF ListenerTypes
<1>6. ListenerTypes' /\ Len(links)' = Len(links)
  BY <1>1, <1>2, <1>4, <1>5 DEF t, ListenerTypes
<1>7. CallTypes' /\ CallsSound' /\ ManagerTypes'
  <2>1. EndsCall(c) /\ overlapped' = overlapped
    BY DEF Spawned, Ends, Result, EndsCall
  <2> QED
    BY <1>1, <1>2, <1>6, <2>1, EndsSound
<1>8. DiscordTypes' /\ UpdatesSound' /\ BudgetTypes'
  BY <1>1 DEF Spawned, SessionRest, DiscordTypes, UpdatesSound, BudgetTypes, discord
<1> QED
  BY <1>6, <1>7, <1>8 DEF SessionSound, SessionTypeOK

LEMMA SpawnFailsSound ==
  ASSUME SessionSound, NEW c \in Callers, SpawnFails(c)
  PROVE  SessionSound'
<1>1. /\ ListenerTypes /\ CallTypes /\ CallsSound /\ Len(links) \in Nat
      /\ calls[c] \in VoiceCall /\ CallSound(calls[c], Len(links))
  BY SoundParts
<1>2. calls[c].at = "spawning" /\ calls[c].op = "join"
  BY <1>1 DEF SpawnFails, Resumes, CallSound, Connecting
<1>3. ListenerTypes' /\ Len(links)' = Len(links)
  BY <1>1 DEF SpawnFails, ListenerTypes, listener
<1>4. CallTypes' /\ CallsSound'
  BY <1>1, <1>2, <1>3, GoesSound
  DEF SpawnFails, Goes, CallTypes, Places, Linked, Connecting
<1> QED
  BY <1>3, <1>4, RestKept DEF SpawnFails, SessionSound, SessionTypeOK, SessionRest

LEMMA FinishLeaveSound ==
  ASSUME SessionSound, NEW c \in Callers, FinishLeave(c)
  PROVE  SessionSound'
<1>1. /\ ListenerTypes /\ CallTypes /\ CallsSound /\ SessionRest /\ Len(links) \in Nat
      /\ calls[c] \in VoiceCall /\ CallSound(calls[c], Len(links))
  BY SoundParts
<1>2. calls[c].guild \in Guilds
  BY <1>1 DEF FinishLeave, Runs, CallSound
<1>3. ListenerTypes' /\ Len(links)' = Len(links)
  BY <1>1 DEF FinishLeave, ListenerTypes
<1>4. CallTypes' /\ CallsSound' /\ ManagerTypes'
  <2>1. EndsCall(c) /\ overlapped' = overlapped
    BY DEF FinishLeave, Ends, Result, EndsCall
  <2> QED
    BY <1>1, <1>2, <1>3, <2>1, EndsSound
<1>5. DiscordTypes' /\ UpdatesSound' /\ BudgetTypes'
  BY <1>1 DEF FinishLeave, SessionRest, DiscordTypes, UpdatesSound, BudgetTypes, discord
<1> QED
  BY <1>3, <1>4, <1>5 DEF SessionSound, SessionTypeOK

LEMMA CallStepSound ==
  ASSUME SessionSound, NEW c \in Callers, Call(c)
  PROVE  SessionSound'
<1>1. CASE GiveUp(c)
  BY <1>1, EndedSound DEF GiveUp, Resumes
<1> QED
  BY <1>1, TimesOutSound, SeeProtocolSound, DisconnectSound, SeeBridgeSound, StopSound,
     ConnectSound, ConnectedSound, SpawnedSound, SpawnFailsSound, FinishLeaveSound DEF Call

RoundTypes ==
  round \in [joins : SUBSET (Guilds \X Members \X Channels), leaves : SUBSET Guilds]

LEMMA BeginsSound ==
  ASSUME SessionSound, NEW c \in Callers, NEW op \in {"join", "leave"},
         NEW at \in {"protocol", "bridge"}, NEW g \in Guilds,
         NEW ch \in Channels \cup {Nowhere}, Begins(c, op, at, g, ch),
         op = "join" => ch \in Channels /\ GuildOf[ch] = g, links' = links
  PROVE  CallTypes' /\ CallsSound'
<1>1. /\ CallTypes /\ CallsSound /\ Len(links) \in Nat /\ Len(links)' = Len(links)
  BY SoundParts
<1> DEFINE k == [op |-> op, at |-> at, guild |-> g, channel |-> ch, link |-> 0]
           h == calls'
           n == Len(links)
<1>2. k \in VoiceCall
  BY VoiceSessionAssumption DEF VoiceCall, Ops, Places
<1>3. CallSound(k, n)
  BY DEF CallSound, Linked, Connecting
<1>4. h = [calls EXCEPT ![c] = k] /\ \A d \in Callers : CallSound(calls[d], n)
  BY <1>1 DEF Begins, CallsSound
<1>5. n \in Nat /\ n <= n /\ calls \in [Callers -> VoiceCall]
  BY <1>1 DEF CallTypes
<1>6. overlapped' \in BOOLEAN
  BY <1>1 DEF Begins, CallTypes
<1>7. turn' \in Callers
  BY DEF Begins
<1> HIDE DEF k, h, n
<1>8. h \in [Callers -> VoiceCall] /\ \A d \in Callers : CallSound(h[d], n)
  BY <1>2, <1>3, <1>4, <1>5, CallSet
<1> QED
  BY <1>1, <1>6, <1>7, <1>8 DEF h, n, CallTypes, CallsSound

LEMMA BeginsJoinSound ==
  ASSUME SessionSound, NEW c \in Callers, NEW g \in Guilds, NEW ch \in Channels,
         BeginsJoin(c, g, ch), RoundTypes', BudgetTypes'
  PROVE  SessionSound'
<1>1. /\ ListenerTypes /\ CallTypes /\ CallsSound /\ SessionRest /\ Len(links) \in Nat
      /\ links' = links
  BY SoundParts DEF BeginsJoin
<1>2. DiscordTypes' /\ UpdatesSound'
  BY <1>1 DEF BeginsJoin, SessionRest, DiscordTypes, UpdatesSound, discord
<1>3. CASE g \in joining \/ GuildOf[ch] # g
  <2>1. ListenerTypes'
    BY <1>1, <1>3 DEF BeginsJoin, ListenerTypes
  <2>2. /\ calls' = [calls EXCEPT ![c] = NoCall] /\ turn' \in Callers \cup {NoOne}
        /\ overlapped' \in BOOLEAN
    <3>1. calls' = [calls EXCEPT ![c] = NoCall] /\ turn' \in {Loop, NoOne}
      BY <1>3 DEF BeginsJoin
    <3>2. overlapped' \in BOOLEAN
      BY <1>1, <1>3 DEF BeginsJoin, CallTypes
    <3> QED
      BY <3>1, <3>2 DEF Callers
  <2>3. CallTypes' /\ CallsSound'
    <3>1. Len(links)' \in Nat /\ Len(links) <= Len(links)'
      BY <1>1
    <3> QED
      BY <1>1, <2>2, <3>1, ResetSound
  <2>4. sessions' = sessions /\ (pending' = pending \/ pending' = [pending EXCEPT ![g] = {}])
    BY <1>3 DEF BeginsJoin, Result
  <2>5. ManagerTypes'
    BY <1>1, <2>4 DEF SessionRest, ManagerTypes, RoundTypes
  <2> QED
    BY <1>2, <2>1, <2>3, <2>5 DEF SessionSound, SessionTypeOK
<1>4. CASE ~(g \in joining \/ GuildOf[ch] # g)
  <2>1. /\ Begins(c, "join", "protocol", g, ch) /\ joining' = joining \cup {g}
        /\ UNCHANGED <<pending, sessions, links, protocol, bridge, active, registered, barred>>
    BY <1>4 DEF BeginsJoin
  <2>2. ListenerTypes'
    BY <1>1, <2>1 DEF ListenerTypes
  <2>3. CallTypes' /\ CallsSound'
    BY <1>4, <2>1, BeginsSound
  <2>4. ManagerTypes'
    BY <1>1, <2>1 DEF SessionRest, ManagerTypes, RoundTypes
  <2> QED
    BY <1>2, <2>2, <2>3, <2>4 DEF SessionSound, SessionTypeOK
<1> QED
  BY <1>3, <1>4

LEMMA BeginsLeaveSound ==
  ASSUME SessionSound, NEW c \in Callers, NEW g \in Guilds, BeginsLeave(c, g),
         RoundTypes', BudgetTypes'
  PROVE  SessionSound'
<1>1. ListenerTypes /\ CallTypes /\ SessionRest
  BY SoundParts
<1>2. /\ ListenerTypes' /\ ManagerTypes' /\ DiscordTypes' /\ UpdatesSound'
  BY <1>1 DEF BeginsLeave, ListenerTypes, SessionRest, ManagerTypes, RoundTypes, DiscordTypes,
              UpdatesSound, listener, discord
<1>3. CallTypes' /\ CallsSound'
  BY BeginsSound DEF BeginsLeave, listener
<1> QED
  BY <1>2, <1>3 DEF SessionSound, SessionTypeOK

\* A step that leaves the listener and its calls alone.
LEMMA AsideSound ==
  ASSUME SessionSound, UNCHANGED <<listener, calls, overlapped>>,
         turn' \in Callers \cup {NoOne}
  PROVE  ListenerTypes' /\ CallTypes' /\ CallsSound'
<1>1. ListenerTypes /\ CallTypes /\ CallsSound
  BY DEF SessionSound, SessionTypeOK
<1>2. ListenerTypes'
  BY <1>1 DEF ListenerTypes, listener
<1>3. CallTypes' /\ CallsSound'
  BY <1>1 DEF CallTypes, CallsSound, listener
<1> QED
  BY <1>2, <1>3

LEMMA WakeSound == ASSUME SessionSound, Wake PROVE SessionSound'
<1>1. ManagerTypes /\ DiscordTypes /\ UpdatesSound /\ BudgetTypes
  BY DEF SessionSound, SessionTypeOK
<1>2. ListenerTypes' /\ CallTypes' /\ CallsSound'
  BY AsideSound DEF Wake, Callers
<1>3. ManagerTypes'
  <2>1. PICK due \in SUBSET {<<g, p[1], p[2]>> :
                              g \in Guilds, p \in UNION {pending[h] : h \in Guilds}} :
          round' = IF due # {} THEN [round EXCEPT !.joins = due]
                   ELSE [round EXCEPT !.leaves = sessions]
    BY DEF Wake
  <2>2. due \in SUBSET (Guilds \X Members \X Channels)
    <3>1. ASSUME NEW g \in Guilds, NEW p \in UNION {pending[h] : h \in Guilds}
          PROVE  <<g, p[1], p[2]>> \in Guilds \X Members \X Channels
      <4>1. p \in Members \X Channels
        BY <1>1 DEF ManagerTypes
      <4> QED
        BY <4>1
    <3> QED
      BY <3>1
  <2>3. RoundTypes'
    BY <1>1, <2>1, <2>2 DEF ManagerTypes, RoundTypes
  <2> QED
    BY <1>1, <2>3 DEF Wake, ManagerTypes, RoundTypes
<1>4. DiscordTypes' /\ UpdatesSound' /\ BudgetTypes'
  BY <1>1 DEF Wake, DiscordTypes, UpdatesSound, BudgetTypes, discord
<1> QED
  BY <1>2, <1>3, <1>4 DEF SessionSound, SessionTypeOK

LEMMA EvaluateSound ==
  ASSUME SessionSound, NEW g \in Guilds, NEW m \in Members, NEW ch \in Channels,
         EvaluatePending(g, m, ch)
  PROVE  SessionSound'
<1>1. ManagerTypes /\ DiscordTypes /\ UpdatesSound /\ BudgetTypes
  BY DEF SessionSound, SessionTypeOK
<1>2. RoundTypes' /\ BudgetTypes'
  BY <1>1 DEF EvaluatePending, ManagerTypes, RoundTypes, BudgetTypes
<1>3. CASE BeginsJoin(Loop, g, ch)
  BY <1>2, <1>3, BeginsJoinSound DEF Callers
<1>4. CASE /\ turn' \in {Loop, NoOne} /\ pending' = [pending EXCEPT ![g] = {}]
           /\ UNCHANGED <<listener, calls, overlapped, sessions, discord>>
  <2>1. ListenerTypes' /\ CallTypes' /\ CallsSound'
    BY <1>4, AsideSound DEF Callers
  <2>2. ManagerTypes'
    BY <1>1, <1>2, <1>4 DEF ManagerTypes, RoundTypes
  <2>3. DiscordTypes' /\ UpdatesSound'
    BY <1>1, <1>4 DEF DiscordTypes, UpdatesSound, discord
  <2> QED
    BY <1>2, <2>1, <2>2, <2>3 DEF SessionSound, SessionTypeOK
<1> QED
  BY <1>3, <1>4 DEF EvaluatePending

LEMMA CheckLeaveSound ==
  ASSUME SessionSound, NEW g \in Guilds, CheckLeave(g)
  PROVE  SessionSound'
<1>1. ManagerTypes /\ DiscordTypes /\ UpdatesSound /\ BudgetTypes
  BY DEF SessionSound, SessionTypeOK
<1>2. RoundTypes' /\ BudgetTypes'
  BY <1>1 DEF CheckLeave, ManagerTypes, RoundTypes, BudgetTypes
<1>3. CASE BeginsLeave(Loop, g)
  BY <1>2, <1>3, BeginsLeaveSound DEF Callers
<1>4. CASE /\ turn' \in {Loop, NoOne} /\ sessions' \subseteq sessions
           /\ UNCHANGED <<listener, calls, overlapped, pending, discord>>
  <2>1. ListenerTypes' /\ CallTypes' /\ CallsSound'
    BY <1>4, AsideSound DEF Callers
  <2>2. ManagerTypes'
    BY <1>1, <1>2, <1>4 DEF ManagerTypes, RoundTypes
  <2>3. DiscordTypes' /\ UpdatesSound'
    BY <1>1, <1>4 DEF DiscordTypes, UpdatesSound, discord
  <2> QED
    BY <1>2, <2>1, <2>2, <2>3 DEF SessionSound, SessionTypeOK
<1> QED
  BY <1>3, <1>4 DEF CheckLeave

LEMMA RoundSound == ASSUME SessionSound, Round PROVE SessionSound'
  BY WakeSound, EvaluateSound, CheckLeaveSound DEF Round

LEMMA AskDeciderSound ==
  ASSUME SessionSound, NEW g \in Guilds, AskDecider(g)
  PROVE  SessionSound'
<1>1. /\ ListenerTypes /\ CallTypes /\ CallsSound /\ SessionRest /\ Len(links) \in Nat
  BY SoundParts DEF Callers
<1> DEFINE k == [NoCall EXCEPT !.op = "asked", !.guild = g, !.at = "deciding"]
           h == calls'
           n == Len(links)
<1>2. k \in VoiceCall /\ CallSound(k, n)
  <2>1. NoCall \in VoiceCall
    BY NoCallSound
  <2>2. k \in VoiceCall
    BY <2>1 DEF VoiceCall, Ops, Places
  <2>3. k.op = "asked" /\ k.at = "deciding"
    BY <2>1 DEF VoiceCall
  <2>4. CallSound(k, n)
    BY <2>3 DEF CallSound, Linked, Connecting
  <2> QED
    BY <2>2, <2>4
<1>3. h = [calls EXCEPT ![Chat] = k] /\ \A d \in Callers : CallSound(calls[d], n)
  BY <1>1 DEF AskDecider, CallsSound
<1>4. n \in Nat /\ n <= n /\ calls \in [Callers -> VoiceCall] /\ Chat \in Callers
  BY <1>1 DEF CallTypes, Callers
<1>5. h \in [Callers -> VoiceCall] /\ \A d \in Callers : CallSound(h[d], n)
  <2> HIDE DEF k, h, n
  <2> QED
    BY <1>2, <1>3, <1>4, CallSet
<1>6. ListenerTypes' /\ CallTypes' /\ CallsSound'
  BY <1>1, <1>5 DEF AskDecider, ListenerTypes, CallTypes, CallsSound, listener
<1>7. ManagerTypes' /\ DiscordTypes' /\ UpdatesSound'
  BY <1>1 DEF AskDecider, SessionRest, ManagerTypes, DiscordTypes, UpdatesSound, manager,
              discord
<1>8. BudgetTypes'
  BY <1>1, VoiceSessionAssumption DEF AskDecider, SessionRest, BudgetTypes
<1> QED
  BY <1>6, <1>7, <1>8 DEF SessionSound, SessionTypeOK

LEMMA VoiceActionSound ==
  ASSUME SessionSound, NEW g \in Guilds, VoiceAction(g)
  PROVE  SessionSound'
<1>1. /\ ListenerTypes /\ CallTypes /\ CallsSound /\ SessionRest /\ Len(links) \in Nat
  BY SoundParts DEF Callers
<1>2. RoundTypes' /\ BudgetTypes'
  BY <1>1 DEF VoiceAction, SessionRest, ManagerTypes, RoundTypes, BudgetTypes
<1>3. ASSUME NEW ch \in Channels, BeginsJoin(Chat, g, ch) PROVE SessionSound'
  BY <1>2, <1>3, BeginsJoinSound DEF Callers
<1>4. CASE BeginsLeave(Chat, g)
  BY <1>2, <1>4, BeginsLeaveSound DEF Callers
<1>5. CASE /\ calls' = [calls EXCEPT ![Chat] = NoCall]
           /\ UNCHANGED <<listener, turn, overlapped, pending, sessions, discord>>
  <2>1. ListenerTypes'
    BY <1>1, <1>5 DEF ListenerTypes, listener
  <2>2. CallTypes' /\ CallsSound'
    <3>1. /\ Chat \in Callers /\ turn' \in Callers \cup {NoOne} /\ overlapped' \in BOOLEAN
          /\ Len(links)' \in Nat /\ Len(links) <= Len(links)'
      BY <1>1, <1>5 DEF CallTypes, Callers, listener
    <3> QED
      BY <1>1, <1>5, <3>1, ResetSound
  <2>3. ManagerTypes' /\ DiscordTypes' /\ UpdatesSound'
    BY <1>1, <1>2, <1>5 DEF SessionRest, ManagerTypes, RoundTypes, DiscordTypes,
                            UpdatesSound, discord
  <2> QED
    BY <1>2, <2>1, <2>2, <2>3 DEF SessionSound, SessionTypeOK
<1> QED
  BY <1>3, <1>4, <1>5 DEF VoiceAction

LEMMA PanelCallSound ==
  ASSUME SessionSound, NEW g \in Guilds, PanelCall(g)
  PROVE  SessionSound'
<1>1. SessionRest
  BY SoundParts DEF Callers
<1>2. RoundTypes' /\ BudgetTypes'
  BY <1>1, VoiceSessionAssumption
  DEF PanelCall, SessionRest, ManagerTypes, RoundTypes, BudgetTypes
<1>3. ASSUME NEW ch \in Channels, BeginsJoin(Panel, g, ch) PROVE SessionSound'
  BY <1>2, <1>3, BeginsJoinSound DEF Callers
<1>4. CASE BeginsLeave(Panel, g)
  BY <1>2, <1>4, BeginsLeaveSound DEF Callers
<1> QED
  BY <1>3, <1>4 DEF PanelCall

LEMMA UpdateSound == ASSUME SessionSound, OnVoiceStateUpdate PROVE SessionSound'
<1>1. CallTypes /\ SessionRest
  BY SoundParts DEF Callers
<1>2. ListenerTypes' /\ CallTypes' /\ CallsSound'
  BY <1>1, AsideSound DEF OnVoiceStateUpdate, CallTypes
<1> DEFINE e == Head(updates)
<1>3. /\ e \in Change /\ e.before # e.after /\ updates' \in Seq(Change)
      /\ Len(updates') = Len(updates) - 1 /\ Len(updates) \in Nat
      /\ \A i \in 1..Len(updates') : updates'[i] = updates[i + 1]
  <2>1. updates \in Seq(Change) /\ updates # <<>> /\ updates' = Tail(updates)
    BY <1>1 DEF SessionRest, DiscordTypes, OnVoiceStateUpdate
  <2>2. e = updates[1] /\ 1 \in DOMAIN updates
    BY <2>1, HeadTailProperties, EmptySeq, LenProperties
  <2>3. e \in Change /\ e.before # e.after
    BY <1>1, <2>1, <2>2, HeadTailProperties DEF SessionRest, UpdatesSound
  <2> QED
    BY <2>1, <2>3, HeadTailProperties, LenProperties
<1>4. UpdatesSound'
  <2>1. \A i \in 1..Len(updates) : updates[i].before # updates[i].after
    BY <1>1, LenProperties DEF SessionRest, DiscordTypes, UpdatesSound
  <2>2. DOMAIN updates' = 1..Len(updates') /\ Len(updates') \in Nat
    BY <1>3, LenProperties
  <2>3. ASSUME NEW i \in 1..Len(updates') PROVE updates'[i].before # updates'[i].after
    <3>1. i + 1 \in 1..Len(updates) /\ updates'[i] = updates[i + 1]
      BY <1>3, <2>2
    <3> QED
      BY <2>1, <3>1
  <2> QED
    BY <2>2, <2>3 DEF UpdatesSound
<1>5. DiscordTypes'
  <2>1. Tracked(e) \in Channels \cup {Nowhere}
    BY <1>3 DEF Tracked, Change
  <2>2. tracked' = [tracked EXCEPT ![e.who] = Tracked(e)]
    BY DEF OnVoiceStateUpdate
  <2> HIDE DEF e
  <2>3. tracked' \in [Members -> Channels \cup {Nowhere}]
    BY <1>1, <2>1, <2>2 DEF SessionRest, DiscordTypes
  <2> QED
    BY <1>1, <1>3, <2>3 DEF SessionRest, DiscordTypes, OnVoiceStateUpdate
<1>6. ManagerTypes'
  <2>1. pending' = pending \/ (e.before = Nowhere
                               /\ pending' = [pending EXCEPT ![e.guild] = {<<e.who, e.after>>}])
    BY DEF OnVoiceStateUpdate
  <2>2. e.before = Nowhere => <<e.who, e.after>> \in Members \X Channels
    BY <1>3 DEF Change
  <2> HIDE DEF e
  <2>3. pending' \in [Guilds -> SUBSET (Members \X Channels)]
    BY <1>1, <2>1, <2>2 DEF SessionRest, ManagerTypes
  <2> QED
    BY <1>1, <2>3 DEF SessionRest, ManagerTypes, OnVoiceStateUpdate
<1>7. BudgetTypes'
  BY <1>1 DEF SessionRest, BudgetTypes, OnVoiceStateUpdate
<1> QED
  BY <1>2, <1>4, <1>5, <1>6, <1>7 DEF SessionSound, SessionTypeOK

LEMMA UserMovesSound ==
  ASSUME SessionSound, NEW u \in People, UserMoves(u)
  PROVE  SessionSound'
<1>1. CallTypes /\ SessionRest
  BY SoundParts DEF Callers
<1>2. ListenerTypes' /\ CallTypes' /\ CallsSound'
  BY <1>1, AsideSound DEF UserMoves, CallTypes
<1>3. PICK to \in (Channels \cup {Nowhere}) \ {where[u]} :
        /\ where' = [where EXCEPT ![u] = to]
        /\ \E told \in Told(u, where[u], to) \cup {<<>>} : updates' = updates \o told
  BY DEF UserMoves
<1>4. PICK told \in Told(u, where[u], to) \cup {<<>>} : updates' = updates \o told
  BY <1>3
<1> DEFINE from == where[u]
<1>5. from \in Channels \cup {Nowhere} /\ from # to /\ u \in Members
  BY <1>1, <1>3 DEF SessionRest, DiscordTypes, Members
<1>6. told \in Seq(Change) /\ \A i \in 1..Len(told) : told[i].before # told[i].after
  <2> HIDE DEF from
  <2>1. CASE told = <<>>
    BY <2>1
  <2>2. ASSUME NEW g \in Guilds, NEW b \in Channels \cup {Nowhere},
               NEW a \in Channels \cup {Nowhere}, b # a,
               NEW e, e = [who |-> u, guild |-> g, before |-> b, after |-> a]
        PROVE  e \in Change /\ e.before # e.after
    BY <1>5, <2>2 DEF Change
  <2>3. ASSUME NEW e \in Change, e.before # e.after, told = <<e>>
        PROVE  told \in Seq(Change) /\ \A i \in 1..Len(told) : told[i].before # told[i].after
    BY <2>3
  <2>4. ASSUME NEW e \in Change, NEW f \in Change, e.before # e.after, f.before # f.after,
               told = <<e, f>>
        PROVE  told \in Seq(Change) /\ \A i \in 1..Len(told) : told[i].before # told[i].after
    BY <2>4
  <2> DEFINE v(g, b, a) == [who |-> u, guild |-> g, before |-> b, after |-> a]
  <2>5. CASE told \in Told(u, from, to)
    <3>1. \A ch \in Channels : GuildOf[ch] \in Guilds
      BY VoiceSessionAssumption
    <3>2. CASE from = Nowhere
      <4>1. told = <<v(GuildOf[to], Nowhere, to)>> /\ to \in Channels
        BY <1>5, <2>5, <3>2 DEF Told
      <4> QED
        BY <1>5, <2>2, <2>3, <3>1, <3>2, <4>1
    <3>3. CASE from # Nowhere /\ to = Nowhere
      <4>1. told = <<v(GuildOf[from], from, Nowhere)>> /\ from \in Channels
        BY <1>5, <2>5, <3>3 DEF Told
      <4> QED
        BY <1>5, <2>2, <2>3, <3>1, <3>3, <4>1
    <3>4. CASE from # Nowhere /\ to # Nowhere /\ GuildOf[from] = GuildOf[to]
      <4>1. told = <<v(GuildOf[to], from, to)>> /\ from \in Channels /\ to \in Channels
        BY <1>5, <2>5, <3>4 DEF Told
      <4> QED
        BY <1>5, <2>2, <2>3, <3>1, <4>1
    <3>5. CASE from # Nowhere /\ to # Nowhere /\ GuildOf[from] # GuildOf[to]
      <4>1. /\ from \in Channels /\ to \in Channels
            /\ told \in {<<v(GuildOf[from], from, Nowhere), v(GuildOf[to], Nowhere, to)>>,
                         <<v(GuildOf[to], Nowhere, to), v(GuildOf[from], from, Nowhere)>>}
        BY <1>5, <2>5, <3>5 DEF Told
      <4> DEFINE out == v(GuildOf[from], from, Nowhere)
                 in == v(GuildOf[to], Nowhere, to)
      <4>2. out \in Change /\ out.before # out.after
        BY <1>5, <2>2, <3>1, <3>5, <4>1
      <4>3. in \in Change /\ in.before # in.after
        BY <1>5, <2>2, <3>1, <3>5, <4>1
      <4>4. told \in {<<out, in>>, <<in, out>>}
        BY <4>1
      <4> HIDE DEF out, in
      <4> QED
        BY <2>4, <4>2, <4>3, <4>4
    <3> QED
      BY <3>2, <3>3, <3>4, <3>5
  <2> QED
    BY <1>4, <2>1, <2>5 DEF from
<1>7. DiscordTypes' /\ UpdatesSound'
  <2>1. updates \in Seq(Change) /\ \A i \in 1..Len(updates) : updates[i].before # updates[i].after
    BY <1>1, LenProperties DEF SessionRest, DiscordTypes, UpdatesSound
  <2>2. /\ updates' \in Seq(Change) /\ Len(updates') = Len(updates) + Len(told)
        /\ \A i \in 1..Len(updates) + Len(told) :
             updates'[i] = IF i <= Len(updates) THEN updates[i] ELSE told[i - Len(updates)]
    BY <1>4, <1>6, <2>1, ConcatProperties
  <2>3. Len(updates) \in Nat /\ Len(told) \in Nat /\ DOMAIN updates' = 1..Len(updates')
    BY <1>6, <2>1, <2>2, LenProperties
  <2>4. UpdatesSound'
    <3> SUFFICES ASSUME NEW i \in 1..Len(updates) + Len(told)
                 PROVE  updates'[i].before # updates'[i].after
      BY <2>2, <2>3 DEF UpdatesSound
    <3>1. CASE i <= Len(updates)
      BY <2>1, <2>2, <2>3, <3>1
    <3>2. CASE i > Len(updates)
      <4>1. i - Len(updates) \in 1..Len(told) /\ updates'[i] = told[i - Len(updates)]
        BY <2>2, <2>3, <3>2
      <4> QED
        BY <1>6, <4>1
    <3> QED
      BY <2>3, <3>1, <3>2
  <2>5. where' \in [People -> Channels \cup {Nowhere}]
    BY <1>1, <1>3 DEF SessionRest, DiscordTypes
  <2> QED
    BY <1>1, <2>2, <2>4, <2>5 DEF SessionRest, DiscordTypes, UserMoves
<1>8. ManagerTypes' /\ BudgetTypes'
  <2>1. ManagerTypes'
    BY <1>1 DEF UserMoves, SessionRest, ManagerTypes, manager
  <2>2. BudgetTypes'
    <3>1. budget.moves > 0 /\ budget' = [budget EXCEPT !.moves = @ - 1]
      BY DEF UserMoves
    <3> QED
      BY <1>1, <3>1, VoiceSessionAssumption DEF SessionRest, BudgetTypes
  <2> QED
    BY <2>1, <2>2
<1> QED
  BY <1>2, <1>7, <1>8 DEF SessionSound, SessionTypeOK

LEMMA BotMovedSound ==
  ASSUME SessionSound, NEW g \in Guilds, BotMoved(g)
  PROVE  SessionSound'
<1>1. CallTypes /\ SessionRest
  BY SoundParts DEF Callers
<1>2. ListenerTypes' /\ CallTypes' /\ CallsSound'
  BY <1>1, AsideSound DEF BotMoved, CallTypes
<1>3. PICK to \in ({ch \in Channels : GuildOf[ch] = g} \cup {Nowhere}) \ {botIn[g]} :
        /\ botIn' = [botIn EXCEPT ![g] = to]
        /\ astray' = IF to = Nowhere THEN astray \cup {g} ELSE astray
        /\ updates' \in {updates, Append(updates, [who |-> Bot, guild |-> g,
                                                   before |-> botIn[g], after |-> to])}
  BY DEF BotMoved
<1> DEFINE e == [who |-> Bot, guild |-> g, before |-> botIn[g], after |-> to]
<1>4. e \in Change /\ e.before # e.after
  BY <1>1, <1>3 DEF SessionRest, DiscordTypes, Change, Members
<1>5. updates' = updates \/ updates' = Append(updates, e)
  BY <1>3
<1> HIDE DEF e
<1>6. updates' \in Seq(Change) /\ UpdatesSound'
  BY <1>1, <1>4, <1>5, AppendedSound DEF SessionRest, DiscordTypes, UpdatesSound
<1>7. botIn' \in [Guilds -> Channels \cup {Nowhere}] /\ astray' \subseteq Guilds
  BY <1>1, <1>3 DEF SessionRest, DiscordTypes
<1>8. DiscordTypes'
  BY <1>1, <1>6, <1>7 DEF SessionRest, DiscordTypes, BotMoved
<1>9. ManagerTypes' /\ BudgetTypes'
  <2>1. ManagerTypes'
    BY <1>1 DEF BotMoved, SessionRest, ManagerTypes, manager
  <2>2. BudgetTypes'
    BY <1>1, VoiceSessionAssumption DEF BotMoved, SessionRest, BudgetTypes
  <2> QED
    BY <2>1, <2>2
<1> QED
  BY <1>2, <1>6, <1>8, <1>9 DEF SessionSound, SessionTypeOK

LEMMA SoundNext == ASSUME SessionSound, [SessionNext]_sessionVars PROVE SessionSound'
<1>1. CASE UNCHANGED sessionVars
  BY <1>1 DEF SessionSound, SessionTypeOK, ListenerTypes, CallTypes, CallsSound, ManagerTypes,
              DiscordTypes, UpdatesSound, BudgetTypes, sessionVars, listener, manager, discord
<1>2. CASE SessionNext
  BY <1>2, CallStepSound, RoundSound, AskDeciderSound, VoiceActionSound, PanelCallSound,
     UpdateSound, UserMovesSound, BotMovedSound DEF SessionNext
<1> QED
  BY <1>1, <1>2

(* Every part of the listener, the manager and Discord keeps its type. *)
THEOREM SessionTypeCorrect == SessionSpec => []SessionTypeOK
<1>1. SessionInit => SessionSound
  BY SoundInit
<1>2. SessionSound /\ [SessionNext]_sessionVars => SessionSound'
  BY SoundNext
<1>3. SessionSound => SessionTypeOK
  BY DEF SessionSound
<1> QED
  BY <1>1, <1>2, <1>3, PTL DEF SessionSpec

-----------------------------------------------------------------------------
(* Joining and leaving: one call at a time *)

NoneAlive == \A n \in DOMAIN links : ~links[n].alive
OnlyAlive(n) == \A m \in DOMAIN links : links[m].alive => m = n
RunningLives == \A n \in DOMAIN links : links[n].running => links[n].alive
\* Save where it is astray, Discord sees the bot in the guilds of S only.
BotOnlyIn(S) == \A g \in Guilds \ astray : botIn[g] # Nowhere => g \in S
BotIsIn(g) == g \in astray \/ botIn[g] # Nowhere
\* Save where a voice client was left behind, py-cord has one in the guilds of S.
ClientsIn(S) == \A g \in Guilds \ barred : registered[g] # 0 <=> g \in S

\* The listener has no connection, and Discord sees the bot in no channel.
Out == protocol = 0 /\ BotOnlyIn({}) /\ ClientsIn({})
\* The listener has connection n, and Discord sees the bot in its guild only.
Joined(n) ==
  /\ n \in DOMAIN links /\ protocol = n /\ links[n].gathered
  /\ BotOnlyIn({links[n].guild}) /\ BotIsIn(links[n].guild)
  /\ ClientsIn({links[n].guild})
\* What lives is the bridge of the listener, and it runs.
BridgeRuns == \A n \in DOMAIN links : links[n].alive => n = bridge /\ links[n].running
Halted(n) == OnlyAlive(n) /\ ~links[n].running
\* A join has connected and has no process yet.
Connects(k) ==
  /\ protocol = 0 /\ NoneAlive /\ links[k.link].guild = k.guild
  /\ BotOnlyIn({k.guild}) /\ ClientsIn({k.guild})

\* Between two calls the bot is out of voice, or in one guild with all it needs.
Standing ==
  \/ Out /\ NoneAlive
  \/ \E n \in DOMAIN links :
       /\ Joined(n) /\ bridge = n /\ links[n].running /\ OnlyAlive(n)
       /\ active = links[n].guild

\* What holds at each place of the only call.
JoinPlaced(k) ==
  /\ k.at = "protocol" => Standing
  /\ k.at = "disconnecting" => Joined(k.link) /\ BridgeRuns
  /\ k.at = "bridge" => Out /\ BridgeRuns
  /\ k.at = "stopping" => Out /\ Halted(k.link)
  /\ k.at = "connect" => Out /\ NoneAlive
  /\ k.at = "connecting" => Connects(k) /\ BotIsIn(k.guild)
  /\ k.at = "spawning" =>
       Connects(k) /\ BotIsIn(k.guild) /\ bridge = k.link /\ links[k.link].gathered
  /\ k.at = "failing" => Connects(k)
LeavePlaced(k) ==
  /\ k.at = "bridge" => Standing
  /\ k.at = "stopping" => Joined(k.link) /\ Halted(k.link)
  /\ k.at = "protocol" => NoneAlive /\ (Out \/ \E n \in DOMAIN links : Joined(n))
  /\ k.at = "disconnecting" => Joined(k.link) /\ NoneAlive
  /\ k.at = "finish" => Out /\ NoneAlive

Sole(c) ==
  /\ Underway(c) /\ \A d \in Callers : Underway(d) => d = c
  /\ joining = IF calls[c].op = "join" THEN {calls[c].guild} ELSE {}
Tied(c) ==
  /\ Sole(c)
  /\ calls[c].op = "join" => JoinPlaced(calls[c])
  /\ calls[c].op = "leave" => LeavePlaced(calls[c])
Untied == (\A c \in Callers : ~Underway(c)) /\ joining = {} /\ Standing

Quiet == ~overlapped => RunningLives /\ (Untied \/ \E c \in Callers : Tied(c))

LEMMA QuietInit == ASSUME SessionInit PROVE Quiet
<1>1. DOMAIN links = {}
  BY DEF SessionInit
<1>2. Standing
  BY <1>1 DEF SessionInit, Standing, Out, NoneAlive, BotOnlyIn, ClientsIn
<1>3. \A c \in Callers : ~Underway(c)
  BY DEF SessionInit, Underway, NoCall
<1> QED
  BY <1>1, <1>2, <1>3 DEF SessionInit, Quiet, RunningLives, Untied

LEMMA QuietCall ==
  ASSUME Quiet, ~overlapped, NEW c \in Callers, Underway(c)
  PROVE  RunningLives /\ Tied(c)
  BY DEF Quiet, Untied, Tied, Sole

LEMMA QuietTied ==
  ASSUME NEW c \in Callers, Tied(c), RunningLives
  PROVE  Quiet
  BY DEF Quiet

\* The only call stays the only one wherever it goes.
LEMMA SoleMoves ==
  ASSUME CallTypes, NEW c \in Callers, Sole(c), joining' = joining,
         NEW place \in Places \ {"idle", "deciding"},
         calls' = [calls EXCEPT ![c].at = place]
  PROVE  /\ Sole(c)'
         /\ calls'[c].at = place /\ calls'[c].op = calls[c].op
         /\ calls'[c].link = calls[c].link /\ calls'[c].guild = calls[c].guild
<1>1. /\ calls'[c].at = place /\ calls'[c].op = calls[c].op
      /\ calls'[c].link = calls[c].link /\ calls'[c].guild = calls[c].guild
  BY DEF CallTypes, VoiceCall
<1>2. \A d \in Callers : d # c => calls'[d] = calls[d]
  BY DEF CallTypes
<1> QED
  BY <1>1, <1>2 DEF Sole, Underway

LEMMA SoleAwaits ==
  ASSUME CallTypes, NEW c \in Callers, Sole(c), joining' = joining, NEW m,
         NEW place \in Places \ {"idle", "deciding"}, Awaits(c, place, m)
  PROVE  /\ Sole(c)'
         /\ calls'[c].at = place /\ calls'[c].op = calls[c].op
         /\ calls'[c].link = m /\ calls'[c].guild = calls[c].guild
<1>1. /\ calls'[c].at = place /\ calls'[c].op = calls[c].op
      /\ calls'[c].link = m /\ calls'[c].guild = calls[c].guild
  BY DEF CallTypes, VoiceCall, Awaits
<1>2. \A d \in Callers : d # c => calls'[d] = calls[d]
  BY DEF CallTypes, Awaits
<1> QED
  BY <1>1, <1>2 DEF Sole, Underway

LEMMA SoleEnds ==
  ASSUME CallTypes, NEW c \in Callers, Sole(c), calls' = [calls EXCEPT ![c] = NoCall]
  PROVE  \A d \in Callers : ~Underway(d)'
<1>1. \A d \in Callers : calls'[d] = IF d = c THEN NoCall ELSE calls[d]
  BY DEF CallTypes
<1> QED
  BY <1>1 DEF Sole, Underway, NoCall

LEMMA SeeProtocolQuiet ==
  ASSUME SessionSound, Quiet, ~overlapped, NEW c \in Callers, SeeProtocol(c)
  PROVE  Quiet'
<1>1. calls[c].at = "protocol" /\ Underway(c)
  BY DEF SeeProtocol, Runs, Underway
<1>2. CallTypes /\ CallSound(calls[c], Len(links)) /\ RunningLives /\ Tied(c)
  BY <1>1, SoundParts, QuietCall
<1>3. UNCHANGED <<links, bridge, active, joining, botIn, astray>>
  BY DEF SeeProtocol, discord
<1>4. RunningLives'
  BY <1>2, <1>3 DEF RunningLives
<1>5. CASE calls[c].op = "join"
  <2>1. Standing
    BY <1>1, <1>2, <1>5 DEF Tied, JoinPlaced
  <2>2. CASE protocol # 0 /\ links[protocol].gathered
    <3>1. Awaits(c, "disconnecting", protocol) /\ UNCHANGED <<protocol, registered, barred>>
      BY <2>2 DEF SeeProtocol
    <3>2. Sole(c)' /\ calls'[c].at = "disconnecting" /\ calls'[c].op = "join"
          /\ calls'[c].link = protocol
      BY <1>2, <1>3, <1>5, <3>1, SoleAwaits DEF Tied, Places
    <3>3. Joined(protocol) /\ BridgeRuns
      BY <2>1, <2>2 DEF Standing, Out, Joined, OnlyAlive, BridgeRuns
    <3>4. Joined(protocol)' /\ BridgeRuns'
      BY <1>3, <3>1, <3>3 DEF Joined, BridgeRuns, BotOnlyIn, BotIsIn, ClientsIn
    <3>5. Tied(c)'
      BY <3>1, <3>2, <3>4 DEF Tied, JoinPlaced
    <3> QED
      BY <1>4, <3>5 DEF Quiet
  <2>3. CASE ~(protocol # 0 /\ links[protocol].gathered)
    <3>1. Out /\ NoneAlive
      <4>1. ~ \E n \in DOMAIN links : Joined(n)
        <5> SUFFICES ASSUME NEW n \in DOMAIN links, Joined(n) PROVE FALSE
          OBVIOUS
        <5>1. n \in Nat \ {0}
          BY LinksMade DEF SessionSound, SessionTypeOK
        <5> QED
          BY <2>3, <5>1 DEF Joined
      <4> QED
        BY <2>1, <4>1 DEF Standing
    <3>2. calls' = [calls EXCEPT ![c].at = "bridge"] /\ UNCHANGED <<protocol, registered, barred>>
      BY <1>5, <2>3, <3>1 DEF SeeProtocol, Goes, PastProtocol, Out
    <3>3. Sole(c)' /\ calls'[c].at = "bridge" /\ calls'[c].op = "join"
      BY <1>2, <1>3, <1>5, <3>2, SoleMoves DEF Tied, Places
    <3>4. Out' /\ BridgeRuns'
      BY <1>3, <3>1, <3>2 DEF Out, BotOnlyIn, ClientsIn, NoneAlive, BridgeRuns
    <3>5. Tied(c)'
      BY <3>3, <3>4 DEF Tied, JoinPlaced
    <3> QED
      BY <1>4, <3>5 DEF Quiet
  <2> QED
    BY <2>2, <2>3
<1>6. CASE calls[c].op = "leave"
  <2>1. NoneAlive /\ (Out \/ \E n \in DOMAIN links : Joined(n))
    BY <1>1, <1>2, <1>6 DEF Tied, LeavePlaced
  <2>2. CASE protocol # 0 /\ links[protocol].gathered
    <3>1. Awaits(c, "disconnecting", protocol) /\ UNCHANGED <<protocol, registered, barred>>
      BY <2>2 DEF SeeProtocol
    <3>2. Sole(c)' /\ calls'[c].at = "disconnecting" /\ calls'[c].op = "leave"
          /\ calls'[c].link = protocol
      BY <1>2, <1>3, <1>6, <3>1, SoleAwaits DEF Tied, Places
    <3>3. Joined(protocol)
      BY <2>1, <2>2 DEF Out, Joined
    <3>4. Joined(protocol)' /\ NoneAlive'
      BY <1>3, <2>1, <3>1, <3>3 DEF Joined, NoneAlive, BotOnlyIn, BotIsIn, ClientsIn
    <3>5. Tied(c)'
      BY <3>1, <3>2, <3>4 DEF Tied, LeavePlaced
    <3> QED
      BY <1>4, <3>5 DEF Quiet
  <2>3. CASE ~(protocol # 0 /\ links[protocol].gathered)
    <3>1. Out
      <4>1. ~ \E n \in DOMAIN links : Joined(n)
        <5> SUFFICES ASSUME NEW n \in DOMAIN links, Joined(n) PROVE FALSE
          OBVIOUS
        <5>1. n \in Nat \ {0}
          BY LinksMade DEF SessionSound, SessionTypeOK
        <5> QED
          BY <2>3, <5>1 DEF Joined
      <4> QED
        BY <2>1, <4>1
    <3>2. calls' = [calls EXCEPT ![c].at = "finish"] /\ UNCHANGED <<protocol, registered, barred>>
      BY <1>6, <2>3, <3>1 DEF SeeProtocol, Goes, PastProtocol, Out
    <3>3. Sole(c)' /\ calls'[c].at = "finish" /\ calls'[c].op = "leave"
      BY <1>2, <1>3, <1>6, <3>2, SoleMoves DEF Tied, Places
    <3>4. Out' /\ NoneAlive'
      BY <1>3, <2>1, <3>1, <3>2 DEF Out, BotOnlyIn, ClientsIn, NoneAlive
    <3>5. Tied(c)'
      BY <3>3, <3>4 DEF Tied, LeavePlaced
    <3> QED
      BY <1>4, <3>5 DEF Quiet
  <2> QED
    BY <2>2, <2>3
<1> QED
  BY <1>1, <1>2, <1>5, <1>6 DEF CallSound

\* Ending a connection changes what is alive nowhere, takes the bot out of its guild or
\* leaves it there astray, and takes its voice client away.
LEMMA DisconnectedLinks ==
  ASSUME SessionSound, NEW n \in 1..Len(links), Disconnected(n)
  PROVE  /\ DOMAIN links' = DOMAIN links
         /\ \A m \in DOMAIN links : /\ links'[m].alive = links[m].alive
                                    /\ links'[m].running = links[m].running
         /\ BotOnlyIn({links[n].guild}) => BotOnlyIn({})'
         /\ ClientsIn({links[n].guild}) => ClientsIn({})'
<1>1. /\ ListenerTypes /\ DiscordTypes /\ DOMAIN links = 1..Len(links)
      /\ \A m \in 1..Len(links) : links[m] \in Link
  BY LinksMade DEF SessionSound, SessionTypeOK
<1> DEFINE r == [links[n] EXCEPT !.gathered = FALSE]
           t == links'
           g == links[n].guild
<1>2. /\ r \in Link /\ t = [links EXCEPT ![n] = r]
      /\ r.alive = links[n].alive /\ r.running = links[n].running
  BY <1>1 DEF Disconnected, CleansUp, Link
<1>3. /\ g \in Guilds /\ (BotMoves(g, Nowhere) \/ Remains(g))
      /\ registered' = [registered EXCEPT ![g] = 0] /\ barred' = barred \ {g}
  BY <1>1 DEF Disconnected, CleansUp, Link
<1> HIDE DEF r, t, g
<1>4. /\ DOMAIN t = 1..Len(links) /\ t[n] = r
      /\ \A m \in 1..Len(links) : m # n => t[m] = links[m]
  BY <1>1, <1>2, LinkSet DEF ListenerTypes
<1>5. \A m \in 1..Len(links) : t[m].alive = links[m].alive /\ t[m].running = links[m].running
  BY <1>2, <1>4
<1>6. BotOnlyIn({g}) => BotOnlyIn({})'
  <2>1. CASE BotMoves(g, Nowhere)
    BY <1>1, <1>3, <2>1 DEF DiscordTypes, BotOnlyIn, BotMoves
  <2>2. CASE Remains(g)
    BY <2>2 DEF BotOnlyIn, Remains, Unsent
  <2> QED
    BY <1>3, <2>1, <2>2
<1>7. ClientsIn({g}) => ClientsIn({})'
  BY <1>1, <1>3 DEF ListenerTypes, ClientsIn
<1> QED
  BY <1>1, <1>4, <1>5, <1>6, <1>7 DEF t, g

LEMMA DisconnectQuiet ==
  ASSUME SessionSound, Quiet, ~overlapped, NEW c \in Callers, Disconnect(c)
  PROVE  Quiet'
<1>1. calls[c].at = "disconnecting" /\ Underway(c)
  BY DEF Disconnect, Resumes, Underway
<1>2. /\ CallTypes /\ CallSound(calls[c], Len(links)) /\ RunningLives /\ Tied(c)
      /\ DOMAIN links = 1..Len(links)
  BY <1>1, SoundParts, QuietCall
<1> DEFINE n == calls[c].link
<1>3. n \in 1..Len(links) /\ Disconnected(n) /\ protocol' = 0
  BY <1>1, <1>2 DEF Disconnect, CallSound, Linked
<1>4. UNCHANGED <<bridge, joining>>
  BY DEF Disconnect
<1>5. Joined(n)
  BY <1>1, <1>2 DEF Tied, CallSound, JoinPlaced, LeavePlaced
<1> HIDE DEF n
<1>6. /\ DOMAIN links' = DOMAIN links
      /\ \A m \in DOMAIN links : /\ links'[m].alive = links[m].alive
                                 /\ links'[m].running = links[m].running
      /\ BotOnlyIn({links[n].guild}) => BotOnlyIn({})'
      /\ ClientsIn({links[n].guild}) => ClientsIn({})'
  BY <1>3, DisconnectedLinks
<1>7. RunningLives'
  BY <1>2, <1>6 DEF RunningLives
<1>8. BotOnlyIn({links[n].guild}) /\ ClientsIn({links[n].guild})
  BY <1>5 DEF Joined
<1>9. Out'
  BY <1>3, <1>6, <1>8 DEF Out
<1>10. CASE calls[c].op = "join"
  <2>1. calls' = [calls EXCEPT ![c].at = "bridge"]
    BY <1>10 DEF Disconnect, PastProtocol
  <2>2. Sole(c)' /\ calls'[c].at = "bridge" /\ calls'[c].op = "join"
    BY <1>2, <1>4, <1>10, <2>1, SoleMoves DEF Tied, Places
  <2>3. BridgeRuns
    BY <1>1, <1>2, <1>10 DEF Tied, JoinPlaced
  <2>4. BridgeRuns'
    BY <1>4, <1>6, <2>3 DEF BridgeRuns
  <2>5. Tied(c)'
    BY <1>9, <2>2, <2>4 DEF Tied, JoinPlaced
  <2> QED
    BY <1>7, <2>5 DEF Quiet
<1>11. CASE calls[c].op = "leave"
  <2>1. calls' = [calls EXCEPT ![c].at = "finish"]
    BY <1>11 DEF Disconnect, PastProtocol
  <2>2. Sole(c)' /\ calls'[c].at = "finish" /\ calls'[c].op = "leave"
    BY <1>2, <1>4, <1>11, <2>1, SoleMoves DEF Tied, Places
  <2>3. NoneAlive
    BY <1>1, <1>2, <1>11 DEF Tied, LeavePlaced
  <2>4. NoneAlive'
    BY <1>6, <2>3 DEF NoneAlive
  <2>5. Tied(c)'
    BY <1>9, <2>2, <2>4 DEF Tied, LeavePlaced
  <2> QED
    BY <1>7, <2>5 DEF Quiet
<1> QED
  BY <1>1, <1>2, <1>10, <1>11 DEF CallSound

LEMMA SeeBridgeQuiet ==
  ASSUME SessionSound, Quiet, ~overlapped, NEW c \in Callers, SeeBridge(c)
  PROVE  Quiet'
<1>1. calls[c].at = "bridge" /\ Underway(c)
  BY DEF SeeBridge, Runs, Underway
<1>2. /\ CallTypes /\ CallSound(calls[c], Len(links)) /\ RunningLives /\ Tied(c)
      /\ ListenerTypes /\ DOMAIN links = 1..Len(links)
      /\ \A n \in 1..Len(links) : links[n] \in Link
  BY <1>1, SoundParts, QuietCall
<1>3. UNCHANGED <<protocol, bridge, active, joining, registered, barred, botIn, astray>>
  BY DEF SeeBridge, discord
<1>4. (calls[c].op = "join" => Out /\ BridgeRuns) /\ (calls[c].op = "leave" => Standing)
  BY <1>1, <1>2 DEF Tied, JoinPlaced, LeavePlaced
<1>5. CASE IsConnected
  <2> DEFINE n == bridge
             r == [links[n] EXCEPT !.running = FALSE]
             t == links'
  <2>1. n \in 1..Len(links) /\ links[n].running /\ Awaits(c, "stopping", n)
    BY <1>2, <1>5 DEF ListenerTypes, IsConnected, IsRunning, SeeBridge
  <2>2. /\ r \in Link /\ t = [links EXCEPT ![n] = r] /\ ~r.running
        /\ r.gathered = links[n].gathered /\ r.guild = links[n].guild
        /\ r.alive = links[n].alive
    BY <1>2, <1>5, <2>1 DEF SeeBridge, Link
  <2>3. Sole(c)' /\ calls'[c].at = "stopping" /\ calls'[c].op = calls[c].op
        /\ calls'[c].link = n
    BY <1>2, <1>3, <2>1, SoleAwaits DEF Tied, Places
  <2>4. (calls[c].op = "leave" => Joined(n)) /\ OnlyAlive(n)
    <3>1. CASE calls[c].op = "join"
      BY <1>4, <3>1 DEF BridgeRuns, OnlyAlive
    <3>2. CASE calls[c].op = "leave"
      <4>1. ~NoneAlive
        BY <1>2, <2>1 DEF NoneAlive, RunningLives
      <4> QED
        BY <1>4, <3>2, <4>1 DEF Standing
    <3> QED
      BY <1>1, <1>2, <3>1, <3>2 DEF CallSound
  <2> HIDE DEF n, r, t
  <2>5. /\ DOMAIN t = 1..Len(links) /\ t[n] = r
        /\ \A m \in 1..Len(links) : m # n => t[m] = links[m]
    BY <1>2, <2>1, <2>2, LinkSet DEF ListenerTypes
  <2>6. RunningLives'
    BY <1>2, <2>2, <2>5 DEF t, RunningLives
  <2>7. Halted(n)'
    <3>1. OnlyAlive(n)'
      BY <1>2, <1>3, <2>2, <2>4, <2>5 DEF t, n, OnlyAlive
    <3> QED
      BY <1>3, <2>2, <2>5, <3>1 DEF t, n, Halted
  <2>8. CASE calls[c].op = "join"
    <3>1. Out'
      BY <1>3, <1>4, <2>8 DEF Out, BotOnlyIn, ClientsIn
    <3>2. JoinPlaced(calls[c])'
      BY <1>3, <2>3, <2>7, <3>1 DEF JoinPlaced, n
    <3> QED
      BY <2>3, <2>6, <2>8, <3>2 DEF Tied, Quiet
  <2>9. CASE calls[c].op = "leave"
    <3>1. Joined(n)'
      BY <1>2, <1>3, <2>2, <2>4, <2>5, <2>9 DEF t, n, Joined, BotOnlyIn, BotIsIn, ClientsIn
    <3>2. LeavePlaced(calls[c])'
      BY <1>3, <2>3, <2>7, <3>1 DEF LeavePlaced, n
    <3> QED
      BY <2>3, <2>6, <2>9, <3>2 DEF Tied, Quiet
  <2> QED
    BY <1>1, <1>2, <2>8, <2>9 DEF CallSound
<1>6. CASE ~IsConnected
  <2>1. links' = links /\ Goes(c, PastBridge(c))
    BY <1>6 DEF SeeBridge
  <2>2. \A n \in DOMAIN links : n = bridge => ~links[n].running
    BY <1>2, <1>6 DEF IsConnected, IsRunning
  <2>3. RunningLives'
    BY <1>2, <2>1 DEF RunningLives
  <2>4. NoneAlive /\ Out
    <3>1. CASE calls[c].op = "join"
      BY <1>4, <2>2, <3>1 DEF BridgeRuns, NoneAlive
    <3>2. CASE calls[c].op = "leave"
      BY <1>4, <2>2, <3>2 DEF Standing
    <3> QED
      BY <1>1, <1>2, <3>1, <3>2 DEF CallSound
  <2>5. NoneAlive' /\ Out'
    BY <1>3, <2>1, <2>4 DEF NoneAlive, Out, BotOnlyIn, ClientsIn
  <2>6. CASE calls[c].op = "join"
    <3>1. calls' = [calls EXCEPT ![c].at = "connect"]
      BY <2>1, <2>6 DEF Goes, PastBridge
    <3>2. Sole(c)' /\ calls'[c].at = "connect" /\ calls'[c].op = "join"
      BY <1>2, <1>3, <2>6, <3>1, SoleMoves DEF Tied, Places
    <3> QED
      BY <2>3, <2>5, <3>2 DEF Tied, JoinPlaced, Quiet
  <2>7. CASE calls[c].op = "leave"
    <3>1. calls' = [calls EXCEPT ![c].at = "protocol"]
      BY <2>1, <2>7 DEF Goes, PastBridge
    <3>2. Sole(c)' /\ calls'[c].at = "protocol" /\ calls'[c].op = "leave"
      BY <1>2, <1>3, <2>7, <3>1, SoleMoves DEF Tied, Places
    <3> QED
      BY <2>3, <2>5, <3>2 DEF Tied, LeavePlaced, Quiet
  <2> QED
    BY <1>1, <1>2, <2>6, <2>7 DEF CallSound
<1> QED
  BY <1>5, <1>6

LEMMA StopQuiet ==
  ASSUME SessionSound, Quiet, ~overlapped, NEW c \in Callers, Stop(c)
  PROVE  Quiet'
<1>1. calls[c].at = "stopping" /\ Underway(c)
  BY DEF Stop, Resumes, Underway
<1>2. /\ CallTypes /\ CallSound(calls[c], Len(links)) /\ RunningLives /\ Tied(c)
      /\ ListenerTypes /\ DOMAIN links = 1..Len(links)
      /\ \A n \in 1..Len(links) : links[n] \in Link
  BY <1>1, SoundParts, QuietCall
<1>3. UNCHANGED <<protocol, active, joining, registered, barred, botIn, astray>>
  BY DEF Stop, discord
<1> DEFINE n == calls[c].link
           r == [links[n] EXCEPT !.alive = FALSE]
           t == links'
<1>4. /\ n \in 1..Len(links) /\ Halted(n)
      /\ (calls[c].op = "join" => Out) /\ (calls[c].op = "leave" => Joined(n))
  BY <1>1, <1>2 DEF Tied, CallSound, JoinPlaced, LeavePlaced, Linked
<1>5. /\ r \in Link /\ t = [links EXCEPT ![n] = r] /\ ~r.alive /\ ~r.running
      /\ r.gathered = links[n].gathered /\ r.guild = links[n].guild
  BY <1>2, <1>4 DEF Stop, Link, Halted
<1> HIDE DEF n, r, t
<1>6. /\ DOMAIN t = 1..Len(links) /\ t[n] = r
      /\ \A m \in 1..Len(links) : m # n => t[m] = links[m]
  BY <1>2, <1>4, <1>5, LinkSet DEF ListenerTypes
<1>7. RunningLives' /\ NoneAlive'
  BY <1>2, <1>4, <1>5, <1>6 DEF t, RunningLives, NoneAlive, Halted, OnlyAlive
<1>8. CASE calls[c].op = "join"
  <2>1. calls' = [calls EXCEPT ![c].at = "connect"]
    BY <1>8 DEF Stop, PastBridge
  <2>2. Sole(c)' /\ calls'[c].at = "connect" /\ calls'[c].op = "join"
    BY <1>2, <1>3, <1>8, <2>1, SoleMoves DEF Tied, Places
  <2>3. Out'
    BY <1>3, <1>4, <1>8 DEF Out, BotOnlyIn, ClientsIn
  <2> QED
    BY <1>7, <2>2, <2>3 DEF Tied, JoinPlaced, Quiet
<1>9. CASE calls[c].op = "leave"
  <2>1. calls' = [calls EXCEPT ![c].at = "protocol"]
    BY <1>9 DEF Stop, PastBridge
  <2>2. Sole(c)' /\ calls'[c].at = "protocol" /\ calls'[c].op = "leave"
    BY <1>2, <1>3, <1>9, <2>1, SoleMoves DEF Tied, Places
  <2>3. \E m \in DOMAIN links' : Joined(m)'
    BY <1>2, <1>3, <1>4, <1>5, <1>6, <1>9 DEF t, Joined, BotOnlyIn, BotIsIn, ClientsIn
  <2>4. LeavePlaced(calls[c])'
    BY <1>7, <2>2, <2>3 DEF LeavePlaced
  <2> QED
    BY <1>7, <2>2, <2>4 DEF Tied, Quiet
<1> QED
  BY <1>1, <1>2, <1>8, <1>9 DEF CallSound

\* The end of the only call leaves the listener as it must stand.
LEMMA QuietEnds ==
  ASSUME CallTypes, NEW c \in Callers, Sole(c), calls' = [calls EXCEPT ![c] = NoCall],
         joining' = joining \ {calls[c].guild}, RunningLives', Standing'
  PROVE  Quiet'
<1>1. \A d \in Callers : ~Underway(d)'
  BY SoleEnds
<1>2. joining' = {}
  BY DEF Sole
<1> QED
  BY <1>1, <1>2 DEF Untied, Quiet

\* A connection is made, and its process is not yet there.
LEMMA MadeQuiet ==
  ASSUME ListenerTypes, RunningLives, NoneAlive, NEW g \in Guilds, NEW n, n = Len(links) + 1,
         links' = Append(links, [guild |-> g, gathered |-> FALSE, running |-> FALSE,
                                 alive |-> FALSE])
  PROVE  NoneAlive' /\ RunningLives' /\ links'[n].guild = g
<1> DEFINE r == [guild |-> g, gathered |-> FALSE, running |-> FALSE, alive |-> FALSE]
           t == links'
<1>1. r \in Link /\ r.guild = g /\ ~r.running /\ ~r.alive /\ t = Append(links, r)
  BY DEF Link
<1>2. DOMAIN links = 1..Len(links) /\ Len(links) \in Nat
  BY LinksMade
<1> HIDE DEF r, t
<1>3. DOMAIN t = 1..n /\ t[n] = r /\ \A m \in 1..Len(links) : t[m] = links[m]
  BY <1>1, <1>2, AppendProperties, LenProperties DEF ListenerTypes
<1>4. ASSUME NEW m \in 1..n PROVE ~t[m].alive /\ ~t[m].running
  <2>1. m = n \/ m \in 1..Len(links)
    BY <1>2
  <2> QED
    BY <1>1, <1>2, <1>3, <2>1 DEF NoneAlive, RunningLives
<1> QED
  BY <1>1, <1>3, <1>4 DEF NoneAlive, RunningLives, t

LEMMA ConnectQuiet ==
  ASSUME SessionSound, Quiet, ~overlapped, NEW c \in Callers, Connect(c)
  PROVE  Quiet'
<1>1. calls[c].at = "connect" /\ Underway(c)
  BY DEF Connect, Runs, Underway
<1>2. /\ CallTypes /\ CallSound(calls[c], Len(links)) /\ RunningLives /\ Tied(c)
      /\ ListenerTypes /\ SessionRest /\ DOMAIN links = 1..Len(links) /\ Len(links) \in Nat
  BY <1>1, SoundParts, QuietCall
<1>3. /\ calls[c].op = "join" /\ calls[c].guild \in Guilds /\ calls[c].channel \in Channels
      /\ Out /\ NoneAlive
  BY <1>1, <1>2 DEF CallSound, Connecting, Tied, JoinPlaced
<1>0. PICK g, n : g = calls[c].guild /\ n = Len(links) + 1
  OBVIOUS
<1> DEFINE made == Append(links, [guild |-> g, gathered |-> FALSE, running |-> FALSE,
                                  alive |-> FALSE])
<1>4. ASSUME Fails(c)
      PROVE  /\ protocol' = protocol /\ joining' = joining \ {calls[c].guild}
             /\ calls' = [calls EXCEPT ![c] = NoCall]
  BY <1>4 DEF Fails, Ends
<1>5. CASE Fails(c) /\ UNCHANGED <<links, registered, barred, botIn, astray, updates, budget>>
  <2>1. Standing' /\ RunningLives'
    BY <1>2, <1>3, <1>4, <1>5
    DEF Standing, Out, NoneAlive, BotOnlyIn, ClientsIn, RunningLives
  <2> QED
    BY <1>2, <1>4, <1>5, <2>1, QuietEnds DEF Tied
<1>6. CASE /\ links' = made /\ registered' = [registered EXCEPT ![g] = n]
           /\ barred' = barred \cup {g} /\ Fails(c) /\ Unsent /\ UNCHANGED astray
  <2>1. NoneAlive' /\ RunningLives'
    BY <1>0, <1>2, <1>3, <1>6, MadeQuiet
  <2>2. ClientsIn({})'
    BY <1>0, <1>2, <1>3, <1>6 DEF Out, ClientsIn, ListenerTypes
  <2>3. Standing'
    BY <1>3, <1>4, <1>6, <2>1, <2>2 DEF Standing, Out, BotOnlyIn, Unsent
  <2> QED
    BY <1>2, <1>4, <1>6, <2>1, <2>3, QuietEnds DEF Tied
<1>7. CASE /\ links' = made /\ registered' = [registered EXCEPT ![g] = n]
           /\ BotMoves(g, calls[c].channel) /\ Awaits(c, "connecting", n)
           /\ UNCHANGED <<protocol, bridge, active, joining, barred, overlapped, manager,
                          tracked, where>>
  <2>1. NoneAlive' /\ RunningLives' /\ links'[n].guild = g
    BY <1>0, <1>2, <1>3, <1>7, MadeQuiet
  <2>2. /\ Sole(c)' /\ calls'[c].at = "connecting" /\ calls'[c].op = "join"
        /\ calls'[c].link = n /\ calls'[c].guild = g
    BY <1>0, <1>2, <1>3, <1>7, SoleAwaits DEF Tied, Places
  <2>3. BotIsIn(g)' /\ BotOnlyIn({g})'
    <3>1. /\ botIn' = [botIn EXCEPT ![g] = calls[c].channel] /\ astray' = astray \ {g}
          /\ botIn \in [Guilds -> Channels \cup {Nowhere}] /\ g \in Guilds
      BY <1>0, <1>2, <1>3, <1>7 DEF BotMoves, SessionRest, DiscordTypes
    <3>2. calls[c].channel # Nowhere
      BY <1>3, VoiceSessionAssumption DEF Nowhere
    <3> QED
      BY <1>3, <3>1, <3>2 DEF Out, BotOnlyIn, BotIsIn
  <2>4. ClientsIn({g})'
    <3>1. n # 0
      BY <1>0, <1>2
    <3> QED
      BY <1>0, <1>2, <1>3, <1>7, <3>1 DEF Out, ClientsIn, ListenerTypes
  <2>5. protocol' = 0
    BY <1>3, <1>7 DEF Out
  <2>6. JoinPlaced(calls[c])'
    BY <2>1, <2>2, <2>3, <2>4, <2>5 DEF JoinPlaced, Connects
  <2> QED
    BY <2>1, <2>2, <2>6 DEF Tied, Quiet
<1> QED
  BY <1>0, <1>5, <1>6, <1>7 DEF Connect

LEMMA ConnectedQuiet ==
  ASSUME SessionSound, Quiet, ~overlapped, NEW c \in Callers, Connected(c)
  PROVE  Quiet'
<1>1. calls[c].at = "connecting" /\ Underway(c)
  BY DEF Connected, Resumes, Underway
<1>2. /\ CallTypes /\ CallSound(calls[c], Len(links)) /\ RunningLives /\ Tied(c)
      /\ ListenerTypes /\ DOMAIN links = 1..Len(links)
      /\ \A n \in 1..Len(links) : links[n] \in Link
  BY <1>1, SoundParts, QuietCall
<1>0. PICK n, g : n = calls[c].link /\ g = calls[c].guild
  OBVIOUS
<1> DEFINE r == [links[n] EXCEPT !.gathered = TRUE]
           t == links'
<1>3. /\ calls[c].op = "join" /\ n \in 1..Len(links) /\ protocol = 0 /\ NoneAlive
      /\ BotOnlyIn({g}) /\ ClientsIn({g}) /\ links[n].guild = g /\ BotIsIn(g)
  BY <1>0, <1>1, <1>2 DEF CallSound, Linked, Connecting, Tied, JoinPlaced, Connects
<1>4. /\ r \in Link /\ t = [links EXCEPT ![n] = r] /\ r.gathered /\ r.guild = links[n].guild
      /\ r.alive = links[n].alive /\ r.running = links[n].running
  BY <1>0, <1>2, <1>3 DEF Connected, Link
<1>5. /\ bridge' = n /\ UNCHANGED <<protocol, joining, registered, barred, botIn, astray>>
      /\ \E place \in {"spawning", "failing"} : Awaits(c, place, n)
  BY <1>0 DEF Connected, discord
<1>6. PICK place \in {"spawning", "failing"} : Awaits(c, place, n)
  BY <1>5
<1>7. /\ Sole(c)' /\ calls'[c].at = place /\ calls'[c].op = "join"
      /\ calls'[c].link = n /\ calls'[c].guild = g
  BY <1>0, <1>2, <1>3, <1>5, <1>6, SoleAwaits DEF Tied, Places
<1> HIDE DEF r, t
<1>8. /\ DOMAIN t = 1..Len(links) /\ t[n] = r
      /\ \A m \in 1..Len(links) : m # n => t[m] = links[m]
  BY <1>2, <1>3, <1>4, LinkSet DEF ListenerTypes
<1>9. RunningLives' /\ NoneAlive'
  BY <1>2, <1>3, <1>4, <1>8 DEF t, RunningLives, NoneAlive
<1>10. /\ BotOnlyIn({g})' /\ ClientsIn({g})' /\ BotIsIn(g)'
       /\ links'[n].guild = g /\ links'[n].gathered
  BY <1>3, <1>4, <1>5, <1>8 DEF t, BotOnlyIn, ClientsIn, BotIsIn
<1>11. JoinPlaced(calls[c])'
  BY <1>3, <1>5, <1>7, <1>9, <1>10 DEF JoinPlaced, Connects
<1> QED
  BY <1>7, <1>9, <1>11 DEF Tied, Quiet

LEMMA EndedQuiet ==
  ASSUME SessionSound, Quiet, ~overlapped, NEW c \in Callers,
         calls[c].at \in {"connecting", "failing"},
         Disconnected(calls[c].link), Fails(c)
  PROVE  Quiet'
<1>1. Underway(c)
  BY DEF Underway
<1>2. /\ CallTypes /\ CallSound(calls[c], Len(links)) /\ RunningLives /\ Tied(c)
      /\ DOMAIN links = 1..Len(links)
  BY <1>1, SoundParts, QuietCall
<1> DEFINE n == calls[c].link
           g == calls[c].guild
<1>3. /\ n \in 1..Len(links) /\ protocol = 0 /\ NoneAlive
      /\ BotOnlyIn({g}) /\ ClientsIn({g}) /\ links[n].guild = g /\ Disconnected(n)
  BY <1>2 DEF CallSound, Linked, Connecting, Tied, JoinPlaced, Connects
<1> HIDE DEF n
<1>4. /\ DOMAIN links' = DOMAIN links
      /\ \A m \in DOMAIN links : /\ links'[m].alive = links[m].alive
                                 /\ links'[m].running = links[m].running
      /\ BotOnlyIn({links[n].guild}) => BotOnlyIn({})'
      /\ ClientsIn({links[n].guild}) => ClientsIn({})'
  BY <1>3, DisconnectedLinks
<1>5. /\ protocol' = protocol /\ joining' = joining \ {calls[c].guild}
      /\ calls' = [calls EXCEPT ![c] = NoCall]
  BY DEF Fails, Ends
<1>6. RunningLives' /\ NoneAlive'
  BY <1>2, <1>3, <1>4 DEF RunningLives, NoneAlive
<1>7. Standing'
  BY <1>3, <1>4, <1>5, <1>6 DEF Standing, Out
<1> QED
  BY <1>2, <1>5, <1>6, <1>7, QuietEnds DEF Tied

LEMMA TimesOutQuiet ==
  ASSUME SessionSound, Quiet, ~overlapped, NEW c \in Callers, TimesOut(c)
  PROVE  Quiet'
<1>1. calls[c].at = "connecting" /\ Underway(c) /\ Fails(c)
  BY DEF TimesOut, Resumes, Underway
<1>0. PICK n, g : n = calls[c].link /\ g = links[n].guild
  OBVIOUS
<1>2. CASE CleansUp(n) /\ BotMoves(g, Nowhere)
  BY <1>0, <1>1, <1>2, EndedQuiet DEF Disconnected
<1>3. CASE Remains(g) /\ barred' = barred \cup {g} /\ UNCHANGED <<links, registered>>
  <2>1. CallTypes /\ CallSound(calls[c], Len(links)) /\ RunningLives /\ Tied(c)
    BY <1>1, SoundParts, QuietCall
  <2>2. /\ protocol = 0 /\ NoneAlive /\ BotOnlyIn({g}) /\ ClientsIn({g})
    BY <1>0, <1>1, <2>1 DEF CallSound, Connecting, Tied, JoinPlaced, Connects
  <2>3. /\ protocol' = protocol /\ joining' = joining \ {calls[c].guild}
        /\ calls' = [calls EXCEPT ![c] = NoCall]
    BY <1>1 DEF Fails, Ends
  <2>4. BotOnlyIn({})' /\ ClientsIn({})'
    BY <1>3, <2>2 DEF Remains, Unsent, BotOnlyIn, ClientsIn
  <2>5. Standing' /\ RunningLives'
    BY <1>3, <2>1, <2>2, <2>3, <2>4 DEF Standing, Out, NoneAlive, RunningLives
  <2> QED
    BY <2>1, <2>3, <2>5, QuietEnds DEF Tied
<1> QED
  BY <1>0, <1>2, <1>3 DEF TimesOut

LEMMA SpawnedQuiet ==
  ASSUME SessionSound, Quiet, ~overlapped, NEW c \in Callers, Spawned(c)
  PROVE  Quiet'
<1>1. calls[c].at = "spawning" /\ Underway(c)
  BY DEF Spawned, Resumes, Underway
<1>2. /\ CallTypes /\ CallSound(calls[c], Len(links)) /\ RunningLives /\ Tied(c)
      /\ ListenerTypes /\ DOMAIN links = 1..Len(links)
      /\ \A n \in 1..Len(links) : links[n] \in Link
  BY <1>1, SoundParts, QuietCall
<1>0. PICK n, g : n = calls[c].link /\ g = calls[c].guild
  OBVIOUS
<1> DEFINE r == [links[n] EXCEPT !.alive = TRUE, !.running = TRUE]
           t == links'
<1>3. /\ n \in 1..Len(links) /\ NoneAlive /\ BotOnlyIn({g}) /\ BotIsIn(g) /\ ClientsIn({g})
      /\ links[n].guild = g /\ links[n].gathered /\ bridge = n
  BY <1>0, <1>1, <1>2 DEF CallSound, Linked, Connecting, Tied, JoinPlaced, Connects
<1>4. /\ r \in Link /\ t = [links EXCEPT ![n] = r] /\ r.running /\ r.alive
      /\ r.gathered = links[n].gathered /\ r.guild = links[n].guild
  BY <1>0, <1>2, <1>3 DEF Spawned, Link
<1>5. /\ protocol' = n /\ active' = g /\ UNCHANGED <<bridge, registered, barred, botIn, astray>>
      /\ joining' = joining \ {calls[c].guild} /\ calls' = [calls EXCEPT ![c] = NoCall]
  BY <1>0 DEF Spawned, Ends, discord
<1> HIDE DEF r, t
<1>6. /\ DOMAIN t = 1..Len(links) /\ t[n] = r
      /\ \A m \in 1..Len(links) : m # n => t[m] = links[m]
  BY <1>2, <1>3, <1>4, LinkSet DEF ListenerTypes
<1>7. RunningLives' /\ OnlyAlive(n)'
  BY <1>2, <1>3, <1>4, <1>6 DEF t, RunningLives, NoneAlive, OnlyAlive
<1>8. Joined(n)'
  <2>1. BotOnlyIn({g})' /\ BotIsIn(g)' /\ ClientsIn({g})'
    BY <1>3, <1>5 DEF BotOnlyIn, BotIsIn, ClientsIn
  <2>2. n \in DOMAIN links' /\ links'[n].gathered /\ links'[n].guild = g
    BY <1>3, <1>4, <1>6 DEF t
  <2> QED
    BY <1>5, <2>1, <2>2 DEF Joined
<1>9. bridge' = n /\ links'[n].running /\ active' = links'[n].guild /\ n \in DOMAIN links'
  BY <1>3, <1>4, <1>5, <1>6 DEF t
<1>10. Standing'
  BY <1>7, <1>8, <1>9 DEF Standing
<1> QED
  BY <1>2, <1>5, <1>7, <1>10, QuietEnds DEF Tied

LEMMA SpawnFailsQuiet ==
  ASSUME SessionSound, Quiet, ~overlapped, NEW c \in Callers, SpawnFails(c)
  PROVE  Quiet'
<1>1. calls[c].at = "spawning" /\ Underway(c)
  BY DEF SpawnFails, Resumes, Underway
<1>2. CallTypes /\ CallSound(calls[c], Len(links)) /\ RunningLives /\ Tied(c)
  BY <1>1, SoundParts, QuietCall
<1>3. calls[c].op = "join" /\ Connects(calls[c])
  BY <1>1, <1>2 DEF CallSound, Connecting, Tied, JoinPlaced
<1>4. /\ calls' = [calls EXCEPT ![c].at = "failing"]
      /\ UNCHANGED <<links, protocol, joining, registered, barred, botIn, astray>>
  BY DEF SpawnFails, Goes, listener, discord
<1>5. /\ Sole(c)' /\ calls'[c].at = "failing" /\ calls'[c].op = "join"
      /\ calls'[c].link = calls[c].link /\ calls'[c].guild = calls[c].guild
  BY <1>2, <1>3, <1>4, SoleMoves DEF Tied, Places
<1>6. Connects(calls[c])' /\ RunningLives'
  BY <1>2, <1>3, <1>4, <1>5 DEF Connects, NoneAlive, BotOnlyIn, ClientsIn, RunningLives
<1> QED
  BY <1>5, <1>6 DEF Tied, JoinPlaced, Quiet

LEMMA FinishLeaveQuiet ==
  ASSUME SessionSound, Quiet, ~overlapped, NEW c \in Callers, FinishLeave(c)
  PROVE  Quiet'
<1>1. calls[c].at = "finish" /\ Underway(c)
  BY DEF FinishLeave, Runs, Underway
<1>2. CallTypes /\ CallSound(calls[c], Len(links)) /\ RunningLives /\ Tied(c)
  BY <1>1, SoundParts, QuietCall
<1>3. Out /\ NoneAlive
  BY <1>1, <1>2 DEF CallSound, Tied, LeavePlaced
<1>4. /\ joining' = joining \ {calls[c].guild} /\ calls' = [calls EXCEPT ![c] = NoCall]
      /\ UNCHANGED <<links, protocol, registered, barred, botIn, astray>>
  BY DEF FinishLeave, Ends, discord
<1>5. Standing' /\ RunningLives'
  BY <1>2, <1>3, <1>4 DEF Standing, Out, NoneAlive, BotOnlyIn, ClientsIn, RunningLives
<1> QED
  BY <1>2, <1>4, <1>5, QuietEnds DEF Tied

\* A call never makes the calls overlap, only the beginning of one does.
LEMMA CallQuiet ==
  ASSUME SessionSound, Quiet, NEW c \in Callers, Call(c)
  PROVE  Quiet'
<1>1. overlapped' = overlapped
  BY DEF Call, SeeProtocol, Disconnect, SeeBridge, Stop, Connect, Fails, Connected, TimesOut,
         Spawned, SpawnFails, GiveUp, FinishLeave
<1>2. CASE overlapped
  BY <1>1, <1>2 DEF Quiet
<1>3. CASE ~overlapped
  <2>1. CASE GiveUp(c)
    BY <1>3, <2>1, EndedQuiet DEF GiveUp, Resumes
  <2> QED
    BY <1>3, <2>1, TimesOutQuiet, SeeProtocolQuiet, DisconnectQuiet, SeeBridgeQuiet, StopQuiet,
       ConnectQuiet, ConnectedQuiet, SpawnedQuiet, SpawnFailsQuiet, FinishLeaveQuiet DEF Call
<1> QED
  BY <1>2, <1>3

\* The bot is in the same guilds as before, save where it is astray.
BotStays ==
  /\ astray \subseteq astray'
  /\ \A g \in Guilds \ astray' : botIn'[g] # Nowhere <=> botIn[g] # Nowhere

\* A step that neither the listener nor a call under way takes part in.
LEMMA AsideQuiet ==
  ASSUME SessionSound, Quiet, BotStays,
         UNCHANGED <<links, protocol, bridge, active, joining, registered, barred, overlapped>>,
         \A c \in Callers : Underway(c)' <=> Underway(c),
         \A c \in Callers : Underway(c) => calls'[c] = calls[c]
  PROVE  Quiet'
<1>1. RunningLives => RunningLives'
  BY DEF RunningLives
<1>2. /\ \A n \in DOMAIN links : links[n].guild \in Guilds
      /\ \A c \in Callers : Underway(c) => calls[c].guild \in Guilds
  BY LinksMade DEF SessionSound, SessionTypeOK, Link, CallsSound, CallSound, Underway
<1>3. Out => Out'
  BY DEF Out, BotStays, BotOnlyIn, ClientsIn
<1>4. ASSUME NEW n, Joined(n) PROVE Joined(n)'
  BY <1>2, <1>4 DEF Joined, BotStays, BotOnlyIn, BotIsIn, ClientsIn
<1>5. ASSUME NEW k, Connects(k) PROVE Connects(k)'
  BY <1>5 DEF Connects, NoneAlive, BotStays, BotOnlyIn, ClientsIn
<1>6. ASSUME NEW g \in Guilds, BotIsIn(g) PROVE BotIsIn(g)'
  BY <1>6 DEF BotStays, BotIsIn
<1>7. Standing => Standing'
  BY <1>3, <1>4 DEF Standing, NoneAlive, OnlyAlive
<1>8. Untied => Untied'
  BY <1>7 DEF Untied
<1>9. ASSUME NEW c \in Callers, Tied(c) PROVE Tied(c)'
  <2>1. Underway(c) /\ calls'[c] = calls[c]
    BY <1>9 DEF Tied, Sole
  <2>2. Sole(c)'
    BY <1>9, <2>1 DEF Tied, Sole
  <2>0. PICK k : k = calls[c]
    OBVIOUS
  <2>3. k.guild \in Guilds /\ calls'[c] = k
    BY <1>2, <2>0, <2>1
  <2>4. CASE k.op = "join"
    <3>1. JoinPlaced(k)
      BY <1>9, <2>0, <2>4 DEF Tied
    <3>2. JoinPlaced(k)'
      BY <1>3, <1>4, <1>5, <1>6, <1>7, <2>3, <3>1
      DEF JoinPlaced, NoneAlive, OnlyAlive, BridgeRuns, Halted
    <3> QED
      BY <2>2, <2>3, <2>4, <3>2 DEF Tied
  <2>5. CASE k.op = "leave"
    <3>1. LeavePlaced(k)
      BY <1>9, <2>0, <2>5 DEF Tied
    <3>2. LeavePlaced(k)'
      BY <1>3, <1>4, <1>7, <3>1 DEF LeavePlaced, NoneAlive, OnlyAlive, Halted
    <3> QED
      BY <2>2, <2>3, <2>5, <3>2 DEF Tied
  <2> QED
    BY <2>0, <2>2, <2>3, <2>4, <2>5 DEF Tied
<1> QED
  BY <1>1, <1>8, <1>9 DEF Quiet

\* A call that begins while another is under way overlaps, and is noted.
LEMMA BeginsQuiet ==
  ASSUME CallTypes, Quiet, NEW c \in Callers, ~Underway(c), NEW op, NEW at, NEW g, NEW ch,
         Begins(c, op, at, g, ch),
         UNCHANGED <<links, protocol, bridge, active, registered, barred, botIn, astray>>,
         \/ op = "join" /\ at = "protocol" /\ joining' = joining \cup {g}
         \/ op = "leave" /\ at = "bridge" /\ joining' = joining
  PROVE  Quiet'
<1> SUFFICES ASSUME ~overlapped' PROVE Quiet'
  BY DEF Quiet
<1>1. ~overlapped /\ \A d \in Callers : ~Underway(d)
  BY DEF Begins
<1>2. RunningLives /\ joining = {} /\ Standing
  BY <1>1 DEF Quiet, Untied, Tied, Sole
<1>3. RunningLives' /\ Standing'
  BY <1>2 DEF RunningLives, Standing, Out, NoneAlive, BotOnlyIn, BotIsIn, ClientsIn, Joined,
              OnlyAlive
<1>4. /\ calls'[c].op = op /\ calls'[c].at = at /\ calls'[c].guild = g
      /\ \A d \in Callers : d # c => calls'[d] = calls[d]
  BY DEF Begins, CallTypes
<1>5. Sole(c)'
  BY <1>1, <1>2, <1>4 DEF Sole, Underway
<1>6. Tied(c)'
  BY <1>3, <1>4, <1>5 DEF Tied, JoinPlaced, LeavePlaced
<1> QED
  BY <1>3, <1>6 DEF Quiet

LEMMA BeginsJoinQuiet ==
  ASSUME SessionSound, Quiet, NEW c \in Callers, ~Underway(c), NEW g \in Guilds,
         NEW ch \in Channels, BeginsJoin(c, g, ch)
  PROVE  Quiet'
<1>1. CallTypes
  BY SoundParts
<1>2. UNCHANGED <<links, protocol, bridge, active, registered, barred, botIn, astray>>
  BY DEF BeginsJoin, discord
<1>3. CASE g \in joining \/ GuildOf[ch] # g
  <2>1. calls' = [calls EXCEPT ![c] = NoCall] /\ UNCHANGED <<joining, overlapped>>
    BY <1>3 DEF BeginsJoin
  <2>2. \A d \in Callers : calls'[d] = IF d = c THEN NoCall ELSE calls[d]
    BY <1>1, <2>1 DEF CallTypes
  <2>3. \A d \in Callers : Underway(d)' <=> Underway(d)
    BY <2>2 DEF Underway, NoCall
  <2> QED
    BY <1>2, <2>1, <2>2, <2>3, AsideQuiet DEF BotStays
<1>4. CASE ~(g \in joining \/ GuildOf[ch] # g)
  <2>1. Begins(c, "join", "protocol", g, ch) /\ joining' = joining \cup {g}
    BY <1>4 DEF BeginsJoin
  <2> QED
    BY <1>1, <1>2, <2>1, BeginsQuiet
<1> QED
  BY <1>3, <1>4

LEMMA BeginsLeaveQuiet ==
  ASSUME SessionSound, Quiet, NEW c \in Callers, ~Underway(c), NEW g, BeginsLeave(c, g)
  PROVE  Quiet'
<1>1. CallTypes
  BY SoundParts
<1>2. /\ Begins(c, "leave", "bridge", g, Nowhere) /\ joining' = joining
      /\ UNCHANGED <<links, protocol, bridge, active, registered, barred, botIn, astray>>
  BY DEF BeginsLeave, listener, discord
<1> QED
  BY <1>1, <1>2, BeginsQuiet

LEMMA QuietNext == ASSUME SessionSound, Quiet, [SessionNext]_sessionVars PROVE Quiet'
<1>1. ASSUME UNCHANGED <<listener, calls, botIn, astray, overlapped>> PROVE Quiet'
  BY <1>1, AsideQuiet DEF Underway, BotStays, listener
<1>2. CASE UNCHANGED sessionVars
  BY <1>1, <1>2 DEF sessionVars, discord
<1>3. CASE \E c \in Callers : Call(c)
  BY <1>3, CallQuiet
<1>4. CASE Wake
  BY <1>1, <1>4 DEF Wake, discord
<1>5. ASSUME NEW g \in Guilds, NEW m \in Members, NEW ch \in Channels, EvaluatePending(g, m, ch)
      PROVE  Quiet'
  <2>1. Loop \in Callers /\ ~Underway(Loop)
    BY <1>5 DEF EvaluatePending, Callers, Underway, NoCall
  <2>2. BeginsJoin(Loop, g, ch) \/ UNCHANGED <<listener, calls, botIn, astray, overlapped>>
    BY <1>5 DEF EvaluatePending, discord
  <2> QED
    BY <1>1, <2>1, <2>2, BeginsJoinQuiet
<1>6. ASSUME NEW g \in Guilds, CheckLeave(g) PROVE Quiet'
  <2>1. Loop \in Callers /\ ~Underway(Loop)
    BY <1>6 DEF CheckLeave, Callers, Underway, NoCall
  <2>2. BeginsLeave(Loop, g) \/ UNCHANGED <<listener, calls, botIn, astray, overlapped>>
    BY <1>6 DEF CheckLeave, discord
  <2> QED
    BY <1>1, <2>1, <2>2, BeginsLeaveQuiet
<1>7. ASSUME NEW g \in Guilds, AskDecider(g) PROVE Quiet'
  <2>1. CallTypes /\ NoCall \in VoiceCall
    BY SoundParts, NoCallSound DEF Callers
  <2>2. \A d \in Callers : d # Chat => calls'[d] = calls[d]
    BY <1>7, <2>1 DEF AskDecider, CallTypes
  <2>3. calls'[Chat].at = "deciding" /\ calls[Chat].at = "idle"
    BY <1>7, <2>1 DEF AskDecider, CallTypes, NoCall, VoiceCall, Callers
  <2>4. \A d \in Callers : Underway(d)' <=> Underway(d)
    BY <2>2, <2>3 DEF Underway
  <2>5. \A d \in Callers : Underway(d) => calls'[d] = calls[d]
    BY <2>2, <2>3 DEF Underway
  <2>6. /\ UNCHANGED <<links, protocol, bridge, active, joining, registered, barred, overlapped>>
        /\ BotStays
    BY <1>7 DEF AskDecider, BotStays, listener, discord
  <2> QED
    BY <2>4, <2>5, <2>6, AsideQuiet
<1>8. ASSUME NEW g \in Guilds, VoiceAction(g) PROVE Quiet'
  <2>1. Chat \in Callers /\ ~Underway(Chat) /\ CallTypes
    BY <1>8, SoundParts DEF VoiceAction, Callers, Underway
  <2>2. ASSUME NEW ch \in Channels, BeginsJoin(Chat, g, ch) PROVE Quiet'
    BY <2>1, <2>2, BeginsJoinQuiet
  <2>3. CASE BeginsLeave(Chat, g)
    BY <2>1, <2>3, BeginsLeaveQuiet
  <2>4. CASE /\ calls' = [calls EXCEPT ![Chat] = NoCall]
             /\ UNCHANGED <<listener, turn, overlapped, pending, sessions, discord>>
    <3>1. \A d \in Callers : calls'[d] = IF d = Chat THEN NoCall ELSE calls[d]
      BY <2>1, <2>4 DEF CallTypes
    <3>2. \A d \in Callers : Underway(d)' <=> Underway(d)
      BY <2>1, <3>1 DEF Underway, NoCall
    <3>3. \A d \in Callers : Underway(d) => calls'[d] = calls[d]
      BY <2>1, <3>1
    <3> QED
      BY <2>4, <3>2, <3>3, AsideQuiet DEF BotStays, listener, discord
  <2> QED
    BY <1>8, <2>2, <2>3, <2>4 DEF VoiceAction
<1>9. ASSUME NEW g \in Guilds, PanelCall(g) PROVE Quiet'
  <2>1. Panel \in Callers /\ ~Underway(Panel)
    BY <1>9 DEF PanelCall, Callers, Underway, NoCall
  <2>2. (\E ch \in Channels : BeginsJoin(Panel, g, ch)) \/ BeginsLeave(Panel, g)
    BY <1>9 DEF PanelCall
  <2> QED
    BY <2>1, <2>2, BeginsJoinQuiet, BeginsLeaveQuiet
<1>10. CASE OnVoiceStateUpdate
  BY <1>1, <1>10 DEF OnVoiceStateUpdate
<1>11. ASSUME NEW u \in People, UserMoves(u) PROVE Quiet'
  BY <1>1, <1>11 DEF UserMoves
<1>12. ASSUME NEW g \in Guilds, BotMoved(g) PROVE Quiet'
  <2>1. BotStays
    BY <1>12 DEF BotMoved, BotStays, SessionSound, SessionTypeOK, DiscordTypes
  <2> QED
    BY <1>12, <2>1, AsideQuiet DEF BotMoved, Underway, listener
<1> QED
  BY <1>2, <1>3, <1>4, <1>5, <1>6, <1>7, <1>8, <1>9, <1>10, <1>11, <1>12
  DEF SessionNext, Round

LEMMA QuietAgrees == ASSUME SessionSound, Quiet PROVE AgreesWithDiscord
<1> SUFFICES ASSUME ~overlapped, \A c \in Callers : ~Underway(c)
             PROVE  /\ joining = {}
                    /\ IF protocol = 0 THEN ~IsConnected
                       ELSE bridge = protocol /\ IsConnected /\ active = links[protocol].guild
                    /\ \A g \in Guilds \ astray :
                         botIn[g] # Nowhere <=> (protocol # 0 /\ g = active)
                    /\ \A g \in Guilds \ barred :
                         registered[g] # 0 <=> (protocol # 0 /\ g = active)
  BY DEF AgreesWithDiscord
<1>1. /\ ListenerTypes /\ DOMAIN links = 1..Len(links) /\ Len(links) \in Nat
  BY LinksMade DEF SessionSound, SessionTypeOK
<1>2. RunningLives /\ joining = {} /\ Standing
  BY DEF Quiet, Untied, Tied, Sole
<1>3. CASE Out /\ NoneAlive
  <2>1. ~IsConnected
    BY <1>1, <1>2, <1>3 DEF IsConnected, IsRunning, NoneAlive, RunningLives, ListenerTypes
  <2> QED
    BY <1>2, <1>3, <2>1 DEF Out, BotOnlyIn, ClientsIn
<1>4. ASSUME NEW n \in DOMAIN links, Joined(n), bridge = n, links[n].running,
             active = links[n].guild
      PROVE  /\ protocol # 0 /\ bridge = protocol /\ IsConnected
             /\ active = links[protocol].guild
             /\ \A g \in Guilds \ astray : botIn[g] # Nowhere <=> g = active
             /\ \A g \in Guilds \ barred : registered[g] # 0 <=> g = active
  BY <1>1, <1>4 DEF Joined, BotOnlyIn, BotIsIn, ClientsIn, IsConnected, IsRunning
<1> QED
  BY <1>2, <1>3, <1>4 DEF Standing

\* Whatever is alive at a place is the listener's running bridge, or being stopped there.
LEMMA QuietStrands == ASSUME SessionSound, Quiet PROVE StrandedOnlyByOverlap
<1> SUFFICES ASSUME ~overlapped, NEW n \in DOMAIN links, links[n].alive
             PROVE  \/ bridge = n /\ links[n].running
                    \/ \E c \in Callers : calls[c].at = "stopping" /\ calls[c].link = n
  BY DEF StrandedOnlyByOverlap
<1>1. Standing => bridge = n /\ links[n].running
  BY DEF Standing, NoneAlive, OnlyAlive
<1>2. ASSUME NEW c \in Callers, Tied(c)
      PROVE  \/ bridge = n /\ links[n].running
             \/ calls[c].at = "stopping" /\ calls[c].link = n
  <2>1. calls[c] \in VoiceCall /\ CallSound(calls[c], Len(links))
    BY SoundParts
  <2>2. CASE calls[c].op = "join"
    <3>1. calls[c].at \in {"protocol", "disconnecting", "bridge", "stopping", "connect",
                           "connecting", "spawning", "failing"}
      BY <1>2, <2>1, <2>2 DEF Tied, Sole, Underway, CallSound, VoiceCall, Places
    <3> QED
      BY <1>1, <1>2, <2>2, <3>1 DEF Tied, JoinPlaced, BridgeRuns, NoneAlive, Halted, OnlyAlive,
                                    Connects
  <2>3. CASE calls[c].op = "leave"
    <3>1. calls[c].at \in {"protocol", "disconnecting", "bridge", "stopping", "finish"}
      BY <1>2, <2>1, <2>3 DEF Tied, Sole, Underway, CallSound, VoiceCall, Places, Connecting
    <3> QED
      BY <1>1, <1>2, <2>3, <3>1 DEF Tied, LeavePlaced, NoneAlive, Halted, OnlyAlive
  <2> QED
    BY <1>2, <2>1, <2>2, <2>3 DEF Tied, Sole, Underway, CallSound
<1> QED
  BY <1>1, <1>2 DEF Quiet, Untied

LEMMA SessionInductive == SessionSpec => [](SessionSound /\ Quiet)
<1>1. SessionInit => SessionSound /\ Quiet
  BY SoundInit, QuietInit
<1>2. SessionSound /\ Quiet /\ [SessionNext]_sessionVars => SessionSound' /\ Quiet'
  BY SoundNext, QuietNext
<1> QED
  BY <1>1, <1>2, PTL DEF SessionSpec

(* Between calls that never overlapped the listener, its bridge, py-cord    *)
(* and Discord agree on the one guild the bot is in, or that it is in none, *)
(* but for the guilds where an order was not sent or the bot was put out.   *)
THEOREM Agrees == SessionSpec => []AgreesWithDiscord
<1>1. SessionSound /\ Quiet => AgreesWithDiscord
  BY QuietAgrees
<1> QED
  BY <1>1, SessionInductive, PTL

(* Until two calls overlap, every Rust process is the listener's running    *)
(* bridge or is being stopped by the call that saw it.                      *)
THEOREM Strands == SessionSpec => []StrandedOnlyByOverlap
<1>1. SessionSound /\ Quiet => StrandedOnlyByOverlap
  BY QuietStrands
<1> QED
  BY <1>1, SessionInductive, PTL

=============================================================================
