--------------------------- MODULE MessagePipeline ---------------------------
(***************************************************************************)
(* The live path of one Discord message through Serin: on_message hands    *)
(* the message to EnhancedMessageManagerV3.process_message, which records  *)
(* it in recent_messages, builds a MessageContext and drives it through    *)
(* the ten stages of MessagePipeline.process.                              *)
(*                                                                         *)
(* All messages run as tasks of one asyncio loop, so code between two      *)
(* awaits is one step and every await is a place where the tasks of other  *)
(* messages run.  pc[m] names the await (or the stage) message m is        *)
(* suspended at.  A stage may raise at any point of its body; process()    *)
(* turns that into halt_reason = "stage_error" and leaves the loop.  The   *)
(* last stage, MemoryWriteStage, is run by the loop when no stage halted   *)
(* and once more after the loop when one did.                              *)
(*                                                                         *)
(* Data is abstract: a message is a model value, its reply is the fact     *)
(* that final_response is not empty, and a row of recent_messages or an    *)
(* entry of the vector memory is the message it belongs to and who spoke.  *)
(***************************************************************************)
EXTENDS Integers, FiniteSets

CONSTANTS
    Msg,            \* the messages users post in allowed channels
    Channel,        \* the text channels
    chan,           \* the channel each message is posted in
    Addressed,      \* from the creator, with an @mention or the bot's name
    Wordless,       \* messages that carry attachments and no text
    HistoryLimit,   \* the rows of recent_messages a prompt may hold
    StorageFails,   \* may a call on SQLite or Qdrant fail and be swallowed?
    NoMsg           \* "no message": the initial value of shared attributes

ASSUME PipelineAssumption ==
    /\ IsFiniteSet(Msg)
    /\ chan \in [Msg -> Channel]
    /\ Addressed \subseteq Msg
    /\ Wordless \subseteq Msg
    /\ HistoryLimit \in Nat
    /\ StorageFails \in BOOLEAN
    /\ NoMsg \notin Msg

(* The stages before the reply exists that only read state into ctx.       *)
ReadStage == {"retrieve", "plan", "temporal", "personality", "prompt"}

(* The first nine stages, in the order MessagePipeline.build lists them;   *)
(* "typing" is the second half of SendStage, after the simulated typing.   *)
ReplyStage == {"decide"} \cup ReadStage \cup {"llm", "clean", "send", "typing"}

(* MemoryWriteStage: its start, the await of the fact extraction and the   *)
(* await of the contradiction check.                                       *)
WritePoint == {"write", "facts", "contradict"}

PC == {"none", "received", "after", "voice", "done", "lost"}
        \cup ReplyStage \cup WritePoint

Following(p) ==
    CASE p = "decide" -> "retrieve"
      [] p = "retrieve" -> "plan"
      [] p = "plan" -> "temporal"
      [] p = "temporal" -> "personality"
      [] p = "personality" -> "prompt"
      [] p = "prompt" -> "llm"
      [] p = "llm" -> "clean"
      [] p = "clean" -> "send"
      [] p \in {"send", "typing"} -> "write"

HaltReason == {"", "react_only", "boltzmann_ignore", "stage_error"}

(* A row of recent_messages, or the vector memory's entry for a text:      *)
(* storing a text that is already there changes nothing.                   *)
Row == [msg: Msg, from: {"user", "bot"}]

UserRow(m) == [msg |-> m, from |-> "user"]
BotRow(m) == [msg |-> m, from |-> "bot"]

VARIABLES
    pc,             \* where each message's task is suspended
    halt,           \* ctx.halt_reason
    raw,            \* ctx.raw_response is not empty
    final,          \* ctx.final_response is not empty
    sent,           \* ctx.metadata["message_sent"]
    seen,           \* ctx.recent_messages: the history the prompt is built on
    writes,         \* how often MemoryWriteStage has run for the message
    reaction,       \* the delayed emoji reaction of the message
    delivered,      \* messages whose reply Discord has accepted
    recent,         \* the table recent_messages
    memory,         \* the vector memory
    lastReply,      \* manager.last_bot_response (and its channel)
    responses,      \* manager.stats["responses_generated"]
    startOwner,     \* whose start time pipeline._pipeline_started_ts holds
    runRow,         \* whose start time the message's pipeline_runs row holds
    abortFlag,      \* manager.current_state["abort_flag"]
    up              \* the process is running

ctxVars == <<halt, raw, final, sent, seen>>
storeVars == <<recent, memory>>
managerVars == <<lastReply, responses, startOwner, runRow>>
vars == <<pc, ctxVars, writes, reaction, delivered, storeVars, managerVars,
          abortFlag, up>>

TypeOK ==
    /\ pc \in [Msg -> PC]
    /\ halt \in [Msg -> HaltReason]
    /\ raw \in [Msg -> BOOLEAN]
    /\ final \in [Msg -> BOOLEAN]
    /\ sent \in [Msg -> BOOLEAN]
    /\ seen \in [Msg -> SUBSET Row]
    /\ writes \in [Msg -> Nat]
    /\ reaction \in [Msg -> {"none", "pending", "added", "failed"}]
    /\ delivered \subseteq Msg
    /\ recent \subseteq Row
    /\ memory \subseteq Row
    /\ lastReply \in Msg \cup {NoMsg}
    /\ responses \in Nat
    /\ startOwner \in Msg \cup {NoMsg}
    /\ runRow \in [Msg -> Msg \cup {NoMsg}]
    /\ abortFlag \in BOOLEAN
    /\ up \in BOOLEAN

Init ==
    /\ pc = [m \in Msg |-> "none"]
    /\ halt = [m \in Msg |-> ""]
    /\ raw = [m \in Msg |-> FALSE]
    /\ final = [m \in Msg |-> FALSE]
    /\ sent = [m \in Msg |-> FALSE]
    /\ seen = [m \in Msg |-> {}]
    /\ writes = [m \in Msg |-> 0]
    /\ reaction = [m \in Msg |-> "none"]
    /\ delivered = {}
    /\ recent = {}
    /\ memory = {}
    /\ lastReply = NoMsg
    /\ responses = 0
    /\ startOwner = NoMsg
    /\ runRow = [m \in Msg |-> NoMsg]
    /\ abortFlag = FALSE
    /\ up = TRUE

-----------------------------------------------------------------------------
(* Helpers *)

Goto(m, p) == pc' = [pc EXCEPT ![m] = p]

Advance(m) == Goto(m, Following(pc[m]))

(* A store write commits the rows, or fails and is swallowed.              *)
Commit(table, rows) ==
    \/ table' = table \cup rows
    \/ StorageFails /\ table' = table

-----------------------------------------------------------------------------
(* Intake: on_message and the head of process_message *)

(* on_message is dispatched for a message in an allowed channel that is    *)
(* neither a command nor the bot's own.                                    *)
Receive(m) ==
    /\ up
    /\ pc[m] = "none"
    /\ Goto(m, "received")
    /\ UNCHANGED <<ctxVars, writes, reaction, delivered, storeVars,
                   managerVars, abortFlag, up>>

(* The attachments have been read: store the user's row, create the        *)
(* context, enter process() and stop at the broadcast before stage one.    *)
Ingest(m) ==
    /\ up
    /\ pc[m] = "received"
    /\ Commit(recent, {UserRow(m)})
    /\ startOwner' = m
    /\ Goto(m, "decide")
    /\ UNCHANGED <<ctxVars, writes, reaction, delivered, memory, lastReply,
                   responses, runRow, abortFlag, up>>

-----------------------------------------------------------------------------
(* The stages *)

(* A mutant of Decide: the reaction does not halt the run.                 *)
DecideReactsAndReplies(m) ==
    /\ up
    /\ pc[m] = "decide"
    /\ Advance(m)
    /\ \/ UNCHANGED reaction
       \/ m \notin Addressed /\ reaction' = [reaction EXCEPT ![m] = "pending"]
    /\ UNCHANGED <<ctxVars, writes, delivered, storeVars, managerVars,
                   abortFlag, up>>

(* ResponseDecisionStage: the hard overrides always reply, anything else   *)
(* is up to the conversation dynamics.                                     *)
Decide(m) ==
    /\ up
    /\ pc[m] = "decide"
    /\ \/ /\ Advance(m)
          /\ UNCHANGED <<halt, reaction>>
       \/ /\ m \notin Addressed
          /\ halt' = [halt EXCEPT ![m] = "react_only"]
          /\ reaction' = [reaction EXCEPT ![m] = "pending"]
          /\ Goto(m, "after")
       \/ /\ m \notin Addressed
          /\ halt' = [halt EXCEPT ![m] = "boltzmann_ignore"]
          /\ Goto(m, "after")
          /\ UNCHANGED reaction
    /\ UNCHANGED <<raw, final, sent, seen, writes, delivered, storeVars,
                   managerVars, abortFlag, up>>

(* The task created by the decision to react; it outlives the run.         *)
DelayedReact(m) ==
    /\ up
    /\ reaction[m] = "pending"
    /\ \E r \in {"added", "failed"} : reaction' = [reaction EXCEPT ![m] = r]
    /\ UNCHANGED <<pc, ctxVars, writes, delivered, storeVars, managerVars,
                   abortFlag, up>>

(* What the newest-first query on a channel returns: all its rows, or as   *)
(* many as the limit allows (timestamps are not modelled: any so many), or *)
(* none when the query fails.                                              *)
History(c) ==
    LET rows == {r \in recent : chan[r.msg] = c}
    IN  (IF Cardinality(rows) <= HistoryLimit
         THEN {rows}
         ELSE {some \in SUBSET rows : Cardinality(some) = HistoryLimit})
        \cup (IF StorageFails THEN {{}} ELSE {})

(* MemoryRetrievalStage: build_context reads the channel's history.        *)
Retrieve(m) ==
    /\ up
    /\ pc[m] = "retrieve"
    /\ \E rows \in History(chan[m]) : seen' = [seen EXCEPT ![m] = rows]
    /\ Advance(m)
    /\ UNCHANGED <<halt, raw, final, sent, writes, reaction, delivered,
                   storeVars, managerVars, abortFlag, up>>

(* A stage that fills ctx from state this module does not hold.            *)
ReadOnlyStage(m, p) ==
    /\ up
    /\ pc[m] = p
    /\ Advance(m)
    /\ UNCHANGED <<ctxVars, writes, reaction, delivered, storeVars,
                   managerVars, abortFlag, up>>

Plan(m) == ReadOnlyStage(m, "plan")
ResolveTime(m) == ReadOnlyStage(m, "temporal")
ReadPersonality(m) == ReadOnlyStage(m, "personality")
AssemblePrompt(m) == ReadOnlyStage(m, "prompt")

ReadContext(m) ==
    Plan(m) \/ ResolveTime(m) \/ ReadPersonality(m) \/ AssemblePrompt(m)

(* LLMCallStage: the generator's answer (or its fallback line) arrives;    *)
(* it may be blank.                                                        *)
LLMReturn(m) ==
    /\ up
    /\ pc[m] = "llm"
    /\ \E text \in BOOLEAN : raw' = [raw EXCEPT ![m] = text]
    /\ Advance(m)
    /\ UNCHANGED <<halt, final, sent, seen, writes, reaction, delivered,
                   storeVars, managerVars, abortFlag, up>>

(* ResponseCleaningStage: a blank answer stays blank, and stripping the    *)
(* thinking tags may leave nothing of one that was not.                    *)
Clean(m) ==
    /\ up
    /\ pc[m] = "clean"
    /\ \E keep \in BOOLEAN : final' = [final EXCEPT ![m] = raw[m] /\ keep]
    /\ Advance(m)
    /\ UNCHANGED <<halt, raw, sent, seen, writes, reaction, delivered,
                   storeVars, managerVars, abortFlag, up>>

(* SendStage with nothing to say falls through; otherwise it types.        *)
Send(m) ==
    /\ up
    /\ pc[m] = "send"
    /\ IF final[m] THEN Goto(m, "typing") ELSE Advance(m)
    /\ UNCHANGED <<ctxVars, writes, reaction, delivered, storeVars,
                   managerVars, abortFlag, up>>

(* The typing delay is over and channel.send returns.                      *)
SendReply(m) ==
    /\ up
    /\ pc[m] = "typing"
    /\ delivered' = delivered \cup {m}
    /\ sent' = [sent EXCEPT ![m] = TRUE]
    /\ Advance(m)
    /\ UNCHANGED <<halt, raw, final, seen, writes, reaction, storeVars,
                   managerVars, abortFlag, up>>

(* One of the first nine stages raises.  channel.send may raise before or  *)
(* after Discord accepted the message.                                     *)
StageError(m) ==
    /\ up
    /\ pc[m] \in ReplyStage
    /\ halt' = [halt EXCEPT ![m] = "stage_error"]
    /\ Goto(m, "after")
    /\ \/ delivered' = delivered
       \/ pc[m] = "typing" /\ delivered' = delivered \cup {m}
    /\ UNCHANGED <<raw, final, sent, seen, writes, reaction, storeVars,
                   managerVars, abortFlag, up>>

-----------------------------------------------------------------------------
(* MemoryWriteStage and the tail of process() and process_message *)

(* What a store call on a row leaves behind: the row, or nothing.          *)
Stored(r) == {{r}} \cup (IF StorageFails THEN {{}} ELSE {})

(* Step 3 of the perception of a message with text.                        *)
Perceived(m) == IF m \in Wordless THEN {{}} ELSE Stored(UserRow(m))

(* Mutant: a reply that channel.send raised on is skipped.                 *)
StoreReplyIfSent(m, entry) ==
    IF sent[m]
    THEN /\ \E b \in Stored(BotRow(m)) : memory' = memory \cup entry \cup b
         /\ Commit(recent, {BotRow(m)})
    ELSE memory' = memory \cup entry /\ UNCHANGED recent

(* The end of the stage stores the bot's reply when there is one, whatever *)
(* became of it, in the vector memory and in recent_messages.              *)
StoreReply(m, entry) ==
    IF final[m]
    THEN /\ \E b \in Stored(BotRow(m)) : memory' = memory \cup entry \cup b
         /\ Commit(recent, {BotRow(m)})
    ELSE /\ memory' = memory \cup entry
         /\ UNCHANGED recent


(* process() records its pipeline_runs row and returns; process_message    *)
(* notes the reply and asks the voice action decider.                      *)
FinishRun(m) ==
    /\ runRow' = [runRow EXCEPT ![m] = startOwner]
    /\ lastReply' = IF final[m] THEN m ELSE lastReply
    /\ responses' = IF final[m] THEN responses + 1 ELSE responses
    /\ UNCHANGED startOwner
    /\ Goto(m, "voice")

(* The stage is over: back to the loop's last broadcast, or, when it ran   *)
(* after the loop, straight to the end of the run.                         *)
EndWrite(m, entry) ==
    /\ StoreReply(m, entry)
    /\ IF halt[m] = ""
       THEN Goto(m, "after") /\ UNCHANGED managerVars
       ELSE FinishRun(m)

(* The stage starts: affect, perception and the user's memory entry in one *)
(* step.  It then awaits the fact extraction, unless the small LLM is not  *)
(* connected, the message has no text or the perception raised.            *)
BeginWrite(m) ==
    /\ writes' = [writes EXCEPT ![m] = @ + 1]
    /\ \E entry \in Perceived(m) :
        \/ /\ m \notin Wordless
           /\ memory' = memory \cup entry
           /\ Goto(m, "facts")
           /\ UNCHANGED <<recent, managerVars>>
        \/ EndWrite(m, entry)

(* The loop reaches the last stage.                                        *)
StartWrite(m) ==
    /\ up
    /\ pc[m] = "write"
    /\ BeginWrite(m)
    /\ UNCHANGED <<ctxVars, reaction, delivered, abortFlag, up>>

(* The extracted facts are stored; the contradiction check awaits the LLM  *)
(* again if the user has known facts.                                      *)
FactsReturn(m) ==
    /\ up
    /\ pc[m] = "facts"
    /\ \/ Goto(m, "contradict") /\ UNCHANGED <<storeVars, managerVars>>
       \/ EndWrite(m, {})
    /\ UNCHANGED <<ctxVars, writes, reaction, delivered, abortFlag, up>>

ContradictionsReturn(m) ==
    /\ up
    /\ pc[m] = "contradict"
    /\ EndWrite(m, {})
    /\ UNCHANGED <<ctxVars, writes, reaction, delivered, abortFlag, up>>

(* Mutant: only a silent run, not a failed one, is written after the loop. *)

LeaveLoopForgetsErrors(m) ==
    /\ up
    /\ pc[m] = "after"
    /\ IF halt[m] \in {"", "stage_error"}
       THEN FinishRun(m) /\ UNCHANGED <<storeVars, writes>>
       ELSE BeginWrite(m)
    /\ UNCHANGED <<ctxVars, reaction, delivered, abortFlag, up>>

(* The loop is left.  A halted run still owes its MemoryWriteStage.        *)
LeaveLoop(m) ==
    /\ up
    /\ pc[m] = "after"
    /\ IF halt[m] = ""
       THEN FinishRun(m) /\ UNCHANGED <<storeVars, writes>>
       ELSE BeginWrite(m)
    /\ UNCHANGED <<ctxVars, reaction, delivered, abortFlag, up>>

(* The decider has answered and the callback, if any, has returned.        *)
VoiceChecked(m) ==
    /\ up
    /\ pc[m] = "voice"
    /\ Goto(m, "done")
    /\ UNCHANGED <<ctxVars, writes, reaction, delivered, storeVars,
                   managerVars, abortFlag, up>>

-----------------------------------------------------------------------------
(* The control panel and the end of the process *)

(* abort_current_generation; nothing clears the flag again.                *)
AbortGeneration ==
    /\ up
    /\ abortFlag' = TRUE
    /\ UNCHANGED <<pc, ctxVars, writes, reaction, delivered, storeVars,
                   managerVars, up>>

(* The loop closes and every task still alive is cancelled at its await:   *)
(* no "except Exception" catches that, so not even MemoryWriteStage runs.  *)
Shutdown ==
    /\ up
    /\ up' = FALSE
    /\ pc' = [m \in Msg |-> IF pc[m] \in {"none", "done"} THEN pc[m] ELSE "lost"]
    /\ UNCHANGED <<ctxVars, writes, reaction, delivered, storeVars,
                   managerVars, abortFlag>>

Stopped == ~up /\ UNCHANGED vars

(* What the event loop owes a message once it has been received.           *)
Step(m) ==
    \/ Ingest(m) \/ Decide(m) \/ Retrieve(m) \/ ReadContext(m) \/ LLMReturn(m)
    \/ Clean(m) \/ Send(m) \/ SendReply(m) \/ StageError(m) \/ StartWrite(m)
    \/ FactsReturn(m) \/ ContradictionsReturn(m) \/ LeaveLoop(m)
    \/ VoiceChecked(m)

Next ==
    \/ \E m \in Msg : Receive(m) \/ Step(m) \/ DelayedReact(m)
    \/ AbortGeneration
    \/ Shutdown
    \/ Stopped

Spec == Init /\ [][Next]_vars

(* Every await of a run ends: the connector's HTTP client has time-outs,    *)
(* discord.py's calls return or raise, and the panel's broadcast drops a   *)
(* socket that raises (one that merely stalls is assumed away).            *)
FairSpec == Spec /\ \A m \in Msg : WF_vars(Step(m))

-----------------------------------------------------------------------------
(* Properties *)

Finished == {m \in Msg : pc[m] \in {"voice", "done"}}

(* MemoryWriteStage runs exactly once for every message whose run ends,    *)
(* however the run ended: the loop's own call and the call after the loop  *)
(* neither both happen nor are both skipped.                               *)
WrittenOnce ==
    \A m \in Msg : /\ writes[m] <= 1
                   /\ m \in Finished => writes[m] = 1

(* A message that got an emoji reaction got nothing else: no reply of the  *)
(* bot was sent, remembered or recorded in its history for it.             *)
ReactionOrReply ==
    \A m \in Msg : reaction[m] # "none" =>
        m \notin delivered /\ BotRow(m) \notin memory \cup recent

(* Whatever Discord accepted is in both memories when the run is over, so  *)
(* later turns can see what the bot has said.                              *)
DeliveredIsRemembered ==
    ~StorageFails =>
        \A m \in Finished \cap delivered : BotRow(m) \in memory \cap recent

(* Nothing is sent for a message once its exchange has been written: the   *)
(* memory never records a reply first and sends it later.                  *)
NothingSentAfterWrite ==
    [][\A m \in Msg : writes[m] # 0 /\ m \in delivered' => m \in delivered]_vars

(* Every received message is written to memory unless the process stops,   *)
(* whatever stage fails.                                                   *)
EveryMessageIsWritten ==
    \A m \in Msg : pc[m] = "received" ~> (writes[m] > 0 \/ ~up)

(* What a run is, without its stages (see ConversationTurn): its turn is    *)
(* open from on_message to the end of process(), it is answered when        *)
(* Discord has the reply, and remembered when MemoryWriteStage has run.     *)
TurnPhase(m) ==
    CASE pc[m] = "none" -> "absent"
      [] pc[m] \in {"voice", "done"} -> "closed"
      [] pc[m] = "lost" -> IF runRow[m] = NoMsg THEN "lost" ELSE "closed"
      [] OTHER -> "open"

Remembered == {m \in Msg : writes[m] # 0}

Turns == INSTANCE ConversationTurn
            WITH Turn <- Msg,
                 phase <- [m \in Msg |-> TurnPhase(m)],
                 answered <- delivered,
                 remembered <- Remembered

(* The stages, however they fail and interleave, keep the promise of the   *)
(* abstract turn: at most one answer, none after the turn is remembered,   *)
(* and no end of a turn that was not remembered.                           *)
ImplementsTurn == Turns!Spec

(* The invariants behind the properties above.  Where a run is determines  *)
(* whether its stage has been written and its row recorded ...             *)
WriteState(m) ==
    /\ pc[m] \in {"none", "received", "write"} \cup ReplyStage =>
            halt[m] = "" /\ writes[m] = 0
    /\ pc[m] = "after" => writes[m] = IF halt[m] = "" THEN 1 ELSE 0
    /\ pc[m] \in {"facts", "contradict", "voice", "done"} => writes[m] = 1
    /\ pc[m] = "lost" => writes[m] \in {0, 1} /\ (runRow[m] # NoMsg => writes[m] = 1)
    /\ pc[m] \in {"voice", "done"} => runRow[m] \in Msg
    /\ pc[m] \notin {"voice", "done", "lost"} => runRow[m] = NoMsg
    /\ pc[m] \notin {"none", "received", "lost"} => startOwner \in Msg

(* ... and a reply, sent, remembered or in the history, is always one that *)
(* the cleaning stage has left in ctx.final_response.                      *)
ReplyState(m) ==
    /\ final[m] => /\ pc[m] \in {"send", "typing", "after", "voice", "done", "lost"} \cup WritePoint
                   /\ halt[m] \in {"", "stage_error"}
    /\ pc[m] = "typing" => final[m]
    /\ m \in delivered => final[m]
    /\ BotRow(m) \in memory \cup recent => final[m]
    /\ reaction[m] # "none" => halt[m] = "react_only"
    /\ ~StorageFails /\ final[m] /\ (m \in Finished \/ (pc[m] = "after" /\ halt[m] = "")) =>
            BotRow(m) \in memory \cap recent

RunInv == \A m \in Msg : WriteState(m) /\ ReplyState(m)
=============================================================================
