------------------------ MODULE MessagePipelineProofs ------------------------
(***************************************************************************)
(* Proofs about MessagePipeline and ReplyContent for every set of          *)
(* messages, every assignment of channels, every limit on the history and  *)
(* whether or not storage fails.                                           *)
(***************************************************************************)
EXTENDS ReplyContent, FiniteSetTheorems, SequenceTheorems, TLAPS

-----------------------------------------------------------------------------
(* Lemmas about the operators the actions are built from *)

(* A stage is followed by a point at which a run can be suspended.         *)
LEMMA FollowingType ==
    ASSUME NEW p \in ReplyStage
    PROVE  Following(p) \in ReplyStage \cup {"write"}
  BY DEF Following, ReplyStage, ReadStage

(* The history query returns a subset of the table.                        *)
LEMMA HistoryType ==
    ASSUME NEW c, NEW rows \in History(c)
    PROVE  rows \subseteq recent
  BY DEF History

(* A store call leaves its row or nothing.                                 *)
LEMMA PerceivedType ==
    ASSUME NEW m \in Msg, NEW entry \in Perceived(m)
    PROVE  entry \subseteq Row
  BY DEF Perceived, Stored, UserRow, Row

LEMMA StoredBotType ==
    ASSUME NEW m \in Msg, NEW entry \in Stored(BotRow(m))
    PROVE  entry \subseteq Row
  BY DEF Stored, BotRow, Row

(* Storing the reply only adds rows of the right kind.                     *)
LEMMA StoreReplyType ==
    ASSUME TypeOK, NEW m \in Msg, NEW entry, entry \subseteq Row,
           StoreReply(m, entry)
    PROVE  recent' \subseteq Row /\ memory' \subseteq Row
  <1>1. CASE final[m]
    <2>1. memory' \subseteq Row
      BY <1>1, StoredBotType DEF StoreReply, TypeOK
    <2>2. {BotRow(m)} \subseteq Row
      BY DEF BotRow, Row
    <2>3. recent' \subseteq Row
      BY <1>1, <2>2 DEF StoreReply, Commit, TypeOK
    <2>. QED BY <2>1, <2>3
  <1>2. CASE ~final[m]
    BY <1>2 DEF StoreReply, TypeOK
  <1>. QED BY <1>1, <1>2

(* The parts of the type invariant that FinishRun and the write points of  *)
(* MemoryWriteStage touch.                                                 *)
TypeWritten ==
    /\ pc \in [Msg -> PC]
    /\ recent \subseteq Row
    /\ memory \subseteq Row
    /\ lastReply \in Msg \cup {NoMsg}
    /\ responses \in Nat
    /\ startOwner \in Msg \cup {NoMsg}
    /\ runRow \in [Msg -> Msg \cup {NoMsg}]

LEMMA GotoType ==
    ASSUME TypeOK, NEW m \in Msg, NEW p \in PC, Goto(m, p)
    PROVE  pc' \in [Msg -> PC]
  BY DEF Goto, TypeOK

LEMMA AdvanceType ==
    ASSUME TypeOK, NEW m \in Msg, pc[m] \in ReplyStage, Advance(m)
    PROVE  pc' \in [Msg -> PC]
  BY FollowingType DEF Advance, Goto, TypeOK, PC, WritePoint

LEMMA FinishRunType ==
    ASSUME TypeOK, NEW m \in Msg, FinishRun(m)
    PROVE  /\ pc' \in [Msg -> PC]
           /\ lastReply' \in Msg \cup {NoMsg}
           /\ responses' \in Nat
           /\ startOwner' \in Msg \cup {NoMsg}
           /\ runRow' \in [Msg -> Msg \cup {NoMsg}]
  BY DEF FinishRun, Goto, TypeOK, PC

LEMMA EndWriteType ==
    ASSUME TypeOK, NEW m \in Msg, NEW entry, entry \subseteq Row,
           EndWrite(m, entry)
    PROVE  TypeWritten'
  <1>1. recent' \subseteq Row /\ memory' \subseteq Row
    BY StoreReplyType DEF EndWrite
  <1>2. CASE halt[m] = ""
    BY <1>1, <1>2 DEF EndWrite, Goto, managerVars, TypeWritten, TypeOK, PC
  <1>3. CASE halt[m] # ""
    BY <1>1, <1>3, FinishRunType DEF EndWrite, TypeWritten
  <1>. QED BY <1>2, <1>3

LEMMA BeginWriteType ==
    ASSUME TypeOK, NEW m \in Msg, BeginWrite(m)
    PROVE  TypeWritten' /\ writes' \in [Msg -> Nat]
  <1>1. writes' \in [Msg -> Nat]
    BY DEF BeginWrite, TypeOK
  <1>2. PICK entry \in Perceived(m) :
          \/ /\ memory' = memory \cup entry
             /\ Goto(m, "facts")
             /\ UNCHANGED <<recent, managerVars>>
          \/ EndWrite(m, entry)
    BY DEF BeginWrite
  <1>3. entry \subseteq Row
    BY PerceivedType
  <1>4. CASE EndWrite(m, entry)
    BY <1>1, <1>3, <1>4, EndWriteType
  <1>5. CASE /\ memory' = memory \cup entry
             /\ Goto(m, "facts")
             /\ UNCHANGED <<recent, managerVars>>
    BY <1>1, <1>3, <1>5 DEF Goto, managerVars, TypeWritten, TypeOK, PC, WritePoint
  <1>. QED BY <1>2, <1>4, <1>5

(* The four stages that only fill ctx.                                     *)
LEMMA ReadContextStep ==
    ASSUME NEW m \in Msg, ReadContext(m)
    PROVE  /\ up
           /\ pc[m] \in {"plan", "temporal", "personality", "prompt"}
           /\ pc[m] \in ReadStage \ {"retrieve"}
           /\ Advance(m)
           /\ UNCHANGED <<ctxVars, writes, reaction, delivered, storeVars,
                          managerVars, abortFlag, up>>
  BY DEF ReadContext, Plan, ResolveTime, ReadPersonality, AssemblePrompt,
         ReadOnlyStage, ReadStage

-----------------------------------------------------------------------------
(* Type correctness *)

(* Every step of a message keeps the type invariant.                       *)
LEMMA StepType ==
    ASSUME TypeOK, PipelineAssumption, NEW m \in Msg,
           Receive(m) \/ Step(m) \/ DelayedReact(m)
    PROVE  TypeOK'
  <1>. USE DEF ctxVars, storeVars, managerVars
  <1>1. CASE Receive(m)
    BY <1>1 DEF Receive, Goto, TypeOK, PC
  <1>2. CASE DelayedReact(m)
    BY <1>2 DEF DelayedReact, TypeOK
  <1>3. CASE Ingest(m)
    <2>1. pc' \in [Msg -> PC]
      BY <1>3 DEF Ingest, Goto, TypeOK, PC, ReplyStage
    <2>2. recent' \subseteq Row
      BY <1>3 DEF Ingest, Commit, UserRow, Row, TypeOK
    <2>. QED BY <1>3, <2>1, <2>2 DEF Ingest, TypeOK
  <1>4. CASE Decide(m)
    <2>1. pc' \in [Msg -> PC]
      BY <1>4, AdvanceType, GotoType DEF Decide, PC, ReplyStage
    <2>2. halt' \in [Msg -> HaltReason]
      BY <1>4 DEF Decide, TypeOK, HaltReason
    <2>3. reaction' \in [Msg -> {"none", "pending", "added", "failed"}]
      BY <1>4 DEF Decide, TypeOK
    <2>. QED BY <1>4, <2>1, <2>2, <2>3 DEF Decide, TypeOK
  <1>5. CASE Retrieve(m)
    <2>1. pc' \in [Msg -> PC]
      BY <1>5, AdvanceType DEF Retrieve, ReplyStage, ReadStage
    <2>2. seen' \in [Msg -> SUBSET Row]
      BY <1>5, HistoryType DEF Retrieve, TypeOK
    <2>. QED BY <1>5, <2>1, <2>2 DEF Retrieve, TypeOK
  <1>6. CASE ReadContext(m)
    <2>1. pc' \in [Msg -> PC]
      BY <1>6, AdvanceType, ReadContextStep DEF ReplyStage
    <2>. QED BY <1>6, <2>1, ReadContextStep DEF TypeOK
  <1>7. CASE LLMReturn(m)
    <2>1. pc' \in [Msg -> PC]
      BY <1>7, AdvanceType DEF LLMReturn, ReplyStage
    <2>2. raw' \in [Msg -> BOOLEAN]
      <3>1. PICK text \in BOOLEAN : raw' = [raw EXCEPT ![m] = text]
        BY <1>7 DEF LLMReturn
      <3>. QED BY <3>1 DEF TypeOK
    <2>. QED BY <1>7, <2>1, <2>2 DEF LLMReturn, TypeOK
  <1>8. CASE Clean(m)
    <2>1. pc' \in [Msg -> PC]
      BY <1>8, AdvanceType DEF Clean, ReplyStage
    <2>2. final' \in [Msg -> BOOLEAN]
      <3>1. PICK keep \in BOOLEAN : final' = [final EXCEPT ![m] = raw[m] /\ keep]
        BY <1>8 DEF Clean
      <3>2. (raw[m] /\ keep) \in BOOLEAN
        OBVIOUS
      <3>. QED BY <3>1, <3>2 DEF TypeOK
    <2>. QED BY <1>8, <2>1, <2>2 DEF Clean, TypeOK
  <1>9. CASE Send(m)
    <2>1. pc' \in [Msg -> PC]
      BY <1>9, AdvanceType, GotoType DEF Send, PC, ReplyStage
    <2>. QED BY <1>9, <2>1 DEF Send, TypeOK
  <1>10. CASE SendReply(m)
    <2>1. pc' \in [Msg -> PC]
      BY <1>10, AdvanceType DEF SendReply, ReplyStage
    <2>. QED BY <1>10, <2>1 DEF SendReply, TypeOK
  <1>11. CASE StageError(m)
    <2>1. pc' \in [Msg -> PC]
      BY <1>11, GotoType DEF StageError, PC
    <2>2. halt' \in [Msg -> HaltReason]
      BY <1>11 DEF StageError, TypeOK, HaltReason
    <2>. QED BY <1>11, <2>1, <2>2 DEF StageError, TypeOK
  <1>12. CASE StartWrite(m)
    BY <1>12, BeginWriteType DEF StartWrite, TypeWritten, TypeOK
  <1>13. CASE FactsReturn(m)
    <2>1. TypeWritten'
      <3>1. CASE Goto(m, "contradict") /\ UNCHANGED <<storeVars, managerVars>>
        BY <3>1 DEF Goto, TypeWritten, TypeOK, PC, WritePoint
      <3>2. CASE EndWrite(m, {})
        BY <3>2, EndWriteType
      <3>. QED BY <1>13, <3>1, <3>2 DEF FactsReturn
    <2>. QED BY <1>13, <2>1 DEF FactsReturn, TypeWritten, TypeOK
  <1>14. CASE ContradictionsReturn(m)
    <2>1. TypeWritten'
      BY <1>14, EndWriteType DEF ContradictionsReturn
    <2>. QED BY <1>14, <2>1 DEF ContradictionsReturn, TypeWritten, TypeOK
  <1>15. CASE LeaveLoop(m)
    <2>1. CASE halt[m] = ""
      BY <1>15, <2>1, FinishRunType DEF LeaveLoop, TypeOK
    <2>2. CASE halt[m] # ""
      BY <1>15, <2>2, BeginWriteType DEF LeaveLoop, TypeWritten, TypeOK
    <2>. QED BY <2>1, <2>2
  <1>16. CASE VoiceChecked(m)
    BY <1>16 DEF VoiceChecked, Goto, TypeOK, PC
  <1>. QED BY <1>1, <1>2, <1>3, <1>4, <1>5, <1>6, <1>7, <1>8, <1>9, <1>10,
              <1>11, <1>12, <1>13, <1>14, <1>15, <1>16 DEF Step

LEMMA TypeInit == Init => TypeOK
  <1>. SUFFICES ASSUME Init
                PROVE  TypeOK
    OBVIOUS
  <1>1. pc \in [Msg -> PC] /\ halt \in [Msg -> HaltReason]
    BY DEF Init, PC, HaltReason
  <1>2. /\ raw \in [Msg -> BOOLEAN]
        /\ final \in [Msg -> BOOLEAN]
        /\ sent \in [Msg -> BOOLEAN]
    BY Zenon DEF Init
  <1>3. /\ seen \in [Msg -> SUBSET Row]
        /\ writes \in [Msg -> Nat]
        /\ reaction \in [Msg -> {"none", "pending", "added", "failed"}]
    BY DEF Init
  <1>4. /\ delivered \subseteq Msg
        /\ recent \subseteq Row
        /\ memory \subseteq Row
        /\ lastReply \in Msg \cup {NoMsg}
        /\ responses \in Nat
    BY DEF Init
  <1>5. /\ startOwner \in Msg \cup {NoMsg}
        /\ runRow \in [Msg -> Msg \cup {NoMsg}]
        /\ abortFlag \in BOOLEAN
        /\ up \in BOOLEAN
    BY DEF Init
  <1>. QED BY <1>1, <1>2, <1>3, <1>4, <1>5 DEF TypeOK

LEMMA TypeNext == TypeOK /\ [Next]_vars => TypeOK'
  <1>. SUFFICES ASSUME TypeOK, [Next]_vars
                PROVE  TypeOK'
    OBVIOUS
  <1>. USE DEF ctxVars, storeVars, managerVars
  <1>1. ASSUME NEW m \in Msg, Receive(m) \/ Step(m) \/ DelayedReact(m)
        PROVE  TypeOK'
    BY <1>1, PipelineAssumption, StepType
  <1>2. CASE AbortGeneration
    BY <1>2 DEF AbortGeneration, TypeOK
  <1>3. CASE Shutdown
    <2>1. pc' \in [Msg -> PC]
      BY <1>3 DEF Shutdown, TypeOK, PC
    <2>. QED BY <1>3, <2>1 DEF Shutdown, TypeOK
  <1>4. CASE Stopped \/ UNCHANGED vars
    BY <1>4 DEF Stopped, vars, TypeOK
  <1>. QED BY <1>1, <1>2, <1>3, <1>4 DEF Next

(* Every variable keeps its type in every behaviour.                       *)
THEOREM TypeCorrect == Spec => []TypeOK
  BY TypeInit, TypeNext, PTL DEF Spec

-----------------------------------------------------------------------------
(* The invariant of a run *)

(* What WriteState and ReplyState say of message n, apart from startOwner, *)
(* is left alone.                                                          *)
Untouched(n) ==
    /\ pc'[n] = pc[n]
    /\ halt'[n] = halt[n]
    /\ final'[n] = final[n]
    /\ writes'[n] = writes[n]
    /\ reaction'[n] = reaction[n]
    /\ runRow'[n] = runRow[n]
    /\ n \in delivered' <=> n \in delivered
    /\ BotRow(n) \in memory' <=> BotRow(n) \in memory
    /\ BotRow(n) \in recent' <=> BotRow(n) \in recent

(* Rows of different messages or speakers are different rows.              *)
LEMMA RowsDiffer ==
    ASSUME NEW m, NEW n
    PROVE  /\ UserRow(m) # BotRow(n)
           /\ m # n => BotRow(m) # BotRow(n)
  BY DEF UserRow, BotRow

(* The perception of a message stores no bot row.                          *)
LEMMA PerceivedIsUserRow ==
    ASSUME NEW m, NEW n, NEW entry \in Perceived(m)
    PROVE  BotRow(n) \notin entry
  BY RowsDiffer DEF Perceived, Stored

(* Storing m's reply stores no other message's reply, and m's own only if  *)
(* there is one; without storage faults it is then in both memories.       *)
LEMMA StoreReplyEffect ==
    ASSUME NEW m \in Msg, NEW entry, \A n \in Msg : BotRow(n) \notin entry,
           StoreReply(m, entry)
    PROVE  /\ \A n \in Msg : n # m \/ ~final[m] =>
                /\ BotRow(n) \in memory' <=> BotRow(n) \in memory
                /\ BotRow(n) \in recent' <=> BotRow(n) \in recent
           /\ ~StorageFails /\ final[m] => BotRow(m) \in memory' \cap recent'
  <1>1. CASE ~final[m]
    BY <1>1 DEF StoreReply
  <1>2. CASE final[m]
    <2>1. PICK b \in Stored(BotRow(m)) : memory' = memory \cup entry \cup b
      BY <1>2 DEF StoreReply
    <2>2. b \subseteq {BotRow(m)} /\ (~StorageFails => b = {BotRow(m)})
      BY DEF Stored
    <2>3. \/ recent' = recent \cup {BotRow(m)}
          \/ StorageFails /\ recent' = recent
      BY <1>2 DEF StoreReply, Commit
    <2>. QED BY <1>2, <2>1, <2>2, <2>3, RowsDiffer
  <1>. QED BY <1>1, <1>2

(* The effect of the end of MemoryWriteStage on the messages.              *)
LEMMA EndWriteOthers ==
    ASSUME TypeOK, NEW m \in Msg, NEW n \in Msg, n # m,
           NEW entry, \A k \in Msg : BotRow(k) \notin entry, EndWrite(m, entry)
    PROVE  /\ pc'[n] = pc[n]
           /\ runRow'[n] = runRow[n]
           /\ BotRow(n) \in memory' <=> BotRow(n) \in memory
           /\ BotRow(n) \in recent' <=> BotRow(n) \in recent
  <1>1. /\ BotRow(n) \in memory' <=> BotRow(n) \in memory
        /\ BotRow(n) \in recent' <=> BotRow(n) \in recent
    BY StoreReplyEffect DEF EndWrite
  <1>2. pc'[n] = pc[n] /\ runRow'[n] = runRow[n]
    BY DEF EndWrite, FinishRun, Goto, managerVars, TypeOK
  <1>. QED BY <1>1, <1>2

LEMMA BeginWriteOthers ==
    ASSUME TypeOK, NEW m \in Msg, NEW n \in Msg, n # m, BeginWrite(m)
    PROVE  /\ pc'[n] = pc[n]
           /\ writes'[n] = writes[n]
           /\ runRow'[n] = runRow[n]
           /\ BotRow(n) \in memory' <=> BotRow(n) \in memory
           /\ BotRow(n) \in recent' <=> BotRow(n) \in recent
  <1>1. writes'[n] = writes[n]
    BY DEF BeginWrite, TypeOK
  <1>2. PICK entry \in Perceived(m) :
          \/ /\ memory' = memory \cup entry
             /\ Goto(m, "facts")
             /\ UNCHANGED <<recent, managerVars>>
          \/ EndWrite(m, entry)
    BY DEF BeginWrite
  <1>3. \A k \in Msg : BotRow(k) \notin entry
    BY PerceivedIsUserRow
  <1>4. CASE EndWrite(m, entry)
    BY <1>1, <1>3, <1>4, EndWriteOthers
  <1>5. CASE /\ memory' = memory \cup entry
             /\ Goto(m, "facts")
             /\ UNCHANGED <<recent, managerVars>>
    BY <1>1, <1>3, <1>5 DEF Goto, managerVars, TypeOK
  <1>. QED BY <1>2, <1>4, <1>5

(* A step of one message leaves every other message alone.                 *)
LEMMA OthersUntouched ==
    ASSUME TypeOK, NEW m \in Msg, NEW n \in Msg, n # m,
           Receive(m) \/ Step(m) \/ DelayedReact(m)
    PROVE  Untouched(n)
  <1>. USE DEF ctxVars, storeVars, managerVars, Untouched
  <1>1. CASE Receive(m)
    BY <1>1 DEF Receive, Goto, TypeOK
  <1>2. CASE DelayedReact(m)
    BY <1>2 DEF DelayedReact, TypeOK
  <1>3. CASE Ingest(m)
    BY <1>3, RowsDiffer DEF Ingest, Goto, Commit, TypeOK
  <1>4. CASE Decide(m)
    BY <1>4 DEF Decide, Advance, Goto, TypeOK
  <1>5. CASE Retrieve(m) \/ ReadContext(m) \/ LLMReturn(m) \/ Send(m)
    BY <1>5, ReadContextStep DEF Retrieve, LLMReturn, Send, Advance, Goto, TypeOK
  <1>6. CASE Clean(m)
    BY <1>6 DEF Clean, Advance, Goto, TypeOK
  <1>7. CASE SendReply(m) \/ StageError(m)
    BY <1>7 DEF SendReply, StageError, Advance, Goto, TypeOK
  <1>8. CASE StartWrite(m)
    BY <1>8, BeginWriteOthers DEF StartWrite
  <1>9. CASE FactsReturn(m)
    BY <1>9, EndWriteOthers DEF FactsReturn, Goto, TypeOK
  <1>10. CASE ContradictionsReturn(m)
    BY <1>10, EndWriteOthers DEF ContradictionsReturn
  <1>11. CASE LeaveLoop(m)
    BY <1>11, BeginWriteOthers DEF LeaveLoop, FinishRun, Goto, TypeOK
  <1>12. CASE VoiceChecked(m)
    BY <1>12 DEF VoiceChecked, Goto, TypeOK
  <1>. QED BY <1>1, <1>2, <1>3, <1>4, <1>5, <1>6, <1>7, <1>8, <1>9, <1>10,
              <1>11, <1>12 DEF Step

(* Once a run has begun there is a start time, whosever it is.             *)
LEMMA StartOwnerKept ==
    ASSUME TypeOK, NEW m \in Msg, Receive(m) \/ Step(m) \/ DelayedReact(m)
    PROVE  startOwner' = startOwner \/ startOwner' = m
  <1>. USE DEF managerVars
  <1>1. ASSUME NEW entry, EndWrite(m, entry)
        PROVE  startOwner' = startOwner
    BY <1>1 DEF EndWrite, FinishRun
  <1>2. BeginWrite(m) => startOwner' = startOwner
    BY <1>1 DEF BeginWrite
  <1>3. CASE Receive(m) \/ DelayedReact(m) \/ Ingest(m)
    BY <1>3 DEF Receive, DelayedReact, Ingest
  <1>4. CASE Decide(m) \/ Retrieve(m) \/ ReadContext(m) \/ LLMReturn(m)
    BY <1>4, ReadContextStep DEF Decide, Retrieve, LLMReturn
  <1>5. CASE Clean(m) \/ Send(m) \/ SendReply(m) \/ StageError(m)
    BY <1>5 DEF Clean, Send, SendReply, StageError
  <1>6. CASE StartWrite(m) \/ FactsReturn(m) \/ ContradictionsReturn(m)
    BY <1>1, <1>2, <1>6 DEF StartWrite, FactsReturn, ContradictionsReturn
  <1>7. CASE LeaveLoop(m) \/ VoiceChecked(m)
    BY <1>2, <1>7 DEF LeaveLoop, FinishRun, VoiceChecked
  <1>. QED BY <1>3, <1>4, <1>5, <1>6, <1>7 DEF Step

(* The end of MemoryWriteStage, when the run's own writes are counted.     *)
LEMMA EndWriteRun ==
    ASSUME TypeOK, NEW m \in Msg, NEW entry,
           \A n \in Msg : BotRow(n) \notin entry,
           EndWrite(m, entry), ReplyState(m),
           writes'[m] = 1, startOwner \in Msg, runRow[m] = NoMsg,
           UNCHANGED <<ctxVars, reaction, delivered>>,
           pc[m] \notin {"none", "received", "done", "voice", "lost"}
    PROVE  WriteState(m)' /\ ReplyState(m)'
  <1>. USE DEF ctxVars
  <1>1. /\ ~final[m] => /\ BotRow(m) \in memory' <=> BotRow(m) \in memory
                        /\ BotRow(m) \in recent' <=> BotRow(m) \in recent
        /\ ~StorageFails /\ final[m] => BotRow(m) \in memory' \cap recent'
    BY StoreReplyEffect DEF EndWrite
  <1>2. CASE halt[m] = ""
    <2>1. pc'[m] = "after" /\ startOwner' = startOwner /\ runRow' = runRow
      BY <1>2 DEF EndWrite, Goto, managerVars, TypeOK
    <2>2. WriteState(m)'
      BY <1>2, <2>1 DEF WriteState, ReplyStage, ReadStage
    <2>3. ReplyState(m)'
      BY <1>1, <2>1 DEF ReplyState, WritePoint
    <2>. QED BY <2>2, <2>3
  <1>3. CASE halt[m] # ""
    <2>1. pc'[m] = "voice" /\ startOwner' = startOwner /\ runRow'[m] \in Msg
      BY <1>3 DEF EndWrite, FinishRun, Goto, TypeOK
    <2>2. WriteState(m)'
      BY <2>1 DEF WriteState, ReplyStage, ReadStage
    <2>3. ReplyState(m)'
      BY <1>1, <2>1 DEF ReplyState, WritePoint
    <2>. QED BY <2>2, <2>3
  <1>. QED BY <1>2, <1>3

(* The first start of the stage is counted as one.                         *)
LEMMA FirstWrite ==
    ASSUME TypeOK, NEW m \in Msg, BeginWrite(m), writes[m] = 0
    PROVE  writes'[m] = 1
  <1>1. writes' = [writes EXCEPT ![m] = writes[m] + 1]
    BY DEF BeginWrite
  <1>. QED BY <1>1 DEF TypeOK

(* MemoryWriteStage from its start, whether the loop or process() runs it. *)
LEMMA BeginWriteRun ==
    ASSUME TypeOK, NEW m \in Msg, BeginWrite(m), WriteState(m), ReplyState(m),
           UNCHANGED <<ctxVars, reaction, delivered>>,
           pc[m] = "write" \/ (pc[m] = "after" /\ halt[m] # "")
    PROVE  WriteState(m)' /\ ReplyState(m)'
  <1>1. /\ writes[m] = 0
        /\ startOwner \in Msg
        /\ runRow[m] = NoMsg
    BY DEF WriteState
  <1>2. writes'[m] = 1
    BY <1>1, FirstWrite
  <1>3. PICK entry \in Perceived(m) :
          \/ /\ memory' = memory \cup entry
             /\ Goto(m, "facts")
             /\ UNCHANGED <<recent, managerVars>>
          \/ EndWrite(m, entry)
    BY DEF BeginWrite
  <1>4. \A n \in Msg : BotRow(n) \notin entry
    BY PerceivedIsUserRow
  <1>5. CASE EndWrite(m, entry)
    BY <1>1, <1>2, <1>4, <1>5, EndWriteRun
  <1>6. CASE /\ memory' = memory \cup entry
             /\ Goto(m, "facts")
             /\ UNCHANGED <<recent, managerVars>>
    <2>1. pc'[m] = "facts" /\ startOwner' = startOwner /\ runRow' = runRow
      BY <1>6 DEF Goto, managerVars, TypeOK
    <2>2. WriteState(m)'
      BY <1>1, <1>2, <2>1 DEF WriteState, ReplyStage, ReadStage
    <2>3. ReplyState(m)'
      BY <1>4, <1>6, <2>1 DEF ReplyState, WritePoint, Finished, ctxVars
    <2>. QED BY <2>2, <2>3
  <1>. QED BY <1>3, <1>5, <1>6

(* A stage of the reply only moves the run to its next stage.              *)
LEMMA AdvanceRun ==
    ASSUME TypeOK, NEW m \in Msg, pc[m] \in ReplyStage, Advance(m)
    PROVE  /\ pc'[m] = Following(pc[m])
           /\ pc'[m] \in ReplyStage \cup {"write"}
           /\ pc'[m] # "typing"
  <1>1. pc'[m] = Following(pc[m])
    BY DEF Advance, Goto, TypeOK
  <1>2. Following(pc[m]) \in ReplyStage \cup {"write"}
    BY FollowingType
  <1>3. Following(pc[m]) # "typing"
    BY DEF Following, ReplyStage, ReadStage
  <1>. QED BY <1>1, <1>2, <1>3

(* A step of a message keeps its own part of the invariant.                *)
LEMMA OwnStep ==
    ASSUME TypeOK, NEW m \in Msg, WriteState(m), ReplyState(m),
           Receive(m) \/ Step(m) \/ DelayedReact(m)
    PROVE  WriteState(m)' /\ ReplyState(m)'
  <1>. USE DEF ctxVars, storeVars, managerVars
  <1>1. CASE Receive(m)
    BY <1>1 DEF Receive, Goto, TypeOK, WriteState, ReplyState, ReplyStage,
                ReadStage, WritePoint, Finished
  <1>2. CASE DelayedReact(m)
    BY <1>2 DEF DelayedReact, TypeOK, WriteState, ReplyState, Finished
  <1>3. CASE Ingest(m)
    <2>1. BotRow(m) \in recent' => BotRow(m) \in recent
      BY <1>3, RowsDiffer DEF Ingest, Commit
    <2>2. pc'[m] = "decide" /\ startOwner' = m /\ UNCHANGED <<halt, writes, runRow>>
      BY <1>3 DEF Ingest, Goto, TypeOK
    <2>3. WriteState(m)'
      BY <1>3, <2>2 DEF Ingest, WriteState, ReplyStage, ReadStage
    <2>4. ReplyState(m)'
      BY <1>3, <2>1, <2>2 DEF Ingest, ReplyState, ReplyStage, ReadStage,
                              WritePoint, Finished
    <2>. QED BY <2>3, <2>4
  <1>4. CASE Decide(m)
    <2>1. \/ pc'[m] = "retrieve" /\ halt'[m] = halt[m] /\ reaction' = reaction
          \/ pc'[m] = "after" /\ halt'[m] = "react_only"
          \/ pc'[m] = "after" /\ halt'[m] = "boltzmann_ignore" /\ reaction' = reaction
      BY <1>4 DEF Decide, Advance, Goto, Following, TypeOK
    <2>2. WriteState(m)'
      BY <1>4, <2>1 DEF Decide, WriteState, ReplyStage, ReadStage
    <2>3. ReplyState(m)'
      BY <1>4, <2>1 DEF Decide, ReplyState, WriteState, ReplyStage, ReadStage,
                        WritePoint, Finished
    <2>. QED BY <2>2, <2>3
  <1>5. CASE Retrieve(m) \/ ReadContext(m) \/ LLMReturn(m)
    <2>1. /\ pc[m] \in ReadStage \cup {"llm"}
          /\ pc'[m] \in ReadStage \cup {"llm", "clean"}
          /\ UNCHANGED <<halt, final, writes, reaction, delivered, memory,
                         recent, runRow, startOwner>>
      BY <1>5, ReadContextStep DEF Retrieve, LLMReturn, Advance, Goto, Following,
                  ReadStage, TypeOK
    <2>2. WriteState(m)'
      BY <2>1 DEF WriteState, ReplyStage, ReadStage
    <2>3. ReplyState(m)'
      BY <2>1 DEF ReplyState, WriteState, ReplyStage, ReadStage, WritePoint,
                  Finished
    <2>. QED BY <2>2, <2>3
  <1>6. CASE Clean(m)
    <2>1. /\ pc[m] = "clean"
          /\ pc'[m] = "send"
          /\ UNCHANGED <<halt, writes, reaction, delivered, memory, recent,
                         runRow, startOwner>>
      BY <1>6 DEF Clean, Advance, Goto, Following, TypeOK
    <2>2. WriteState(m)'
      BY <2>1 DEF WriteState, ReplyStage, ReadStage
    <2>3. ReplyState(m)'
      BY <2>1 DEF ReplyState, WriteState, ReplyStage, ReadStage, WritePoint,
                  Finished
    <2>. QED BY <2>2, <2>3
  <1>7. CASE Send(m) \/ SendReply(m)
    <2>1. /\ pc[m] \in {"send", "typing"}
          /\ pc'[m] \in {"typing", "write"}
          /\ pc'[m] = "typing" => final[m]
          /\ delivered' = delivered \/ (pc[m] = "typing" /\ delivered' = delivered \cup {m})
          /\ UNCHANGED <<halt, final, writes, reaction, memory, recent,
                         runRow, startOwner>>
      BY <1>7 DEF Send, SendReply, Advance, Goto, Following, TypeOK
    <2>2. WriteState(m)'
      BY <2>1 DEF WriteState, ReplyStage, ReadStage
    <2>3. ReplyState(m)'
      BY <2>1 DEF ReplyState, WriteState, ReplyStage, ReadStage, WritePoint,
                  Finished
    <2>. QED BY <2>2, <2>3
  <1>8. CASE StageError(m)
    <2>1. /\ pc[m] \in ReplyStage
          /\ pc'[m] = "after"
          /\ halt'[m] = "stage_error"
          /\ delivered' = delivered \/ (pc[m] = "typing" /\ delivered' = delivered \cup {m})
          /\ UNCHANGED <<final, writes, reaction, memory, recent, runRow,
                         startOwner>>
      BY <1>8 DEF StageError, Goto, TypeOK
    <2>2. WriteState(m)'
      BY <2>1 DEF WriteState, ReplyStage, ReadStage
    <2>3. ReplyState(m)'
      BY <2>1 DEF ReplyState, WriteState, ReplyStage, ReadStage, WritePoint,
                  Finished
    <2>. QED BY <2>2, <2>3
  <1>9. CASE StartWrite(m)
    BY <1>9, BeginWriteRun DEF StartWrite
  <1>10. CASE FactsReturn(m)
    <2>1. /\ pc[m] = "facts" /\ writes'[m] = 1 /\ startOwner \in Msg
          /\ runRow[m] = NoMsg
      BY <1>10 DEF FactsReturn, WriteState
    <2>2. CASE EndWrite(m, {})
      BY <1>10, <2>1, <2>2, EndWriteRun DEF FactsReturn
    <2>3. CASE Goto(m, "contradict") /\ UNCHANGED <<storeVars, managerVars>>
      <3>1. pc'[m] = "contradict"
        BY <2>3 DEF Goto, TypeOK
      <3>2. WriteState(m)'
        BY <1>10, <2>1, <2>3, <3>1 DEF FactsReturn, WriteState, ReplyStage, ReadStage
      <3>3. ReplyState(m)'
        BY <1>10, <2>1, <2>3, <3>1 DEF FactsReturn, ReplyState, WritePoint, Finished
      <3>. QED BY <3>2, <3>3
    <2>. QED BY <1>10, <2>2, <2>3 DEF FactsReturn
  <1>11. CASE ContradictionsReturn(m)
    <2>1. /\ pc[m] = "contradict" /\ writes'[m] = 1 /\ startOwner \in Msg
          /\ runRow[m] = NoMsg
      BY <1>11 DEF ContradictionsReturn, WriteState
    <2>. QED BY <1>11, <2>1, EndWriteRun DEF ContradictionsReturn
  <1>12. CASE LeaveLoop(m)
    <2>1. CASE halt[m] # ""
      BY <1>12, <2>1, BeginWriteRun DEF LeaveLoop
    <2>2. CASE halt[m] = ""
      <3>1. /\ pc[m] = "after" /\ pc'[m] = "voice"
            /\ runRow'[m] = startOwner
            /\ UNCHANGED <<halt, final, writes, reaction, delivered, memory,
                           recent, startOwner>>
        BY <1>12, <2>2 DEF LeaveLoop, FinishRun, Goto, TypeOK
      <3>2. WriteState(m)'
        BY <2>2, <3>1 DEF WriteState, ReplyStage, ReadStage
      <3>3. ReplyState(m)'
        BY <2>2, <3>1 DEF ReplyState, WritePoint, Finished
      <3>. QED BY <3>2, <3>3
    <2>. QED BY <2>1, <2>2
  <1>13. CASE VoiceChecked(m)
    <2>1. /\ pc[m] = "voice" /\ pc'[m] = "done"
          /\ UNCHANGED <<halt, final, writes, reaction, delivered, memory,
                         recent, runRow, startOwner>>
      BY <1>13 DEF VoiceChecked, Goto, TypeOK
    <2>2. WriteState(m)'
      BY <2>1 DEF WriteState, ReplyStage, ReadStage
    <2>3. ReplyState(m)'
      BY <2>1 DEF ReplyState, WritePoint, Finished
    <2>. QED BY <2>2, <2>3
  <1>. QED BY <1>1, <1>2, <1>3, <1>4, <1>5, <1>6, <1>7, <1>8, <1>9, <1>10,
              <1>11, <1>12, <1>13 DEF Step

(* What a message's state says is kept when only others move.              *)
LEMMA UntouchedRun ==
    ASSUME NEW n \in Msg, Untouched(n), WriteState(n), ReplyState(n),
           startOwner \in Msg => startOwner' \in Msg
    PROVE  WriteState(n)' /\ ReplyState(n)'
  <1>1. WriteState(n)'
    BY DEF Untouched, WriteState
  <1>2. ReplyState(n)'
    BY DEF Untouched, ReplyState, Finished
  <1>. QED BY <1>1, <1>2

(* A message is alone in its steps.                                        *)
LEMMA RunStep ==
    ASSUME TypeOK, RunInv, NEW m \in Msg,
           Receive(m) \/ Step(m) \/ DelayedReact(m)
    PROVE  RunInv'
  <1>. SUFFICES ASSUME NEW n \in Msg
                PROVE  WriteState(n)' /\ ReplyState(n)'
    BY DEF RunInv
  <1>1. WriteState(n) /\ ReplyState(n)
    BY DEF RunInv
  <1>2. CASE n = m
    BY <1>1, <1>2, OwnStep
  <1>3. CASE n # m
    BY <1>1, <1>3, OthersUntouched, StartOwnerKept, UntouchedRun
  <1>. QED BY <1>2, <1>3

LEMMA RunInit == Init => RunInv
  <1>. SUFFICES ASSUME Init, NEW m \in Msg
                PROVE  WriteState(m) /\ ReplyState(m)
    BY DEF RunInv
  <1>1. pc[m] = "none" /\ "none" \notin {"write"} \cup ReplyStage
    BY DEF Init, ReplyStage, ReadStage
  <1>2. WriteState(m)
    BY <1>1 DEF Init, WriteState
  <1>3. ReplyState(m)
    BY <1>1, PipelineAssumption DEF Init, ReplyState, Finished
  <1>. QED BY <1>2, <1>3

(* However far a run got, its stage has been written at most once.         *)
LEMMA WritesBound ==
    ASSUME TypeOK, NEW m \in Msg, WriteState(m)
    PROVE  /\ writes[m] \in {0, 1}
           /\ pc[m] # "none" /\ runRow[m] # NoMsg => writes[m] = 1
  <1>1. pc[m] \in PC /\ writes[m] \in Nat
    BY DEF TypeOK
  <1>2. CASE pc[m] = "lost"
    BY <1>1, <1>2 DEF WriteState
  <1>3. CASE pc[m] = "after"
    BY <1>3 DEF WriteState
  <1>4. CASE pc[m] \in {"none", "received", "write"} \cup ReplyStage
    BY <1>4 DEF WriteState, ReplyStage, ReadStage
  <1>5. CASE pc[m] \in {"facts", "contradict", "voice", "done"}
    BY <1>5 DEF WriteState
  <1>. QED BY <1>1, <1>2, <1>3, <1>4, <1>5 DEF PC, WritePoint

(* The tasks that a stop of the process cancels are lost where they were.  *)
LEMMA RunShutdown ==
    ASSUME TypeOK, RunInv, Shutdown
    PROVE  RunInv'
  <1>. SUFFICES ASSUME NEW n \in Msg
                PROVE  WriteState(n)' /\ ReplyState(n)'
    BY DEF RunInv
  <1>. USE DEF ctxVars, storeVars, managerVars
  <1>1. WriteState(n) /\ ReplyState(n)
    BY DEF RunInv
  <1>2. /\ pc'[n] = IF pc[n] \in {"none", "done"} THEN pc[n] ELSE "lost"
        /\ UNCHANGED <<halt, final, writes, reaction, delivered, memory,
                       recent, runRow, startOwner>>
    BY DEF Shutdown
  <1>3. writes[n] \in {0, 1} /\ (pc[n] # "none" /\ runRow[n] # NoMsg => writes[n] = 1)
    BY <1>1, WritesBound
  <1>4. WriteState(n)'
    BY <1>1, <1>2, <1>3 DEF WriteState, ReplyStage, ReadStage
  <1>5. ReplyState(n)'
    BY <1>1, <1>2 DEF ReplyState, WritePoint, Finished
  <1>. QED BY <1>4, <1>5

LEMMA RunNext == TypeOK /\ RunInv /\ [Next]_vars => RunInv'
  <1>. SUFFICES ASSUME TypeOK, RunInv, [Next]_vars
                PROVE  RunInv'
    OBVIOUS
  <1>1. ASSUME NEW m \in Msg, Receive(m) \/ Step(m) \/ DelayedReact(m)
        PROVE  RunInv'
    BY <1>1, RunStep
  <1>2. CASE AbortGeneration \/ Stopped \/ UNCHANGED vars
    <2>1. UNCHANGED <<pc, halt, final, reaction, writes, runRow, delivered, memory,
                      recent, startOwner>>
      BY <1>2 DEF AbortGeneration, Stopped, vars, ctxVars, storeVars, managerVars
    <2>. SUFFICES ASSUME NEW m \in Msg
                  PROVE  WriteState(m)' /\ ReplyState(m)'
      BY DEF RunInv
    <2>2. WriteState(m)'
      BY <2>1 DEF RunInv, WriteState
    <2>3. ReplyState(m)'
      BY <2>1 DEF RunInv, ReplyState, Finished
    <2>. QED BY <2>2, <2>3
  <1>3. CASE Shutdown
    BY <1>3, RunShutdown
  <1>. QED BY <1>1, <1>2, <1>3 DEF Next

(* Each run has written its exchange exactly as far as its place in the    *)
(* pipeline says, and every reply that left a trace is the one the         *)
(* cleaning stage produced.                                                *)
THEOREM RunCorrect == Spec => []RunInv
  <1>1. Init => TypeOK /\ RunInv
    BY TypeInit, RunInit
  <1>2. TypeOK /\ RunInv /\ [Next]_vars => TypeOK' /\ RunInv'
    BY TypeNext, RunNext
  <1>. QED BY <1>1, <1>2, PTL DEF Spec

-----------------------------------------------------------------------------
(* The properties *)

(* MemoryWriteStage runs exactly once for every run that ends.             *)
THEOREM WritesOnce == Spec => []WrittenOnce
  <1>1. TypeOK /\ RunInv => WrittenOnce
    <2>. SUFFICES ASSUME TypeOK, RunInv, NEW m \in Msg
                  PROVE  writes[m] <= 1 /\ (m \in Finished => writes[m] = 1)
      BY DEF WrittenOnce
    <2>1. writes[m] \in {0, 1}
      BY WritesBound DEF RunInv
    <2>2. m \in Finished => writes[m] = 1
      BY DEF RunInv, WriteState, Finished
    <2>. QED BY <2>1, <2>2
  <1>. QED BY <1>1, TypeCorrect, RunCorrect, PTL

(* A message that got an emoji reaction got no reply.                      *)
THEOREM ReactsOrReplies == Spec => []ReactionOrReply
  <1>1. RunInv => ReactionOrReply
    BY DEF RunInv, ReplyState, ReactionOrReply
  <1>. QED BY <1>1, RunCorrect, PTL

(* Every delivered reply is in both memories when its run has ended.       *)
THEOREM RemembersDelivered == Spec => []DeliveredIsRemembered
  <1>1. RunInv => DeliveredIsRemembered
    BY DEF RunInv, ReplyState, DeliveredIsRemembered, Finished
  <1>. QED BY <1>1, RunCorrect, PTL

(* What a step of a message does to the set of delivered replies.          *)
LEMMA DeliveryStep ==
    ASSUME NEW m \in Msg, Receive(m) \/ Step(m) \/ DelayedReact(m)
    PROVE  \/ delivered' = delivered
           \/ /\ delivered' = delivered \cup {m}
              /\ pc[m] = "typing"
              /\ SendReply(m) \/ StageError(m)
  <1>1. CASE Receive(m) \/ DelayedReact(m) \/ Ingest(m)
    BY <1>1 DEF Receive, DelayedReact, Ingest
  <1>2. CASE Decide(m) \/ Retrieve(m) \/ ReadContext(m) \/ LLMReturn(m)
    BY <1>2, ReadContextStep DEF Decide, Retrieve, LLMReturn
  <1>3. CASE Clean(m) \/ Send(m) \/ SendReply(m) \/ StageError(m)
    BY <1>3 DEF Clean, Send, SendReply, StageError
  <1>4. CASE StartWrite(m) \/ FactsReturn(m) \/ ContradictionsReturn(m)
    BY <1>4 DEF StartWrite, FactsReturn, ContradictionsReturn
  <1>5. CASE LeaveLoop(m) \/ VoiceChecked(m)
    BY <1>5 DEF LeaveLoop, VoiceChecked
  <1>. QED BY <1>1, <1>2, <1>3, <1>4, <1>5 DEF Step

(* No reply is sent for a message whose exchange has been written.         *)
THEOREM SendsBeforeWriting == Spec => NothingSentAfterWrite
  <1>1. TypeOK /\ RunInv /\ [Next]_vars =>
          [\A m \in Msg : writes[m] # 0 /\ m \in delivered' => m \in delivered]_vars
    <2>. SUFFICES ASSUME TypeOK, RunInv, Next,
                         NEW m \in Msg, writes[m] # 0, m \in delivered'
                  PROVE  m \in delivered
      OBVIOUS
    <2>1. pc[m] # "typing"
      BY DEF RunInv, WriteState, ReplyStage
    <2>2. ASSUME NEW n \in Msg, Receive(n) \/ Step(n) \/ DelayedReact(n)
          PROVE  m \in delivered
      BY <2>1, <2>2, DeliveryStep
    <2>3. CASE AbortGeneration \/ Shutdown \/ Stopped
      BY <2>3 DEF AbortGeneration, Shutdown, Stopped, vars
    <2>. QED BY <2>2, <2>3 DEF Next
  <1>. QED BY <1>1, TypeCorrect, RunCorrect, PTL DEF Spec, NothingSentAfterWrite

-----------------------------------------------------------------------------
(* Refinement: the pipeline implements ConversationTurn *)

Phases == [m \in Msg |-> TurnPhase(m)]

(* The abstract state changes only where the stepping message is.          *)
LEMMA LiftPhase ==
    ASSUME NEW m \in Msg, \A n \in Msg : n # m => Untouched(n)
    PROVE  Phases' = [Phases EXCEPT ![m] = TurnPhase(m)']
  <1>1. \A n \in Msg : n # m => TurnPhase(n)' = TurnPhase(n)
    BY DEF Untouched, TurnPhase
  <1>. QED BY <1>1 DEF Phases

LEMMA LiftRemembered ==
    ASSUME NEW m \in Msg, \A n \in Msg : n # m => Untouched(n)
    PROVE  /\ writes'[m] = writes[m] => Remembered' = Remembered
           /\ writes'[m] # 0 => Remembered' = Remembered \cup {m}
  BY DEF Untouched, Remembered

(* A stage counted once has been counted.                                  *)
LEMMA OnceIsWritten == \A n : n = 1 => n # 0
  OBVIOUS

(* Entering MemoryWriteStage remembers the turn, and may close it.         *)
LEMMA BeginWriteTurn ==
    ASSUME TypeOK, NEW m \in Msg, BeginWrite(m), WriteState(m),
           pc[m] = "write" \/ (pc[m] = "after" /\ halt[m] # "")
    PROVE  /\ TurnPhase(m) = "open" /\ TurnPhase(m)' \in {"open", "closed"}
           /\ m \notin Remembered /\ writes'[m] # 0
  <1>1. writes[m] = 0
    BY DEF WriteState
  <1>2. writes'[m] # 0
    BY <1>1, FirstWrite, OnceIsWritten
  <1>3. pc'[m] \in {"facts", "after", "voice"}
    BY DEF BeginWrite, EndWrite, FinishRun, Goto, TypeOK
  <1>. QED BY <1>1, <1>2, <1>3 DEF TurnPhase, Remembered

(* The end of MemoryWriteStage leaves the turn remembered, and may close it. *)
LEMMA EndWriteTurn ==
    ASSUME TypeOK, NEW m \in Msg, NEW entry, EndWrite(m, entry),
           pc[m] \in {"facts", "contradict"}
    PROVE  TurnPhase(m) = "open" /\ TurnPhase(m)' \in {"open", "closed"}
  <1>1. pc'[m] \in {"after", "voice"}
    BY DEF EndWrite, FinishRun, Goto, TypeOK
  <1>. QED BY <1>1 DEF TurnPhase

(* Each step of a message is a step of its turn, or none.                  *)
LEMMA TurnStep ==
    ASSUME TypeOK, TypeOK', RunInv, RunInv', NEW m \in Msg,
           Receive(m) \/ Step(m) \/ DelayedReact(m)
    PROVE  \/ /\ TurnPhase(m)' = TurnPhase(m) /\ delivered' = delivered
              /\ writes'[m] = writes[m]
           \/ /\ TurnPhase(m) = "absent" /\ TurnPhase(m)' = "open"
              /\ delivered' = delivered /\ writes'[m] = writes[m]
           \/ /\ TurnPhase(m) = "open" /\ TurnPhase(m)' = "open"
              /\ delivered' = delivered \cup {m} /\ writes'[m] = writes[m]
              /\ m \notin Remembered
           \/ /\ TurnPhase(m) = "open" /\ TurnPhase(m)' = "open"
              /\ delivered' = delivered /\ m \notin Remembered
              /\ writes'[m] # 0
           \/ /\ TurnPhase(m) = "open" /\ TurnPhase(m)' = "closed"
              /\ delivered' = delivered /\ writes'[m] # 0
  <1>. USE DEF ctxVars, storeVars, managerVars
  <1>1. CASE Receive(m)
    BY <1>1 DEF Receive, Goto, TypeOK, TurnPhase
  <1>2. CASE DelayedReact(m)
    BY <1>2 DEF DelayedReact, TurnPhase
  <1>3. CASE Ingest(m)
    BY <1>3 DEF Ingest, Goto, TypeOK, TurnPhase
  <1>4. CASE Decide(m)
    <2>1. pc'[m] \in {"retrieve", "after"}
      BY <1>4 DEF Decide, Advance, Goto, Following, TypeOK
    <2>. QED BY <1>4, <2>1 DEF Decide, TurnPhase
  <1>5. CASE Retrieve(m) \/ ReadContext(m) \/ LLMReturn(m) \/ Clean(m)
    <2>1. pc[m] \in ReadStage \cup {"llm", "clean"}
      BY <1>5, ReadContextStep DEF Retrieve, LLMReturn, Clean, ReadStage
    <2>2. pc'[m] \in ReplyStage \cup {"write"}
      BY <1>5, <2>1, AdvanceRun, ReadContextStep DEF Retrieve, LLMReturn, Clean, ReplyStage
    <2>3. UNCHANGED <<delivered, writes>>
      BY <1>5, ReadContextStep DEF Retrieve, LLMReturn, Clean
    <2>. QED BY <2>1, <2>2, <2>3 DEF TurnPhase, ReplyStage, ReadStage
  <1>6. CASE Send(m)
    <2>1. pc'[m] \in {"typing", "write"}
      BY <1>6 DEF Send, Advance, Goto, Following, TypeOK
    <2>. QED BY <1>6, <2>1 DEF Send, TurnPhase
  <1>7. CASE SendReply(m)
    <2>1. pc'[m] = "write"
      BY <1>7 DEF SendReply, Advance, Goto, Following, TypeOK
    <2>2. m \notin Remembered
      BY <1>7 DEF SendReply, RunInv, WriteState, ReplyStage, Remembered
    <2>. QED BY <1>7, <2>1, <2>2 DEF SendReply, TurnPhase
  <1>8. CASE StageError(m)
    <2>1. pc'[m] = "after"
      BY <1>8 DEF StageError, Goto, TypeOK
    <2>2. m \notin Remembered
      BY <1>8 DEF StageError, RunInv, WriteState, Remembered
    <2>. QED BY <1>8, <2>1, <2>2 DEF StageError, TurnPhase, ReplyStage, ReadStage
  <1>9. CASE StartWrite(m)
    BY <1>9, BeginWriteTurn DEF StartWrite, RunInv
  <1>10. CASE FactsReturn(m)
    <2>1. CASE EndWrite(m, {})
      <3>1. writes'[m] # 0 /\ writes' = writes
        BY <1>10, OnceIsWritten DEF FactsReturn, RunInv, WriteState
      <3>. QED BY <1>10, <2>1, <3>1, EndWriteTurn DEF FactsReturn
    <2>2. CASE Goto(m, "contradict") /\ UNCHANGED <<storeVars, managerVars>>
      BY <1>10, <2>2 DEF FactsReturn, Goto, TypeOK, TurnPhase
    <2>. QED BY <1>10, <2>1, <2>2 DEF FactsReturn
  <1>11. CASE ContradictionsReturn(m)
    <2>1. writes'[m] # 0 /\ writes' = writes
      BY <1>11, OnceIsWritten DEF ContradictionsReturn, RunInv, WriteState
    <2>. QED BY <1>11, <2>1, EndWriteTurn DEF ContradictionsReturn
  <1>12. CASE LeaveLoop(m)
    <2>1. CASE halt[m] # ""
      BY <1>12, <2>1, BeginWriteTurn DEF LeaveLoop, RunInv
    <2>2. CASE halt[m] = ""
      <3>1. pc'[m] = "voice"
        BY <1>12, <2>2 DEF LeaveLoop, FinishRun, Goto, TypeOK
      <3>2. writes[m] # 0
        BY <1>12, <2>2, OnceIsWritten DEF LeaveLoop, RunInv, WriteState
      <3>. QED BY <1>12, <2>2, <3>1, <3>2 DEF LeaveLoop, TurnPhase
    <2>. QED BY <2>1, <2>2
  <1>13. CASE VoiceChecked(m)
    BY <1>13 DEF VoiceChecked, Goto, TypeOK, TurnPhase
  <1>. QED BY <1>1, <1>2, <1>3, <1>4, <1>5, <1>6, <1>7, <1>8, <1>9, <1>10,
              <1>11, <1>12, <1>13 DEF Step

(* Every step of the pipeline is a step of ConversationTurn or a stutter.  *)
LEMMA TurnNext ==
    ASSUME TypeOK, TypeOK', RunInv, RunInv', [Next]_vars
    PROVE  [Turns!Next]_Turns!vars
  <1>. USE DEF ctxVars, storeVars, managerVars
  <1>1. ASSUME NEW m \in Msg, Receive(m) \/ Step(m) \/ DelayedReact(m)
        PROVE  [Turns!Next]_Turns!vars
    <2>1. \A n \in Msg : n # m => Untouched(n)
      BY <1>1, OthersUntouched
    <2>2. Phases' = [Phases EXCEPT ![m] = TurnPhase(m)']
      BY <2>1, LiftPhase
    <2>3. /\ writes'[m] = writes[m] => Remembered' = Remembered
          /\ writes'[m] # 0 => Remembered' = Remembered \cup {m}
      BY <2>1, LiftRemembered
    <2>4. Phases[m] = TurnPhase(m) /\ Phases \in [Msg -> {"absent", "open", "closed", "lost"}]
      BY DEF Phases, TurnPhase
    <2>5. \/ UNCHANGED <<Phases, delivered, Remembered>>
          \/ /\ Phases[m] = "absent" /\ Phases' = [Phases EXCEPT ![m] = "open"]
             /\ UNCHANGED <<delivered, Remembered>>
          \/ /\ Phases[m] = "open" /\ m \notin Remembered
             /\ delivered' = delivered \cup {m}
             /\ UNCHANGED <<Phases, Remembered>>
          \/ /\ Phases[m] = "open" /\ m \notin Remembered
             /\ Remembered' = Remembered \cup {m}
             /\ UNCHANGED <<Phases, delivered>>
          \/ /\ Phases[m] = "open" /\ Phases' = [Phases EXCEPT ![m] = "closed"]
             /\ Remembered' = Remembered \cup {m}
             /\ UNCHANGED delivered
      BY <1>1, <2>2, <2>3, <2>4, TurnStep
    <2>. QED BY <2>5 DEF Phases, Turns!Next, Turns!vars, Turns!Open, Turns!Answer,
                         Turns!Remember, Turns!Close
  <1>2. CASE AbortGeneration \/ Stopped \/ UNCHANGED vars
    BY <1>2 DEF AbortGeneration, Stopped, vars, Turns!vars, TurnPhase, Remembered
  <1>3. CASE Shutdown
    <2>1. UNCHANGED <<delivered, Remembered>>
      BY <1>3 DEF Shutdown, Remembered
    <2>2. ASSUME NEW m \in Msg
          PROVE  TurnPhase(m)' = IF TurnPhase(m) = "open" THEN "lost" ELSE TurnPhase(m)
      <3>1. /\ pc'[m] = IF pc[m] \in {"none", "done"} THEN pc[m] ELSE "lost"
            /\ runRow' = runRow
        BY <1>3 DEF Shutdown
      <3>2. /\ pc[m] \in {"voice", "done"} => runRow[m] # NoMsg
            /\ pc[m] \notin {"voice", "done", "lost"} => runRow[m] = NoMsg
        BY PipelineAssumption DEF RunInv, WriteState
      <3>. QED BY <3>1, <3>2 DEF TurnPhase
    <2>. QED BY <2>1, <2>2 DEF Turns!Next, Turns!Lose
  <1>. QED BY <1>1, <1>2, <1>3 DEF Next

LEMMA TurnInit == Init => Turns!Init
  BY DEF Init, Turns!Init, TurnPhase, Remembered

(* The ten stages implement the abstract turn of a conversation.           *)
THEOREM Implements == Spec => ImplementsTurn
  <1>1. TypeOK /\ TypeOK' /\ RunInv /\ RunInv' /\ [Next]_vars => [Turns!Next]_Turns!vars
    BY TurnNext
  <1>. QED BY <1>1, TurnInit, TypeCorrect, RunCorrect, PTL
           DEF Spec, ImplementsTurn, Turns!Spec

-----------------------------------------------------------------------------
(* ReplyContent: the connection to the model and the texts *)

(* A finite set is listed by a sequence, each member once.                 *)
LEMMA SetListed ==
    ASSUME NEW S, IsFiniteSet(S)
    PROVE  /\ Cardinality(S) \in Nat
           /\ SetToSeq(S) \in [1..Cardinality(S) -> S]
           /\ SetToSeq(S) \in Seq(S)
           /\ Len(SetToSeq(S)) = Cardinality(S)
           /\ \A i, j \in 1..Cardinality(S) : SetToSeq(S)[i] = SetToSeq(S)[j] => i = j
           /\ \A x \in S : \E i \in 1..Cardinality(S) : SetToSeq(S)[i] = x
  <1>1. Cardinality(S) \in Nat /\ ExistsBijection(1..Cardinality(S), S)
    BY FS_CardinalityType
  <1>2. \E f \in [1..Cardinality(S) -> S] : IsInjective(f)
    BY <1>1 DEF ExistsBijection, Bijection, Injection
  <1>3. /\ SetToSeq(S) \in [1..Cardinality(S) -> S]
        /\ IsInjective(SetToSeq(S))
    BY <1>2 DEF SetToSeq
  <1>4. SetToSeq(S) \in Injection(1..Cardinality(S), S)
    BY <1>3 DEF Injection
  <1>5. Cardinality(1..Cardinality(S)) = Cardinality(S)
    BY <1>1, FS_Interval
  <1>6. SetToSeq(S) \in Surjection(1..Cardinality(S), S)
    BY <1>4, <1>5, FS_Injection
  <1>7. \A i, j \in 1..Cardinality(S) : SetToSeq(S)[i] = SetToSeq(S)[j] => i = j
    BY <1>3 DEF IsInjective
  <1>8. \A x \in S : \E i \in 1..Cardinality(S) : SetToSeq(S)[i] = x
    BY <1>6 DEF Surjection
  <1>9. SetToSeq(S) \in Seq(S) /\ Len(SetToSeq(S)) = Cardinality(S)
    BY <1>1, <1>3
  <1>. QED BY <1>1, <1>3, <1>7, <1>8, <1>9

(* A message has two rows, so that there are finitely many.                *)
LEMMA RowsFinite == IsFiniteSet(Row)
  <1>. DEFINE users == [m \in Msg |-> UserRow(m)]
              bots == [m \in Msg |-> BotRow(m)]
              U == {UserRow(m) : m \in Msg}
              B == {BotRow(m) : m \in Msg}
  <1>1. users \in Surjection(Msg, U) /\ bots \in Surjection(Msg, B)
    BY DEF Surjection
  <1>2. IsFiniteSet(U) /\ IsFiniteSet(B)
    <2>. HIDE DEF users, bots, U, B
    <2>. QED BY <1>1, PipelineAssumption, FS_Surjection
  <1>3. IsFiniteSet(U \cup B)
    BY <1>2, FS_Union
  <1>4. \A r \in Row : r \in U \cup B
    <2>. SUFFICES ASSUME NEW r \in Row PROVE r \in U \cup B
      OBVIOUS
    <2>1. r = UserRow(r.msg) \/ r = BotRow(r.msg)
      BY DEF Row, UserRow, BotRow
    <2>. QED BY <2>1 DEF Row
  <1>5. Row \in SUBSET (U \cup B)
    BY <1>4
  <1>. HIDE DEF U, B
  <1>. QED BY <1>3, <1>5, FS_Subset

(* The history and the texts are added to the pipeline's steps.            *)
LEMMA ContentSteps == [ContentNext]_contentVars => [Next]_vars
  BY DEF ContentNext, contentVars, EndpointChange, Retry

LEMMA ContentStarts == ContentInit => Init
  BY DEF ContentInit, ObservedInit

(* What holds of the pipeline holds of it with its contents.               *)
LEMMA ContentRuns == ContentSpec => [](TypeOK /\ RunInv)
  <1>1. Init => TypeOK /\ RunInv
    BY TypeInit, RunInit
  <1>2. TypeOK /\ RunInv /\ [Next]_vars => TypeOK' /\ RunInv'
    BY TypeNext, RunNext
  <1>. QED BY <1>1, <1>2, ContentSteps, ContentStarts, PTL DEF ContentSpec

(* An answer is a text.                                                    *)
LEMMA TextTypes ==
    /\ Answers \subseteq Text
    /\ \A t \in Text : Cleaned(t) \subseteq Text
  BY DEF Answers, Cleaned, Text, Each, AdapterClean, Extract, Filter, CleanResponse, Rest

(* Nothing runs before or after the process.                               *)
LEMMA OnlyUpSteps == Next => (up' => up)
  <1>. SUFFICES ASSUME Next
                PROVE  up' => up
    OBVIOUS
  <1>1. ASSUME NEW m \in Msg, Receive(m) \/ Step(m) \/ DelayedReact(m)
        PROVE  up
    BY <1>1, ReadContextStep
       DEF Receive, DelayedReact, Step, Ingest, Decide, Retrieve, LLMReturn,
           Clean, Send, SendReply, StageError, StartWrite, FactsReturn,
           ContradictionsReturn, LeaveLoop, VoiceChecked
  <1>. QED BY <1>1 DEF Next, AbortGeneration, Shutdown, Stopped, vars

LEMMA ContentTypeNext ==
    ASSUME TypeOK, TypeOK', ContentInv, [ContentNext]_contentVars
    PROVE  ContentInv'
  <1>1. CASE Next /\ Observe /\ Compose
    <2>1. endedBefore' \in [Msg -> SUBSET Msg]
      BY <1>1 DEF Observe, Finished, ContentInv, ContentTypeOK, ObservedTypeOK
    <2>2. timeline' \in Seq(Row)
      <3>. DEFINE S == {r \in Row : Said(r)}
      <3>1. IsFiniteSet(S)
        BY RowsFinite, FS_Subset
      <3>2. SetToSeq(S) \in Seq(S)
        BY <3>1, SetListed
      <3>3. SetToSeq(S) \in Seq(Row)
        BY <3>2, SeqMonotonic
      <3>4. timeline' = timeline \o SetToSeq(S)
        BY <1>1 DEF Compose
      <3>. HIDE DEF S
      <3>. QED BY <3>3, <3>4, ConcatProperties DEF ContentInv, ContentTypeOK
    <2>3. /\ answer' \in [Msg -> Text]
          /\ {connected', retrying'} \subseteq BOOLEAN
          /\ up' => connected' \/ retrying'
      <3>1. up' => up
        BY <1>1, OnlyUpSteps
      <3>2. /\ answer \in [Msg -> Text]
            /\ {connected, retrying, endpoint} \subseteq BOOLEAN
            /\ up => connected \/ retrying
        BY DEF ContentInv, ContentTypeOK
      <3>3. ASSUME NEW m \in Msg, Answer(m)
            PROVE  /\ answer' \in [Msg -> Text]
                   /\ {connected', retrying'} \subseteq BOOLEAN
                   /\ connected' \/ retrying'
        <4>1. answer' \in [Msg -> Text]
          BY <3>2, <3>3, TextTypes DEF Answer
        <4>. QED BY <3>2, <3>3, <4>1 DEF Answer
      <3>4. ASSUME NEW m \in Msg, FinalAnswer(m)
            PROVE  answer' \in [Msg -> Text] /\ UNCHANGED <<connected, retrying>>
        <4>1. Cleaned(answer[m]) \subseteq Text
          BY <3>2, TextTypes
        <4>2. PICK t \in Cleaned(answer[m]) : answer' = [answer EXCEPT ![m] = t]
          BY <3>4 DEF FinalAnswer
        <4>. QED BY <3>2, <3>4, <4>1, <4>2 DEF FinalAnswer
      <3>5. \/ \E m \in Msg : Answer(m)
            \/ \E m \in Msg : FinalAnswer(m)
            \/ UNCHANGED <<answer, connected, retrying>>
        BY <1>1 DEF Compose
      <3>. QED BY <3>1, <3>2, <3>3, <3>4, <3>5
    <2>. QED BY <1>1, <2>1, <2>2, <2>3 DEF ContentInv, ContentTypeOK, ObservedTypeOK, Compose
  <1>2. CASE EndpointChange
    BY <1>2, ContentAssumption DEF EndpointChange, ContentInv, ContentTypeOK, ObservedTypeOK, vars, ctxVars, storeVars, managerVars, observed
  <1>3. CASE Retry
    BY <1>3 DEF Retry, ContentInv, ContentTypeOK, ObservedTypeOK, vars, ctxVars, storeVars, managerVars, observed
  <1>4. CASE UNCHANGED contentVars
    BY <1>4 DEF contentVars, content, ContentInv, ContentTypeOK, ObservedTypeOK, vars, ctxVars, storeVars, managerVars, observed
  <1>. QED BY <1>1, <1>2, <1>3, <1>4 DEF ContentNext

LEMMA ContentTypeInit == ContentInit => ContentInv
  <1>. SUFFICES ASSUME ContentInit
                PROVE  ContentInv
    OBVIOUS
  <1>1. TypeOK
    BY ContentStarts, TypeInit
  <1>2. endedBefore \in [Msg -> SUBSET Msg]
    BY DEF ContentInit, ObservedInit
  <1>3. timeline \in Seq(Row) /\ answer \in [Msg -> Text]
    BY DEF ContentInit, Text
  <1>4. {endpoint, connected, retrying} \subseteq BOOLEAN /\ (connected \/ retrying)
    BY DEF ContentInit
  <1>5. zone \in Zones /\ changes \in 0..EndpointChanges
    BY ContentAssumption DEF ContentInit
  <1>. QED BY <1>1, <1>2, <1>3, <1>4, <1>5 DEF ContentInv, ContentTypeOK, ObservedTypeOK

(* The connection's variables keep their types, and a connector that is    *)
(* not connected goes on trying: a server that comes up is found.          *)
THEOREM ContentCorrect == ContentSpec => []ContentInv
  <1>1. TypeOK /\ [ContentNext]_contentVars => TypeOK'
    BY TypeNext, ContentSteps
  <1>2. TypeOK /\ TypeOK' /\ ContentInv /\ [ContentNext]_contentVars => ContentInv'
    BY ContentTypeNext
  <1>. QED BY <1>1, <1>2, ContentTypeInit, ContentStarts, TypeInit, PTL DEF ContentSpec

(* What the filters let pass: from the generator's answer on, a text holds *)
(* no other thoughts, and one that is sent is not blank.                   *)
CleanText ==
    {"blank", "words", "open"} \cup (IF ThinkingModel THEN {} ELSE {"orphan"})

AnswerOK ==
    \A m \in Msg : answer[m] \in CleanText /\ (final[m] => answer[m] # "blank")

LEMMA CleanTexts ==
    /\ Answers \subseteq CleanText
    /\ \A t \in CleanText : Cleaned(t) \subseteq CleanText
  BY DEF CleanText, Answers, Cleaned, Text, Each, AdapterClean, Extract, Filter, CleanResponse, Rest

(* Only the cleaning stage sets ctx.final_response.                        *)
LEMMA FinalStep ==
    ASSUME TypeOK, NEW m \in Msg, Receive(m) \/ Step(m) \/ DelayedReact(m)
    PROVE  final' = final \/ Moves(m, "clean", "send")
  <1>. USE DEF ctxVars
  <1>1. CASE Receive(m) \/ DelayedReact(m) \/ Ingest(m)
    BY <1>1 DEF Receive, DelayedReact, Ingest
  <1>2. CASE Decide(m) \/ Retrieve(m) \/ ReadContext(m) \/ LLMReturn(m)
    BY <1>2, ReadContextStep DEF Decide, Retrieve, LLMReturn
  <1>3. CASE Send(m) \/ SendReply(m) \/ StageError(m)
    BY <1>3 DEF Send, SendReply, StageError
  <1>4. CASE StartWrite(m) \/ FactsReturn(m) \/ ContradictionsReturn(m)
    BY <1>4 DEF StartWrite, FactsReturn, ContradictionsReturn
  <1>5. CASE LeaveLoop(m) \/ VoiceChecked(m)
    BY <1>5 DEF LeaveLoop, VoiceChecked
  <1>6. CASE Clean(m)
    BY <1>6 DEF Clean, Advance, Goto, Following, Moves, TypeOK
  <1>. QED BY <1>1, <1>2, <1>3, <1>4, <1>5, <1>6 DEF Step

(* A message that changes stages is the one whose step it is.              *)
LEMMA MovesAlone ==
    ASSUME TypeOK, Next, NEW m \in Msg, NEW p, NEW q, Moves(m, p, q),
           p # q, q # "lost"
    PROVE  Receive(m) \/ Step(m) \/ DelayedReact(m)
  <1>1. pc[m] = p /\ pc'[m] = q
    BY DEF Moves
  <1>2. ASSUME NEW k \in Msg, Receive(k) \/ Step(k) \/ DelayedReact(k)
        PROVE  Receive(m) \/ Step(m) \/ DelayedReact(m)
    BY <1>1, <1>2, OthersUntouched DEF Untouched
  <1>. QED BY <1>1, <1>2 DEF Next, AbortGeneration, Shutdown, Stopped, vars

LEMMA AnswerNext ==
    ASSUME TypeOK, RunInv', ContentInv, AnswerOK, [ContentNext]_contentVars
    PROVE  AnswerOK'
  <1>1. CASE Next /\ Observe /\ Compose
    <2>0. answer \in [Msg -> Text]
      BY DEF ContentInv, ContentTypeOK
    <2>1. ASSUME NEW m \in Msg, Moves(m, "llm", "clean"), Answer(m)
          PROVE  AnswerOK'
      <3>1. ~final'[m]
        BY <2>1 DEF RunInv, ReplyState, Moves, WritePoint
      <3>2. \A n \in Msg : n # m => (final'[n] <=> final[n])
        BY <1>1, <2>1, MovesAlone, OthersUntouched DEF Untouched
      <3>3. PICK t \in Answers : answer' = [answer EXCEPT ![m] = t]
        BY <2>1 DEF Answer
      <3>. QED BY <2>0, <3>1, <3>2, <3>3, CleanTexts DEF AnswerOK
    <2>2. ASSUME NEW m \in Msg, Moves(m, "clean", "send"), FinalAnswer(m)
          PROVE  AnswerOK'
      <3>1. \A n \in Msg : n # m => (final'[n] <=> final[n])
        BY <1>1, <2>2, MovesAlone, OthersUntouched DEF Untouched
      <3>2. PICK t \in Cleaned(answer[m]) :
                    answer' = [answer EXCEPT ![m] = t] /\ final'[m] = (t # "blank")
        BY <2>2 DEF FinalAnswer
      <3>. QED BY <2>0, <3>1, <3>2, CleanTexts DEF AnswerOK
    <2>3. ASSUME \A m \in Msg : ~Moves(m, "clean", "send"), answer' = answer
          PROVE  AnswerOK'
      <3>1. \A n \in Msg : final'[n] => final[n]
        <4>1. ASSUME NEW m \in Msg, Receive(m) \/ Step(m) \/ DelayedReact(m)
              PROVE  final' = final
          BY <2>3, <4>1, FinalStep
        <4>. QED BY <1>1, <4>1 DEF Next, AbortGeneration, Shutdown, Stopped, vars, ctxVars
      <3>. QED BY <2>3, <3>1 DEF AnswerOK
    <2>. QED BY <1>1, <2>1, <2>2, <2>3 DEF Compose
  <1>2. CASE EndpointChange \/ Retry \/ UNCHANGED contentVars
    BY <1>2 DEF EndpointChange, Retry, contentVars, content, AnswerOK, vars, ctxVars
  <1>. QED BY <1>1, <1>2 DEF ContentNext

(* No thoughts that the filters know reach Discord or the memories.        *)
THEOREM KeepsThoughts == ContentSpec => []ThoughtsStayInside
  <1>1. ContentInit => AnswerOK
    BY DEF ContentInit, ObservedInit, Init, AnswerOK, CleanText
  <1>2. TypeOK /\ (TypeOK /\ RunInv)' /\ ContentInv /\ AnswerOK /\ [ContentNext]_contentVars
          => AnswerOK'
    BY AnswerNext
  <1>3. AnswerOK => ThoughtsStayInside
    BY DEF AnswerOK, CleanText, ThoughtsStayInside
  <1>. QED BY <1>1, <1>2, <1>3, ContentRuns, ContentCorrect, PTL DEF ContentSpec

-----------------------------------------------------------------------------
(* ReplyContent: the order of a channel's rows *)

(* Listing rows that are not in a sequence extends it.                     *)
LEMMA RowsAppended ==
    ASSUME NEW s \in Seq(Row), NEW S \in SUBSET Row, IsInjective(s),
           S \cap ToSet(s) = {}, NEW t, t = s \o SetToSeq(S)
    PROVE  /\ IsInjective(t)
           /\ ToSet(t) = ToSet(s) \cup S
           /\ \A i \in DOMAIN s : i \in DOMAIN t /\ t[i] = s[i]
  <1>. DEFINE f == SetToSeq(S)  k == Cardinality(S)
  <1>1. IsFiniteSet(S)
    BY RowsFinite, FS_Subset
  <1>2. /\ k \in Nat
        /\ f \in [1..k -> S] /\ f \in Seq(S) /\ Len(f) = k
        /\ \A i, j \in 1..k : f[i] = f[j] => i = j
        /\ \A x \in S : \E i \in 1..k : f[i] = x
    BY <1>1, SetListed
  <1>. HIDE DEF f, k
  <1>3. f \in Seq(Row)
    BY <1>2, SeqMonotonic
  <1>4. /\ Len(s) \in Nat /\ DOMAIN s = 1..Len(s)
        /\ t \in Seq(Row) /\ Len(t) = Len(s) + k /\ DOMAIN t = 1..(Len(s) + k)
        /\ \A i \in 1..(Len(s) + k) : t[i] = IF i <= Len(s) THEN s[i] ELSE f[i - Len(s)]
    <2>1. Len(s) \in Nat /\ DOMAIN s = 1..Len(s)
      BY LenProperties
    <2>2. t = s \o f
      BY DEF f
    <2>3. /\ t \in Seq(Row)
          /\ Len(t) = Len(s) + k
          /\ \A i \in 1..(Len(s) + k) : t[i] = IF i <= Len(s) THEN s[i] ELSE f[i - Len(s)]
      <3>1. /\ s \o f \in Seq(Row)
            /\ Len(s \o f) = Len(s) + Len(f)
            /\ \A i \in 1..(Len(s) + Len(f)) :
                  (s \o f)[i] = IF i <= Len(s) THEN s[i] ELSE f[i - Len(s)]
        BY <1>3, ConcatProperties, Zenon
      <3>2. Len(f) = k
        BY <1>2
      <3>. QED BY <2>2, <3>1, <3>2, Zenon
    <2>4. DOMAIN t = 1..(Len(s) + k)
      BY <2>3, LenProperties
    <2>. QED BY <2>1, <2>3, <2>4
  <1>5. /\ \A i \in 1..Len(s) : i \in DOMAIN t /\ t[i] = s[i]
        /\ \A i \in 1..k : Len(s) + i \in DOMAIN t /\ t[Len(s) + i] = f[i]
        /\ \A j \in DOMAIN t : j \in 1..Len(s) \/ \E i \in 1..k : j = Len(s) + i
    <2>1. ASSUME NEW j \in DOMAIN t, j \notin 1..Len(s)
          PROVE  \E i \in 1..k : j = Len(s) + i
      <3>1. j \in 1..(Len(s) + k) /\ Len(s) \in Nat
        BY <1>4
      <3>2. j - Len(s) \in 1..k /\ j = Len(s) + (j - Len(s))
        BY <1>2, <2>1, <3>1
      <3>. QED BY <3>2
    <2>2. ASSUME NEW i \in 1..Len(s)
          PROVE  i \in DOMAIN t /\ t[i] = s[i]
      <3>1. i \in 1..(Len(s) + k) /\ i <= Len(s)
        BY <1>2, <1>4
      <3>. QED BY <1>4, <3>1
    <2>3. ASSUME NEW i \in 1..k
          PROVE  Len(s) + i \in DOMAIN t /\ t[Len(s) + i] = f[i]
      <3>1. Len(s) + i \in 1..(Len(s) + k) /\ ~(Len(s) + i <= Len(s)) /\ Len(s) + i - Len(s) = i
        BY <1>2, <1>4
      <3>. QED BY <1>4, <3>1
    <2>. QED BY <2>1, <2>2, <2>3
  <1>6. \A i \in 1..k : f[i] \in S
    BY <1>2
  <1>7. \A i \in 1..Len(s) : s[i] \notin S
    BY <1>4 DEF ToSet
  <1>8. \A i, j \in 1..Len(s) : s[i] = s[j] => i = j
    BY <1>4 DEF IsInjective
  <1>9. IsInjective(t)
    <2>. SUFFICES ASSUME NEW i \in DOMAIN t, NEW j \in DOMAIN t, t[i] = t[j]
                  PROVE  i = j
      BY DEF IsInjective
    <2>1. i \in 1..Len(s) \/ \E a \in 1..k : i = Len(s) + a
      BY <1>5
    <2>2. j \in 1..Len(s) \/ \E a \in 1..k : j = Len(s) + a
      BY <1>5
    <2>3. CASE i \in 1..Len(s) /\ j \in 1..Len(s)
      BY <1>5, <1>8, <2>3
    <2>4. ASSUME NEW a \in 1..k, i = Len(s) + a, j \in 1..Len(s)
          PROVE  FALSE
      BY <1>5, <1>6, <1>7, <2>4
    <2>5. ASSUME NEW a \in 1..k, j = Len(s) + a, i \in 1..Len(s)
          PROVE  FALSE
      BY <1>5, <1>6, <1>7, <2>5
    <2>6. ASSUME NEW a \in 1..k, i = Len(s) + a, NEW b \in 1..k, j = Len(s) + b
          PROVE  i = j
      <3>1. f[a] = f[b]
        BY <1>5, <2>6
      <3>. QED BY <1>2, <2>6, <3>1
    <2>. QED BY <2>1, <2>2, <2>3, <2>4, <2>5, <2>6
  <1>10. ToSet(t) = ToSet(s) \cup S
    <2>1. ASSUME NEW x \in ToSet(t) PROVE x \in ToSet(s) \cup S
      <3>1. PICK j \in DOMAIN t : t[j] = x
        BY DEF ToSet
      <3>2. CASE j \in 1..Len(s)
        BY <1>4, <1>5, <3>1, <3>2 DEF ToSet
      <3>3. ASSUME NEW i \in 1..k, j = Len(s) + i
            PROVE  x \in S
        BY <1>5, <1>6, <3>1, <3>3
      <3>. QED BY <1>5, <3>2, <3>3
    <2>2. ASSUME NEW x \in ToSet(s) PROVE x \in ToSet(t)
      <3>1. PICK j \in DOMAIN s : s[j] = x
        BY DEF ToSet
      <3>. QED BY <1>4, <1>5, <3>1 DEF ToSet
    <2>3. ASSUME NEW x \in S PROVE x \in ToSet(t)
      <3>1. PICK j \in 1..k : f[j] = x
        BY <1>2
      <3>. QED BY <1>5, <3>1 DEF ToSet
    <2>. QED BY <2>1, <2>2, <2>3
  <1>. QED BY <1>4, <1>5, <1>9, <1>10

(* The stages whose prompt is built or being built.                        *)
PromptStage == ReplyStage \ {"decide", "retrieve"}

(* A step of a message, by the part of the path it belongs to.             *)
ArrivalStep(m) ==
    /\ pc[m] = "none" /\ pc'[m] = "received"
    /\ UNCHANGED <<recent, seen, delivered>>
IntakeStep(m) ==
    /\ pc[m] = "received" /\ pc'[m] = "decide"
    /\ Commit(recent, {UserRow(m)})
    /\ UNCHANGED <<seen, delivered>>
HistoryStep(m) ==
    /\ Moves(m, "retrieve", "plan")
    /\ \E rows \in History(chan[m]) : seen' = [seen EXCEPT ![m] = rows]
    /\ UNCHANGED <<recent, delivered>>
StageStep(m) ==
    /\ pc[m] \in ReplyStage
    /\ pc'[m] \in ReplyStage \cup {"write", "after"}
    /\ pc'[m] \in PromptStage => pc[m] \in PromptStage
    /\ \/ delivered' = delivered
       \/ delivered' = delivered \cup {m} /\ pc'[m] \notin ReplyStage
    /\ UNCHANGED <<recent, seen>>
EndingStep(m) ==
    /\ pc[m] \in WritePoint \cup {"after", "voice"}
    /\ pc'[m] \in WritePoint \cup {"after", "voice", "done"}
    /\ pc[m] = "voice" => pc'[m] = "done"
    /\ recent' = recent \/ recent' = recent \cup {BotRow(m)}
    /\ UNCHANGED <<seen, delivered>>
ReactionStep == UNCHANGED <<pc, recent, seen, delivered>>

(* The end of MemoryWriteStage stores the reply's row or none.             *)
LEMMA EndWriteStep ==
    ASSUME TypeOK, NEW m \in Msg, NEW entry, EndWrite(m, entry)
    PROVE  /\ pc'[m] \in {"after", "voice"}
           /\ recent' = recent \/ recent' = recent \cup {BotRow(m)}
  <1>1. pc'[m] \in {"after", "voice"}
    BY DEF EndWrite, FinishRun, Goto, TypeOK
  <1>. QED BY <1>1 DEF EndWrite, StoreReply, Commit

LEMMA BeginWriteStep ==
    ASSUME TypeOK, NEW m \in Msg, BeginWrite(m)
    PROVE  /\ pc'[m] \in {"facts", "after", "voice"}
           /\ recent' = recent \/ recent' = recent \cup {BotRow(m)}
  <1>1. PICK entry \in Perceived(m) :
          \/ /\ memory' = memory \cup entry
             /\ Goto(m, "facts")
             /\ UNCHANGED <<recent, managerVars>>
          \/ EndWrite(m, entry)
    BY DEF BeginWrite
  <1>2. CASE Goto(m, "facts") /\ UNCHANGED recent
    BY <1>2 DEF Goto, TypeOK
  <1>. QED BY <1>1, <1>2, EndWriteStep

(* Each action of a message belongs to one of these.                       *)
LEMMA MessageStep ==
    ASSUME TypeOK, NEW m \in Msg, Receive(m) \/ Step(m) \/ DelayedReact(m)
    PROVE  \/ ArrivalStep(m) \/ IntakeStep(m) \/ HistoryStep(m)
           \/ StageStep(m) \/ EndingStep(m) \/ ReactionStep
  <1>. USE DEF ctxVars, storeVars, managerVars
  <1>1. CASE Receive(m)
    BY <1>1 DEF Receive, Goto, TypeOK, ArrivalStep
  <1>2. CASE DelayedReact(m)
    BY <1>2 DEF DelayedReact, ReactionStep
  <1>3. CASE Ingest(m)
    BY <1>3 DEF Ingest, Goto, TypeOK, IntakeStep
  <1>4. CASE Decide(m)
    <2>1. pc[m] = "decide" /\ pc'[m] \in {"retrieve", "after"}
      BY <1>4 DEF Decide, Advance, Goto, Following, TypeOK
    <2>. QED BY <1>4, <2>1 DEF Decide, StageStep, PromptStage, ReplyStage, ReadStage
  <1>5. CASE Retrieve(m)
    <2>1. Moves(m, "retrieve", "plan")
      BY <1>5 DEF Retrieve, Advance, Goto, Following, TypeOK, Moves
    <2>. QED BY <1>5, <2>1 DEF Retrieve, HistoryStep
  <1>6. CASE ReadContext(m) \/ LLMReturn(m) \/ Clean(m)
    <2>1. pc[m] \in PromptStage
      BY <1>6, ReadContextStep DEF LLMReturn, Clean, PromptStage, ReplyStage, ReadStage
    <2>2. pc'[m] \in ReplyStage \cup {"write"}
      BY <1>6, <2>1, AdvanceRun, ReadContextStep DEF LLMReturn, Clean, PromptStage
    <2>3. UNCHANGED <<recent, seen, delivered>>
      BY <1>6, ReadContextStep DEF LLMReturn, Clean
    <2>. QED BY <2>1, <2>2, <2>3 DEF StageStep, PromptStage
  <1>7. CASE Send(m) \/ SendReply(m)
    <2>1. pc[m] \in PromptStage /\ pc'[m] \in {"typing", "write"}
      BY <1>7 DEF Send, SendReply, Advance, Goto, Following, TypeOK, PromptStage, ReplyStage
    <2>2. \/ delivered' = delivered
          \/ delivered' = delivered \cup {m} /\ pc'[m] = "write"
      BY <1>7 DEF Send, SendReply, Advance, Goto, Following, TypeOK
    <2>3. UNCHANGED <<recent, seen>>
      BY <1>7 DEF Send, SendReply
    <2>. QED BY <2>1, <2>2, <2>3 DEF StageStep, PromptStage, ReplyStage, ReadStage
  <1>8. CASE StageError(m)
    <2>1. pc'[m] = "after"
      BY <1>8 DEF StageError, Goto, TypeOK
    <2>. QED BY <1>8, <2>1 DEF StageError, StageStep, PromptStage, ReplyStage, ReadStage
  <1>9. CASE StartWrite(m)
    BY <1>9, BeginWriteStep DEF StartWrite, EndingStep, WritePoint
  <1>10. CASE FactsReturn(m)
    <2>1. CASE EndWrite(m, {})
      BY <1>10, <2>1, EndWriteStep DEF FactsReturn, EndingStep, WritePoint
    <2>2. CASE Goto(m, "contradict") /\ UNCHANGED <<storeVars, managerVars>>
      BY <1>10, <2>2 DEF FactsReturn, Goto, TypeOK, EndingStep, WritePoint
    <2>. QED BY <1>10, <2>1, <2>2 DEF FactsReturn
  <1>11. CASE ContradictionsReturn(m)
    BY <1>11, EndWriteStep DEF ContradictionsReturn, EndingStep, WritePoint
  <1>12. CASE LeaveLoop(m)
    <2>1. CASE halt[m] = ""
      BY <1>12, <2>1 DEF LeaveLoop, FinishRun, Goto, TypeOK, EndingStep, WritePoint
    <2>2. CASE halt[m] # ""
      BY <1>12, <2>2, BeginWriteStep DEF LeaveLoop, EndingStep, WritePoint
    <2>. QED BY <2>1, <2>2
  <1>13. CASE VoiceChecked(m)
    BY <1>13 DEF VoiceChecked, Goto, TypeOK, EndingStep, WritePoint
  <1>. QED BY <1>1, <1>2, <1>3, <1>4, <1>5, <1>6, <1>7, <1>8, <1>9, <1>10,
              <1>11, <1>12, <1>13 DEF Step

(* A step is one of a single message, an aside, or the end of the process. *)
LEMMA NextShape ==
    ASSUME TypeOK, Next
    PROVE  \/ \E m \in Msg : /\ \/ ArrivalStep(m) \/ IntakeStep(m) \/ HistoryStep(m)
                                \/ StageStep(m) \/ EndingStep(m)
                             /\ \A n \in Msg : n # m => pc'[n] = pc[n]
           \/ ReactionStep
           \/ /\ \A n \in Msg : pc'[n] = IF pc[n] \in {"none", "done"} THEN pc[n] ELSE "lost"
              /\ UNCHANGED <<recent, seen, delivered>>
  <1>1. ASSUME NEW m \in Msg, Receive(m) \/ Step(m) \/ DelayedReact(m)
        PROVE  \/ /\ \/ ArrivalStep(m) \/ IntakeStep(m) \/ HistoryStep(m)
                     \/ StageStep(m) \/ EndingStep(m)
                  /\ \A n \in Msg : n # m => pc'[n] = pc[n]
               \/ ReactionStep
    BY <1>1, MessageStep, OthersUntouched DEF Untouched
  <1>2. CASE AbortGeneration \/ Stopped
    BY <1>2 DEF AbortGeneration, Stopped, vars, ctxVars, storeVars, ReactionStep
  <1>3. CASE Shutdown
    BY <1>3 DEF Shutdown, ctxVars, storeVars
  <1>. QED BY <1>1, <1>2, <1>3 DEF Next

(* The rows that have been said.                                           *)
SaidRows == {r \in Row : IF r.from = "user" THEN pc[r.msg] # "none" ELSE r \in recent}

(* Messages do not go back, and a user's row is stored after it was said.  *)
RowsKept ==
    /\ recent \subseteq recent'
    /\ \A n \in Msg : pc[n] # "none" => pc'[n] # "none"
    /\ \A n \in Msg : pc[n] = "none" => pc'[n] \in {"none", "received"}
    /\ \A r \in recent' \ recent :
          r.from = "user" => pc[r.msg] = "received" /\ pc'[r.msg] # "none"

LEMMA RowsKeptNext == TypeOK /\ Next => RowsKept
  <1>. SUFFICES ASSUME TypeOK, Next
                PROVE  RowsKept
    OBVIOUS
  <1>. USE DEF RowsKept
  <1>1. ASSUME NEW m \in Msg, \A n \in Msg : n # m => pc'[n] = pc[n],
               ArrivalStep(m) \/ HistoryStep(m) \/ StageStep(m)
        PROVE  RowsKept
    <2>1. recent' = recent
      BY <1>1 DEF ArrivalStep, HistoryStep, StageStep
    <2>2. \/ pc[m] = "none" /\ pc'[m] = "received"
          \/ pc[m] # "none" /\ pc'[m] # "none"
      BY <1>1 DEF ArrivalStep, HistoryStep, StageStep, Moves, ReplyStage, ReadStage
    <2>. QED BY <1>1, <2>1, <2>2
  <1>2. ASSUME NEW m \in Msg, \A n \in Msg : n # m => pc'[n] = pc[n], IntakeStep(m)
        PROVE  RowsKept
    <2>1. /\ pc[m] = "received" /\ pc'[m] = "decide"
          /\ recent' = recent \/ recent' = recent \cup {UserRow(m)}
      BY <1>2 DEF IntakeStep, Commit
    <2>. QED BY <1>2, <2>1 DEF UserRow
  <1>3. ASSUME NEW m \in Msg, \A n \in Msg : n # m => pc'[n] = pc[n], EndingStep(m)
        PROVE  RowsKept
    <2>1. /\ pc[m] # "none" /\ pc'[m] # "none"
          /\ recent' = recent \/ recent' = recent \cup {BotRow(m)}
      BY <1>3 DEF EndingStep, WritePoint
    <2>. QED BY <1>3, <2>1 DEF BotRow
  <1>4. CASE ReactionStep
    BY <1>4 DEF ReactionStep
  <1>5. CASE /\ \A n \in Msg : pc'[n] = IF pc[n] \in {"none", "done"} THEN pc[n] ELSE "lost"
             /\ UNCHANGED <<recent, seen, delivered>>
    BY <1>5
  <1>. QED BY <1>1, <1>2, <1>3, <1>4, <1>5, NextShape

(* A step says the rows that it says for the first time.                   *)
LEMMA SaidOnce ==
    ASSUME TypeOK, TypeOK', Next, TimelineInv
    PROVE  /\ {r \in Row : Said(r)} \cap SaidRows = {}
           /\ SaidRows' = SaidRows \cup {r \in Row : Said(r)}
           /\ recent \subseteq recent'
           /\ recent' \subseteq SaidRows'
  <1>1. \A r \in Row : r.msg \in Msg /\ r.from \in {"user", "bot"}
    BY DEF Row
  <1>2. recent \subseteq SaidRows
    BY DEF TimelineInv, SaidRows
  <1>3. recent \subseteq Row /\ recent' \subseteq Row
    BY DEF TypeOK
  <1>4. RowsKept
    BY RowsKeptNext
  <1>5. {r \in Row : Said(r)} \cap SaidRows = {}
    BY <1>1, <1>4 DEF RowsKept, Said, Arriving, SaidRows
  <1>6. ASSUME NEW r \in Row
        PROVE  r \in SaidRows' <=> r \in SaidRows \/ Said(r)
    BY <1>1, <1>3, <1>4 DEF RowsKept, Said, Arriving, SaidRows
  <1>7. SaidRows' = SaidRows \cup {r \in Row : Said(r)}
    BY <1>6 DEF SaidRows
  <1>8. recent' \subseteq SaidRows'
    BY <1>1, <1>3, <1>4, <1>2 DEF RowsKept, SaidRows
  <1>. QED BY <1>4, <1>5, <1>7, <1>8 DEF RowsKept

(* Rows keep their places.                                                 *)
Extends ==
    /\ zone' = zone
    /\ recent \subseteq recent'
    /\ \A i \in DOMAIN timeline : i \in DOMAIN timeline' /\ timeline'[i] = timeline[i]

LEMMA ContentOthers ==
    ASSUME EndpointChange \/ Retry \/ UNCHANGED contentVars
    PROVE  UNCHANGED <<vars, observed, zone, timeline>>
  BY DEF EndpointChange, Retry, contentVars, content

LEMMA TimelineNext ==
    ASSUME TypeOK, TypeOK', ContentInv, TimelineInv, [ContentNext]_contentVars
    PROVE  TimelineInv' /\ Extends
  <1>1. CASE Next /\ Observe /\ Compose
    <2>. DEFINE S == {r \in Row : Said(r)}
    <2>1. /\ S \cap ToSet(timeline) = {}
          /\ SaidRows' = ToSet(timeline) \cup S
          /\ recent \subseteq recent'
          /\ recent' \subseteq SaidRows'
      BY <1>1, SaidOnce DEF TimelineInv, SaidRows
    <2>2. /\ timeline \in Seq(Row) /\ IsInjective(timeline)
          /\ timeline' = timeline \o SetToSeq(S) /\ zone' = zone
          /\ S \in SUBSET Row
      BY <1>1 DEF ContentInv, ContentTypeOK, TimelineInv, Compose
    <2>. HIDE DEF S
    <2>3. /\ IsInjective(timeline')
          /\ ToSet(timeline') = ToSet(timeline) \cup S
          /\ \A i \in DOMAIN timeline : i \in DOMAIN timeline' /\ timeline'[i] = timeline[i]
      BY <2>1, <2>2, RowsAppended
    <2>. QED BY <2>1, <2>2, <2>3 DEF TimelineInv, SaidRows, Extends
  <1>2. CASE EndpointChange \/ Retry \/ UNCHANGED contentVars
    BY <1>2, ContentOthers DEF vars, storeVars, TimelineInv, Extends
  <1>. QED BY <1>1, <1>2 DEF ContentNext

(* The order of two rows does not change when others are said.             *)
LEMMA OrderKept ==
    ASSUME TimelineInv, TimelineInv', Extends, NEW r \in recent, NEW s \in recent
    PROVE  Before(r, s) => Before(r, s)'
  <1>1. ASSUME NEW x \in recent
        PROVE  At(x)' = At(x)
    <2>1. PICK i \in DOMAIN timeline : timeline[i] = x
      BY DEF TimelineInv, ToSet
    <2>2. At(x) = i
      BY <2>1 DEF At, TimelineInv, IsInjective
    <2>3. i \in DOMAIN timeline' /\ timeline'[i] = x
      BY <2>1 DEF Extends
    <2>4. At(x)' = i
      BY <2>3 DEF At, TimelineInv, IsInjective
    <2>. QED BY <2>2, <2>4
  <1>2. ASSUME NEW x \in recent
        PROVE  Time(x)' = Time(x)
    BY <1>1, <1>2 DEF Time, Extends
  <1>3. Time(r)' = Time(r) /\ Time(s)' = Time(s)
    BY <1>2
  <1>. QED BY <1>3 DEF Before

(* So that no row becomes newer than another but by being said.            *)
LEMMA NewerGrows ==
    ASSUME TypeOK, TypeOK', TimelineInv, TimelineInv', Extends, NEW r \in recent
    PROVE  /\ Cardinality(Newer(r)) \in Nat /\ Cardinality(Newer(r)') \in Nat
           /\ Cardinality(Newer(r)) <= Cardinality(Newer(r)')
  <1>1. Newer(r) \subseteq Newer(r)'
    BY OrderKept DEF Newer, Extends
  <1>2. IsFiniteSet(Newer(r)')
    <2>1. Newer(r)' \in SUBSET Row
      BY DEF Newer, TypeOK
    <2>. QED BY <2>1, RowsFinite, FS_Subset
  <1>3. Newer(r) \in SUBSET (Newer(r)')
    BY <1>1
  <1>. QED BY <1>2, <1>3, FS_Subset, FS_CardinalityType

(* What a step does to one message.                                        *)
OwnProgress(m) ==
    /\ pc[m] \in {"voice", "done", "lost"} =>
            pc'[m] \in {"voice", "done", "lost"} /\ (m \in delivered' => m \in delivered)
    /\ m \in delivered' /\ m \notin delivered => pc'[m] \notin {"none", "received"} \cup ReplyStage
    /\ pc'[m] \in {"none", "received"} \cup ReplyStage => pc[m] \in {"none", "received"} \cup ReplyStage
    /\ pc'[m] \notin {"none", "received", "lost"} =>
            \/ pc[m] \notin {"none", "received", "lost"}
            \/ ~StorageFails => UserRow(m) \in recent'
    /\ pc'[m] \in PromptStage => pc[m] \in PromptStage \/ Moves(m, "retrieve", "plan")

LEMMA Progress ==
    ASSUME TypeOK, Next, NEW n \in Msg
    PROVE  OwnProgress(n)
  <1>. USE DEF OwnProgress, PromptStage, ReplyStage, ReadStage
  <1>1. ASSUME NEW m \in Msg, ArrivalStep(m), \A k \in Msg : k # m => pc'[k] = pc[k]
        PROVE  OwnProgress(n)
    BY <1>1 DEF ArrivalStep
  <1>2. ASSUME NEW m \in Msg, IntakeStep(m), \A k \in Msg : k # m => pc'[k] = pc[k]
        PROVE  OwnProgress(n)
    BY <1>2 DEF IntakeStep, Commit
  <1>3. ASSUME NEW m \in Msg, HistoryStep(m), \A k \in Msg : k # m => pc'[k] = pc[k]
        PROVE  OwnProgress(n)
    BY <1>3 DEF HistoryStep, Moves
  <1>4. ASSUME NEW m \in Msg, StageStep(m), \A k \in Msg : k # m => pc'[k] = pc[k]
        PROVE  OwnProgress(n)
    BY <1>4 DEF StageStep
  <1>5. ASSUME NEW m \in Msg, EndingStep(m), \A k \in Msg : k # m => pc'[k] = pc[k]
        PROVE  OwnProgress(n)
    BY <1>5 DEF EndingStep, WritePoint
  <1>6. CASE ReactionStep
    BY <1>6 DEF ReactionStep
  <1>7. CASE /\ \A k \in Msg : pc'[k] = IF pc[k] \in {"none", "done"} THEN pc[k] ELSE "lost"
             /\ UNCHANGED <<recent, seen, delivered>>
    BY <1>7
  <1>. QED BY <1>1, <1>2, <1>3, <1>4, <1>5, <1>6, <1>7, NextShape

(* An ended turn says nothing more.                                        *)
LEMMA EndedTurnKept ==
    ASSUME NEW n \in Msg, OwnProgress(n), pc[n] \in {"voice", "done", "lost"},
           recent \subseteq recent'
    PROVE  /\ Turn(n)' \subseteq Turn(n)
           /\ Turn(n) \subseteq recent => Turn(n)' \subseteq recent'
  BY DEF OwnProgress, Turn

LEMMA EndedNext ==
    ASSUME TypeOK, TypeOK', RunInv, ContentInv, EndedInv, [ContentNext]_contentVars
    PROVE  EndedInv'
  <1>1. CASE Next /\ Observe /\ Compose
    <2>. SUFFICES ASSUME NEW m \in Msg
                  PROVE
        /\ m \in delivered' => pc'[m] \notin {"none", "received"} \cup ReplyStage
        /\ ~StorageFails /\ pc'[m] \notin {"none", "received", "lost"} => UserRow(m) \in recent'
        /\ \A n \in endedBefore'[m] : /\ pc'[n] \in {"voice", "done", "lost"}
                                      /\ ~StorageFails => Turn(n)' \subseteq recent'
      BY DEF EndedInv
    <2>1. RowsKept /\ \A n \in Msg : OwnProgress(n)
      BY <1>1, RowsKeptNext, Progress
    <2>2. m \in delivered' => pc'[m] \notin {"none", "received"} \cup ReplyStage
      BY <2>1 DEF OwnProgress, EndedInv
    <2>3. ~StorageFails /\ pc'[m] \notin {"none", "received", "lost"} => UserRow(m) \in recent'
      BY <2>1 DEF OwnProgress, RowsKept, EndedInv
    <2>4. endedBefore'[m] \subseteq Msg /\ endedBefore[m] \subseteq Msg
      BY <1>1 DEF Observe, Finished, ContentInv, ContentTypeOK, ObservedTypeOK
    <2>5. ASSUME NEW n \in endedBefore'[m]
          PROVE  /\ pc[n] \in {"voice", "done", "lost"}
                 /\ ~StorageFails => Turn(n) \subseteq recent
      <3>1. CASE n \in endedBefore[m]
        BY <3>1 DEF EndedInv
      <3>2. CASE n \in Finished
        <4>1. ~StorageFails => UserRow(n) \in recent
          BY <3>2 DEF Finished, EndedInv
        <4>2. ~StorageFails /\ n \in delivered => BotRow(n) \in recent
          BY <3>2 DEF Finished, RunInv, ReplyState
        <4>. QED BY <3>2, <4>1, <4>2 DEF Finished, Turn
      <3>. QED BY <1>1, <3>1, <3>2 DEF Observe
    <2>6. ASSUME NEW n \in endedBefore'[m]
          PROVE  /\ pc'[n] \in {"voice", "done", "lost"}
                 /\ ~StorageFails => Turn(n)' \subseteq recent'
      <3>1. n \in Msg /\ OwnProgress(n) /\ recent \subseteq recent'
        BY <2>1, <2>4 DEF RowsKept
      <3>2. pc'[n] \in {"voice", "done", "lost"}
        BY <2>5, <3>1 DEF OwnProgress
      <3>. QED BY <2>5, <3>1, <3>2, EndedTurnKept
    <2>. QED BY <2>2, <2>3, <2>6
  <1>2. CASE EndpointChange \/ Retry \/ UNCHANGED contentVars
    BY <1>2, ContentOthers DEF vars, storeVars, observed, EndedInv, Turn
  <1>. QED BY <1>1, <1>2 DEF ContentNext

-----------------------------------------------------------------------------
(* ReplyContent: what a prompt is given to read *)

LEMMA PromptStages == Prompted = {m \in Msg : pc[m] \in PromptStage}
  BY DEF Prompted, PromptStage

(* A prompt reads the history only once.                                   *)
LEMMA SeenStep ==
    ASSUME TypeOK, Next, NEW m \in Msg
    PROVE  /\ pc[m] # "retrieve" => seen'[m] = seen[m]
           /\ Moves(m, "retrieve", "plan") =>
                /\ seen'[m] \in History(chan[m])
                /\ recent' = recent
  <1>1. ASSUME NEW k \in Msg, HistoryStep(k), \A n \in Msg : n # k => pc'[n] = pc[n]
        PROVE  /\ pc[m] # "retrieve" => seen'[m] = seen[m]
               /\ Moves(m, "retrieve", "plan") =>
                    /\ seen'[m] \in History(chan[m])
                    /\ recent' = recent
    <2>1. PICK rows \in History(chan[k]) : seen' = [seen EXCEPT ![k] = rows]
      BY <1>1 DEF HistoryStep
    <2>2. pc[k] = "retrieve" /\ recent' = recent
      BY <1>1 DEF HistoryStep, Moves
    <2>. QED BY <1>1, <2>1, <2>2 DEF Moves, TypeOK
  <1>2. ASSUME NEW k \in Msg, \A n \in Msg : n # k => pc'[n] = pc[n],
               ArrivalStep(k) \/ IntakeStep(k) \/ StageStep(k) \/ EndingStep(k)
        PROVE  seen' = seen /\ ~Moves(m, "retrieve", "plan")
    BY <1>2 DEF ArrivalStep, IntakeStep, StageStep, EndingStep, Moves, PromptStage,
                ReplyStage, ReadStage, WritePoint
  <1>3. CASE ReactionStep
    BY <1>3 DEF ReactionStep, Moves
  <1>4. CASE /\ \A n \in Msg : pc'[n] = IF pc[n] \in {"none", "done"} THEN pc[n] ELSE "lost"
             /\ UNCHANGED <<recent, seen, delivered>>
    BY <1>4 DEF Moves
  <1>. QED BY <1>1, <1>2, <1>3, <1>4, NextShape

(* What is not among the newest has a full window of newer rows.           *)
LEMMA NewestOrFull ==
    ASSUME NEW rows, IsFiniteSet(rows), NEW n \in Nat, NEW r \in rows
    PROVE  /\ Cardinality({s \in rows : Before(r, s)}) \in Nat
           /\ r \in Newest(rows, n) \/ Cardinality({s \in rows : Before(r, s)}) >= n
  <1>. DEFINE later == {s \in rows : Before(r, s)}
  <1>1. IsFiniteSet(later)
    BY FS_Subset
  <1>2. Cardinality(later) \in Nat
    BY <1>1, FS_CardinalityType
  <1>3. Cardinality(later) < n => r \in Newest(rows, n)
    BY DEF Newest
  <1>. HIDE DEF later
  <1>4. Cardinality(later) < n \/ Cardinality(later) >= n
    BY <1>2
  <1>. QED BY <1>2, <1>3, <1>4 DEF later

(* What a prompt owes when the table holds it.                             *)
LEMMA OwedRows ==
    ASSUME TypeOK, ContentInv, EndedInv, ~StorageFails, NEW m \in Msg,
           pc[m] \in PromptStage \cup {"retrieve"}, NEW n \in Owed(m)
    PROVE  /\ n \in Msg /\ chan[n] = chan[m]
           /\ Turn(n) \subseteq {r \in recent : chan[r.msg] = chan[m]}
  <1>1. endedBefore[m] \subseteq Msg
    BY DEF ContentInv, ContentTypeOK, ObservedTypeOK
  <1>2. n \in Msg /\ chan[n] = chan[m]
    BY <1>1 DEF Owed, InChannel
  <1>3. \A r \in Turn(n) : r.msg = n
    BY DEF Turn, UserRow, BotRow
  <1>4. CASE n = m
    BY <1>2, <1>3, <1>4 DEF EndedInv, Turn, PromptStage, ReplyStage, ReadStage
  <1>5. CASE n \in endedBefore[m]
    BY <1>2, <1>3, <1>5 DEF EndedInv
  <1>. QED BY <1>2, <1>4, <1>5 DEF Owed, InChannel

(* The history read for a prompt holds what it owes, or its window was full. *)
LEMMA WindowRead ==
    ASSUME TypeOK, ContentInv, EndedInv, ~StorageFails, NEW m \in Msg,
           pc[m] = "retrieve", NEW S, S \in History(chan[m]),
           S \in {{}, Newest({r \in recent : chan[r.msg] = chan[m]}, HistoryLimit)},
           NEW n \in Owed(m), NEW r \in Turn(n)
    PROVE  r \in S \/ Cardinality(Newer(r)) >= HistoryLimit
  <1>. DEFINE rows == {s \in recent : chan[s.msg] = chan[m]}
  <1>1. r \in rows
    BY OwedRows
  <1>2. IsFiniteSet(rows)
    <2>1. rows \in SUBSET Row
      BY DEF TypeOK
    <2>. QED BY <2>1, RowsFinite, FS_Subset
  <1>3. Newer(r) = {s \in rows : Before(r, s)}
    BY <1>1 DEF Newer
  <1>4. /\ Cardinality(Newer(r)) \in Nat
        /\ r \in Newest(rows, HistoryLimit) \/ Cardinality(Newer(r)) >= HistoryLimit
    <2>. HIDE DEF rows
    <2>. QED BY <1>1, <1>2, <1>3, NewestOrFull, PipelineAssumption
  <1>5. CASE S = {}
    <2>1. HistoryLimit = 0
      BY <1>1, <1>5, FS_EmptySet DEF History
    <2>. QED BY <1>4, <2>1
  <1>6. CASE S = Newest(rows, HistoryLimit)
    BY <1>4, <1>6
  <1>. QED BY <1>5, <1>6

(* Once read, it stays so: turns that ended say nothing more, and rows     *)
(* only become newer.                                                      *)
LEMMA WindowNext ==
    ASSUME TypeOK, TypeOK', ContentInv, ContentInv', TimelineInv, TimelineInv', Extends,
           EndedInv, EndedInv', WindowInv, [ContentNext]_contentVars
    PROVE  WindowInv'
  <1>1. CASE Next /\ Observe /\ Compose
    <2>. SUFFICES ASSUME ~StorageFails, NEW m \in Msg, pc'[m] \in PromptStage
                  PROVE
            /\ seen'[m] \subseteq {r \in recent' : chan[r.msg] = chan[m]}
            /\ \A n \in Owed(m)' : \A r \in Turn(n)' :
                  r \in seen'[m] \/ Cardinality(Newer(r)') >= HistoryLimit
      BY PromptStages DEF WindowInv, Prompted, PromptStage
    <2>0. HistoryLimit \in Nat
      BY PipelineAssumption
    <2>1. /\ recent \subseteq recent' /\ \A n \in Msg : OwnProgress(n)
          /\ pc[m] \in PromptStage \cup {"retrieve"}
          /\ pc[m] # "none"
      BY <1>1, RowsKeptNext, Progress DEF RowsKept, OwnProgress, Moves, PromptStage,
            ReplyStage, ReadStage
    <2>2. Owed(m)' = Owed(m)
      BY <1>1, <2>1 DEF Observe, Arriving, Owed, InChannel
    <2>3. ASSUME NEW n \in Owed(m)
          PROVE  Turn(n)' \subseteq Turn(n) /\ Turn(n) \subseteq recent
      <3>1. n \in Msg /\ Turn(n) \subseteq recent
        BY <2>1, OwedRows
      <3>2. CASE n = m
        <4>1. m \in delivered' => m \in delivered
          BY <2>1 DEF OwnProgress, PromptStage
        <4>2. Turn(m)' \subseteq Turn(m)
          BY <4>1 DEF Turn
        <4>. QED BY <3>1, <3>2, <4>2, Zenon
      <3>3. CASE n \in endedBefore[m]
        <4>1. pc[n] \in {"voice", "done", "lost"}
          BY <3>3 DEF EndedInv
        <4>. QED BY <2>1, <3>1, <4>1, EndedTurnKept
      <3>. QED BY <3>1, <3>2, <3>3 DEF Owed, InChannel
    <2>4. ASSUME NEW r \in recent, Cardinality(Newer(r)) >= HistoryLimit
          PROVE  Cardinality(Newer(r)') >= HistoryLimit
      BY <2>0, <2>4, NewerGrows
    <2>5. CASE pc[m] \in PromptStage
      <3>1. seen'[m] = seen[m]
        BY <1>1, <2>5, SeenStep DEF PromptStage
      <3>2. /\ seen[m] \subseteq {r \in recent : chan[r.msg] = chan[m]}
            /\ \A n \in Owed(m) : \A r \in Turn(n) :
                  r \in seen[m] \/ Cardinality(Newer(r)) >= HistoryLimit
        BY <2>5, PromptStages DEF WindowInv
      <3>. QED BY <2>1, <2>2, <2>3, <2>4, <3>1, <3>2
    <2>6. CASE Moves(m, "retrieve", "plan")
      <3>1. /\ seen'[m] \in History(chan[m])
            /\ seen'[m] \in {{}, Newest({r \in recent : chan[r.msg] = chan[m]}, HistoryLimit)}
            /\ pc[m] = "retrieve"
        BY <1>1, <2>6, SeenStep DEF Compose, Moves
      <3>2. \A n \in Owed(m) : \A r \in Turn(n) :
                  r \in seen'[m] \/ Cardinality(Newer(r)) >= HistoryLimit
        BY <3>1, WindowRead
      <3>3. seen'[m] \subseteq {r \in recent : chan[r.msg] = chan[m]}
        BY <3>1 DEF History
      <3>. QED BY <2>1, <2>2, <2>3, <2>4, <3>2, <3>3
    <2>. QED BY <1>1, <2>1, <2>5, <2>6, Progress DEF OwnProgress
  <1>2. CASE EndpointChange \/ Retry \/ UNCHANGED contentVars
    <2>1. UNCHANGED <<vars, observed, zone, timeline>>
      BY <1>2, ContentOthers
    <2>2. /\ UNCHANGED <<pc, seen, recent, delivered, endedBefore, zone, timeline>>
      BY <2>1 DEF vars, ctxVars, storeVars, observed
    <2>3. Prompted' = Prompted
      BY <2>2 DEF Prompted
    <2>4. \A m \in Msg : Owed(m)' = Owed(m) /\ Turn(m)' = Turn(m)
      BY <2>2 DEF Owed, InChannel, Turn
    <2>5. \A r : Newer(r)' = Newer(r)
      BY <2>2 DEF Newer, Before, Time, At
    <2>. QED BY <2>2, <2>3, <2>4, <2>5 DEF WindowInv, Owed, InChannel, Turn
  <1>. QED BY <1>1, <1>2 DEF ContentNext

LEMMA HistoryInit == ContentInit => HistoryInv
  <1>. SUFFICES ASSUME ContentInit
                PROVE  HistoryInv
    OBVIOUS
  <1>1. /\ timeline = <<>> /\ recent = {} /\ delivered = {}
        /\ \A m \in Msg : pc[m] = "none" /\ endedBefore[m] = {}
    BY DEF ContentInit, ObservedInit, Init
  <1>2. TimelineInv
    BY <1>1 DEF TimelineInv, IsInjective, ToSet, Row
  <1>3. EndedInv
    BY <1>1 DEF EndedInv
  <1>4. WindowInv
    BY <1>1 DEF WindowInv, Prompted, ReplyStage, ReadStage
  <1>. QED BY <1>2, <1>3, <1>4 DEF HistoryInv

(* A message keeps its place in the history, and a prompt what it was      *)
(* given to read.                                                          *)
THEOREM HistoryCorrect == ContentSpec => []HistoryInv
  <1>1. TypeOK /\ TypeOK' /\ RunInv /\ ContentInv /\ ContentInv' /\ HistoryInv
          /\ [ContentNext]_contentVars => HistoryInv'
    BY TimelineNext, EndedNext, WindowNext DEF HistoryInv
  <1>. QED BY <1>1, HistoryInit, ContentRuns, ContentCorrect, PTL DEF ContentSpec

(* What the assembly and the generator cut from the history.               *)
LEMMA GivenOrFull ==
    ASSUME TypeOK, ContentInv, WindowInv, ~StorageFails, NEW m \in Prompted,
           NEW r \in seen[m], HasText(r)
    PROVE  \/ r \in Given(m)
           \/ Cardinality({s \in Newer(r) : HasText(s)}) >= CallLimit
  <1>. DEFINE rows == {s \in seen[m] : HasText(s)}
              full == {s \in Newer(r) : HasText(s)}
  <1>1. seen[m] \subseteq {s \in recent : chan[s.msg] = chan[m]}
    BY DEF WindowInv
  <1>2. IsFiniteSet(rows) /\ IsFiniteSet(Assembled(m)) /\ IsFiniteSet(full)
    <2>1. rows \in SUBSET Row /\ full \in SUBSET Row
      BY <1>1 DEF TypeOK, Newer
    <2>2. Assembled(m) \in SUBSET rows
      BY DEF Assembled, Newest
    <2>. QED BY <2>1, <2>2, RowsFinite, FS_Subset
  <1>3. /\ PromptLimit \in Nat /\ CallLimit \in Nat /\ CallLimit <= PromptLimit
        /\ HasContext
    BY ContentAssumption DEF HasContext, Tastes
  <1>4. ASSUME NEW some \in SUBSET rows
        PROVE  Cardinality({s \in some : Before(r, s)}) <= Cardinality(full)
    <2>1. {s \in some : Before(r, s)} \in SUBSET full
      BY <1>1 DEF Newer
    <2>. QED BY <1>2, <2>1, FS_Subset
  <1>5. Cardinality(full) \in Nat
    BY <1>2, FS_CardinalityType
  <1>6. r \in rows
    OBVIOUS
  <1>7. CASE r \notin Assembled(m)
    <2>. DEFINE later == {s \in rows : Before(r, s)}
    <2>1. Cardinality(later) \in Nat /\ Cardinality(later) >= PromptLimit
      BY <1>2, <1>3, <1>6, <1>7, NewestOrFull DEF Assembled
    <2>2. Cardinality(later) <= Cardinality(full)
      BY <1>4
    <2>. HIDE DEF later, full
    <2>3. Cardinality(full) >= CallLimit
      BY <1>3, <1>5, <2>1, <2>2
    <2>. QED BY <2>3 DEF full
  <1>8. CASE r \in Assembled(m)
    <2>. DEFINE later == {s \in Assembled(m) : Before(r, s)}
    <2>1. Cardinality(later) \in Nat /\ (r \in Given(m) \/ Cardinality(later) >= CallLimit)
      BY <1>2, <1>3, <1>8, NewestOrFull DEF Given
    <2>2. Cardinality(later) <= Cardinality(full)
      <3>1. Assembled(m) \in SUBSET rows
        BY DEF Assembled, Newest
      <3>. QED BY <1>4, <3>1
    <2>. HIDE DEF later, full
    <2>3. r \in Given(m) \/ Cardinality(full) >= CallLimit
      BY <1>3, <1>5, <2>1, <2>2
    <2>. QED BY <2>3 DEF full
  <1>. QED BY <1>7, <1>8

(* The request to the model holds the message it answers and both sides of *)
(* the turns that had ended when it arrived, unless a window was full.     *)
THEOREM ReadsEndedTurns == ContentSpec => []ModelReadsEndedTurns
  <1>1. TypeOK /\ ContentInv /\ HistoryInv => ModelReadsEndedTurns
    <2>. SUFFICES ASSUME TypeOK, ContentInv, HistoryInv, ~StorageFails,
                         NEW m \in Prompted, NEW n \in Owed(m), NEW r \in Turn(n), HasText(r)
                  PROVE  \/ r \in Given(m)
                         \/ Cardinality({s \in Newer(r) : HasText(s)}) >= CallLimit
                         \/ Cardinality(Newer(r)) >= HistoryLimit
      BY DEF ModelReadsEndedTurns
    <2>1. r \in seen[m] \/ Cardinality(Newer(r)) >= HistoryLimit
      BY DEF HistoryInv, WindowInv
    <2>. QED BY <2>1, GivenOrFull DEF HistoryInv
  <1>. QED BY <1>1, HistoryCorrect, ContentRuns, ContentCorrect, PTL
=============================================================================
