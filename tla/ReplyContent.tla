---------------------------- MODULE ReplyContent -----------------------------
(***************************************************************************)
(* What the language model is given to read for a message, and what        *)
(* becomes of the text it answers with: MessagePipelineObserved with the   *)
(* order of a channel's rows, the connection to the model and the texts.   *)
(*                                                                         *)
(* The rows of recent_messages are ordered by a text.  For a user's        *)
(* message it is Discord's time, in UTC; for a reply of the bot it is the  *)
(* host's local time.  The texts of different rows are taken to differ, so *)
(* that collapsing equal neighbours changes nothing.                       *)
(***************************************************************************)
EXTENDS MessagePipelineObserved, Sequences, SequencesExt

CONSTANTS
    Textless,       \* messages whose row has no content: a file, no image
    PromptLimit,    \* history entries of the assembled messages (10)
    CallLimit,      \* entries the generator passes on (8)
    StoredTastes,   \* rows of bot_preferences an earlier process left
    ThinkingModel,  \* the model's name says that it thinks
    Zones,          \* the clocks hosts may have
    EndpointChanges \* bound: how often the model's server comes or goes

ASSUME ContentAssumption ==
    /\ Textless \subseteq Wordless
    /\ {PromptLimit, CallLimit} \subseteq Nat \ {0}
    /\ CallLimit <= PromptLimit
    /\ {StoredTastes, EndpointChanges} \subseteq Nat
    /\ ThinkingModel \in BOOLEAN
    /\ Zones \subseteq {"utc", "ahead", "behind"}

VARIABLES
    zone,       \* local time: that of Discord, or hours ahead or behind
    timeline,   \* history: rows in the order in which they were said
    answer,     \* ctx.raw_response, then ctx.final_response
    endpoint,   \* the model's server is up, with a model loaded
    connected,  \* the connector's is_connected
    retrying,   \* its _retry_thread is alive
    changes     \* how often the server came or went

content == <<zone, timeline, answer, endpoint, connected, retrying, changes>>
contentVars == <<vars, observed, content>>

(* Texts, by the thoughts they hold: none, in tags that the adapter knows  *)
(* or in others, cut off before the closing tag, without the opening one.  *)
Text == {"blank", "words", "closed", "foreign", "open", "orphan"}

ContentTypeOK ==
    /\ ObservedTypeOK
    /\ zone \in Zones
    /\ timeline \in Seq(Row)
    /\ answer \in [Msg -> Text]
    /\ {endpoint, connected, retrying} \subseteq BOOLEAN
    /\ changes \in 0..EndpointChanges

-----------------------------------------------------------------------------
(* The request *)

(* The place of a row among all that was said.                             *)
At(r) == CHOOSE i \in DOMAIN timeline : timeline[i] = r

(* Where a row is in the order of the timestamps, hours being longer than  *)
(* anything else.                                                          *)
Time(r) ==
    LET shift == CASE zone = "utc" -> 0 [] zone = "ahead" -> 1 [] zone = "behind" -> -1
    IN  <<IF r.from = "bot" THEN shift ELSE 0, At(r)>>

Before(r, s) ==
    \/ Time(r)[1] < Time(s)[1]
    \/ Time(r)[1] = Time(s)[1] /\ Time(r)[2] < Time(s)[2]

Newest(rows, n) == {r \in rows : Cardinality({s \in rows : Before(r, s)}) < n}

(* _load_default_preferences *)
\* Mutant: nobody fills an empty table.
UnseededTastes == StoredTastes
Tastes == IF StoredTastes = 0 THEN 20 ELSE StoredTastes

(* get_personality_context says nothing only of an empty table, so that    *)
(* with it the block of context is never empty.                            *)
HasContext == Tastes > 0

HasText(r) == r.from = "user" => r.msg \notin Textless

(* _build_messages, behind its one or two system entries. *)
Assembled(m) == Newest({r \in seen[m] : HasText(r)}, PromptLimit)

(* get_response_natural skips two entries, whatever they are. *)
Given(m) ==
    Newest(IF HasContext THEN Assembled(m)
           ELSE {r \in Assembled(m) : \E s \in Assembled(m) : Before(s, r)},
           CallLimit)

-----------------------------------------------------------------------------
(* The answer *)

Each(texts, Op(_)) == UNION {Op(t) : t \in texts}

(* What is left of a text when its thoughts are cut out. *)
Rest == {"words", "blank"}

(* ModelAdapter.clean_response *)
AdapterClean(t) == IF t = "closed" THEN Rest ELSE {t}

(* The thinking filter removes what has both its tags. *)
Filter(t) == IF t \in {"closed", "foreign"} THEN Rest ELSE {t}

(* clean_response drops "name:" at the start of lines, maybe all there is. *)
CleanResponse(t) == IF t = "words" THEN Rest ELSE {t}

\* Mutant: only whole blocks are removed.
ExtractBlocks(t) == Filter(t)
(* For a model that thinks, the answer is what follows the last </think>. *)
Extract(t) == IF ThinkingModel /\ t = "orphan" THEN Rest ELSE Filter(t)

(* get_response_natural: every failure ends in a confused-human line.      *)
Answers ==
    {"words"} \cup (IF endpoint THEN Each(Each(Each(Text, AdapterClean), Extract), CleanResponse)
                   ELSE {})

(* ResponseCleaningStage *)
Cleaned(t) == IF t = "blank" THEN {t} ELSE Each(Filter(t), CleanResponse)

-----------------------------------------------------------------------------
(* Steps *)

ContentInit ==
    /\ ObservedInit
    /\ zone \in Zones
    /\ timeline = <<>>
    /\ answer = [m \in Msg |-> "blank"]
    /\ endpoint \in BOOLEAN
    /\ connected = endpoint
    /\ retrying = ~endpoint
    /\ changes = 0

Moves(m, from, to) == pc[m] = from /\ pc'[m] = to

(* on_message brings a row of the user's; a reply is a row when stored. *)
Said(r) ==
    IF r.from = "user" THEN Arriving(r.msg) ELSE r \in recent' \ recent

(* The connector that is not connected tries to, before the request; its   *)
(* thread goes on trying.                                                  *)
Answer(m) ==
    /\ connected' = (connected \/ endpoint)
    /\ retrying' = (retrying \/ ~connected')
    /\ \E t \in Answers : /\ answer' = [answer EXCEPT ![m] = t]
                          /\ raw'[m] = (t # "blank")

FinalAnswer(m) ==
    /\ \E t \in Cleaned(answer[m]) : /\ answer' = [answer EXCEPT ![m] = t]
                                     /\ final'[m] = (t # "blank")
    /\ UNCHANGED <<connected, retrying>>

(* What Next leaves open of the history and the texts, by the step made.   *)
Compose ==
    /\ timeline' = timeline \o SetToSeq({r \in Row : Said(r)})
    /\ \A m \in Msg : Moves(m, "retrieve", "plan") =>
          seen'[m] \in {{}, Newest({r \in recent : chan[r.msg] = chan[m]}, HistoryLimit)}
    /\ \/ \E m \in Msg : Moves(m, "llm", "clean") /\ Answer(m)
       \/ \E m \in Msg : Moves(m, "clean", "send") /\ FinalAnswer(m)
       \/ /\ \A m \in Msg : ~Moves(m, "llm", "clean") /\ ~Moves(m, "clean", "send")
          /\ UNCHANGED <<answer, connected, retrying>>
    /\ UNCHANGED <<zone, endpoint, changes>>

(* The server is started, or stops. *)
EndpointChange ==
    /\ changes < EndpointChanges
    /\ changes' = changes + 1
    /\ endpoint' = ~endpoint
    /\ UNCHANGED <<vars, observed, zone, timeline, answer, connected, retrying>>

\* Mutant: the thread tries once.
RetryOnce ==
    /\ up /\ retrying
    /\ connected' = (connected \/ endpoint)
    /\ retrying' = FALSE
    /\ UNCHANGED <<vars, observed, zone, timeline, answer, endpoint, changes>>
(* _retry_loop, after 15 seconds. *)
Retry ==
    /\ up /\ retrying
    /\ connected' = (connected \/ endpoint)
    /\ retrying' = ~connected'
    /\ UNCHANGED <<vars, observed, zone, timeline, answer, endpoint, changes>>

ContentNext ==
    \/ Next /\ Observe /\ Compose
    \/ EndpointChange
    \/ Retry

ContentSpec == ContentInit /\ [][ContentNext]_contentVars

-----------------------------------------------------------------------------
(* Properties *)

(* Rows of r's channel that a query for the newest returns before r: said  *)
(* later, or stamped as if they had been.                                  *)
Newer(r) == {s \in recent : chan[s.msg] = chan[r.msg] /\ Before(r, s)}

(* What was said in a turn. *)
Turn(m) == {UserRow(m)} \cup (IF m \in delivered THEN {BotRow(m)} ELSE {})

(* What a prompt is for: the message it answers, and every turn of its     *)
(* channel that had ended when it arrived.                                 *)
Owed(m) == {m} \cup InChannel(m, endedBefore[m])

(* The request to the model holds both sides of these turns, but for the   *)
(* rows that have no text and those with a full window of newer rows: as   *)
(* many with a text as a call passes on, or as many as a query returns.    *)
ModelReadsEndedTurns ==
    ~StorageFails =>
        \A m \in Prompted : \A n \in Owed(m) : \A r \in Turn(n) :
            HasText(r) => \/ r \in Given(m)
                          \/ Cardinality({s \in Newer(r) : HasText(s)}) >= CallLimit
                          \/ Cardinality(Newer(r)) >= HistoryLimit

(* No thoughts of the model reach Discord or the memories, but those that  *)
(* were cut off and those a model is not known to think.                   *)
ThoughtsStayInside ==
    \A m \in Msg : final[m] => answer[m] \in {"words", "open"} \cup (IF ThinkingModel THEN {} ELSE {"orphan"})

(* Types, and that a connector that is not connected goes on trying, so    *)
(* that a server that comes up is found, whatever failed before and        *)
(* whoever tried.                                                          *)
ContentInv == ContentTypeOK /\ (up => connected \/ retrying)

(* The invariants behind ModelReadsEndedTurns.  A row is said once: a      *)
(* user's when the message arrives, a reply when it is stored ...          *)
TimelineInv ==
    /\ IsInjective(timeline)
    /\ ToSet(timeline) =
          {r \in Row : IF r.from = "user" THEN pc[r.msg] # "none" ELSE r \in recent}
    /\ recent \subseteq ToSet(timeline)

(* ... nothing is sent before the reply's last stage, a run that is alive  *)
(* has stored its message, and the turns that had ended are in the table   *)
(* and have nothing left to say ...                                        *)
EndedInv ==
    \A m \in Msg :
        /\ m \in delivered => pc[m] \notin {"none", "received"} \cup ReplyStage
        /\ ~StorageFails /\ pc[m] \notin {"none", "received", "lost"} => UserRow(m) \in recent
        /\ \A n \in endedBefore[m] : /\ pc[n] \in {"voice", "done", "lost"}
                                     /\ ~StorageFails => Turn(n) \subseteq recent

(* ... and what a prompt owes is in its history, unless the query's window *)
(* was full of newer rows.                                                 *)
WindowInv ==
    ~StorageFails =>
        \A m \in Prompted :
            /\ seen[m] \subseteq {r \in recent : chan[r.msg] = chan[m]}
            /\ \A n \in Owed(m) : \A r \in Turn(n) :
                  r \in seen[m] \/ Cardinality(Newer(r)) >= HistoryLimit

HistoryInv == TimelineInv /\ EndedInv /\ WindowInv
=============================================================================
