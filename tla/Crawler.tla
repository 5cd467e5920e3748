------------------------------- MODULE Crawler -------------------------------
(***************************************************************************)
(* How the messages of a Discord channel reach the table recent_messages:  *)
(* one by one as the bot sees them, from the newest messages it reads when *)
(* it starts, and from the crawler, which compares the newest row with the *)
(* newest message every quarter of an hour (quick sync), reads whole       *)
(* channels on request (force backfill) and looks for gaps every hour      *)
(* (deep validation).                                                      *)
(*                                                                         *)
(* A message is its position in the channel, a row its timestamp: message  *)
(* m was posted at 2m, and the row of a user's message has its id and its  *)
(* time.  The row of a reply has an id of its own and an odd time, that of *)
(* its writing by the clock of the host without a time zone; replies       *)
(* written between the same two messages count as one row.  The table      *)
(* sorts times as text, so that on a host ahead of UTC the row of a reply  *)
(* sorts above the messages of the next hours: of Lead messages here.      *)
(* Asked for what comes after a time without a zone, py-cord takes it for  *)
(* local time and asks for the right moment.  On a host behind UTC the row *)
(* of a reply sorts below messages it answers, which is not modelled.      *)
(*                                                                         *)
(* All tasks share one event loop and are interleaved where they await an  *)
(* answer of Discord or sleep.  Storing and cleaning up the text of a      *)
(* message are taken not to fail.                                          *)
(***************************************************************************)
EXTENDS Integers, FiniteSets, FiniteSetsExt

CONSTANTS Last,         \* bound: messages ever posted
          Replies,      \* the messages the bot itself may post
          Others,       \* those other bots may post: users post neither
          Loop, Panel,  \* the quick-sync loop and the sync somebody starts by hand
          Lead,         \* messages posted in the hours the host is ahead of UTC
          Cap,          \* rows kept per channel, and limit of a backfill (20000)
          Page,         \* messages per answer, and default limit of history (100)
          Batch,        \* messages queued at once by a backfill (100)
          ContextBatch, \* messages queued at once by a resumed sync (5)
          ContextFrom,  \* batches at least this large are queued with context (3)
          Neighbours,   \* context on each side of such a batch (2)
          Newest,       \* messages read when the bot starts (15)
          Radius,       \* messages read on each side of a gap (50)
          Stride,       \* every Stride-th row is validated (100)
          TroubleLimit  \* bound: requests that fail, ends of the process, stops of the
                        \* crawler and deletions, all counted together

Messages == 1..Last
Users == Messages \ (Replies \cup Others)
Syncs == {Loop, Panel}

ASSUME CrawlerAssumption ==
  /\ Last \in Nat
  /\ Replies \subseteq Messages /\ Others \subseteq Messages
  /\ Loop # Panel
  /\ {Cap, Page, Batch, ContextBatch, Newest, Stride} \subseteq Nat \ {0}
  /\ {Lead, ContextFrom, Neighbours, Radius, TroubleLimit} \subseteq Nat
  /\ Page <= Cap /\ Radius <= Cap

VARIABLES
  answered,    \* is it a channel the bot answers in (ALLOWED_CHANNEL_IDS)?
  posted,      \* how many messages were posted
  deleted,     \* messages deleted from the channel
  up,          \* the process runs
  running,     \* is_running: the crawler's two loops exist
  kept,        \* recent_messages of the channel
  arriving,    \* messages the bot is about to store itself
  recent,      \* messages the start-up task has read and not yet stored, newest first
  started,     \* has the start-up task read the channel?
  pc,          \* where each sync is
  newest,      \* the newest message Discord named to the sync; 0 if none
  cursor,      \* the time it has read up to
  left,        \* messages it may still ask for
  page,        \* the rest of an answer, while a backfill sleeps in the middle of it
  batch,       \* messages it has stored and not yet queued
  gap,         \* the row deep validation is at; 0 if none
  around,      \* what it reads next: the row's message, before it or after it
  unqueued,    \* history: messages a sync has stored and not passed to queue_message
  troubles,
  forgone      \* history: those a sync gave up: in the batch of a task that was ended, or
               \* in one that the row of a reply kept from being sorted

channelVars == <<answered, posted, deleted>>
liveVars == <<arriving, recent, started>>
syncVars == <<pc, newest, cursor, left, page, batch>>
deepVars == <<gap, around>>
crawlVars == <<channelVars, up, running, kept, liveVars, syncVars, deepVars, unqueued, troubles, forgone>>

Visible == (1..posted) \ deleted
Rows(ms) == {2 * m : m \in ms}
IsReply(r) == r % 2 = 1

\* When the row of a reply was written, by Discord's clock.
Moment(r) == IF IsReply(r) THEN r - 2 * Lead ELSE r

Trouble == troubles < TroubleLimit /\ troubles' = troubles + 1
Top(s) == IF s = {} THEN 0 ELSE Max(s)
First(k, s) == {m \in s : Cardinality({n \in s : n < m}) < k}
LastOf(k, s) == {m \in s : Cardinality({n \in s : n > m}) < k}
Rank(m, s) == Cardinality({n \in s : n < m})

ChannelTypes ==
  /\ answered \in BOOLEAN
  /\ posted \in 0..Last
  /\ deleted \subseteq 1..posted

\* The times of rows that the messages posted so far may have.
Times == Rows(Users \cap (1..posted)) \cup {2 * (p + Lead) + 1 : p \in 0..posted}

StoreTypes ==
  /\ kept \subseteq Times
  /\ Cardinality(kept) <= Cap

ProcessTypes ==
  /\ up \in BOOLEAN /\ running \in BOOLEAN
  /\ arriving \subseteq (1..posted) \cap (Users \cup Replies)
  /\ recent \subseteq 1..posted
  /\ started \in BOOLEAN
  /\ troubles \in 0..TroubleLimit

SyncTypes ==
  /\ pc \in [Syncs -> {"idle", "compare", "resume", "full"}]
  /\ newest \in [Syncs -> 0..posted]
  /\ cursor \in [Syncs -> 0..(2 * posted + 1)]
  /\ left \in [Syncs -> 0..Cap]
  /\ page \in [Syncs -> SUBSET (1..posted)]
  /\ batch \in [Syncs -> SUBSET Users]

DeepTypes ==
  /\ gap \in {0} \cup Times
  /\ around \in {"fetch", "before", "after"}

CrawlTypeOK ==
  /\ ChannelTypes
  /\ StoreTypes
  /\ ProcessTypes
  /\ SyncTypes
  /\ DeepTypes
  /\ unqueued \subseteq Users /\ forgone \subseteq Users

CrawlInit ==
  /\ answered \in BOOLEAN
  /\ posted = 0
  /\ deleted = {}
  /\ up = FALSE
  /\ running = FALSE
  /\ kept = {}
  /\ arriving = {}
  /\ recent = {}
  /\ started = FALSE
  /\ pc = [s \in Syncs |-> "idle"]
  /\ newest = [s \in Syncs |-> 0]
  /\ cursor = [s \in Syncs |-> 0]
  /\ left = [s \in Syncs |-> 0]
  /\ page = [s \in Syncs |-> {}]
  /\ batch = [s \in Syncs |-> {}]
  /\ gap = 0
  /\ around = "fetch"
  /\ unqueued = {}
  /\ troubles = 0
  /\ forgone = {}

(***************************************************************************)
(* The store                                                               *)
(***************************************************************************)
\* Mutant: the prune comes before the insertion.
StoredPrunedFirst(s) == LastOf(Cap, kept) \cup s

\* store_recent_message, once per message: an id that is there is left alone, and all but
\* the newest Cap rows of the channel are deleted.
Stored(s) == LastOf(Cap, kept \cup s)

(***************************************************************************)
(* The channel                                                             *)
(***************************************************************************)
\* A user posts.  The bot stores the message itself if it is up, the channel is one it
\* answers in, and the message gets as far as the manager: commands and messages of the
\* set-up do not.
UserPosts ==
  /\ posted + 1 \in Users
  /\ posted' = posted + 1
  /\ \/ up /\ answered /\ arriving' = arriving \cup {posted + 1}
     \/ UNCHANGED arriving
  /\ UNCHANGED <<answered, deleted, up, running, kept, recent, started, syncVars, deepVars, unqueued, troubles, forgone>>

\* The bot answers a message it has stored; its own row is written later, if at all.
BotPosts ==
  /\ posted + 1 \in Replies
  /\ up /\ answered /\ kept # {}
  /\ posted' = posted + 1
  /\ arriving' \in {arriving, arriving \cup {posted + 1}}
  /\ UNCHANGED <<answered, deleted, up, running, kept, recent, started, syncVars, deepVars, unqueued, troubles, forgone>>

OtherBotPosts ==
  /\ posted + 1 \in Others
  /\ posted' = posted + 1
  /\ UNCHANGED <<answered, deleted, up, running, kept, liveVars, syncVars, deepVars, unqueued, troubles, forgone>>

Delete(m) ==
  /\ m \in Visible
  /\ Trouble
  /\ deleted' = deleted \cup {m}
  /\ UNCHANGED <<answered, posted, up, running, kept, liveVars, syncVars, deepVars, unqueued, forgone>>

(***************************************************************************)
(* The process                                                             *)
(***************************************************************************)
\* The initializer starts the crawler and the task that reads the newest messages.
Boot ==
  /\ ~up
  /\ up' = TRUE
  /\ running' = TRUE
  /\ started' = FALSE
  /\ UNCHANGED <<channelVars, kept, arriving, recent, syncVars, deepVars, unqueued, troubles, forgone>>

\* A task that is cancelled or done has nothing in hand.
Ended(ss) ==
  /\ pc' = [s \in Syncs |-> IF s \in ss THEN "idle" ELSE pc[s]]
  /\ newest' = [s \in Syncs |-> IF s \in ss THEN 0 ELSE newest[s]]
  /\ cursor' = [s \in Syncs |-> IF s \in ss THEN 0 ELSE cursor[s]]
  /\ left' = [s \in Syncs |-> IF s \in ss THEN 0 ELSE left[s]]
  /\ page' = [s \in Syncs |-> IF s \in ss THEN {} ELSE page[s]]
  /\ batch' = [s \in Syncs |-> IF s \in ss THEN {} ELSE batch[s]]

Validated == gap' = 0 /\ around' = "fetch"

Kill ==
  /\ up
  /\ Trouble
  /\ forgone' = forgone \cup UNION {batch[s] : s \in Syncs}
  /\ up' = FALSE
  /\ running' = FALSE
  /\ arriving' = {}
  /\ recent' = {}
  /\ Ended(Syncs)
  /\ Validated
  /\ UNCHANGED <<channelVars, kept, started, unqueued>>

\* /api/crawler/stop cancels the two loops; what somebody started by hand goes on.
Stop ==
  /\ up /\ running
  /\ Trouble
  /\ forgone' = forgone \cup batch[Loop]
  /\ running' = FALSE
  /\ Ended({Loop})
  /\ Validated
  /\ UNCHANGED <<channelVars, up, kept, liveVars, unqueued>>

Start ==
  /\ up /\ ~running
  /\ running' = TRUE
  /\ UNCHANGED <<channelVars, up, kept, liveVars, syncVars, deepVars, unqueued, troubles, forgone>>

\* The row of a reply is stamped by the host's clock when it is written, after the bot has
\* looked for facts; any other with the time Discord gave the message.
LiveStore(m) ==
  /\ up
  /\ m \in arriving
  /\ arriving' = arriving \ {m}
  /\ kept' = Stored({IF m \in Replies THEN 2 * (posted + Lead) + 1 ELSE 2 * m})
  /\ UNCHANGED <<channelVars, up, running, recent, started, syncVars, deepVars, unqueued, troubles, forgone>>

\* _backfill_recent_images, once per start: history(limit=15), newest first.
ReadRecent ==
  /\ up /\ ~started
  /\ started' = TRUE
  /\ recent' = LastOf(Newest, Visible)
  /\ UNCHANGED <<channelVars, up, running, kept, arriving, syncVars, deepVars, unqueued, troubles, forgone>>

\* Messages are stored up to the next image, whose download is awaited.
StoreRecent ==
  /\ recent # {}
  /\ \E m \in recent :
       /\ kept' = Stored(Rows({n \in recent : n >= m} \cap Users))
       /\ recent' = {n \in recent : n < m}
  /\ UNCHANGED <<channelVars, up, running, arriving, started, syncVars, deepVars, unqueued, troubles, forgone>>

(***************************************************************************)
(* Quick sync and backfill                                                 *)
(***************************************************************************)
MayRun(s) == up /\ (s = Loop => running)

\* The next round of the loop, or /api/crawler/trigger-sync: Discord is asked for its
\* newest message.
Ask(s) ==
  /\ MayRun(s)
  /\ pc[s] = "idle"
  /\ pc' = [pc EXCEPT ![s] = "compare"]
  /\ newest' = [newest EXCEPT ![s] = Top(Visible)]
  /\ UNCHANGED <<channelVars, up, running, kept, liveVars, cursor, left, page, batch, deepVars, unqueued, troubles, forgone>>

StartReading(s, how, from, limit) ==
  /\ pc' = [pc EXCEPT ![s] = how]
  /\ newest' = [newest EXCEPT ![s] = 0]
  /\ cursor' = [cursor EXCEPT ![s] = from]
  /\ left' = [left EXCEPT ![s] = limit]
  /\ UNCHANGED <<page, batch>>

\* /api/crawler/force-backfill.
ForceBackfill ==
  /\ up
  /\ pc[Panel] = "idle"
  /\ StartReading(Panel, "full", 0, Cap)
  /\ UNCHANGED <<channelVars, up, running, kept, liveVars, deepVars, unqueued, troubles, forgone>>

\* Mutant: the newest but one will do.
UpToDateAlmost(s) == Top(kept) >= 2 * newest[s] - 2

\* The newest row of the channel, which may be that of a reply, has the id Discord named.
UpToDate(s) == Top(kept) = 2 * newest[s]

\* _quick_sync_channel: an empty channel and one that is up to date need nothing, one
\* without rows is read from its oldest message, any other from when its newest row was
\* written.
Compare(s) ==
  /\ pc[s] = "compare"
  /\ \/ /\ newest[s] = 0 \/ UpToDate(s)
        /\ Ended({s})
     \/ /\ newest[s] # 0 /\ kept = {}
        /\ StartReading(s, "full", 0, Cap)
     \/ /\ newest[s] # 0 /\ kept # {} /\ ~UpToDate(s)
        /\ StartReading(s, "resume", Moment(Top(kept)), Page)
  /\ UNCHANGED <<channelVars, up, running, kept, liveVars, deepVars, unqueued, troubles, forgone>>

\* get_messages_around_timestamp: the rows closest to a time on both sides.
Around(t, rs) == LastOf(Neighbours, {r \in rs : r < t}) \cup First(Neighbours, {r \in rs : r > t})

Centre(b) == CHOOSE m \in b : Rank(m, b) = Cardinality(b) \div 2

\* What a batch is queued with: a small one is queued as it is.
Context(b, rs) == IF Cardinality(b) < ContextFrom THEN {} ELSE Around(2 * Centre(b), rs)

\* The timestamp of a reply's row has no time zone, and sorting it with the others fails.
Unsortable(b, rs) == \E r \in Context(b, rs) : IsReply(r)

\* _process_batch_with_context: a batch is sorted together with its context; nothing is
\* queued when that fails.
QueuedWithContext(b, rs) == IF Unsortable(b, rs) THEN {} ELSE b \cup {r \div 2 : r \in Context(b, rs)}

\* _backfill_from_timestamp queues its messages in small batches, the last one whatever
\* its size.
BatchOf(n, u) == {m \in u : Rank(m, u) \div ContextBatch = Rank(n, u) \div ContextBatch}
BatchesOf(u) == {BatchOf(n, u) : n \in u}

\* Each is looked up among the rows stored so far.
RowsAt(b, u) == Stored(Rows({m \in u : m <= Max(b)}))

Resumed(u) == UNION {QueuedWithContext(b, RowsAt(b, u)) : b \in BatchesOf(u)}
Unsorted(u) == UNION {b \in BatchesOf(u) : Unsortable(b, RowsAt(b, u))}

\* Mutant: a backfill reads the newest messages first.
AnswersNewestFirst(s) == LastOf(IF left[s] < Page THEN left[s] ELSE Page,
  IF pc[s] = "full" /\ cursor[s] # 0 THEN {m \in Visible : 2 * m < cursor[s]}
  ELSE {m \in Visible : 2 * m > cursor[s]})

\* history(after=...) and history(oldest_first=True): the oldest messages not yet read.
Answers(s) == First(IF left[s] < Page THEN left[s] ELSE Page, {m \in Visible : 2 * m > cursor[s]})

\* Mutant: a backfill that ends forgets the batch it has not filled.
FinishForgets(s) == Ended({s}) /\ UNCHANGED unqueued

\* A backfill queues what is left of its batch.
Finish(s) == Ended({s}) /\ unqueued' = unqueued \ batch[s]

\* _backfill_from_timestamp works through its one answer without awaiting anything.
Resume(s) ==
  /\ pc[s] = "resume"
  /\ LET u == Answers(s) \cap Users
     IN /\ kept' = Stored(Rows(u))
        /\ unqueued' = (unqueued \cup u) \ Resumed(u)
        /\ forgone' = forgone \cup Unsorted(u)
  /\ Ended({s})
  /\ UNCHANGED <<channelVars, up, running, liveVars, deepVars, troubles>>

\* What a backfill works through: the rest of an answer, or else the next one.
Ahead(s) == IF page[s] = {} THEN Answers(s) ELSE page[s]

\* What of it the batch has room for; other bots' messages take no room.
Taken(s) == {m \in Ahead(s) : Rank(m, Ahead(s) \cap Users) < Batch - Cardinality(batch[s])}

\* _backfill_channel stores message after message, and queues and sleeps as often as its
\* batch is full; an empty answer ends it.
Backfill(s) ==
  /\ pc[s] = "full"
  /\ LET stored == Taken(s) \cap Users
         full == batch[s] \cup stored
     IN IF Ahead(s) = {}
        THEN Finish(s) /\ UNCHANGED kept
        ELSE /\ kept' = Stored(Rows(stored))
             /\ page' = [page EXCEPT ![s] = Ahead(s) \ Taken(s)]
             /\ cursor' = [cursor EXCEPT ![s] = 2 * Max(Taken(s))]
             /\ left' = [left EXCEPT ![s] = @ - Cardinality(Taken(s))]
             /\ batch' = [batch EXCEPT ![s] = IF Cardinality(full) >= Batch THEN {} ELSE full]
             /\ unqueued' = IF Cardinality(full) >= Batch THEN unqueued \ full ELSE unqueued \cup stored
             /\ UNCHANGED <<pc, newest>>
  /\ UNCHANGED <<channelVars, up, running, liveVars, deepVars, troubles, forgone>>

\* A request fails, py-cord having repeated it in vain.  A comparison and a resumed sync
\* give up.  A backfill, which may have worked through many answers by then, goes on with
\* its iterator: py-cord's asks again, one that is a generator has ended with the error.
RequestFails(s) ==
  /\ pc[s] # "idle" /\ page[s] = {}
  /\ Trouble
  /\ \/ Finish(s)
     \/ pc[s] = "full" /\ UNCHANGED <<syncVars, unqueued>>
  /\ UNCHANGED <<channelVars, up, running, kept, liveVars, deepVars, forgone>>

(***************************************************************************)
(* Deep validation                                                         *)
(***************************************************************************)
\* get_message_at_position: every Stride-th row is a checkpoint; the order in which they
\* are visited is left open.
Checkpoints == {r \in kept : Rank(r, kept) % Stride = 0}

\* The id of a reply's row is not a number, which passes for a gap.
Validate ==
  /\ up /\ running
  /\ gap = 0
  /\ gap' \in Checkpoints
  /\ around' = IF IsReply(gap') THEN "before" ELSE "fetch"
  /\ UNCHANGED <<channelVars, up, running, kept, liveVars, syncVars, unqueued, troubles, forgone>>

\* fetch_message: the message is there, or any exception says that it is not.
Fetched ==
  /\ gap # 0 /\ around = "fetch"
  /\ \/ gap \div 2 \notin deleted /\ Validated /\ UNCHANGED troubles
     \/ /\ around' = "before" /\ UNCHANGED gap
        /\ \/ gap \div 2 \in deleted /\ UNCHANGED troubles
           \/ Trouble
  /\ UNCHANGED <<channelVars, up, running, kept, liveVars, syncVars, unqueued, forgone>>

\* _backfill_around_position: the messages up to the row, then those from it on.
FillBefore ==
  /\ gap # 0 /\ around = "before"
  /\ kept' = Stored(Rows(LastOf(Radius, {m \in Visible : 2 * m <= Moment(gap)}) \cap Users))
  /\ around' = "after"
  /\ UNCHANGED <<channelVars, up, running, liveVars, syncVars, gap, unqueued, troubles, forgone>>

FillAfter ==
  /\ gap # 0 /\ around = "after"
  /\ kept' = Stored(Rows(First(Radius, {m \in Visible : 2 * m >= Moment(gap)}) \cap Users))
  /\ Validated
  /\ UNCHANGED <<channelVars, up, running, liveVars, syncVars, unqueued, troubles, forgone>>

(***************************************************************************)
(* The specification                                                       *)
(***************************************************************************)
SyncStep(s) == Compare(s) \/ Resume(s) \/ Backfill(s)
DeepStep == Fetched \/ FillBefore \/ FillAfter

CrawlNext ==
  \/ UserPosts \/ BotPosts \/ OtherBotPosts
  \/ \E m \in Messages : Delete(m) \/ LiveStore(m)
  \/ Boot \/ Kill \/ Stop \/ Start
  \/ ReadRecent \/ StoreRecent
  \/ \E s \in Syncs : Ask(s) \/ SyncStep(s) \/ RequestFails(s)
  \/ ForceBackfill
  \/ Validate \/ DeepStep

CrawlSpec == CrawlInit /\ [][CrawlNext]_crawlVars

\* The loop of quick sync comes round again and every request is answered.
FairCrawlSpec ==
  /\ CrawlSpec
  /\ WF_crawlVars(Ask(Loop))
  /\ WF_crawlVars(SyncStep(Loop))
  /\ WF_crawlVars(Validate) /\ WF_crawlVars(DeepStep)

(***************************************************************************)
(* Properties                                                              *)
(***************************************************************************)
\* Users' messages that have no row, below the newest row in the order of the table.
Holes == {m \in Users \cap Visible : 2 * m < Top(kept) /\ 2 * m \notin kept}

\* No step of the crawler opens a hole, whatever is stored or deleted while it waits for
\* an answer: once a newer message of a user has a row, one that was skipped is never asked
\* for again.  Only the prune takes rows away.
CrawlerOpensNoHole ==
  [][(\E s \in Syncs : SyncStep(s)) \/ DeepStep => \A m \in Holes' \ Holes : 2 * m \in kept]_crawlVars

\* A message the crawler has stored, and will not read again, is in the hands of a sync or
\* has been passed to summarisation, unless its batch was given up.
CrawledIsQueued == unqueued \subseteq forgone \cup UNION {batch[s] : s \in Syncs}

\* The messages a sync resumed at the newest row is answered with.
NextPage == First(Page, {m \in Visible : 2 * m > Moment(Top(kept))})

\* Once bot and crawler stay up, the users' messages of the page that follows the newest
\* row get their rows.  Where fewer than a page were posted since, that is all of them.
\* Otherwise the sync goes on if one of them sorts above the newest row, and reads the same
\* page again for good if none does: a page of bots' messages, or, on a host ahead of UTC,
\* a page the row of a reply sorts above.
CatchesUp ==
  <>[](up /\ running) => <>[](Rows(NextPage \cap Users) \subseteq kept)
==============================================================================
