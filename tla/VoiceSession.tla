---------------------------- MODULE VoiceSession ----------------------------
(***************************************************************************)
(* How the bot enters and leaves voice channels: the voice listener with   *)
(* its one reference to a captured gateway connection and one to a bridge, *)
(* the bridge's Rust process, the tracker of who is in voice, the manager  *)
(* that considers joining after somebody else did, the voice decisions of  *)
(* a chat and the buttons of the control panel.                            *)
(*                                                                         *)
(* Everything runs on one event loop.  A call is interleaved with others   *)
(* only where it awaits: turn is the caller that has not reached its next  *)
(* await, NoOne when the loop is free.  A join gives its connection and    *)
(* its bridge one number.  py-cord, external, keeps one voice client per   *)
(* guild, and refuses to connect where it has one.  Discord tells of every *)
(* change of a voice state in order, but not while the gateway is down.    *)
(*                                                                         *)
(* An order to the bot's own voice state may fail to be sent; one to leave *)
(* is then forgotten by all but Discord.  A moderator may move the bot, or *)
(* put it out, and the listener takes no notice.                           *)
(*                                                                         *)
(* Nobody hears of a Rust process that dies by itself: the supervisor      *)
(* waits for an event that is never set.  To the listener such a process   *)
(* is one that runs, and alive means spawned and not yet terminated.  The  *)
(* two awaits of the start of a process are one here.                      *)
(***************************************************************************)
EXTENDS Integers, Sequences, FiniteSets

CONSTANTS Guilds, Channels,
          GuildOf,          \* [Channels -> Guilds]
          People, Bot,       \* the members who may be in voice
          Loop, Chat, Panel,\* who calls the listener
          NoOne,            \* no caller
          MaxLinks,         \* bound: connections ever attempted
          MaxChats,         \* bound: messages of chats that speak of voice
          MaxPanel,         \* bound: requests of the panel
          MaxMoves,         \* bound: moves of users, and of the bot by a moderator
          MaxUnsent         \* bound: orders to the bot's voice state that fail

Callers == {Loop, Chat, Panel}
Members == People \cup {Bot}
Links == 1..MaxLinks
Nowhere == 0

ASSUME VoiceSessionAssumption ==
  /\ 0 \notin Guilds /\ 0 \notin Channels
  /\ GuildOf \in [Channels -> Guilds]
  /\ Bot \notin People /\ NoOne \notin Callers
  /\ Cardinality(Callers) = 3
  /\ {MaxLinks, MaxChats, MaxPanel, MaxMoves, MaxUnsent} \subseteq Nat

VARIABLES
  links,       \* the connections and bridges made so far, by number
  protocol,    \* VoiceListener._protocol: its number, 0 for None
  bridge,      \* VoiceListener.rust_bridge: its number, 0 for None
  active,      \* _active_guild_id, 0 for None
  joining,     \* _join_in_progress
  registered,  \* py-cord's voice client of each guild, 0 if none
  barred,      \* history: the guilds whose voice client nobody will remove
  calls,       \* what each caller is doing
  turn,        \* the caller that runs, or NoOne
  overlapped,  \* history: some call began while another was in flight
  pending,     \* _pending_joins: of each guild {} or who and where it is about
  sessions,    \* _voice_session_guilds
  round,       \* what the manager's loop has listed and not yet looked at
  tracked,     \* current_voice_states: each member's channel
  where,       \* Discord: the channel a user is in
  botIn,       \* Discord: the bot's channel in each guild
  astray,      \* history: the guilds in which an order to leave was not sent, or
               \* the bot was put out, since its last order there was taken
  updates,     \* changes of voice states not yet handled, oldest first
  budget       \* requests, moves and failures left

listener == <<links, protocol, bridge, active, joining, registered, barred>>
manager == <<pending, sessions, round>>
discord == <<tracked, where, botIn, astray, updates>>
sessionVars == <<listener, calls, turn, overlapped, manager, discord, budget>>

NoCall == [op |-> "none", at |-> "idle", guild |-> 0, channel |-> 0, link |-> 0]
Ops == {"none", "asked", "join", "leave"}
Places == {"idle", "deciding", "protocol", "disconnecting", "bridge",
           "stopping", "connect", "connecting", "spawning", "failing", "finish"}

Link == [guild : Guilds, gathered : BOOLEAN, running : BOOLEAN, alive : BOOLEAN]
VoiceCall == [op : Ops, at : Places, guild : Guilds \cup {0},
              channel : Channels \cup {Nowhere}, link : 0..MaxLinks]
Change == [who : Members, guild : Guilds, before : Channels \cup {Nowhere},
           after : Channels \cup {Nowhere}]

ListenerTypes ==
  /\ links \in Seq(Link) /\ Len(links) <= MaxLinks
  /\ protocol \in 0..Len(links) /\ bridge \in 0..Len(links)
  /\ active \in Guilds \cup {0} /\ joining \subseteq Guilds
  /\ registered \in [Guilds -> 0..Len(links)] /\ barred \subseteq Guilds
CallTypes ==
  /\ calls \in [Callers -> VoiceCall]
  /\ turn \in Callers \cup {NoOne} /\ overlapped \in BOOLEAN
ManagerTypes ==
  /\ pending \in [Guilds -> SUBSET (Members \X Channels)] /\ sessions \subseteq Guilds
  /\ round \in [joins : SUBSET (Guilds \X Members \X Channels), leaves : SUBSET Guilds]
DiscordTypes ==
  /\ tracked \in [Members -> Channels \cup {Nowhere}]
  /\ where \in [People -> Channels \cup {Nowhere}]
  /\ botIn \in [Guilds -> Channels \cup {Nowhere}] /\ astray \subseteq Guilds
  /\ updates \in Seq(Change)
BudgetTypes == budget \in [chats : 0..MaxChats, panel : 0..MaxPanel,
                           moves : 0..MaxMoves, unsent : 0..MaxUnsent]

SessionTypeOK == ListenerTypes /\ CallTypes /\ ManagerTypes /\ DiscordTypes /\ BudgetTypes

SessionInit ==
  /\ links = <<>> /\ protocol = 0 /\ bridge = 0 /\ active = 0 /\ joining = {}
  /\ registered = [g \in Guilds |-> 0] /\ barred = {} /\ astray = {}
  /\ calls = [c \in Callers |-> NoCall]
  /\ turn = NoOne /\ overlapped = FALSE
  /\ pending = [g \in Guilds |-> {}] /\ sessions = {}
  /\ round = [joins |-> {}, leaves |-> {}]
  /\ tracked = [m \in Members |-> Nowhere]
  /\ where = [u \in People |-> Nowhere] /\ botIn = [g \in Guilds |-> Nowhere]
  /\ updates = <<>>
  /\ budget = [chats |-> MaxChats, panel |-> MaxPanel, moves |-> MaxMoves,
               unsent |-> MaxUnsent]

Free == turn = NoOne
Underway(c) == calls[c].at \notin {"idle", "deciding"}
IsRunning(n) == n # 0 /\ links[n].running
IsConnected == IsRunning(bridge)
IsInVoice(g) == IsConnected /\ active = g
Listed == round.joins # {} \/ round.leaves # {}

---------------------------------------------------------------------------
(* The steps of a call.  Between two awaits the caller keeps its turn.     *)

Goes(c, place) == calls' = [calls EXCEPT ![c].at = place] /\ UNCHANGED turn
Awaits(c, place, n) ==
  calls' = [calls EXCEPT ![c] = [@ EXCEPT !.at = place, !.link = n]] /\ turn' = NoOne

(* What follows the disconnection and the stop: a join and a leave do them *)
(* in opposite orders.                                                     *)
PastProtocol(c) == IF calls[c].op = "join" THEN "bridge" ELSE "finish"
PastBridge(c) == IF calls[c].op = "join" THEN "connect" ELSE "protocol"

Runs(c, place) == turn = c /\ calls[c].at = place
Resumes(c, place) == Free /\ calls[c].at = place

(* What the callers do with the result of a call. *)
Result(c, op, g, ok) ==
  /\ sessions' = IF c = Loop /\ op = "leave" THEN sessions \ {g}
                 ELSE IF c # Panel /\ op = "join" /\ ok THEN sessions \cup {g}
                 ELSE sessions
  /\ pending' = IF op = "join" /\ (c = Loop \/ (c = Chat /\ ok))
                THEN [pending EXCEPT ![g] = {}] ELSE pending

(* The manager's loop goes on with its list, the other callers are done. *)
Ends(c, ok) == /\ calls' = [calls EXCEPT ![c] = NoCall]
               /\ turn' = IF c = Loop /\ Listed THEN Loop ELSE NoOne
               /\ Result(c, calls[c].op, calls[c].guild, ok)
               /\ UNCHANGED round

(* A join that fails gives up its place among the joins in progress. *)
Fails(c) ==
  /\ Ends(c, FALSE)
  /\ joining' = joining \ {calls[c].guild}
  /\ UNCHANGED <<protocol, bridge, active, overlapped, tracked, where>>

Begins(c, op, at, g, ch) ==
  /\ calls' = [calls EXCEPT ![c] = [op |-> op, at |-> at, guild |-> g,
                                    channel |-> ch, link |-> 0]]
  /\ turn' = c
  /\ overlapped' = (overlapped \/ \E d \in Callers \ {c} : Underway(d))

(* join_channel: one join per guild, and only of a channel of the guild. *)
BeginsJoin(c, g, ch) ==
  /\ IF g \in joining \/ GuildOf[ch] # g
     THEN /\ calls' = [calls EXCEPT ![c] = NoCall] /\ Result(c, "join", g, FALSE)
          /\ turn' = IF c = Loop /\ round'.joins # {} THEN Loop ELSE NoOne
          /\ UNCHANGED <<joining, overlapped>>
     ELSE /\ Begins(c, "join", "protocol", g, ch)
          /\ joining' = joining \cup {g}
          /\ UNCHANGED <<pending, sessions>>
  /\ UNCHANGED <<links, protocol, bridge, active, registered, barred, discord>>

(* leave_channel: it ends whatever there is, of any guild. *)
BeginsLeave(c, g) == /\ Begins(c, "leave", "bridge", g, Nowhere)
                     /\ UNCHANGED <<listener, pending, sessions, discord>>

(* What Discord hears of the bot's own voice state, and tells everybody. *)
BotMoves(g, ch) ==
  /\ botIn' = [botIn EXCEPT ![g] = ch] /\ astray' = astray \ {g}
  /\ updates' = IF botIn[g] = ch THEN updates
                ELSE Append(updates, [who |-> Bot, guild |-> g,
                                      before |-> botIn[g], after |-> ch])
  /\ UNCHANGED budget

(* change_voice_state raises: Discord does not hear of it. *)
Unsent == /\ budget.unsent > 0 /\ budget' = [budget EXCEPT !.unsent = @ - 1]
          /\ UNCHANGED <<botIn, updates>>
Remains(g) == Unsent /\ astray' = astray \cup {g}

(* InfoCaptureProtocol.disconnect, where it comes back from the gateway:   *)
(* whether or not the bot left, py-cord drops the voice client.            *)
CleansUp(n) ==
  /\ links' = [links EXCEPT ![n].gathered = FALSE]
  /\ registered' = [registered EXCEPT ![links[n].guild] = 0]
  /\ barred' = barred \ {links[n].guild}
Disconnected(n) ==
  CleansUp(n) /\ (BotMoves(links[n].guild, Nowhere) \/ Remains(links[n].guild))

SeeProtocol(c) ==
  /\ Runs(c, "protocol")
  /\ IF protocol # 0 /\ links[protocol].gathered
     THEN Awaits(c, "disconnecting", protocol) /\ UNCHANGED <<protocol, registered, barred>>
     ELSE /\ Goes(c, PastProtocol(c))
          /\ protocol' = 0
          /\ registered' = IF protocol = 0 THEN registered
                           ELSE [registered EXCEPT ![links[protocol].guild] = 0]
          /\ barred' = IF protocol = 0 THEN barred ELSE barred \ {links[protocol].guild}
  /\ UNCHANGED <<links, bridge, active, joining, overlapped, manager, discord, budget>>

\* Mutant: the reference to the connection that was ended is kept.
DisconnectKeepsReference(c) ==
  /\ Resumes(c, "disconnecting")
  /\ Disconnected(calls[c].link)
  /\ calls' = [calls EXCEPT ![c].at = PastProtocol(c)] /\ turn' = c
  /\ UNCHANGED <<protocol, bridge, active, joining, overlapped, manager, tracked, where>>
Disconnect(c) ==
  /\ Resumes(c, "disconnecting")
  /\ Disconnected(calls[c].link)
  /\ protocol' = 0
  /\ calls' = [calls EXCEPT ![c].at = PastProtocol(c)] /\ turn' = c
  /\ UNCHANGED <<bridge, active, joining, overlapped, manager, tracked, where>>

SeeBridge(c) ==
  /\ Runs(c, "bridge")
  /\ IF IsConnected
     THEN Awaits(c, "stopping", bridge) /\ links' = [links EXCEPT ![bridge].running = FALSE]
     ELSE Goes(c, PastBridge(c)) /\ UNCHANGED links
  /\ UNCHANGED <<protocol, bridge, active, joining, registered, barred, overlapped,
                 manager, discord, budget>>

\* Mutant: stop ends the tasks of the bridge, not its process.
StopLeavesProcess(c) ==
  /\ Resumes(c, "stopping")
  /\ bridge' = 0
  /\ calls' = [calls EXCEPT ![c].at = PastBridge(c)] /\ turn' = c
  /\ UNCHANGED <<links, protocol, active, joining, registered, barred, overlapped, manager,
                 discord, budget>>
(* RustVoiceBridge.stop: the process is terminated or killed. *)
Stop(c) ==
  /\ Resumes(c, "stopping")
  /\ links' = [links EXCEPT ![calls[c].link].alive = FALSE]
  /\ bridge' = 0
  /\ calls' = [calls EXCEPT ![c].at = PastBridge(c)] /\ turn' = c
  /\ UNCHANGED <<protocol, active, joining, registered, barred, overlapped, manager,
                 discord, budget>>

(* channel.connect: py-cord refuses a second voice client in the guild.  It *)
(* keeps the new one if the order to join cannot be sent, and the listener  *)
(* has no reference to it.                                                  *)
Connect(c) ==
  LET g == calls[c].guild
      n == Len(links) + 1
      made == Append(links, [guild |-> g, gathered |-> FALSE, running |-> FALSE,
                             alive |-> FALSE]) IN
  /\ Runs(c, "connect")
  /\ \/ /\ registered[g] # 0 \/ n > MaxLinks
        /\ Fails(c) /\ UNCHANGED <<links, registered, barred, botIn, astray, updates, budget>>
     \/ /\ registered[g] = 0 /\ n <= MaxLinks
        /\ links' = made /\ registered' = [registered EXCEPT ![g] = n]
        /\ barred' = barred \cup {g}
        /\ Fails(c) /\ Unsent /\ UNCHANGED astray
     \/ /\ registered[g] = 0 /\ n <= MaxLinks
        /\ links' = made /\ registered' = [registered EXCEPT ![g] = n]
        /\ BotMoves(g, calls[c].channel)
        /\ Awaits(c, "connecting", n)
        /\ UNCHANGED <<protocol, bridge, active, joining, barred, overlapped, manager,
                       tracked, where>>

(* Both gateway events have come; they come to the guild's voice client. *)
Connected(c) ==
  LET n == calls[c].link IN
  /\ Resumes(c, "connecting") /\ registered[links[n].guild] = n
  /\ links' = [links EXCEPT ![n].gathered = TRUE]
  /\ bridge' = n
  /\ \E found \in BOOLEAN : Awaits(c, IF found THEN "spawning" ELSE "failing", n)
  /\ UNCHANGED <<protocol, active, joining, registered, barred, overlapped, manager,
                 discord, budget>>

(* They have not in time: the bot leaves, and py-cord drops the voice      *)
(* client, or that order fails and it keeps it.                            *)
TimesOut(c) ==
  LET n == calls[c].link
      g == links[n].guild IN
  /\ Resumes(c, "connecting")
  /\ \/ CleansUp(n) /\ BotMoves(g, Nowhere)
     \/ Remains(g) /\ barred' = barred \cup {g} /\ UNCHANGED <<links, registered>>
  /\ Fails(c)

\* Mutant: the listener remembers the channel where it keeps the guild.
SpawnedInChannel(c) ==
  LET n == calls[c].link IN
  /\ Resumes(c, "spawning")
  /\ links' = [links EXCEPT ![n].alive = TRUE, ![n].running = TRUE]
  /\ protocol' = n /\ active' = calls[c].channel
  /\ joining' = joining \ {calls[c].guild}
  /\ Ends(c, TRUE)
  /\ UNCHANGED <<bridge, registered, barred, overlapped, discord, budget>>
(* RustVoiceBridge.start has spawned the process and its readers. *)
Spawned(c) ==
  LET n == calls[c].link IN
  /\ Resumes(c, "spawning")
  /\ links' = [links EXCEPT ![n].alive = TRUE, ![n].running = TRUE]
  /\ protocol' = n /\ active' = calls[c].guild
  /\ joining' = joining \ {calls[c].guild}
  /\ Ends(c, TRUE)
  /\ UNCHANGED <<bridge, registered, barred, overlapped, discord, budget>>

SpawnFails(c) ==
  /\ Resumes(c, "spawning")
  /\ Goes(c, "failing")
  /\ UNCHANGED <<listener, overlapped, manager, discord, budget>>

(* A bridge that did not start: the connection is ended again. *)
GiveUp(c) ==
  /\ Resumes(c, "failing")
  /\ Disconnected(calls[c].link)
  /\ Fails(c)

FinishLeave(c) ==
  /\ Runs(c, "finish")
  /\ active' = 0 /\ joining' = joining \ {calls[c].guild}
  /\ Ends(c, TRUE)
  /\ UNCHANGED <<links, protocol, bridge, registered, barred, overlapped, discord, budget>>

---------------------------------------------------------------------------
(* The callers.                                                            *)

(* The manager's loop lists the considerations that are due, or the        *)
(* sessions, and then takes the list one by one, as it was.                *)
Wake ==
  /\ Free /\ calls[Loop] = NoCall /\ turn' = Loop
  /\ \E due \in SUBSET {<<g, p[1], p[2]>> : g \in Guilds, p \in UNION {pending[h] : h \in Guilds}} :
       /\ \A d \in due : <<d[2], d[3]>> \in pending[d[1]]
       /\ round' = IF due # {} THEN [round EXCEPT !.joins = due]
                   ELSE [round EXCEPT !.leaves = sessions]
  /\ round' # round
  /\ UNCHANGED <<listener, calls, overlapped, pending, sessions, discord, budget>>

(* _evaluate_pending_joins: a consideration is dropped if the bot is in    *)
(* voice or the member left, and else the dice decide.                     *)
EvaluatePending(g, m, ch) ==
  /\ turn = Loop /\ calls[Loop] = NoCall /\ <<g, m, ch>> \in round.joins
  /\ round' = [round EXCEPT !.joins = @ \ {<<g, m, ch>>}]
  /\ \/ /\ turn' = IF round'.joins # {} THEN Loop ELSE NoOne
        /\ pending' = [pending EXCEPT ![g] = {}]
        /\ UNCHANGED <<listener, calls, overlapped, sessions, discord>>
     \/ ~IsInVoice(g) /\ tracked[m] # Nowhere /\ BeginsJoin(Loop, g, ch)
  /\ UNCHANGED budget

\* Mutant: a session of a guild the bot is not in is skipped and kept.
CheckLeaveSkips(g) ==
  /\ turn = Loop /\ calls[Loop] = NoCall /\ g \in round.leaves
  /\ round' = [round EXCEPT !.leaves = @ \ {g}]
  /\ \/ /\ turn' = IF round'.leaves # {} THEN Loop ELSE NoOne
        /\ UNCHANGED <<listener, calls, overlapped, pending, sessions, discord>>
     \/ IsInVoice(g) /\ BeginsLeave(Loop, g)
  /\ UNCHANGED budget
(* _check_leave_conditions: a session of a guild the bot is not in is      *)
(* over; the bot leaves another when it has a reason (the session is too   *)
(* long, energy is low) and the dice agree.                                *)
CheckLeave(g) ==
  /\ turn = Loop /\ calls[Loop] = NoCall /\ g \in round.leaves
  /\ round' = [round EXCEPT !.leaves = @ \ {g}]
  /\ \/ /\ turn' = IF round'.leaves # {} THEN Loop ELSE NoOne
        /\ sessions' = IF IsInVoice(g) THEN sessions ELSE sessions \ {g}
        /\ UNCHANGED <<listener, calls, overlapped, pending, discord>>
     \/ IsInVoice(g) /\ BeginsLeave(Loop, g)
  /\ UNCHANGED budget

(* _check_voice_action: a message with a word about voice is put to the    *)
(* model, and answered later.                                              *)
AskDecider(g) ==
  /\ Free /\ calls[Chat] = NoCall /\ budget.chats > 0
  /\ calls' = [calls EXCEPT ![Chat] = [NoCall EXCEPT !.op = "asked", !.guild = g,
                                                     !.at = "deciding"]]
  /\ budget' = [budget EXCEPT !.chats = @ - 1]
  /\ UNCHANGED <<listener, turn, overlapped, manager, discord>>

(* Where a chat's join goes: to the channel the tracker has for the user,  *)
(* of whichever guild, else to a channel of the guild with somebody in it. *)
Targets(u, g) == IF tracked[u] # Nowhere THEN {tracked[u]}
                 ELSE {ch \in Channels : GuildOf[ch] = g /\ \E v \in People : where[v] = ch}

VoiceAction(g) ==
  /\ Free /\ calls[Chat].at = "deciding" /\ calls[Chat].guild = g
  /\ \/ \E u \in People, ch \in Channels : ch \in Targets(u, g) /\ BeginsJoin(Chat, g, ch)
     \/ BeginsLeave(Chat, g)
     \/ /\ calls' = [calls EXCEPT ![Chat] = NoCall]
        /\ UNCHANGED <<listener, turn, overlapped, pending, sessions, discord>>
  /\ UNCHANGED <<round, budget>>

(* The panel joins, leaves, or leaves all: the guild last joined. *)
PanelCall(g) ==
  /\ Free /\ calls[Panel] = NoCall /\ budget.panel > 0
  /\ \/ \E ch \in Channels : BeginsJoin(Panel, g, ch)
     \/ BeginsLeave(Panel, g)
  /\ budget' = [budget EXCEPT !.panel = @ - 1] /\ UNCHANGED round

---------------------------------------------------------------------------
(* Discord and the processes.                                              *)

(* A user enters, leaves or changes channel; between guilds Discord tells  *)
(* each guild, in either order.  Nothing is told while the gateway is down *)
Told(u, from, to) ==
  LET e(g, before, after) == [who |-> u, guild |-> g, before |-> before, after |-> after]
  IN  IF from = Nowhere THEN {<<e(GuildOf[to], Nowhere, to)>>}
      ELSE IF to = Nowhere THEN {<<e(GuildOf[from], from, Nowhere)>>}
      ELSE IF GuildOf[from] = GuildOf[to] THEN {<<e(GuildOf[to], from, to)>>}
      ELSE LET out == e(GuildOf[from], from, Nowhere)
               in == e(GuildOf[to], Nowhere, to)
           IN  {<<out, in>>, <<in, out>>}

UserMoves(u) ==
  /\ Free /\ budget.moves > 0
  /\ \E to \in (Channels \cup {Nowhere}) \ {where[u]} :
       /\ where' = [where EXCEPT ![u] = to]
       /\ \E told \in Told(u, where[u], to) \cup {<<>>} : updates' = updates \o told
  /\ budget' = [budget EXCEPT !.moves = @ - 1]
  /\ UNCHANGED <<listener, calls, turn, overlapped, manager, tracked, botIn, astray>>

(* A moderator moves the bot to another channel of the guild or puts it    *)
(* out: the captured connection keeps the new session's name and no more.  *)
BotMoved(g) ==
  /\ Free /\ budget.moves > 0 /\ botIn[g] # Nowhere
  /\ \E to \in ({ch \in Channels : GuildOf[ch] = g} \cup {Nowhere}) \ {botIn[g]} :
       /\ botIn' = [botIn EXCEPT ![g] = to]
       /\ astray' = IF to = Nowhere THEN astray \cup {g} ELSE astray
       /\ updates' \in {updates, Append(updates, [who |-> Bot, guild |-> g,
                                                 before |-> botIn[g], after |-> to])}
  /\ budget' = [budget EXCEPT !.moves = @ - 1]
  /\ UNCHANGED <<listener, calls, turn, overlapped, manager, tracked, where>>

(* VoiceTracker.on_voice_update: a leave forgets the member whatever guild *)
(* it is told of, a switch is noted only of a member it knows.             *)
Tracked(e) == IF e.before = Nowhere \/ e.after = Nowhere \/ tracked[e.who] # Nowhere
              THEN e.after ELSE Nowhere

(* on_voice_state_update: the tracker, then on_user_joined_vc for whoever  *)
(* entered, the bot included; one consideration per guild at a time.       *)
OnVoiceStateUpdate ==
  /\ Free /\ updates # <<>>
  /\ LET e == Head(updates) IN
     /\ tracked' = [tracked EXCEPT ![e.who] = Tracked(e)]
     /\ pending' = IF e.before = Nowhere /\ ~IsInVoice(e.guild) /\ pending[e.guild] = {}
                   THEN [pending EXCEPT ![e.guild] = {<<e.who, e.after>>}] ELSE pending
  /\ updates' = Tail(updates)
  /\ UNCHANGED <<listener, calls, turn, overlapped, sessions, round, where, botIn, astray,
                 budget>>

Call(c) ==
  \/ SeeProtocol(c) \/ Disconnect(c) \/ SeeBridge(c) \/ Stop(c) \/ Connect(c)
  \/ Connected(c) \/ TimesOut(c) \/ Spawned(c) \/ SpawnFails(c) \/ GiveUp(c) \/ FinishLeave(c)

Round ==
  \/ Wake
  \/ \E g \in Guilds, m \in Members, ch \in Channels : EvaluatePending(g, m, ch)
  \/ \E g \in Guilds : CheckLeave(g)

SessionNext ==
  \/ \E c \in Callers : Call(c)
  \/ Round
  \/ \E g \in Guilds : AskDecider(g) \/ VoiceAction(g) \/ PanelCall(g)
  \/ OnVoiceStateUpdate
  \/ \E u \in People : UserMoves(u)
  \/ \E g \in Guilds : BotMoved(g)

SessionSpec == SessionInit /\ [][SessionNext]_sessionVars

(* Every await of a call ends: the gateway answers or the wait times out,  *)
(* a process ends or is killed.  The manager's loop wakes up every 15      *)
(* seconds, and its dice fall on every side sooner or later.               *)
FairSessionSpec ==
  /\ SessionSpec
  /\ WF_sessionVars(\E c \in Callers : Call(c))
  /\ WF_sessionVars(Round)
  /\ SF_sessionVars(\E g \in Guilds : CheckLeave(g) /\ (IsInVoice(g) => calls' # calls))

---------------------------------------------------------------------------
(* Properties.                                                             *)

(* Calls that never overlap keep the listener, py-cord and Discord in      *)
(* agreement: in between the listener has nothing, or a connection and the *)
(* running bridge of one join; no guild is left marked as being joined;    *)
(* the bot is in the guild the listener names and in no other, save where  *)
(* it was put out or an order of its was not sent, and not taken since;    *)
(* and py-cord has a voice client in that guild and no other, save where   *)
(* an order was not sent while it connected.                               *)
AgreesWithDiscord ==
  (~overlapped /\ Free /\ \A c \in Callers : ~Underway(c)) =>
     /\ joining = {}
     /\ IF protocol = 0 THEN ~IsConnected
        ELSE bridge = protocol /\ IsConnected /\ active = links[protocol].guild
     /\ \A g \in Guilds \ astray : botIn[g] # Nowhere <=> (protocol # 0 /\ g = active)
     /\ \A g \in Guilds \ barred : registered[g] # 0 <=> (protocol # 0 /\ g = active)

(* A Rust process is always one the listener can still stop, or is being   *)
(* stopped by a call, unless two calls overlapped: each await of a join or *)
(* a leave lets another call replace or clear the one reference there is.  *)
StrandedOnlyByOverlap ==
  \A n \in DOMAIN links :
     links[n].alive => \/ overlapped
                       \/ (bridge = n /\ links[n].running)
                       \/ \E c \in Callers : calls[c].at = "stopping" /\ calls[c].link = n

(* A guild comes to rest: the sessions the bot opened there by itself or   *)
(* in a chat end, and so does what it considers joining, however its calls *)
(* overlapped with others and whether or not its process died.  What is    *)
(* begun meanwhile is bounded by the budgets.                              *)
SessionsEnd ==
  \A g \in Guilds :
     (g \in sessions \/ pending[g] # {}) ~> (g \notin sessions /\ pending[g] = {})
==============================================================================
