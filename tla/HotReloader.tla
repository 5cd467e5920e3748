---------------------------- MODULE HotReloader ----------------------------
(***************************************************************************)
(* The hot reloader supervises the process of DatabaseProtection: it polls *)
(* the modification times of the sources and a signal file, rebuilds what  *)
(* is written in Rust, and restarts the bot, with SIGTERM and, after a     *)
(* grace period, SIGKILL.  It is one coroutine, suspended in its sleep, in *)
(* a build or while the bot stops; edits and requests arrive meanwhile.    *)
(*                                                                         *)
(* The modification times of the files of a kind are one version number.   *)
(* The child is `uv run`, which passes SIGTERM on to the bot; a SIGKILL it *)
(* cannot pass on, and a bot that is orphaned then, and runs on beside the *)
(* one started next, is not modelled.                                      *)
(***************************************************************************)
EXTENDS DatabaseProtection

CONSTANTS
    Source,     \* the kinds of watched files, ...
    Rank,       \* ... the order in which get_mtimes lists them, ...
    Built,      \* ... and those that are compiled before the restart
    MaxEdits    \* bound: edits of each kind

ASSUME ReloaderAssumption ==
    /\ Built \subseteq Source
    /\ Rank \in [Source -> Nat]
    /\ \A k, l \in Source : Rank[k] = Rank[l] => k = l
    /\ MaxEdits \in Nat

VARIABLES
    watcher,    \* "stopping" is start_bot, up to the new process
    edits,      \* the versions of the sources
    prev,       \* prev_mtimes
    loaded,     \* the versions the bot's process was started with
    signal,     \* .restart.signal exists
    owed,       \* a restart was requested and no process started since
    quit        \* not watcher_running

reloader == <<watcher, edits, prev, loaded, signal, owed, quit>>
allvars == <<vars, reloader>>

ReloaderTypeOK ==
    /\ TypeOK
    /\ watcher \in {"asleep", "building", "stopping", "stopped"}
    /\ \A version \in {edits, prev, loaded} :
           version \in [Source -> 0..MaxEdits]
    /\ {signal, owed, quit} \subseteq BOOLEAN

\* main has started the bot and taken the first snapshot.
ReloaderInit ==
    /\ InitDisk /\ phase = "starting"
    /\ watcher = "asleep"
    /\ edits = [k \in Source |-> 0]
    /\ prev = edits /\ loaded = edits
    /\ signal = FALSE /\ owed = FALSE /\ quit = FALSE

-----------------------------------------------------------------------------
Changed == {k \in Source : edits[k] > prev[k]}
FirstChanged == CHOOSE k \in Changed : \A l \in Changed : Rank[k] <= Rank[l]

\* start_bot, with the first half of kill_bot.
StopBot ==
    /\ watcher' = "stopping"
    /\ IF phase = "down" THEN UNCHANGED vars ELSE Terminate

\* A changed file: the loop over the paths breaks at the first one.  Its sleep
\* is as long as the cooldown, so handle_restart does restart the bot.
PollChange ==
    /\ watcher = "asleep" /\ ~quit /\ Changed # {}
    /\ IF FirstChanged \in Built
       THEN watcher' = "building" /\ UNCHANGED vars
       ELSE StopBot
    /\ UNCHANGED <<edits, prev, loaded, signal, owed, quit>>

PollSignal ==
    /\ watcher = "asleep" /\ ~quit /\ Changed = {} /\ signal
    /\ signal' = FALSE
    /\ StopBot
    /\ UNCHANGED <<edits, prev, loaded, owed, quit>>

PollQuit ==
    /\ watcher = "asleep" /\ quit
    /\ watcher' = "stopped"
    /\ UNCHANGED <<vars, edits, prev, loaded, signal, owed, quit>>

\* Mutant: without a binary there is nothing to restart for.
EndBuildReturns ==
    /\ watcher = "building"
    /\ \/ StopBot /\ prev' = prev
       \/ watcher' = "asleep" /\ prev' = edits /\ UNCHANGED vars
    /\ UNCHANGED <<edits, loaded, signal, owed, quit>>

\* The build succeeds, fails or runs into its timeout, and the bot is restarted;
\* or cargo or maturin is not there, and FileNotFoundError ends the reloader.
EndBuild ==
    /\ watcher = "building"
    /\ StopBot \/ (watcher' = "stopped" /\ UNCHANGED vars)
    /\ UNCHANGED <<edits, prev, loaded, signal, owed, quit>>

\* Mutant: the reloader goes on waiting for the process.
GraceExpiresWaits ==
    /\ watcher = "stopping" /\ phase # "down"
    /\ UNCHANGED allvars

GraceExpires ==
    /\ watcher = "stopping" /\ phase # "down"
    /\ Die
    /\ UNCHANGED reloader

\* The process is started; the rest of the loop's body does not wait: the new
\* snapshot, and the signal file, for which handle_restart has no effect now.
Spawn ==
    /\ watcher = "stopping"
    /\ Launch
    /\ watcher' = "asleep"
    /\ loaded' = edits /\ prev' = edits
    /\ signal' = FALSE /\ owed' = FALSE
    /\ UNCHANGED <<edits, quit>>

ReloaderStep ==
    PollChange \/ PollSignal \/ PollQuit \/ EndBuild \/ GraceExpires \/ Spawn

-----------------------------------------------------------------------------
Edit(k) ==
    /\ edits[k] < MaxEdits
    /\ edits' = [edits EXCEPT ![k] = @ + 1]
    /\ UNCHANGED <<vars, watcher, prev, loaded, signal, owed, quit>>

\* The panel is served by the bot's process when it is up.
RequestRestart ==
    /\ phase = "running" /\ job["thread"] = NoBackup
    /\ job["handler"] = NoBackup
    /\ signal' = TRUE /\ owed' = TRUE
    /\ UNCHANGED <<vars, watcher, edits, prev, loaded, quit>>

\* Control-C reaches both processes.
Interrupt ==
    /\ ~quit
    /\ quit' = TRUE
    /\ IF phase = "down" THEN UNCHANGED vars ELSE Terminate
    /\ UNCHANGED <<watcher, edits, prev, loaded, signal, owed>>

Next ==
    \/ BotStep /\ UNCHANGED reloader
    \/ (Damage \/ Die) /\ UNCHANGED reloader
    \/ ReloaderStep
    \/ \E k \in Source : Edit(k)
    \/ RequestRestart \/ Interrupt

Spec == ReloaderInit /\ [][Next]_allvars
FairSpec == Spec /\ WF_allvars(ReloaderStep)

-----------------------------------------------------------------------------
\* A restart the panel asked for happens, whatever the reloader was doing,
\* and although the bot may hang in its last backup or be dead already.
RestartIsServed == owed ~> (~owed \/ watcher = "stopped")

\* An edited Python file is loaded by a process started after the edit, also
\* when it is edited while something is built or the bot is being stopped.
PythonEditIsLoaded ==
    \A k \in Source \ Built :
        (edits[k] > loaded[k]) ~> (edits[k] = loaded[k] \/ watcher = "stopped")
=============================================================================
