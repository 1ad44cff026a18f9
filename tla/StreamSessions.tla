--------------------------- MODULE StreamSessions ---------------------------
(***************************************************************************)
(* Streaming sessions: an in-memory table, one ffmpeg process and one      *)
(* directory per transcode, one database row per session.  A request       *)
(* starts a session over several awaits and may be cut off at any of them; *)
(* players keep a session alive; a user, or the cleanup task that looks    *)
(* for idle sessions once a minute, stops it.                              *)
(***************************************************************************)
EXTENDS Naturals, FiniteSets

CONSTANTS
    Ids,         \* the session ids the run may draw
    MaxSessions, \* config.max_concurrent_sessions: 3 by default
    Starters,    \* start requests that may be in flight at once
    Hardware,    \* probe_hwaccel found an encoder
    MaxRestarts, \* how often the process may restart
    Faults       \* which of "spawn", "fs", "db" fail and "cut" (a client disconnects)

ASSUME IdsAssumption == IsFiniteSet(Ids)

ASSUME LimitsAssumption ==
    /\ MaxSessions \in Nat
    /\ Starters \in Nat \ {0}
    /\ MaxRestarts \in Nat

VARIABLES
    pc,       \* how far each session is: its start, its entry in the table, its stop
    kind,     \* "direct" or "transcode"
    idle,     \* sessions whose last_activity is more than five minutes ago
    proc,     \* the ffmpeg process of each session
    dirs,     \* sessions whose directory exists
    row,      \* streaming_sessions.status
    watched,  \* sessions whose player is there and asks for segments
    sweepPc, victims, swept,  \* the cleanup task, and what it stops
    restarts,
    spilled   \* history variable: starts that failed half-way, or were cut off

sweepVars == <<sweepPc, victims, swept>>
vars == <<pc, kind, idle, proc, dirs, row, watched, sweepVars, restarts, spilled>>

StartPcs == {"dir", "spawn", "fallback", "verify", "insert"}
StopPcs  == {"kill", "rmdir", "update"}

(* The table: sessions.insert and sessions.remove move a session in and out. *)
Sessions   == {i \in Ids : pc[i] = "open"}
Transcodes == {i \in Sessions : kind[i] = "transcode"}
Starting   == {i \in Ids : pc[i] \in StartPcs}

Go(i, to) == pc' = [pc EXCEPT ![i] = to]

Fails(i) == Go(i, "over") /\ spilled' = spilled \cup {i}

-----------------------------------------------------------------------------
Init ==
    /\ pc = [i \in Ids |-> "free"]
    /\ kind = [i \in Ids |-> "none"]
    /\ proc = [i \in Ids |-> "none"]
    /\ row = [i \in Ids |-> "none"]
    /\ idle = {} /\ dirs = {} /\ watched = {}
    /\ sweepPc = "sleep" /\ victims = {} /\ swept = {}
    /\ restarts = 0 /\ spilled = {}

-----------------------------------------------------------------------------
(* create_direct_session: every range request makes one, in a task of its own.*)
StartDirect(i) ==
    /\ pc[i] = "free"
    /\ kind' = [kind EXCEPT ![i] = "direct"]
    /\ \/ Go(i, "open") /\ row' = [row EXCEPT ![i] = "active"]
       \/ "db" \in Faults /\ Go(i, "over") /\ UNCHANGED row
    /\ UNCHANGED <<idle, proc, dirs, watched, sweepVars, restarts, spilled>>

HasRoom == Cardinality(Transcodes) < MaxSessions

(* create_transcode_session counts the table; what it starts is counted only *)
(* when it is registered, seconds later.                                     *)
StartTranscode(i) ==
    /\ pc[i] = "free" /\ HasRoom
    /\ Cardinality(Starting) < Starters
    /\ kind' = [kind EXCEPT ![i] = "transcode"]
    /\ Go(i, "dir")
    /\ UNCHANGED <<idle, proc, dirs, row, watched, sweepVars, restarts, spilled>>

MakeDir(i) ==
    /\ pc[i] = "dir"
    /\ \/ Go(i, "spawn") /\ dirs' = dirs \cup {i}
       \/ "fs" \in Faults /\ Go(i, "over") /\ UNCHANGED dirs
    /\ UNCHANGED <<kind, idle, proc, row, watched, sweepVars, restarts, spilled>>

(* An ffmpeg that cannot be spawned ends a software start with the directory *)
(* left behind; a hardware start falls back to software.                     *)
Spawn(i) ==
    /\ pc[i] = "spawn"
    /\ \/ Go(i, "verify") /\ proc' = [proc EXCEPT ![i] = "running"] /\ UNCHANGED spilled
       \/ /\ "spawn" \in Faults /\ UNCHANGED proc
          /\ IF Hardware THEN Go(i, "fallback") /\ UNCHANGED spilled ELSE Fails(i)
    /\ UNCHANGED <<kind, idle, dirs, row, watched, sweepVars, restarts>>

(* Mutant: the directory is removed and not made again. *)
FallbackNoDir(i) ==
    /\ pc[i] = "fallback"
    /\ dirs' = dirs \ {i}
    /\ Go(i, "insert") /\ proc' = [proc EXCEPT ![i] = "running"] /\ UNCHANGED spilled
    /\ UNCHANGED <<kind, idle, row, watched, sweepVars, restarts>>

(* The directory is removed and made again, and software is not verified. *)
Fallback(i) ==
    /\ pc[i] = "fallback"
    /\ \/ /\ Go(i, "insert") /\ proc' = [proc EXCEPT ![i] = "running"]
          /\ UNCHANGED <<dirs, spilled>>
       \/ "spawn" \in Faults /\ Fails(i) /\ UNCHANGED <<proc, dirs>>
       \/ "fs" \in Faults /\ Go(i, "over") /\ dirs' = dirs \ {i} /\ UNCHANGED <<proc, spilled>>
    /\ UNCHANGED <<kind, idle, row, watched, sweepVars, restarts>>

(* verify_ffmpeg_alive looks two seconds later; a dead ffmpeg ends the start, *)
(* and a directory that cannot be removed is left as it is.                  *)
Verify(i) ==
    /\ pc[i] = "verify"
    /\ \/ proc[i] = "running" /\ Go(i, "insert") /\ UNCHANGED <<dirs, spilled>>
       \/ /\ proc[i] # "running"
          /\ \/ Go(i, "over") /\ dirs' = dirs \ {i} /\ UNCHANGED spilled
             \/ "fs" \in Faults /\ Fails(i) /\ UNCHANGED dirs
    /\ UNCHANGED <<kind, idle, proc, row, watched, sweepVars, restarts>>

(* The row and then, with no await between, the entry in the table. *)
Register(i) ==
    /\ pc[i] = "insert"
    /\ \/ /\ Go(i, "open") /\ row' = [row EXCEPT ![i] = "active"]
          /\ watched' = watched \cup {i} /\ UNCHANGED spilled
       \/ "db" \in Faults /\ Fails(i) /\ UNCHANGED <<row, watched>>
    /\ UNCHANGED <<kind, idle, proc, dirs, sweepVars, restarts>>

(* The client disconnects and the handler's future is dropped at its await;  *)
(* a dropped Child is not killed.                                            *)
Cut(i) ==
    /\ "cut" \in Faults
    /\ pc[i] \in StartPcs \/ (pc[i] \in StopPcs /\ i \notin swept)
    /\ Fails(i)
    /\ \/ pc[i] = "insert" /\ row' = [row EXCEPT ![i] = "active"]
       \/ UNCHANGED row
    /\ UNCHANGED <<kind, idle, proc, dirs, watched, sweepVars, restarts>>

-----------------------------------------------------------------------------
(* External: ffmpeg, the players and the clock. *)

FfmpegExits(i) ==
    /\ proc[i] = "running"
    /\ proc' = [proc EXCEPT ![i] = "exited"]
    /\ UNCHANGED <<pc, kind, idle, dirs, row, watched, sweepVars, restarts, spilled>>

PlayerLeaves(i) ==
    /\ i \in watched
    /\ watched' = watched \ {i}
    /\ UNCHANGED <<pc, kind, idle, proc, dirs, row, sweepVars, restarts, spilled>>

(* Five minutes without a request; a player may pause that long. *)
Expire(i) ==
    /\ pc[i] = "open" /\ i \notin idle
    /\ idle' = idle \cup {i}
    /\ UNCHANGED <<pc, kind, proc, dirs, row, watched, sweepVars, restarts, spilled>>

(* The playlist and segment handlers: validate_session, then heartbeat. *)
Heartbeat(i) ==
    /\ pc[i] = "open" /\ i \in watched /\ i \in idle
    /\ idle' = idle \ {i}
    /\ UNCHANGED <<pc, kind, proc, dirs, row, watched, sweepVars, restarts, spilled>>

-----------------------------------------------------------------------------
(* stop_session: only the caller that takes the entry out goes on. *)

(* Mutant: the entry stays in the table until all is cleaned up. *)
TakeOutLate(i) == Go(i, "kill") /\ UNCHANGED idle

TakeOut(i) == Go(i, "kill") /\ idle' = idle \ {i}

UserStop(i) ==
    /\ pc[i] = "open"
    /\ TakeOut(i)
    /\ UNCHANGED <<kind, proc, dirs, row, watched, sweepVars, restarts, spilled>>

(* Mutant: the process is left to end by itself. *)
StopKillNone(i) ==
    /\ pc[i] = "kill"
    /\ Go(i, "rmdir")
    /\ UNCHANGED <<kind, idle, proc, dirs, row, watched, sweepVars, restarts, spilled>>

StopKill(i) ==
    /\ pc[i] = "kill"
    /\ proc' = [proc EXCEPT ![i] = IF @ = "running" THEN "exited" ELSE @]
    /\ Go(i, "rmdir")
    /\ UNCHANGED <<kind, idle, dirs, row, watched, sweepVars, restarts, spilled>>

(* A directory that cannot be removed, and a row that cannot be written, are  *)
(* left as they are.                                                         *)
StopRemove(i) ==
    /\ pc[i] = "rmdir"
    /\ Go(i, "update")
    /\ \/ dirs' = dirs \ {i} /\ UNCHANGED spilled
       \/ "fs" \in Faults /\ i \in dirs /\ spilled' = spilled \cup {i} /\ UNCHANGED dirs
    /\ UNCHANGED <<kind, idle, proc, row, watched, sweepVars, restarts>>

StopUpdate(i) ==
    /\ pc[i] = "update"
    /\ \/ Go(i, "over") /\ row' = [row EXCEPT ![i] = "completed"] /\ UNCHANGED spilled
       \/ "db" \in Faults /\ Fails(i) /\ UNCHANGED row
    /\ swept' = swept \ {i}
    /\ UNCHANGED <<kind, idle, proc, dirs, watched, sweepPc, victims, restarts>>

StopStep(i) == StopKill(i) \/ StopRemove(i) \/ StopUpdate(i)

-----------------------------------------------------------------------------
(* cleanup_idle_sessions: collect the idle sessions, then stop one by one. *)

(* Mutant: only sessions with a process are looked at. *)
OverdueRunning == {i \in idle : proc[i] = "running"}

Overdue == idle

SweepScan ==
    /\ sweepPc = "sleep"
    /\ victims' = Overdue
    /\ sweepPc' = "stop"
    /\ UNCHANGED <<pc, kind, idle, proc, dirs, row, watched, swept, restarts, spilled>>

SweepTake(i) ==
    /\ sweepPc = "stop" /\ swept = {} /\ i \in victims
    /\ victims' = victims \ {i}
    /\ IF pc[i] = "open" THEN TakeOut(i) /\ swept' = {i}
                         ELSE UNCHANGED <<pc, idle, swept>>
    /\ UNCHANGED <<kind, proc, dirs, row, watched, sweepPc, restarts, spilled>>

SweepDone ==
    /\ sweepPc = "stop" /\ swept = {} /\ victims = {}
    /\ sweepPc' = "sleep"
    /\ UNCHANGED <<pc, kind, idle, proc, dirs, row, watched, victims, swept, restarts,
                   spilled>>

Sweep == SweepScan \/ (\E i \in Ids : SweepTake(i)) \/ SweepDone

-----------------------------------------------------------------------------
(* The table is lost, and nothing at start-up looks at the rows or the        *)
(* directories; a child process may outlive its parent.                      *)
Restart ==
    /\ restarts < MaxRestarts
    /\ restarts' = restarts + 1
    /\ LET lost == {i \in Ids : pc[i] \notin {"free", "over"}} IN
          /\ pc' = [i \in Ids |-> IF i \in lost THEN "over" ELSE pc[i]]
          /\ spilled' = spilled \cup lost
    /\ proc' \in {proc, [i \in Ids |-> IF proc[i] = "running" THEN "exited" ELSE proc[i]]}
    /\ idle' = {} /\ watched' = {}
    /\ sweepPc' = "sleep" /\ victims' = {} /\ swept' = {}
    /\ UNCHANGED <<kind, dirs, row>>

Start(i) ==
    \/ StartDirect(i) \/ StartTranscode(i) \/ MakeDir(i) \/ Spawn(i)
    \/ Fallback(i) \/ Verify(i) \/ Register(i) \/ Cut(i)

Environment(i) == FfmpegExits(i) \/ PlayerLeaves(i) \/ Expire(i) \/ Heartbeat(i)

Next ==
    \/ \E i \in Ids : Start(i) \/ Environment(i) \/ UserStop(i) \/ StopStep(i)
    \/ Sweep \/ Restart

Spec == Init /\ [][Next]_vars

(* The cleanup task loops for ever, a stop is carried through unless its      *)
(* request is cut off, and time passes for a session nobody watches.         *)
FairSpec ==
    /\ Spec
    /\ WF_vars(Sweep)
    /\ \A i \in Ids : WF_vars(StopStep(i)) /\ WF_vars(i \notin watched /\ Expire(i))

-----------------------------------------------------------------------------
TypeOK ==
    /\ pc \in [Ids -> {"free", "open", "over"} \cup StartPcs \cup StopPcs]
    /\ kind \in [Ids -> {"none", "direct", "transcode"}]
    /\ idle \subseteq Sessions
    /\ proc \in [Ids -> {"none", "running", "exited"}]
    /\ dirs \subseteq Ids
    /\ row \in [Ids -> {"none", "active", "completed"}]
    /\ watched \subseteq Ids
    /\ sweepPc \in {"sleep", "stop"}
    /\ victims \subseteq Ids /\ swept \subseteq Ids
    /\ restarts \in 0..MaxRestarts
    /\ spilled \subseteq Ids

(* A transcode a player can reach has its directory and an active row: the   *)
(* fallback makes the directory again, a stop takes the entry out first.     *)
ServedHasFiles ==
    \A i \in Transcodes : i \in dirs /\ row[i] = "active" /\ proc[i] # "none"

(* A session that is over leaves no process, directory or active row behind, *)
(* whoever stopped it and however its start went wrong: only a start or stop *)
(* that was cut off, or met one of the errors the code lets pass, does.      *)
ReleasedAll ==
    \A i \in Ids \ spilled :
        pc[i] = "over" => proc[i] # "running" /\ i \notin dirs /\ row[i] # "active"

(* The limit is tested long before a start is counted, so it is exceeded, but *)
(* by fewer sessions than there were starts in flight at once.               *)
LimitOvershoot == Cardinality(Transcodes) < MaxSessions + Starters

(* A session whose player has left is stopped in the end. *)
AbandonedIsReleased ==
    \A i \in Ids : (pc[i] = "open" /\ i \notin watched) ~> pc[i] = "over"

-----------------------------------------------------------------------------
(* CONFIGURATION.md: max_concurrent_sessions is the number of "Max           *)
(* concurrent transcode sessions".                                           *)
LimitHeld == Cardinality(Transcodes) <= MaxSessions
=============================================================================
