-------------------------- MODULE EmbeddedPostgres --------------------------
(***************************************************************************)
(* The managed PostgreSQL: each process of the application provisions the  *)
(* binaries, stops what still runs on the data directory, initialises it   *)
(* on the first run, spawns the server as its child, waits for an answer    *)
(* and creates the database.  The data directory and the server outlive    *)
(* the process that made them; a second process (the migrate command, a     *)
(* restart that overlaps) works on the same directory.                     *)
(***************************************************************************)
EXTENDS Integers, FiniteSets

CONSTANTS
    Apps,       \* processes of the application on one data directory
    Serve,      \* the one its supervisor starts again
    None,
    Majors,     \* versions of PostgreSQL
    PG_MAJOR,   \* the one that is downloaded
    MaxTrouble, \* bound on faults, package changes and starts of the others
    Faults      \* subset of {"kill", "reboot", "reuse", "die", "slow", "fail"}

ASSUME PostgresAssumption ==
    /\ Serve \in Apps /\ None \notin Apps /\ None \notin Majors
    /\ PG_MAJOR \in Majors /\ "local" \notin Majors /\ MaxTrouble \in Nat

VARIABLES
    system,  \* the PostgreSQL in a well-known path, or None
    local,   \* the downloaded binaries: "none", "part" (pg_isready is there) or "whole"
    stamp,   \* version.json is there; it says PG_MAJOR
    tar,     \* processes whose tar runs
    cluster, \* PGDATA: "none", "junk" (no PG_VERSION), "cut" (PG_VERSION, not finished), "whole"
    major,   \* what PG_VERSION says
    initdb,  \* the process whose initdb runs, or None
    db,      \* the database stackarr was created
    server,  \* whose child is the server that holds PGDATA, or None
    phase,   \* "off", "starting", "up" or "stopping"
    left,    \* postmaster.pid of no server: "none", "stale", "reused" (another process has the pid)
    pc,      \* where each process is
    bins,    \* the binaries it uses: "local" or a major of the system's
    first,   \* first_run
    child,   \* it has a child
    trouble, \* counts towards MaxTrouble
    used,    \* history: the schema was written
    cutShort, \* history: a first run ended before it created the database
    killed,  \* history: processes that were killed since their last server started
    unstopped \* history: those that left it running because pg_ctl failed

files   == <<system, local, stamp, tar, cluster, major, initdb, db>>
servers == <<server, phase, left>>
procs   == <<pc, bins, first, child>>
history == <<used, cutShort, killed, unstopped>>
vars    == <<files, servers, procs, trouble, history>>

Init ==
    /\ system \in Majors \cup {None}
    /\ local = "none" /\ stamp = FALSE /\ tar = {}
    /\ cluster = "none" /\ major = None /\ initdb = None /\ db = FALSE
    /\ server = None /\ phase = "off" /\ left = "none"
    /\ pc = [a \in Apps |-> "down"]
    /\ bins = [a \in Apps |-> "local"]
    /\ first = [a \in Apps |-> FALSE]
    /\ child = [a \in Apps |-> FALSE]
    /\ trouble = 0
    /\ used = FALSE /\ cutShort = FALSE /\ killed = {} /\ unstopped = {}

-----------------------------------------------------------------------------
Running(a) == pc[a] # "down"

(* The binaries a process chose run; which version they are. *)
Works(a)    == IF bins[a] = "local" THEN local = "whole" ELSE bins[a] = system
MajorOf(a)  == IF bins[a] = "local" THEN PG_MAJOR ELSE bins[a]
HasVersion  == cluster \in {"cut", "whole"}

Trouble ==
    /\ trouble < MaxTrouble
    /\ trouble' = trouble + 1

Step(a, from, to) ==
    /\ pc[a] = from
    /\ pc' = [pc EXCEPT ![a] = to]

(* The first run of a process ends here without its database. *)
GivesUp(a) == first[a] /\ pc[a] \in {"init", "config", "spawn", "wait", "create"}

(* Mutant: the process ends and leaves its child alone. *)
FailAtOnce(a) ==
    /\ pc' = [pc EXCEPT ![a] = "down"]
    /\ cutShort' = (cutShort \/ GivesUp(a))
    /\ UNCHANGED <<bins, first, child, used, killed, unstopped>>

(* start() fails: the manager is dropped, which stops a child it has. *)
Fail(a) ==
    /\ pc' = [pc EXCEPT ![a] = IF child[a] THEN "drop" ELSE "down"]
    /\ cutShort' = (cutShort \/ GivesUp(a))
    /\ UNCHANGED <<bins, first, child, used, killed, unstopped>>

(* What may fail at any time, and take longer than anybody waits. *)
Fails(a) == "fail" \in Faults /\ Trouble /\ Fail(a)
Slow     == "slow" \in Faults /\ Trouble

-----------------------------------------------------------------------------
(* Provisioning *)

Start(a) ==
    /\ pc[a] = "down"
    /\ IF a = Serve THEN UNCHANGED trouble ELSE Trouble
    /\ pc' = [pc EXCEPT ![a] = "provision"]
    /\ first' = [first EXCEPT ![a] = FALSE]
    /\ UNCHANGED <<files, servers, bins, child, history>>

(* Packages come and go, under whoever uses them. *)
Install ==
    /\ Trouble
    /\ system' \in (Majors \cup {None}) \ {system}
    /\ UNCHANGED <<local, stamp, tar, cluster, major, initdb, db, servers, procs, history>>

Uses(a, b, to) ==
    /\ Step(a, "provision", to)
    /\ bins' = [bins EXCEPT ![a] = b]
    /\ UNCHANGED <<first, child, history>>

(* The system's binaries come first, then those of an earlier run, which    *)
(* are known by pg_isready alone; else they are downloaded.  One that does  *)
(* not answer within five seconds is passed over.                           *)
FindBinaries(a) ==
    /\ \/ system # None /\ Uses(a, system, "recover") /\ UNCHANGED <<tar, local, trouble>>
       \/ /\ local # "none" /\ Uses(a, "local", "recover") /\ UNCHANGED <<tar, local>>
          /\ IF system = None THEN UNCHANGED trouble ELSE Slow
       \/ /\ Uses(a, "local", "extract")
          /\ tar' = tar \cup {a} /\ local' = "part"
          /\ IF system = None /\ local = "none" THEN UNCHANGED trouble ELSE Slow
       \/ /\ pc[a] = "provision" /\ system = None /\ local = "none"
          /\ Fails(a)
          /\ UNCHANGED <<tar, local>>
    /\ UNCHANGED <<system, stamp, cluster, major, initdb, db, servers>>

(* tar is a process of its own and ends without the one that started it. *)
Extracted(a) ==
    /\ a \in tar
    /\ tar' = tar \ {a}
    /\ \/ /\ local' = "whole"
          /\ pc' = [pc EXCEPT ![a] = IF @ = "extract" THEN "stamp" ELSE @]
          /\ UNCHANGED trouble
       \/ /\ "fail" \in Faults /\ Trouble
          /\ pc' = [pc EXCEPT ![a] = IF @ = "extract" THEN "down" ELSE @]
          /\ UNCHANGED local
    /\ UNCHANGED <<system, stamp, cluster, major, initdb, db, servers, bins, first, child, history>>

WriteStamp(a) ==
    /\ pc[a] = "stamp"
    /\ \/ stamp' = TRUE /\ Step(a, "stamp", "recover") /\ UNCHANGED <<bins, first, child, trouble, history>>
       \/ Fails(a) /\ UNCHANGED stamp
    /\ UNCHANGED <<system, local, tar, cluster, major, initdb, db, servers>>

-----------------------------------------------------------------------------
(* Crash recovery and version *)

(* pg_ctl stop: whatever server holds PGDATA is told to go. *)
SignalStop(a) ==
    /\ Works(a) /\ server # None
    /\ phase' = "stopping" /\ UNCHANGED <<server, left, trouble>>

(* It is missing, finds no server, or fails. *)
SignalFails(a) ==
    /\ IF Works(a) /\ server # None THEN "fail" \in Faults /\ Trouble ELSE UNCHANGED trouble
    /\ UNCHANGED servers

(* A server that runs is told to stop, and a pid file of none is removed;   *)
(* a pid that another process has is taken for a server.  What pg_ctl says  *)
(* is dropped.                                                              *)
Recover(a) ==
    /\ \/ /\ server # None
          /\ Step(a, "recover", "unwind")
          /\ SignalStop(a) \/ SignalFails(a)
       \/ /\ server = None /\ left = "stale"
          /\ Step(a, "recover", "version")
          /\ left' = "none"
          /\ UNCHANGED <<server, phase, trouble>>
       \/ /\ server = None /\ left \in {"none", "reused"}
          /\ Step(a, "recover", "version")
          /\ UNCHANGED <<servers, trouble>>
    /\ UNCHANGED <<files, bins, first, child, history>>

(* Ten seconds later what is still there is left to itself. *)
Unwound(a) ==
    /\ Step(a, "unwind", "version")
    /\ \/ (phase # "stopping" \/ ~Works(a)) /\ UNCHANGED trouble
       \/ Slow
    /\ UNCHANGED <<files, servers, bins, first, child, history>>

(* version.json is asked before the binaries that are used. *)
Provisioned(a) == IF stamp THEN PG_MAJOR ELSE IF Works(a) THEN MajorOf(a) ELSE None

CheckVersion(a) ==
    /\ pc[a] = "version"
    /\ IF HasVersion /\ Provisioned(a) \notin {None, major}
       THEN Fail(a)
       ELSE Step(a, "version", "first") /\ UNCHANGED <<bins, first, child, history>>
    /\ UNCHANGED <<files, servers, trouble>>

-----------------------------------------------------------------------------
(* The data directory *)

(* Mutant: a run without version.json is taken for the first. *)
FirstByStamp(a) ==
    /\ Step(a, "first", IF stamp THEN "config" ELSE "initdb")
    /\ first' = [first EXCEPT ![a] = ~stamp]
    /\ UNCHANGED <<files, servers, bins, child, trouble, history>>

FirstRun(a) ==
    /\ Step(a, "first", IF HasVersion THEN "config" ELSE "initdb")
    /\ first' = [first EXCEPT ![a] = ~HasVersion]
    /\ UNCHANGED <<files, servers, bins, child, trouble, history>>

(* Mutant: what is in the directory is removed before initdb runs. *)
InitAfresh(a) ==
    /\ pc[a] = "initdb"
    /\ IF Works(a) /\ initdb = None
       THEN /\ Step(a, "initdb", "init")
            /\ cluster' = "junk" /\ major' = MajorOf(a) /\ initdb' = a
            /\ UNCHANGED <<bins, first, child, history>>
       ELSE Fail(a) /\ UNCHANGED <<cluster, major, initdb>>
    /\ UNCHANGED <<system, local, stamp, tar, db, servers, trouble>>

(* initdb refuses a directory that is not empty. *)
InitDb(a) ==
    /\ pc[a] = "initdb"
    /\ IF Works(a) /\ cluster = "none"
       THEN /\ Step(a, "initdb", "init")
            /\ cluster' = "junk" /\ major' = MajorOf(a) /\ initdb' = a
            /\ UNCHANGED <<bins, first, child, history>>
       ELSE Fail(a) /\ UNCHANGED <<cluster, major, initdb>>
    /\ UNCHANGED <<system, local, stamp, tar, db, servers, trouble>>

(* initdb writes PG_VERSION early, and ends without the process too. *)
WriteVersion ==
    /\ initdb # None /\ cluster = "junk"
    /\ cluster' = "cut"
    /\ UNCHANGED <<system, local, stamp, tar, major, initdb, db, servers, procs, trouble, history>>

Initialised ==
    /\ initdb # None /\ cluster = "cut"
    /\ cluster' = "whole" /\ initdb' = None
    /\ pc' = [pc EXCEPT ![initdb] = IF @ = "init" THEN "config" ELSE @]
    /\ UNCHANGED <<system, local, stamp, tar, major, db, servers, bins, first, child, trouble, history>>

(* It fails and removes what it made. *)
NotInitialised ==
    /\ initdb # None /\ "fail" \in Faults /\ Trouble
    /\ cluster' = "none" /\ major' = None /\ initdb' = None
    /\ pc' = [pc EXCEPT ![initdb] = IF @ = "init" THEN "down" ELSE @]
    /\ UNCHANGED <<system, local, stamp, tar, db, servers, bins, first, child, history>>

(* The directory is there since somebody's initdb, if only empty. *)
WriteConfig(a) ==
    /\ pc[a] = "config"
    /\ \/ /\ Step(a, "config", "spawn")
          /\ cluster' = IF cluster = "none" THEN "junk" ELSE cluster
          /\ UNCHANGED <<bins, first, child, trouble, history>>
       \/ Fails(a) /\ UNCHANGED cluster
    /\ UNCHANGED <<system, local, stamp, tar, major, initdb, db, servers>>

-----------------------------------------------------------------------------
(* The server *)

(* PostgreSQL's own lock lets one server have the directory. *)
Takes(a) == /\ server = None /\ left # "reused"
            /\ cluster = "whole" /\ major = MajorOf(a)

(* Mutant: the child is not kept. *)
SpawnForgets(a) ==
    /\ pc[a] = "spawn"
    /\ \/ /\ Works(a)
          /\ Step(a, "spawn", "wait")
          /\ IF Takes(a)
             THEN /\ server' = a /\ phase' = "starting" /\ left' = "none"
                  /\ killed' = killed \ {a} /\ unstopped' = unstopped \ {a}
             ELSE UNCHANGED <<servers, killed, unstopped>>
          /\ UNCHANGED <<bins, first, child, used, cutShort>>
       \/ ~Works(a) /\ Fail(a) /\ UNCHANGED servers
    /\ UNCHANGED <<files, trouble>>

(* A child that cannot have the directory ends at once; nobody looks.       *)
Spawn(a) ==
    /\ pc[a] = "spawn"
    /\ \/ /\ Works(a)
          /\ Step(a, "spawn", "wait")
          /\ child' = [child EXCEPT ![a] = TRUE]
          /\ IF Takes(a)
             THEN /\ server' = a /\ phase' = "starting" /\ left' = "none"
                  /\ killed' = killed \ {a} /\ unstopped' = unstopped \ {a}
             ELSE UNCHANGED <<servers, killed, unstopped>>
          /\ UNCHANGED <<bins, first, used, cutShort>>
       \/ ~Works(a) /\ Fail(a) /\ UNCHANGED servers
    /\ UNCHANGED <<files, trouble>>

ServerUp ==
    /\ phase = "starting" /\ phase' = "up"
    /\ UNCHANGED <<files, server, left, procs, trouble, history>>

ServerStopped ==
    /\ phase = "stopping" /\ phase' = "off" /\ server' = None
    /\ UNCHANGED <<files, left, procs, trouble, history>>

ServerDies ==
    /\ "die" \in Faults /\ server # None /\ Trouble
    /\ server' = None /\ phase' = "off" /\ left' = "stale"
    /\ UNCHANGED <<files, procs, history>>

(* pg_isready asks whoever listens on the port. *)
Answered(a) ==
    /\ phase = "up" /\ bins[a] \in {"local", system}
    /\ Step(a, "wait", IF first[a] THEN "create" ELSE "connect")
    /\ UNCHANGED <<files, servers, bins, first, child, trouble, history>>

TimedOut(a) ==
    /\ pc[a] = "wait"
    /\ IF phase \in {"off", "stopping"} \/ ~Works(a) THEN UNCHANGED trouble ELSE Slow
    /\ Fail(a)
    /\ UNCHANGED <<files, servers>>

(* Mutant: what psql says is not looked at. *)
CreateAnyway(a) ==
    /\ pc[a] = "create"
    /\ db' = (db \/ phase = "up")
    /\ Step(a, "create", "connect")
    /\ UNCHANGED <<bins, first, child, trouble, history>>
    /\ UNCHANGED <<system, local, stamp, tar, cluster, major, initdb, servers>>

CreateDatabase(a) ==
    /\ pc[a] = "create"
    /\ \/ /\ phase = "up" /\ Works(a)
          /\ db' = TRUE
          /\ Step(a, "create", "connect")
          /\ UNCHANGED <<bins, first, child, trouble, history>>
       \/ ~(phase = "up" /\ Works(a)) /\ Fail(a) /\ UNCHANGED <<db, trouble>>
       \/ Fails(a) /\ UNCHANGED db
    /\ UNCHANGED <<system, local, stamp, tar, cluster, major, initdb, servers>>

(* start() has returned: main connects and migrates the schema, or leaves.  *)
Connect(a) ==
    /\ pc[a] = "connect"
    /\ \/ /\ phase = "up" /\ db
          /\ Step(a, "connect", "ready")
          /\ used' = TRUE
          /\ UNCHANGED <<bins, first, child, cutShort, killed, unstopped, trouble>>
       \/ ~(phase = "up" /\ db) /\ Fail(a) /\ UNCHANGED trouble
       \/ Fails(a)
    /\ UNCHANGED <<files, servers>>

-----------------------------------------------------------------------------
(* The end of a process *)

(* The server is stopped by stop() after serving; by the drop after a       *)
(* migration and after every error.                                         *)
Leave(a) ==
    /\ (a = Serve /\ Step(a, "ready", "stop")) \/ Step(a, "ready", "drop")
    /\ UNCHANGED <<files, servers, bins, first, child, trouble, history>>

(* A pg_ctl that cannot be run ends stop() with its error and the child     *)
(* still in the manager, whose drop tries again; that ignores what it says. *)
StopServer(a) ==
    /\ pc[a] \in {"stop", "drop"}
    /\ \/ /\ SignalStop(a)
          /\ pc' = [pc EXCEPT ![a] = IF @ = "stop" THEN "stopping" ELSE "dropping"]
          /\ UNCHANGED unstopped
       \/ /\ pc[a] = "stop" /\ SignalFails(a)
          /\ \/ Step(a, "stop", "stopping") /\ Works(a)
             \/ Step(a, "stop", "drop") /\ (~Works(a) \/ trouble' # trouble)
          /\ UNCHANGED unstopped
       \/ /\ SignalFails(a)
          /\ Step(a, "drop", "dropping")
          /\ unstopped' = unstopped \cup ({a} \cap {server})
    /\ UNCHANGED <<files, bins, first, child, used, cutShort, killed>>

(* stop() waits for its child however long that takes, told or not; the     *)
(* drop waits for pg_ctl only.                                              *)
Stopped(a) ==
    /\ pc[a] \in {"stopping", "dropping"}
    /\ pc[a] = "stopping" => server # a
    /\ IF phase = "stopping" THEN Slow ELSE UNCHANGED trouble
    /\ pc' = [pc EXCEPT ![a] = "down"]
    /\ child' = [child EXCEPT ![a] = FALSE]
    /\ UNCHANGED <<files, servers, bins, first, history>>

(* Another process has the pid of a server that is gone, or has it no more. *)
PidReused ==
    /\ \/ "reuse" \in Faults /\ left = "stale" /\ left' = "reused" /\ Trouble
       \/ left = "reused" /\ left' = "stale" /\ UNCHANGED trouble
    /\ UNCHANGED <<files, server, phase, procs, history>>

(* A signal that nobody handles: the server, tar and initdb go on.          *)
Kill(a) ==
    /\ "kill" \in Faults /\ Running(a) /\ Trouble
    /\ pc' = [pc EXCEPT ![a] = "down"]
    /\ child' = [child EXCEPT ![a] = FALSE]
    /\ killed' = killed \cup {a}
    /\ cutShort' = (cutShort \/ GivesUp(a))
    /\ UNCHANGED <<files, servers, bins, first, used, unstopped>>

(* Everything stops, and what was half written stays half written.          *)
Reboot ==
    /\ "reboot" \in Faults /\ Trouble
    /\ local' \in IF tar = {} THEN {local} ELSE {"none", "part"}
    /\ tar' = {} /\ initdb' = None
    /\ server' = None /\ phase' = "off"
    /\ left' = IF server = None /\ left = "none" THEN "none" ELSE "stale"
    /\ pc' = [a \in Apps |-> "down"]
    /\ child' = [a \in Apps |-> FALSE]
    /\ cutShort' = (cutShort \/ \E a \in Apps : GivesUp(a))
    /\ UNCHANGED <<system, stamp, cluster, major, db, bins, first, used, killed, unstopped>>

-----------------------------------------------------------------------------
Next ==
    \/ Install \/ WriteVersion \/ Initialised \/ NotInitialised
    \/ ServerUp \/ ServerStopped \/ ServerDies \/ PidReused \/ Reboot
    \/ \E a \in Apps :
          \/ Start(a) \/ FindBinaries(a) \/ Extracted(a) \/ WriteStamp(a)
          \/ Recover(a) \/ Unwound(a) \/ CheckVersion(a)
          \/ FirstRun(a) \/ InitDb(a) \/ WriteConfig(a) \/ Spawn(a)
          \/ Answered(a) \/ TimedOut(a) \/ CreateDatabase(a) \/ Connect(a)
          \/ Leave(a) \/ StopServer(a) \/ Stopped(a) \/ Kill(a)

Spec == Init /\ [][Next]_vars

(* A step of start() or of the way out is taken in the end; the commands    *)
(* beside the server end; its supervisor starts it again.                   *)
Proceed(a) ==
    \/ FindBinaries(a) \/ WriteStamp(a) \/ Recover(a) \/ Unwound(a) \/ CheckVersion(a)
    \/ FirstRun(a) \/ InitDb(a) \/ WriteConfig(a) \/ Spawn(a) \/ Answered(a)
    \/ TimedOut(a) \/ CreateDatabase(a) \/ Connect(a) \/ StopServer(a) \/ Stopped(a)
    \/ (a # Serve /\ Leave(a))

Fairness ==
    /\ WF_vars(Start(Serve))
    /\ \A a \in Apps : WF_vars(Proceed(a)) /\ WF_vars(Extracted(a))
    /\ WF_vars(WriteVersion) /\ WF_vars(Initialised)
    /\ WF_vars(ServerUp) /\ WF_vars(ServerStopped)

FairSpec == Spec /\ Fairness

-----------------------------------------------------------------------------
(* Properties *)

Places == {"down", "provision", "extract", "stamp", "recover", "unwind", "version", "first",
           "initdb", "init", "config", "spawn", "wait", "create", "connect", "ready",
           "stop", "stopping", "drop", "dropping"}

Kinds ==
    /\ system \in Majors \cup {None}
    /\ local \in {"none", "part", "whole"} /\ stamp \in BOOLEAN /\ tar \subseteq Apps
    /\ cluster \in {"none", "junk", "cut", "whole"}
    /\ major \in Majors \cup {None} /\ initdb \in Apps \cup {None} /\ db \in BOOLEAN
    /\ server \in Apps \cup {None} /\ phase \in {"off", "starting", "up", "stopping"}
    /\ left \in {"none", "stale", "reused"}
    /\ pc \in [Apps -> Places] /\ bins \in [Apps -> Majors \cup {"local"}]
    /\ first \in [Apps -> BOOLEAN] /\ child \in [Apps -> BOOLEAN]
    /\ trouble \in 0..MaxTrouble
    /\ used \in BOOLEAN /\ cutShort \in BOOLEAN
    /\ killed \subseteq Apps /\ unstopped \subseteq Apps

(* Types, and: a server there is holds PGDATA and its pid file, and who has *)
(* come to the wait has a child.                                            *)
TypeOK ==
    /\ Kinds
    /\ (server = None) = (phase = "off")
    /\ server # None => left = "none" /\ cluster = "whole"
    /\ \A a \in Apps : pc[a] \in {"wait", "create", "connect", "ready"} => child[a]

(* Whatever starts, is killed and overlaps: a directory that holds the       *)
(* schema is never initialised again, and the database in it stays.          *)
DataKept == used => cluster = "whole" /\ db

(* A first run that is at work on the database it has still to create.       *)
Creating(a) == first[a] /\ pc[a] \in {"config", "spawn", "wait", "create"}

(* "-> create db. Returns the connection URL on success": the URL that       *)
(* start() returned names a database there is; unless an earlier first run   *)
(* ended between initdb and CREATE DATABASE, or another is between them.     *)
UrlIsUsable ==
    \A a \in Apps : pc[a] = "connect" =>
        db \/ cutShort \/ \E b \in Apps : Creating(b)

(* "Rust owns its lifetime": the server of a process that ended is stopping, *)
(* unless the process was killed or the pg_ctl of its drop failed.           *)
NoServerLeftBehind ==
    server # None /\ pc[server] = "down" =>
        phase = "stopping" \/ server \in killed \cup unstopped

(* What keeps a start from succeeding for good: binaries of another version, *)
(* or a version.json that says so; a pid file whose pid another process has; *)
(* a download that was cut short.                                            *)
Obstacle ==
    \/ system # None /\ system # major
    \/ stamp /\ PG_MAJOR # major
    \/ system = None /\ (local = "part" \/ PG_MAJOR # major)
    \/ left = "reused"

(* Once the database exists, a process that is down comes up again after any *)
(* kills, reboots, dead servers and timeouts, unless there is an obstacle.   *)
ComesUp == (db /\ pc[Serve] = "down") ~> (pc[Serve] = "ready" \/ Obstacle)
=============================================================================
