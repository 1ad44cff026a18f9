----------------------- MODULE EmbeddedPostgresProofs -----------------------
(***************************************************************************)
(* Proofs about EmbeddedPostgres for any processes, versions, faults and   *)
(* number of them.                                                         *)
(***************************************************************************)
EXTENDS EmbeddedPostgres, TLAPS

Owed == cluster = "whole" /\ ~db => cutShort \/ \E a \in Apps : Creating(a)

InitdbRuns ==
    /\ initdb # None => /\ cluster \in {"junk", "cut"}
                        /\ cutShort \/ (first[initdb] /\ pc[initdb] = "init")
    /\ \A a \in Apps : pc[a] = "initdb" => first[a]

Reached == \A a \in Apps : pc[a] \in {"create", "connect", "ready"} => cluster = "whole"

Equipped == \A a \in Apps : child[a] =>
    pc[a] \in {"wait", "create", "connect", "ready", "stop", "stopping", "drop", "dropping"}

Held == server # None =>
    \/ phase = "stopping" \/ server \in killed \cup unstopped
    \/ child[server] /\ pc[server] \in {"wait", "create", "connect", "ready",
                                        "stop", "stopping", "drop"}

IInv == TypeOK /\ DataKept /\ Owed /\ InitdbRuns /\ Reached /\ Equipped /\ Held

-----------------------------------------------------------------------------
LEMMA InitIInv == Init => IInv
<1> SUFFICES ASSUME Init PROVE IInv
  OBVIOUS
<1>0. /\ pc \in [Apps -> Places] /\ bins \in [Apps -> Majors \cup {"local"}]
      /\ first \in [Apps -> BOOLEAN] /\ child \in [Apps -> BOOLEAN]
  BY DEF Init, Places
<1>a. trouble \in 0..MaxTrouble
  BY PostgresAssumption DEF Init
<1>b. /\ system \in Majors \cup {None} /\ local \in {"none", "part", "whole"}
      /\ stamp \in BOOLEAN /\ tar \subseteq Apps
      /\ cluster \in {"none", "junk", "cut", "whole"} /\ major \in Majors \cup {None}
      /\ initdb \in Apps \cup {None} /\ db \in BOOLEAN
  BY DEF Init
<1>c. /\ server \in Apps \cup {None} /\ phase \in {"off", "starting", "up", "stopping"}
      /\ left \in {"none", "stale", "reused"}
      /\ used \in BOOLEAN /\ cutShort \in BOOLEAN
      /\ killed \subseteq Apps /\ unstopped \subseteq Apps
  BY DEF Init
<1>1. Kinds
  BY <1>0, <1>a, <1>b, <1>c DEF Kinds
<1>2. TypeOK
  BY <1>1 DEF Init, TypeOK
<1>3. DataKept /\ Owed /\ InitdbRuns /\ Reached /\ Equipped /\ Held
  BY DEF Init, DataKept, Owed, InitdbRuns, Reached, Equipped, Held
<1> QED
  BY <1>2, <1>3 DEF IInv

(* A failing start, by itself. *)
LEMMA FailKinds ==
    ASSUME IInv, NEW a \in Apps, Fail(a)
    PROVE  /\ pc' \in [Apps -> Places] /\ bins' \in [Apps -> Majors \cup {"local"}]
           /\ first' \in [Apps -> BOOLEAN] /\ child' \in [Apps -> BOOLEAN]
           /\ used' \in BOOLEAN /\ cutShort' \in BOOLEAN
           /\ killed' \subseteq Apps /\ unstopped' \subseteq Apps
<1>1. pc' \in [Apps -> Places]
  BY DEF IInv, TypeOK, Kinds, Fail, Places
<1>2. cutShort' \in BOOLEAN
  BY DEF Fail
<1> QED
  BY <1>1, <1>2 DEF IInv, TypeOK, Kinds, Fail

LEMMA InstallKeeps ==
    ASSUME IInv, Install
    PROVE  IInv'
<1> USE PostgresAssumption
<1>1. Kinds'
  BY DEF IInv, TypeOK, Kinds, Install, Trouble, servers, procs, history
<1>2. TypeOK'
  BY <1>1 DEF IInv, TypeOK, Install, servers, procs
<1>3. DataKept'
  BY DEF IInv, DataKept, Install, history
<1>4. Owed'
  BY DEF IInv, Owed, Creating, Install, procs, history
<1>5. InitdbRuns'
  BY DEF IInv, InitdbRuns, Install, procs, history
<1>6. Reached'
  BY DEF IInv, Reached, Install, procs
<1>7. Equipped'
  BY DEF IInv, Equipped, Install, procs
<1>8. Held'
  BY DEF IInv, Held, Install, servers, procs, history
<1> QED
  BY <1>2, <1>3, <1>4, <1>5, <1>6, <1>7, <1>8 DEF IInv

LEMMA WriteVersionKeeps ==
    ASSUME IInv, WriteVersion
    PROVE  IInv'
<1> USE PostgresAssumption
<1>1. Kinds'
  BY DEF IInv, TypeOK, Kinds, WriteVersion, servers, procs, history
<1>2. TypeOK'
  BY <1>1 DEF IInv, TypeOK, WriteVersion, servers, procs
<1>3. DataKept'
  BY DEF IInv, DataKept, WriteVersion, history
<1>4. Owed'
  BY DEF Owed, WriteVersion
<1>5. InitdbRuns'
  BY DEF IInv, InitdbRuns, WriteVersion, procs, history
<1>6. Reached'
  BY DEF IInv, Reached, WriteVersion, procs
<1>7. Equipped'
  BY DEF IInv, Equipped, WriteVersion, procs
<1>8. Held'
  BY DEF IInv, Held, WriteVersion, servers, procs, history
<1> QED
  BY <1>2, <1>3, <1>4, <1>5, <1>6, <1>7, <1>8 DEF IInv

LEMMA InitialisedKeeps ==
    ASSUME IInv, Initialised
    PROVE  IInv'
<1> USE PostgresAssumption
<1>1. Kinds'
  BY DEF IInv, TypeOK, Kinds, Places, Initialised, servers, history
<1>2. TypeOK'
  BY <1>1 DEF IInv, TypeOK, Initialised, servers
<1>3. DataKept'
  BY DEF IInv, DataKept, Initialised, history
<1>4. Owed'
  BY DEF IInv, TypeOK, Kinds, Owed, InitdbRuns, Creating, Initialised, history
<1>5. InitdbRuns'
  BY DEF IInv, InitdbRuns, Initialised
<1>6. Reached'
  BY DEF Reached, Initialised
<1>7. Equipped'
  BY DEF IInv, Equipped, Initialised
<1>8. Held'
  BY DEF IInv, Held, Initialised, servers, history
<1> QED
  BY <1>2, <1>3, <1>4, <1>5, <1>6, <1>7, <1>8 DEF IInv

LEMMA NotInitialisedKeeps ==
    ASSUME IInv, NotInitialised
    PROVE  IInv'
<1> USE PostgresAssumption
<1>1. Kinds'
  BY DEF IInv, TypeOK, Kinds, Places, NotInitialised, Trouble, servers, history
<1>2. TypeOK'
  BY <1>1 DEF IInv, TypeOK, InitdbRuns, NotInitialised, servers
<1>3. DataKept'
  BY DEF IInv, DataKept, InitdbRuns, NotInitialised, history
<1>4. Owed'
  BY DEF Owed, NotInitialised
<1>5. InitdbRuns'
  BY DEF IInv, InitdbRuns, NotInitialised
<1>6. Reached'
  BY DEF IInv, Reached, InitdbRuns, NotInitialised
<1>7. Equipped'
  BY DEF IInv, Equipped, NotInitialised
<1>8. Held'
  BY DEF IInv, Held, NotInitialised, servers, history
<1> QED
  BY <1>2, <1>3, <1>4, <1>5, <1>6, <1>7, <1>8 DEF IInv

LEMMA ServerUpKeeps ==
    ASSUME IInv, ServerUp
    PROVE  IInv'
<1> USE PostgresAssumption
<1>1. Kinds'
  BY DEF IInv, TypeOK, Kinds, ServerUp, files, procs, history
<1>2. TypeOK'
  BY <1>1 DEF IInv, TypeOK, ServerUp, files, procs
<1>3. DataKept'
  BY DEF IInv, DataKept, ServerUp, files, history
<1>4. Owed'
  BY DEF IInv, Owed, Creating, ServerUp, files, procs, history
<1>5. InitdbRuns'
  BY DEF IInv, InitdbRuns, ServerUp, files, procs, history
<1>6. Reached'
  BY DEF IInv, Reached, ServerUp, files, procs
<1>7. Equipped'
  BY DEF IInv, Equipped, ServerUp, files, procs
<1>8. Held'
  BY DEF IInv, Held, ServerUp, procs, history
<1> QED
  BY <1>2, <1>3, <1>4, <1>5, <1>6, <1>7, <1>8 DEF IInv

LEMMA ServerStoppedKeeps ==
    ASSUME IInv, ServerStopped
    PROVE  IInv'
<1> USE PostgresAssumption
<1>1. Kinds'
  BY DEF IInv, TypeOK, Kinds, ServerStopped, files, procs, history
<1>2. TypeOK'
  BY <1>1 DEF IInv, TypeOK, ServerStopped, procs
<1>3. DataKept'
  BY DEF IInv, DataKept, ServerStopped, files, history
<1>4. Owed'
  BY DEF IInv, Owed, Creating, ServerStopped, files, procs, history
<1>5. InitdbRuns'
  BY DEF IInv, InitdbRuns, ServerStopped, files, procs, history
<1>6. Reached'
  BY DEF IInv, Reached, ServerStopped, files, procs
<1>7. Equipped'
  BY DEF IInv, Equipped, ServerStopped, files, procs
<1>8. Held'
  BY DEF Held, ServerStopped
<1> QED
  BY <1>2, <1>3, <1>4, <1>5, <1>6, <1>7, <1>8 DEF IInv

LEMMA ServerDiesKeeps ==
    ASSUME IInv, ServerDies
    PROVE  IInv'
<1> USE PostgresAssumption
<1>1. Kinds'
  BY DEF IInv, TypeOK, Kinds, ServerDies, Trouble, files, procs, history
<1>2. TypeOK'
  BY <1>1 DEF IInv, TypeOK, ServerDies, procs
<1>3. DataKept'
  BY DEF IInv, DataKept, ServerDies, files, history
<1>4. Owed'
  BY DEF IInv, Owed, Creating, ServerDies, files, procs, history
<1>5. InitdbRuns'
  BY DEF IInv, InitdbRuns, ServerDies, files, procs, history
<1>6. Reached'
  BY DEF IInv, Reached, ServerDies, files, procs
<1>7. Equipped'
  BY DEF IInv, Equipped, ServerDies, files, procs
<1>8. Held'
  BY DEF Held, ServerDies
<1> QED
  BY <1>2, <1>3, <1>4, <1>5, <1>6, <1>7, <1>8 DEF IInv

LEMMA PidReusedKeeps ==
    ASSUME IInv, PidReused
    PROVE  IInv'
<1> USE PostgresAssumption
<1>1. Kinds'
  BY DEF IInv, TypeOK, Kinds, PidReused, Trouble, files, procs, history
<1>2. TypeOK'
  BY <1>1 DEF IInv, TypeOK, PidReused, procs
<1>3. DataKept'
  BY DEF IInv, DataKept, PidReused, files, history
<1>4. Owed'
  BY DEF IInv, Owed, Creating, PidReused, files, procs, history
<1>5. InitdbRuns'
  BY DEF IInv, InitdbRuns, PidReused, files, procs, history
<1>6. Reached'
  BY DEF IInv, Reached, PidReused, files, procs
<1>7. Equipped'
  BY DEF IInv, Equipped, PidReused, files, procs
<1>8. Held'
  BY DEF IInv, Held, PidReused, procs, history
<1> QED
  BY <1>2, <1>3, <1>4, <1>5, <1>6, <1>7, <1>8 DEF IInv

LEMMA RebootKeeps ==
    ASSUME IInv, Reboot
    PROVE  IInv'
<1> USE PostgresAssumption
<1>1. Kinds'
  BY DEF IInv, TypeOK, Kinds, Places, Reboot, Trouble
<1>2. TypeOK'
  BY <1>1 DEF TypeOK, Reboot
<1>3. DataKept'
  BY DEF IInv, DataKept, Reboot
<1>4. Owed'
  BY DEF IInv, Owed, Creating, Reboot, GivesUp
<1>5. InitdbRuns'
  BY DEF InitdbRuns, Reboot
<1>6. Reached'
  BY DEF Reached, Reboot
<1>7. Equipped'
  BY DEF Equipped, Reboot
<1>8. Held'
  BY DEF Held, Reboot
<1> QED
  BY <1>2, <1>3, <1>4, <1>5, <1>6, <1>7, <1>8 DEF IInv

LEMMA StartKeeps ==
    ASSUME IInv, NEW a \in Apps, Start(a)
    PROVE  IInv'
<1> USE PostgresAssumption
<1>1. Kinds'
  BY DEF IInv, TypeOK, Kinds, Places, Start, Trouble, files, servers, history
<1>2. TypeOK'
  BY <1>1 DEF IInv, TypeOK, Start, files, servers
<1>3. DataKept'
  BY DEF IInv, DataKept, Start, files, history
<1>4. Owed'
  BY DEF IInv, Owed, Creating, Start, files, history
<1>5. InitdbRuns'
  BY DEF IInv, InitdbRuns, Start, files, history
<1>6. Reached'
  BY DEF IInv, Reached, Start, files
<1>7. Equipped'
  BY DEF IInv, Equipped, Start, files
<1>8. Held'
  BY DEF IInv, Held, Start, servers, history
<1> QED
  BY <1>2, <1>3, <1>4, <1>5, <1>6, <1>7, <1>8 DEF IInv

LEMMA FindBinariesKeeps ==
    ASSUME IInv, NEW a \in Apps, FindBinaries(a)
    PROVE  IInv'
<1> USE PostgresAssumption
<1>1. Kinds'
  BY FailKinds DEF IInv, TypeOK, Kinds, Places, FindBinaries, Uses, Slow, Trouble, Step, Fails,
     servers, history
<1>2. TypeOK'
  BY <1>1 DEF IInv, TypeOK, Kinds, FindBinaries, Uses, Step, Fail, Fails, servers
<1>3. DataKept'
  BY DEF IInv, DataKept, FindBinaries, Uses, Fail, Fails, history
<1>4. Owed'
  BY DEF IInv, TypeOK, Kinds, Owed, Creating, FindBinaries, Uses, Step, Fail, Fails,
     history
<1>5. InitdbRuns'
  BY DEF IInv, TypeOK, Kinds, InitdbRuns, FindBinaries, Uses, Step, Fail, Fails, history
<1>6. Reached'
  BY DEF IInv, TypeOK, Kinds, Reached, FindBinaries, Uses, Step, Fail, Fails
<1>7. Equipped'
  BY DEF IInv, TypeOK, Kinds, Equipped, FindBinaries, Uses, Step, Fail, Fails
<1>8. Held'
  BY DEF IInv, TypeOK, Kinds, Held, FindBinaries, Uses, Step, Fail, Fails, servers,
     history
<1> QED
  BY <1>2, <1>3, <1>4, <1>5, <1>6, <1>7, <1>8 DEF IInv

LEMMA ExtractedKeeps ==
    ASSUME IInv, NEW a \in Apps, Extracted(a)
    PROVE  IInv'
<1> USE PostgresAssumption
<1>1. Kinds'
  BY DEF IInv, TypeOK, Kinds, Places, Extracted, Trouble, servers, history
<1>2. TypeOK'
  BY <1>1 DEF IInv, TypeOK, Kinds, Extracted, servers
<1>3. DataKept'
  BY DEF IInv, DataKept, Extracted, history
<1>4. Owed'
  BY DEF IInv, TypeOK, Kinds, Owed, Creating, Extracted, history
<1>5. InitdbRuns'
  BY DEF IInv, TypeOK, Kinds, InitdbRuns, Extracted, history
<1>6. Reached'
  BY DEF IInv, TypeOK, Kinds, Reached, Extracted
<1>7. Equipped'
  BY DEF IInv, TypeOK, Kinds, Equipped, Extracted
<1>8. Held'
  BY DEF IInv, TypeOK, Kinds, Held, Extracted, servers, history
<1> QED
  BY <1>2, <1>3, <1>4, <1>5, <1>6, <1>7, <1>8 DEF IInv

LEMMA WriteStampKeeps ==
    ASSUME IInv, NEW a \in Apps, WriteStamp(a)
    PROVE  IInv'
<1> USE PostgresAssumption
<1>1. Kinds'
  <2>1. CASE Fail(a) /\ stamp' \in BOOLEAN
    BY <2>1, FailKinds DEF IInv, TypeOK, Kinds, WriteStamp, Fails, Trouble, servers
  <2>2. CASE stamp' = TRUE /\ Step(a, "stamp", "recover") /\ UNCHANGED <<bins, first, child, trouble, history>>
    BY <2>2 DEF IInv, TypeOK, Kinds, Places, Step, WriteStamp, servers, history
  <2> QED
    BY <2>1, <2>2 DEF WriteStamp, Fails, IInv, TypeOK, Kinds
<1>2. TypeOK'
  BY <1>1 DEF IInv, TypeOK, Kinds, WriteStamp, Step, Fail, Fails, servers
<1>3. DataKept'
  BY DEF IInv, DataKept, WriteStamp, Fail, Fails, history
<1>4. Owed'
  BY DEF IInv, TypeOK, Kinds, Owed, Creating, WriteStamp, Step, Fail, Fails, history
<1>5. InitdbRuns'
  BY DEF IInv, TypeOK, Kinds, InitdbRuns, WriteStamp, Step, Fail, Fails, history
<1>6. Reached'
  BY DEF IInv, TypeOK, Kinds, Reached, WriteStamp, Step, Fail, Fails
<1>7. Equipped'
  BY DEF IInv, TypeOK, Kinds, Equipped, WriteStamp, Step, Fail, Fails
<1>8. Held'
  BY DEF IInv, TypeOK, Kinds, Held, WriteStamp, Step, Fail, Fails, servers, history
<1> QED
  BY <1>2, <1>3, <1>4, <1>5, <1>6, <1>7, <1>8 DEF IInv

LEMMA RecoverKeeps ==
    ASSUME IInv, NEW a \in Apps, Recover(a)
    PROVE  IInv'
<1> USE PostgresAssumption
<1>1. Kinds'
  BY DEF IInv, TypeOK, Kinds, Places, Recover, Step, SignalStop,
     SignalFails, Trouble, files, servers, history
<1>2. TypeOK'
  BY <1>1 DEF IInv, TypeOK, Kinds, Recover, Step, SignalStop, SignalFails, files, servers
<1>3. DataKept'
  BY DEF IInv, DataKept, Recover, files, history
<1>4. Owed'
  BY DEF IInv, TypeOK, Kinds, Owed, Creating, Recover, Step, files, history
<1>5. InitdbRuns'
  BY DEF IInv, TypeOK, Kinds, InitdbRuns, Recover, Step, files, history
<1>6. Reached'
  BY DEF IInv, TypeOK, Kinds, Reached, Recover, Step, files
<1>7. Equipped'
  BY DEF IInv, TypeOK, Kinds, Equipped, Recover, Step, files
<1>8. Held'
  BY DEF IInv, TypeOK, Kinds, Held, Recover, Step, SignalStop, SignalFails, servers, history
<1> QED
  BY <1>2, <1>3, <1>4, <1>5, <1>6, <1>7, <1>8 DEF IInv

LEMMA UnwoundKeeps ==
    ASSUME IInv, NEW a \in Apps, Unwound(a)
    PROVE  IInv'
<1> USE PostgresAssumption
<1>1. Kinds'
  BY DEF IInv, TypeOK, Kinds, Places, Unwound, Step, Slow, Trouble, files, servers,
     history
<1>2. TypeOK'
  BY <1>1 DEF IInv, TypeOK, Unwound, Step, files, servers
<1>3. DataKept'
  BY DEF IInv, DataKept, Unwound, files, history
<1>4. Owed'
  BY DEF IInv, Owed, Creating, Unwound, Step, files, history
<1>5. InitdbRuns'
  BY DEF IInv, InitdbRuns, Unwound, Step, files, history
<1>6. Reached'
  BY DEF IInv, Reached, Unwound, Step, files
<1>7. Equipped'
  BY DEF IInv, Equipped, Unwound, Step, files
<1>8. Held'
  BY DEF IInv, Held, Unwound, Step, servers, history
<1> QED
  BY <1>2, <1>3, <1>4, <1>5, <1>6, <1>7, <1>8 DEF IInv

LEMMA CheckVersionKeeps ==
    ASSUME IInv, NEW a \in Apps, CheckVersion(a)
    PROVE  IInv'
<1> USE PostgresAssumption
<1>1. Kinds'
  BY FailKinds DEF IInv, TypeOK, Kinds, Places, CheckVersion, Step, files, servers,
     history
<1>2. TypeOK'
  BY <1>1 DEF IInv, TypeOK, Kinds, CheckVersion, Step, Fail, files, servers
<1>3. DataKept'
  BY DEF IInv, DataKept, CheckVersion, Fail, files, history
<1>4. Owed'
  BY DEF IInv, TypeOK, Kinds, Owed, Creating, CheckVersion, Step, Fail, files,
     history
<1>5. InitdbRuns'
  BY DEF IInv, TypeOK, Kinds, InitdbRuns, CheckVersion, Step, Fail, files, history
<1>6. Reached'
  BY DEF IInv, TypeOK, Kinds, Reached, CheckVersion, Step, Fail, files
<1>7. Equipped'
  BY DEF IInv, TypeOK, Kinds, Equipped, CheckVersion, Step, Fail, files
<1>8. Held'
  BY DEF IInv, TypeOK, Kinds, Held, CheckVersion, Step, Fail, servers, history
<1> QED
  BY <1>2, <1>3, <1>4, <1>5, <1>6, <1>7, <1>8 DEF IInv

LEMMA FirstRunKeeps ==
    ASSUME IInv, NEW a \in Apps, FirstRun(a)
    PROVE  IInv'
<1> USE PostgresAssumption
<1>1. Kinds'
  BY DEF IInv, TypeOK, Kinds, Places, FirstRun, Step, files, servers, history
<1>2. TypeOK'
  BY <1>1 DEF IInv, TypeOK, FirstRun, Step, files, servers
<1>3. DataKept'
  BY DEF IInv, DataKept, FirstRun, files, history
<1>4. Owed'
  BY DEF IInv, Owed, Creating, FirstRun, Step, files, history
<1>5. InitdbRuns'
  BY DEF IInv, TypeOK, Kinds, InitdbRuns, FirstRun, Step, files, history
<1>6. Reached'
  BY DEF IInv, Reached, FirstRun, Step, files
<1>7. Equipped'
  BY DEF IInv, Equipped, FirstRun, Step, files
<1>8. Held'
  BY DEF IInv, Held, FirstRun, Step, servers, history
<1> QED
  BY <1>2, <1>3, <1>4, <1>5, <1>6, <1>7, <1>8 DEF IInv

LEMMA InitDbKeeps ==
    ASSUME IInv, NEW a \in Apps, InitDb(a)
    PROVE  IInv'
<1> USE PostgresAssumption
<1>1. Kinds'
  <2>1. CASE Works(a) /\ cluster = "none"
    <3>1. MajorOf(a) \in Majors
      BY DEF IInv, TypeOK, Kinds, MajorOf
    <3> QED
      BY <2>1, <3>1 DEF IInv, TypeOK, Kinds, Places, InitDb, Step, servers, history
  <2>2. CASE ~(Works(a) /\ cluster = "none")
    BY <2>2, FailKinds DEF IInv, TypeOK, Kinds, InitDb, servers
  <2> QED
    BY <2>1, <2>2
<1>2. TypeOK'
  BY <1>1 DEF IInv, TypeOK, Kinds, InitDb, Step, Fail, servers
<1>3. DataKept'
  BY DEF IInv, DataKept, InitDb, Fail, history
<1>4. Owed'
  BY DEF IInv, TypeOK, Kinds, Owed, Creating, InitDb, Fail
<1>5. InitdbRuns'
  BY DEF IInv, TypeOK, Kinds, InitdbRuns, InitDb, Step, Fail
<1>6. Reached'
  BY DEF IInv, TypeOK, Kinds, Reached, InitDb, Step, Fail
<1>7. Equipped'
  BY DEF IInv, TypeOK, Kinds, Equipped, InitDb, Step, Fail
<1>8. Held'
  BY DEF IInv, TypeOK, Kinds, Held, InitDb, Fail, servers
<1> QED
  BY <1>2, <1>3, <1>4, <1>5, <1>6, <1>7, <1>8 DEF IInv

LEMMA WriteConfigKeeps ==
    ASSUME IInv, NEW a \in Apps, WriteConfig(a)
    PROVE  IInv'
<1> USE PostgresAssumption
<1>1. Kinds'
  BY FailKinds DEF IInv, TypeOK, Kinds, Places, WriteConfig, Step, Fails, Trouble,
     servers, history
<1>2. TypeOK'
  BY <1>1 DEF IInv, TypeOK, Kinds, WriteConfig, Step, Fail, Fails, servers
<1>3. DataKept'
  BY DEF IInv, DataKept, WriteConfig, Fail, Fails, history
<1>4. Owed'
  BY DEF IInv, TypeOK, Kinds, Owed, Creating, WriteConfig, Step, Fail, Fails,
     GivesUp, history
<1>5. InitdbRuns'
  BY DEF IInv, TypeOK, Kinds, InitdbRuns, WriteConfig, Step, Fail, Fails,
     history
<1>6. Reached'
  BY DEF IInv, TypeOK, Kinds, Reached, WriteConfig, Step, Fail, Fails
<1>7. Equipped'
  BY DEF IInv, TypeOK, Kinds, Equipped, WriteConfig, Step, Fail, Fails
<1>8. Held'
  BY DEF IInv, TypeOK, Kinds, Held, WriteConfig, Step, Fail, Fails, servers, history
<1> QED
  BY <1>2, <1>3, <1>4, <1>5, <1>6, <1>7, <1>8 DEF IInv

LEMMA SpawnKeeps ==
    ASSUME IInv, NEW a \in Apps, Spawn(a)
    PROVE  IInv'
<1> USE PostgresAssumption
<1>1. Kinds'
  <2>1. CASE ~Works(a)
    BY <2>1, FailKinds DEF IInv, TypeOK, Kinds, Spawn, files, servers
  <2>2. CASE Works(a)
    <3>1. /\ pc' = [pc EXCEPT ![a] = "wait"] /\ child' = [child EXCEPT ![a] = TRUE]
          /\ server' \in {server, a} /\ phase' \in {phase, "starting"} /\ left' \in {left, "none"}
          /\ killed' \subseteq killed /\ unstopped' \subseteq unstopped
          /\ UNCHANGED <<files, trouble, bins, first, used, cutShort>>
      BY <2>2 DEF Spawn, Step, servers
    <3> QED
      BY <3>1 DEF IInv, TypeOK, Kinds, Places, files
  <2> QED
    BY <2>1, <2>2
<1>2. TypeOK'
  BY <1>1 DEF IInv, TypeOK, Kinds, Spawn, Step, Fail, Takes, files, servers
<1>3. DataKept'
  BY DEF IInv, DataKept, Spawn, Fail, files
<1>4. Owed'
  BY DEF IInv, TypeOK, Kinds, Owed, Creating, Spawn, Step, Fail, GivesUp, files
<1>5. InitdbRuns'
  BY DEF IInv, TypeOK, Kinds, InitdbRuns, Spawn, Step, Fail, files
<1>6. Reached'
  BY DEF IInv, TypeOK, Kinds, Reached, Spawn, Step, Fail, files
<1>7. Equipped'
  BY DEF IInv, TypeOK, Kinds, Equipped, Spawn, Step, Fail, files
<1>8. Held'
  BY DEF IInv, TypeOK, Kinds, Held, Spawn, Step, Fail, servers
<1> QED
  BY <1>2, <1>3, <1>4, <1>5, <1>6, <1>7, <1>8 DEF IInv

LEMMA AnsweredKeeps ==
    ASSUME IInv, NEW a \in Apps, Answered(a)
    PROVE  IInv'
<1> USE PostgresAssumption
<1>1. Kinds'
  BY DEF IInv, TypeOK, Kinds, Places, Answered, Step, files, servers, history
<1>2. TypeOK'
  BY <1>1 DEF IInv, TypeOK, Answered, Step, files, servers
<1>3. DataKept'
  BY DEF IInv, DataKept, Answered, files, history
<1>4. Owed'
  BY DEF IInv, Owed, Creating, Answered, Step, files, history
<1>5. InitdbRuns'
  BY DEF IInv, InitdbRuns, Answered, Step, files, history
<1>6. Reached'
  BY DEF IInv, TypeOK, Reached, Answered, files
<1>7. Equipped'
  BY DEF IInv, Equipped, Answered, Step, files
<1>8. Held'
  BY DEF IInv, Held, Answered, Step, servers, history
<1> QED
  BY <1>2, <1>3, <1>4, <1>5, <1>6, <1>7, <1>8 DEF IInv

LEMMA TimedOutKeeps ==
    ASSUME IInv, NEW a \in Apps, TimedOut(a)
    PROVE  IInv'
<1> USE PostgresAssumption
<1>1. Kinds'
  BY FailKinds DEF IInv, TypeOK, Kinds, TimedOut, Slow, Trouble, files, servers
<1>2. TypeOK'
  BY <1>1 DEF IInv, TypeOK, TimedOut, Fail, files, servers
<1>3. DataKept'
  BY DEF IInv, DataKept, TimedOut, Fail, files
<1>4. Owed'
  BY DEF IInv, TypeOK, Kinds, Owed, Creating, TimedOut, Fail, GivesUp, files
<1>5. InitdbRuns'
  BY DEF IInv, TypeOK, Kinds, InitdbRuns, TimedOut, Fail, files
<1>6. Reached'
  BY DEF IInv, Reached, TimedOut, Fail, files
<1>7. Equipped'
  BY DEF IInv, Equipped, TimedOut, Fail, files
<1>8. Held'
  BY DEF IInv, Held, TimedOut, Fail, servers
<1> QED
  BY <1>2, <1>3, <1>4, <1>5, <1>6, <1>7, <1>8 DEF IInv

LEMMA CreateDatabaseKeeps ==
    ASSUME IInv, NEW a \in Apps, CreateDatabase(a)
    PROVE  IInv'
<1> USE PostgresAssumption
<1>1. Kinds'
  <2>1. CASE Fail(a) /\ db' \in BOOLEAN
    BY <2>1, FailKinds DEF IInv, TypeOK, Kinds, CreateDatabase, Fails, Trouble,
       servers
  <2>2. CASE db' = TRUE /\ Step(a, "create", "connect") /\ UNCHANGED <<bins, first, child, trouble, history>>
    BY <2>2 DEF IInv, TypeOK, Kinds, Places, Step, CreateDatabase, servers, history
  <2> QED
    BY <2>1, <2>2 DEF CreateDatabase, Fails, IInv, TypeOK, Kinds
<1>2. TypeOK'
  BY <1>1 DEF IInv, TypeOK, Kinds, CreateDatabase, Step, Fail, Fails, servers
<1>3. DataKept'
  BY DEF IInv, DataKept, CreateDatabase, Fail, Fails, history
<1>4. Owed'
  BY DEF IInv, TypeOK, Kinds, Owed, Creating, CreateDatabase, Fail, Fails, GivesUp
<1>5. InitdbRuns'
  BY DEF IInv, TypeOK, Kinds, InitdbRuns, CreateDatabase, Step, Fail, Fails
<1>6. Reached'
  BY DEF IInv, Reached, CreateDatabase
<1>7. Equipped'
  BY DEF IInv, TypeOK, Kinds, Equipped, CreateDatabase, Step, Fail, Fails
<1>8. Held'
  BY DEF IInv, TypeOK, Kinds, Held, CreateDatabase, Step, Fail, Fails, servers,
     history
<1> QED
  BY <1>2, <1>3, <1>4, <1>5, <1>6, <1>7, <1>8 DEF IInv

LEMMA ConnectKeeps ==
    ASSUME IInv, NEW a \in Apps, Connect(a)
    PROVE  IInv'
<1> USE PostgresAssumption
<1>1. Kinds'
  <2>1. CASE Fail(a)
    BY <2>1, FailKinds DEF IInv, TypeOK, Kinds, Connect, Fails, Trouble, files,
       servers
  <2>2. CASE Step(a, "connect", "ready") /\ used' = TRUE /\ UNCHANGED <<bins, first, child, cutShort, killed, unstopped, trouble>>
    BY <2>2 DEF IInv, TypeOK, Kinds, Places, Step, Connect, files, servers
  <2> QED
    BY <2>1, <2>2 DEF Connect, Fails
<1>2. TypeOK'
  BY <1>1 DEF IInv, TypeOK, Kinds, Connect, Step, Fail, Fails, files, servers
<1>3. DataKept'
  BY DEF IInv, TypeOK, DataKept, Connect, Fail, Fails, files
<1>4. Owed'
  BY DEF IInv, TypeOK, Kinds, Owed, Creating, Connect, Fail, Fails, files
<1>5. InitdbRuns'
  BY DEF IInv, TypeOK, Kinds, InitdbRuns, Connect, Step, Fail, Fails, files
<1>6. Reached'
  BY DEF IInv, Reached, Connect, files
<1>7. Equipped'
  BY DEF IInv, TypeOK, Kinds, Equipped, Connect, Step, Fail, Fails, files
<1>8. Held'
  BY DEF IInv, TypeOK, Kinds, Held, Connect, Step, Fail, Fails, servers
<1> QED
  BY <1>2, <1>3, <1>4, <1>5, <1>6, <1>7, <1>8 DEF IInv

LEMMA LeaveKeeps ==
    ASSUME IInv, NEW a \in Apps, Leave(a)
    PROVE  IInv'
<1> USE PostgresAssumption
<1>1. Kinds'
  BY DEF IInv, TypeOK, Kinds, Places, Leave, Step, files, servers, history
<1>2. TypeOK'
  BY <1>1 DEF IInv, TypeOK, Kinds, Leave, Step, files, servers
<1>3. DataKept'
  BY DEF IInv, DataKept, Leave, files, history
<1>4. Owed'
  BY DEF IInv, TypeOK, Kinds, Owed, Creating, Leave, Step, files, history
<1>5. InitdbRuns'
  BY DEF IInv, TypeOK, Kinds, InitdbRuns, Leave, Step, files, history
<1>6. Reached'
  BY DEF IInv, Reached, Leave, Step, files
<1>7. Equipped'
  BY DEF IInv, TypeOK, Kinds, Equipped, Leave, Step, files
<1>8. Held'
  BY DEF IInv, TypeOK, Kinds, Held, Leave, Step, servers, history
<1> QED
  BY <1>2, <1>3, <1>4, <1>5, <1>6, <1>7, <1>8 DEF IInv

LEMMA StopServerKeeps ==
    ASSUME IInv, NEW a \in Apps, StopServer(a)
    PROVE  IInv'
<1> USE PostgresAssumption
<1>0. PICK to \in {"stopping", "dropping", "drop"} :
          /\ pc' = [pc EXCEPT ![a] = to]
          /\ to = "dropping" => pc[a] = "drop"
          /\ to # "dropping" => pc[a] = "stop"
  <2>1. CASE SignalStop(a)
    BY DEF StopServer, Step
  <2>2. CASE SignalFails(a)
    BY DEF StopServer, Step
  <2> QED
    BY <2>1, <2>2 DEF StopServer
<1>a. /\ \/ phase' = "stopping" /\ server # None /\ UNCHANGED <<server, left, unstopped>>
         \/ /\ UNCHANGED servers
            /\ unstopped' = IF to = "dropping" THEN unstopped \cup ({a} \cap {server}) ELSE unstopped
      /\ UNCHANGED <<files, bins, first, child, used, cutShort, killed>>
  BY <1>0 DEF StopServer, Step, SignalStop, SignalFails, IInv, TypeOK, Kinds
<1>1. Kinds'
  BY DEF IInv, TypeOK, Kinds, Places, StopServer, SignalStop, SignalFails,
     Step, Trouble, files, servers
<1>2. TypeOK'
  BY <1>0, <1>a, <1>1 DEF IInv, TypeOK, Kinds, files, servers
<1>3. DataKept'
  BY <1>a DEF IInv, DataKept, files
<1>4. Owed'
  BY <1>0, <1>a DEF IInv, TypeOK, Kinds, Owed, Creating, files
<1>5. InitdbRuns'
  BY <1>0, <1>a DEF IInv, TypeOK, Kinds, InitdbRuns, files
<1>6. Reached'
  BY <1>0, <1>a DEF IInv, TypeOK, Kinds, Reached, files
<1>7. Equipped'
  BY <1>0, <1>a DEF IInv, TypeOK, Kinds, Equipped, files
<1>8. Held'
  <2>1. CASE phase' = "stopping"
    BY <2>1 DEF Held
  <2>2. CASE UNCHANGED servers /\ server # a
    BY <1>0, <1>a, <2>2 DEF IInv, TypeOK, Kinds, Held, servers
  <2>3. CASE UNCHANGED servers /\ server = a
    BY <1>0, <1>a, <2>3 DEF IInv, TypeOK, Kinds, Held, servers
  <2> QED
    BY <1>a, <2>1, <2>2, <2>3
<1> QED
  BY <1>2, <1>3, <1>4, <1>5, <1>6, <1>7, <1>8 DEF IInv

LEMMA StoppedKeeps ==
    ASSUME IInv, NEW a \in Apps, Stopped(a)
    PROVE  IInv'
<1> USE PostgresAssumption
<1>1. Kinds'
  BY DEF IInv, TypeOK, Kinds, Places, Stopped, Slow, Trouble, files, servers,
     history
<1>2. TypeOK'
  BY <1>1 DEF IInv, TypeOK, Stopped, files, servers
<1>3. DataKept'
  BY DEF IInv, DataKept, Stopped, files, history
<1>4. Owed'
  BY DEF IInv, Owed, Creating, Stopped, files, history
<1>5. InitdbRuns'
  BY DEF IInv, InitdbRuns, Stopped, files, history
<1>6. Reached'
  BY DEF IInv, Reached, Stopped, files
<1>7. Equipped'
  BY DEF IInv, TypeOK, Kinds, Equipped, Stopped, files
<1>8. Held'
  BY DEF IInv, Held, Stopped, servers, history
<1> QED
  BY <1>2, <1>3, <1>4, <1>5, <1>6, <1>7, <1>8 DEF IInv

LEMMA KillKeeps ==
    ASSUME IInv, NEW a \in Apps, Kill(a)
    PROVE  IInv'
<1> USE PostgresAssumption
<1>1. Kinds'
  BY DEF IInv, TypeOK, Kinds, Places, Kill, Trouble, files, servers
<1>2. TypeOK'
  BY <1>1 DEF IInv, TypeOK, Kinds, Kill, files, servers
<1>3. DataKept'
  BY DEF IInv, DataKept, Kill, files
<1>4. Owed'
  BY DEF IInv, TypeOK, Kinds, Owed, Creating, Kill, GivesUp, files
<1>5. InitdbRuns'
  BY DEF IInv, TypeOK, Kinds, InitdbRuns, Kill, GivesUp, files
<1>6. Reached'
  BY DEF IInv, Reached, Kill, files
<1>7. Equipped'
  BY DEF IInv, TypeOK, Kinds, Equipped, Kill, files
<1>8. Held'
  BY DEF IInv, Held, Kill, servers
<1> QED
  BY <1>2, <1>3, <1>4, <1>5, <1>6, <1>7, <1>8 DEF IInv

-----------------------------------------------------------------------------
LEMMA StepIInv == IInv /\ [Next]_vars => IInv'
<1> SUFFICES ASSUME IInv, [Next]_vars PROVE IInv'
  OBVIOUS

<1>1. CASE Install
  BY <1>1, InstallKeeps
<1>2. CASE WriteVersion
  BY <1>2, WriteVersionKeeps
<1>3. CASE Initialised
  BY <1>3, InitialisedKeeps
<1>4. CASE NotInitialised
  BY <1>4, NotInitialisedKeeps
<1>5. CASE ServerUp
  BY <1>5, ServerUpKeeps
<1>6. CASE ServerStopped
  BY <1>6, ServerStoppedKeeps
<1>7. CASE ServerDies
  BY <1>7, ServerDiesKeeps
<1>8. CASE PidReused
  BY <1>8, PidReusedKeeps
<1>9. CASE Reboot
  BY <1>9, RebootKeeps
<1>10. ASSUME NEW a \in Apps, Start(a) PROVE IInv'
  BY <1>10, StartKeeps
<1>11. ASSUME NEW a \in Apps, FindBinaries(a) PROVE IInv'
  BY <1>11, FindBinariesKeeps
<1>12. ASSUME NEW a \in Apps, Extracted(a) PROVE IInv'
  BY <1>12, ExtractedKeeps
<1>13. ASSUME NEW a \in Apps, WriteStamp(a) PROVE IInv'
  BY <1>13, WriteStampKeeps
<1>14. ASSUME NEW a \in Apps, Recover(a) PROVE IInv'
  BY <1>14, RecoverKeeps
<1>15. ASSUME NEW a \in Apps, Unwound(a) PROVE IInv'
  BY <1>15, UnwoundKeeps
<1>16. ASSUME NEW a \in Apps, CheckVersion(a) PROVE IInv'
  BY <1>16, CheckVersionKeeps
<1>17. ASSUME NEW a \in Apps, FirstRun(a) PROVE IInv'
  BY <1>17, FirstRunKeeps
<1>18. ASSUME NEW a \in Apps, InitDb(a) PROVE IInv'
  BY <1>18, InitDbKeeps
<1>19. ASSUME NEW a \in Apps, WriteConfig(a) PROVE IInv'
  BY <1>19, WriteConfigKeeps
<1>20. ASSUME NEW a \in Apps, Spawn(a) PROVE IInv'
  BY <1>20, SpawnKeeps
<1>21. ASSUME NEW a \in Apps, Answered(a) PROVE IInv'
  BY <1>21, AnsweredKeeps
<1>22. ASSUME NEW a \in Apps, TimedOut(a) PROVE IInv'
  BY <1>22, TimedOutKeeps
<1>23. ASSUME NEW a \in Apps, CreateDatabase(a) PROVE IInv'
  BY <1>23, CreateDatabaseKeeps
<1>24. ASSUME NEW a \in Apps, Connect(a) PROVE IInv'
  BY <1>24, ConnectKeeps
<1>25. ASSUME NEW a \in Apps, Leave(a) PROVE IInv'
  BY <1>25, LeaveKeeps
<1>26. ASSUME NEW a \in Apps, StopServer(a) PROVE IInv'
  BY <1>26, StopServerKeeps
<1>27. ASSUME NEW a \in Apps, Stopped(a) PROVE IInv'
  BY <1>27, StoppedKeeps
<1>28. ASSUME NEW a \in Apps, Kill(a) PROVE IInv'
  BY <1>28, KillKeeps
<1>29. CASE UNCHANGED vars
  BY <1>29 DEF IInv, TypeOK, Kinds, DataKept, Owed, Creating, InitdbRuns, Reached,
     Equipped, Held, Works, files, servers, procs, history, vars
<1> QED
  BY <1>1, <1>2, <1>3, <1>4, <1>5, <1>6, <1>7, <1>8, <1>9, <1>10, <1>11, <1>12,
     <1>13, <1>14, <1>15, <1>16, <1>17, <1>18, <1>19, <1>20, <1>21, <1>22, <1>23,
     <1>24, <1>25, <1>26, <1>27, <1>28, <1>29 DEF Next

LEMMA Inductive == Spec => []IInv
<1> QED
  BY InitIInv, StepIInv, PTL DEF Spec

-----------------------------------------------------------------------------
(* Types, and the server and its pid file: of any processes and faults.     *)
THEOREM TypeCorrect == Spec => []TypeOK
<1>1. IInv => TypeOK
  BY DEF IInv
<1> QED
  BY <1>1, Inductive, PTL

(* A directory that holds the schema is never initialised again, for any     *)
(* number of processes, kills and reboots.                                   *)
THEOREM DataIsKept == Spec => []DataKept
<1>1. IInv => DataKept
  BY DEF IInv
<1> QED
  BY <1>1, Inductive, PTL

(* start() returns the URL of a database there is, unless a first run was    *)
(* cut short or is under way.                                                *)
THEOREM ReturnedUrlIsUsable == Spec => []UrlIsUsable
<1>1. IInv => UrlIsUsable
  BY DEF IInv, Reached, Owed, UrlIsUsable
<1> QED
  BY <1>1, Inductive, PTL

(* Only a process that was killed, or whose drop ran a pg_ctl that failed,   *)
(* leaves its server behind.                                                 *)
THEOREM NoServerIsLeftBehind == Spec => []NoServerLeftBehind
<1>1. IInv => NoServerLeftBehind
  BY DEF IInv, Held, NoServerLeftBehind
<1> QED
  BY <1>1, Inductive, PTL
=============================================================================
