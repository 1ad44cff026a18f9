------------------------ MODULE StreamSessionsProofs ------------------------
(***************************************************************************)
(* Proofs about StreamSessions, for any ids, limits and faults.  What is   *)
(* true of one session follows from how far that session is (IdInv); the   *)
(* limit follows from counting, with the transcodes in the table, the      *)
(* starts that will join them (Busy).                                      *)
(***************************************************************************)
EXTENDS StreamSessions, FiniteSetTheorems, TLAPS

(* What holds of session i, given how far it is. *)
Files(i) ==
    /\ pc[i] \in StartPcs => kind[i] = "transcode"
    /\ kind[i] = "transcode" /\ pc[i] \in {"spawn", "fallback", "verify", "insert", "open"}
          => i \in dirs
    /\ pc[i] \in {"verify", "insert"} => proc[i] # "none"
    /\ kind[i] = "transcode" /\ pc[i] = "open" => proc[i] # "none" /\ row[i] = "active"

Freed(i) ==
    /\ pc[i] \in {"free", "dir", "spawn", "fallback", "rmdir", "update", "over"}
          => proc[i] # "running"
    /\ pc[i] \in {"free", "dir", "update", "over"} => i \notin dirs
    /\ pc[i] \in {"free"} \cup StartPcs => row[i] = "none"
    /\ pc[i] = "over" => row[i] # "active"

Fresh(i) ==
    pc[i] = "free" => i \notin dirs /\ proc[i] = "none" /\ row[i] = "none" /\ i \notin spilled

Direct(i) ==
    kind[i] = "direct" => proc[i] # "running" /\ i \notin dirs

IdInv(i) == Files(i) /\ Fresh(i) /\ Direct(i) /\ (i \in spilled \/ Freed(i))

(* The transcodes, and the starts that may still become transcodes. *)
Busy == {i \in Ids : pc[i] \in StartPcs \/ (pc[i] = "open" /\ kind[i] = "transcode")}

LimitInv == Cardinality(Busy) < MaxSessions + Starters

IInv == TypeOK /\ (\A i \in Ids : IdInv(i)) /\ LimitInv

-----------------------------------------------------------------------------
(* Init. *)
LEMMA InitInv == Init => IInv
<1> SUFFICES ASSUME Init PROVE IInv
  OBVIOUS
<1> USE IdsAssumption, LimitsAssumption
<1>1. TypeOK
  BY DEF Init, TypeOK
<1>2. \A i \in Ids : IdInv(i)
  BY DEF Init, IdInv, Files, Freed, Fresh, Direct, StartPcs
<1>3. LimitInv
  <2>1. Busy = {}
    BY DEF Init, Busy, StartPcs
  <2> QED BY <2>1, FS_EmptySet DEF LimitInv
<1> QED BY <1>1, <1>2, <1>3 DEF IInv

-----------------------------------------------------------------------------
(* Counting. *)

(* The busy sessions, and the transcodes and starts among them, are finite   *)
(* many: every set of session ids is.                                        *)
LEMMA FiniteIds ==
  ASSUME NEW S, S \subseteq Ids
  PROVE  IsFiniteSet(S) /\ Cardinality(S) \in Nat
<1>1. IsFiniteSet(S)
  BY IdsAssumption, FS_Subset
<1> QED BY <1>1, FS_CardinalityType

(* How many a union and a set with one more element can hold. *)
LEMMA CountUnion ==
  ASSUME NEW S, NEW T, IsFiniteSet(S), IsFiniteSet(T)
  PROVE  IsFiniteSet(S \cup T) /\ Cardinality(S \cup T) <= Cardinality(S) + Cardinality(T)
<1>1. /\ IsFiniteSet(S \cup T)
      /\ Cardinality(S \cup T) = Cardinality(S) + Cardinality(T) - Cardinality(S \cap T)
  BY FS_Union
<1>2. IsFiniteSet(S \cap T)
  <2>1. S \cap T \in SUBSET S
    OBVIOUS
  <2> QED BY <2>1, FS_Subset
<1>3. Cardinality(S) \in Nat /\ Cardinality(T) \in Nat /\ Cardinality(S \cap T) \in Nat
  BY <1>2, FS_CardinalityType
<1> QED BY <1>1, <1>3

LEMMA CountOneMore ==
  ASSUME NEW S, NEW x, IsFiniteSet(S)
  PROVE  IsFiniteSet(S \cup {x}) /\ Cardinality(S \cup {x}) <= Cardinality(S) + 1
<1>1. IsFiniteSet({x}) /\ Cardinality({x}) = 1
  BY FS_Singleton
<1> QED BY <1>1, CountUnion

(* A step that makes no session busy keeps the limit. *)
LEMMA NoneJoins ==
  ASSUME LimitInv, Busy' \subseteq Busy
  PROVE  LimitInv'
<1>1. IsFiniteSet(Busy) /\ Cardinality(Busy) \in Nat
  BY FiniteIds DEF Busy
<1>2. Cardinality(Busy') <= Cardinality(Busy)
  BY <1>1, FS_Subset
<1>3. Cardinality(Busy') \in Nat
  BY FiniteIds DEF Busy
<1> QED BY <1>1, <1>2, <1>3, LimitsAssumption DEF LimitInv

(* A start that found room, and fewer than Starters others under way, makes  *)
(* one more session busy: the limit is kept.                                 *)
LEMMA OneJoins ==
  ASSUME NEW i \in Ids, TypeOK, HasRoom, Cardinality(Starting) < Starters,
         Busy' \subseteq Busy \cup {i}
  PROVE  LimitInv'
<1>1. /\ IsFiniteSet(Transcodes) /\ Cardinality(Transcodes) \in Nat
      /\ IsFiniteSet(Starting) /\ Cardinality(Starting) \in Nat
  BY FiniteIds DEF Transcodes, Starting, Sessions
<1>2. /\ IsFiniteSet(Transcodes \cup Starting)
      /\ Cardinality(Transcodes \cup Starting) <= Cardinality(Transcodes) + Cardinality(Starting)
  BY <1>1, CountUnion
<1>3. Busy = Transcodes \cup Starting
  BY DEF Busy, Transcodes, Starting, Sessions
<1>4. /\ IsFiniteSet(Busy \cup {i})
      /\ Cardinality(Busy \cup {i}) <= Cardinality(Transcodes) + Cardinality(Starting) + 1
  <2>1. Cardinality(Busy) \in Nat
    BY FiniteIds DEF Busy
  <2>2. Cardinality(Busy) <= Cardinality(Transcodes) + Cardinality(Starting)
    BY <1>2, <1>3
  <2>3. IsFiniteSet(Busy)
    BY <1>2, <1>3
  <2>4. IsFiniteSet(Busy \cup {i}) /\ Cardinality(Busy \cup {i}) <= Cardinality(Busy) + 1
    BY <2>3, CountOneMore
  <2>5. Cardinality(Busy \cup {i}) \in Nat
    BY <2>4, FS_CardinalityType
  <2> QED BY <1>1, <2>1, <2>2, <2>4, <2>5
<1>5. Cardinality(Busy') <= Cardinality(Busy \cup {i}) /\ Cardinality(Busy') \in Nat
  <2>1. Cardinality(Busy') \in Nat
    BY FiniteIds DEF Busy
  <2>2. Busy' \in SUBSET (Busy \cup {i})
    OBVIOUS
  <2> QED BY <1>4, <2>1, <2>2, FS_Subset
<1>6. Cardinality(Busy \cup {i}) \in Nat
  BY <1>4, FS_CardinalityType
<1> QED BY <1>1, <1>4, <1>5, <1>6, LimitsAssumption DEF HasRoom, LimitInv

-----------------------------------------------------------------------------
(* One lemma per kind of step. *)

(* A direct session is made. *)
LEMMA StartDirectInv ==
  ASSUME NEW i \in Ids, IInv, StartDirect(i)
  PROVE  IInv'
<1>1. TypeOK'
  BY DEF IInv, StartDirect, Go, TypeOK, Sessions, sweepVars
<1>2. \A j \in Ids : IdInv(j)'
  <2> TAKE j \in Ids
  <2> QED BY DEF IInv, StartDirect, Go, TypeOK, IdInv, Files, Freed, Fresh, Direct,
             StartPcs
<1>3. Busy' \subseteq Busy
  BY DEF IInv, StartDirect, Go, TypeOK, Busy, StartPcs
<1>4. LimitInv'
  BY <1>3, NoneJoins DEF IInv
<1> QED BY <1>1, <1>2, <1>4 DEF IInv

(* A transcode starts. *)
LEMMA StartTranscodeInv ==
  ASSUME NEW i \in Ids, IInv, StartTranscode(i)
  PROVE  IInv'
<1>1. TypeOK'
  BY DEF IInv, StartTranscode, Go, TypeOK, Sessions, StartPcs, sweepVars
<1>2. \A j \in Ids : IdInv(j)'
  <2> TAKE j \in Ids
  <2> QED BY DEF IInv, StartTranscode, Go, TypeOK, IdInv, Files, Freed, Fresh,
             Direct
<1>3. Busy' \subseteq Busy \cup {i}
  BY DEF StartTranscode, Go, Busy
<1>4. LimitInv'
  BY <1>3, OneJoins DEF IInv, StartTranscode
<1> QED BY <1>1, <1>2, <1>4 DEF IInv

(* Its directory is made. *)
LEMMA MakeDirInv ==
  ASSUME NEW i \in Ids, IInv, MakeDir(i)
  PROVE  IInv'
<1>1. TypeOK'
  BY DEF IInv, MakeDir, Go, TypeOK, Sessions, StartPcs, sweepVars
<1>2. \A j \in Ids : IdInv(j)'
  <2> TAKE j \in Ids
  <2> QED BY DEF IInv, MakeDir, Go, TypeOK, IdInv, Files, Freed, Fresh, Direct,
             StopPcs
<1>3. Busy' \subseteq Busy
  BY DEF IInv, MakeDir, Go, TypeOK, Busy, StopPcs
<1>4. LimitInv'
  BY <1>3, NoneJoins DEF IInv
<1> QED BY <1>1, <1>2, <1>4 DEF IInv

(* Its ffmpeg is spawned. *)
LEMMA SpawnInv ==
  ASSUME NEW i \in Ids, IInv, Spawn(i)
  PROVE  IInv'
<1>1. TypeOK'
  BY DEF IInv, Spawn, Go, Fails, TypeOK, Sessions, StartPcs, sweepVars
<1>2. \A j \in Ids : IdInv(j)'
  <2> TAKE j \in Ids
  <2> QED BY DEF IInv, Spawn, Go, Fails, TypeOK, IdInv, Files, Freed, Fresh, Direct,
             StopPcs
<1>3. Busy' \subseteq Busy
  BY DEF IInv, Spawn, Go, Fails, TypeOK, Busy, StopPcs
<1>4. LimitInv'
  BY <1>3, NoneJoins DEF IInv
<1> QED BY <1>1, <1>2, <1>4 DEF IInv

(* It falls back to software. *)
LEMMA FallbackInv ==
  ASSUME NEW i \in Ids, IInv, Fallback(i)
  PROVE  IInv'
<1>1. TypeOK'
  BY DEF IInv, Fallback, Go, Fails, TypeOK, Sessions, StartPcs, sweepVars
<1>2. \A j \in Ids : IdInv(j)'
  <2> TAKE j \in Ids
  <2> QED BY DEF IInv, Fallback, Go, Fails, TypeOK, IdInv, Files, Freed, Fresh,
             Direct, StopPcs
<1>3. Busy' \subseteq Busy
  BY DEF IInv, Fallback, Go, Fails, TypeOK, Busy, StopPcs
<1>4. LimitInv'
  BY <1>3, NoneJoins DEF IInv
<1> QED BY <1>1, <1>2, <1>4 DEF IInv

(* It is verified. *)
LEMMA VerifyInv ==
  ASSUME NEW i \in Ids, IInv, Verify(i)
  PROVE  IInv'
<1>1. TypeOK'
  BY DEF IInv, Verify, Go, Fails, TypeOK, Sessions, StartPcs, sweepVars
<1>2. \A j \in Ids : IdInv(j)'
  <2> TAKE j \in Ids
  <2> QED BY DEF IInv, Verify, Go, Fails, TypeOK, IdInv, Files, Freed, Fresh, Direct,
             StopPcs
<1>3. Busy' \subseteq Busy
  BY DEF IInv, Verify, Go, Fails, TypeOK, Busy, StopPcs
<1>4. LimitInv'
  BY <1>3, NoneJoins DEF IInv
<1> QED BY <1>1, <1>2, <1>4 DEF IInv

(* It is registered. *)
LEMMA RegisterInv ==
  ASSUME NEW i \in Ids, IInv, Register(i)
  PROVE  IInv'
<1>1. TypeOK'
  BY DEF IInv, Register, Go, Fails, TypeOK, Sessions, sweepVars
<1>2. \A j \in Ids : IdInv(j)'
  <2> TAKE j \in Ids
  <2> QED BY DEF IInv, Register, Go, Fails, TypeOK, IdInv, Files, Freed, Fresh,
             Direct, StartPcs
<1>3. Busy' \subseteq Busy
  BY DEF IInv, Register, Go, Fails, TypeOK, Busy, StopPcs
<1>4. LimitInv'
  BY <1>3, NoneJoins DEF IInv
<1> QED BY <1>1, <1>2, <1>4 DEF IInv

(* A request is cut off. *)
LEMMA CutInv ==
  ASSUME NEW i \in Ids, IInv, Cut(i)
  PROVE  IInv'
<1>1. TypeOK'
  BY DEF IInv, Cut, Go, Fails, TypeOK, Sessions, StartPcs, StopPcs, sweepVars
<1>2. \A j \in Ids : IdInv(j)'
  <2> TAKE j \in Ids
  <2> QED BY DEF IInv, Cut, Go, Fails, TypeOK, IdInv, Files, Freed, Fresh, Direct,
             StartPcs
<1>3. Busy' \subseteq Busy
  BY DEF Cut, Go, Fails, Busy, StartPcs
<1>4. LimitInv'
  BY <1>3, NoneJoins DEF IInv
<1> QED BY <1>1, <1>2, <1>4 DEF IInv

(* The process ends by itself. *)
LEMMA FfmpegExitsInv ==
  ASSUME NEW i \in Ids, IInv, FfmpegExits(i)
  PROVE  IInv'
<1>1. TypeOK'
  BY DEF IInv, FfmpegExits, TypeOK, Sessions, sweepVars
<1>2. \A j \in Ids : IdInv(j)'
  <2> TAKE j \in Ids
  <2> QED BY DEF IInv, FfmpegExits, IdInv, Files, Freed, Fresh, Direct
<1>3. Busy' \subseteq Busy
  BY DEF FfmpegExits, Busy
<1>4. LimitInv'
  BY <1>3, NoneJoins DEF IInv
<1> QED BY <1>1, <1>2, <1>4 DEF IInv

(* The player leaves. *)
LEMMA PlayerLeavesInv ==
  ASSUME NEW i \in Ids, IInv, PlayerLeaves(i)
  PROVE  IInv'
<1>1. TypeOK'
  BY DEF IInv, PlayerLeaves, TypeOK, Sessions, sweepVars
<1>2. \A j \in Ids : IdInv(j)'
  <2> TAKE j \in Ids
  <2> QED BY DEF IInv, PlayerLeaves, IdInv, Files, Freed, Fresh, Direct
<1>3. Busy' \subseteq Busy
  BY DEF PlayerLeaves, Busy
<1>4. LimitInv'
  BY <1>3, NoneJoins DEF IInv
<1> QED BY <1>1, <1>2, <1>4 DEF IInv

(* A session becomes idle. *)
LEMMA ExpireInv ==
  ASSUME NEW i \in Ids, IInv, Expire(i)
  PROVE  IInv'
<1>1. TypeOK'
  BY DEF IInv, Expire, TypeOK, Sessions, sweepVars
<1>2. \A j \in Ids : IdInv(j)'
  <2> TAKE j \in Ids
  <2> QED BY DEF IInv, Expire, IdInv, Files, Freed, Fresh, Direct
<1>3. Busy' \subseteq Busy
  BY DEF Expire, Busy
<1>4. LimitInv'
  BY <1>3, NoneJoins DEF IInv
<1> QED BY <1>1, <1>2, <1>4 DEF IInv

(* A session is heard. *)
LEMMA HeartbeatInv ==
  ASSUME NEW i \in Ids, IInv, Heartbeat(i)
  PROVE  IInv'
<1>1. TypeOK'
  BY DEF IInv, Heartbeat, TypeOK, Sessions, sweepVars
<1>2. \A j \in Ids : IdInv(j)'
  <2> TAKE j \in Ids
  <2> QED BY DEF IInv, Heartbeat, IdInv, Files, Freed, Fresh, Direct
<1>3. Busy' \subseteq Busy
  BY DEF Heartbeat, Busy
<1>4. LimitInv'
  BY <1>3, NoneJoins DEF IInv
<1> QED BY <1>1, <1>2, <1>4 DEF IInv

(* A user stops a session. *)
LEMMA UserStopInv ==
  ASSUME NEW i \in Ids, IInv, UserStop(i)
  PROVE  IInv'
<1>1. TypeOK'
  BY DEF IInv, UserStop, TakeOut, Go, TypeOK, Sessions, StopPcs, sweepVars
<1>2. \A j \in Ids : IdInv(j)'
  <2> TAKE j \in Ids
  <2> QED BY DEF IInv, UserStop, TakeOut, Go, IdInv, Files, Freed, Fresh, Direct,
             StartPcs
<1>3. Busy' \subseteq Busy
  BY DEF UserStop, TakeOut, Go, Busy, StartPcs
<1>4. LimitInv'
  BY <1>3, NoneJoins DEF IInv
<1> QED BY <1>1, <1>2, <1>4 DEF IInv

(* A stop kills the process. *)
LEMMA StopKillInv ==
  ASSUME NEW i \in Ids, IInv, StopKill(i)
  PROVE  IInv'
<1>1. TypeOK'
  BY DEF IInv, StopKill, Go, TypeOK, Sessions, StopPcs, sweepVars
<1>2. \A j \in Ids : IdInv(j)'
  <2> TAKE j \in Ids
  <2> QED BY DEF IInv, StopKill, Go, TypeOK, IdInv, Files, Freed, Fresh, Direct,
             StartPcs
<1>3. Busy' \subseteq Busy
  BY DEF StopKill, Go, Busy, StartPcs
<1>4. LimitInv'
  BY <1>3, NoneJoins DEF IInv
<1> QED BY <1>1, <1>2, <1>4 DEF IInv

(* A stop removes the directory. *)
LEMMA StopRemoveInv ==
  ASSUME NEW i \in Ids, IInv, StopRemove(i)
  PROVE  IInv'
<1>1. TypeOK'
  BY DEF IInv, StopRemove, Go, TypeOK, Sessions, StopPcs, sweepVars
<1>2. \A j \in Ids : IdInv(j)'
  <2> TAKE j \in Ids
  <2> QED BY DEF IInv, StopRemove, Go, IdInv, Files, Freed, Fresh, Direct, StartPcs
<1>3. Busy' \subseteq Busy
  BY DEF StopRemove, Go, Busy, StartPcs
<1>4. LimitInv'
  BY <1>3, NoneJoins DEF IInv
<1> QED BY <1>1, <1>2, <1>4 DEF IInv

(* A stop writes the row. *)
LEMMA StopUpdateInv ==
  ASSUME NEW i \in Ids, IInv, StopUpdate(i)
  PROVE  IInv'
<1>1. TypeOK'
  BY DEF IInv, StopUpdate, Go, Fails, TypeOK, Sessions
<1>2. \A j \in Ids : IdInv(j)'
  <2> TAKE j \in Ids
  <2> QED BY DEF IInv, StopUpdate, Go, Fails, TypeOK, IdInv, Files, Freed, Fresh,
             Direct, StartPcs
<1>3. Busy' \subseteq Busy
  BY DEF IInv, StopUpdate, Go, Fails, TypeOK, Busy, StartPcs
<1>4. LimitInv'
  BY <1>3, NoneJoins DEF IInv
<1> QED BY <1>1, <1>2, <1>4 DEF IInv

(* The cleanup task looks at the table. *)
LEMMA SweepScanInv ==
  ASSUME IInv, SweepScan
  PROVE  IInv'
<1>1. TypeOK'
  BY DEF IInv, SweepScan, Overdue, TypeOK, Sessions
<1>2. \A j \in Ids : IdInv(j)'
  <2> TAKE j \in Ids
  <2> QED BY DEF IInv, SweepScan, IdInv, Files, Freed, Fresh, Direct
<1>3. Busy' \subseteq Busy
  BY DEF SweepScan, Busy
<1>4. LimitInv'
  BY <1>3, NoneJoins DEF IInv
<1> QED BY <1>1, <1>2, <1>4 DEF IInv

(* The cleanup task takes an idle session out. *)
LEMMA SweepTakeInv ==
  ASSUME NEW i \in Ids, IInv, SweepTake(i)
  PROVE  IInv'
<1>1. TypeOK'
  BY DEF IInv, SweepTake, TakeOut, Go, TypeOK, Sessions, StopPcs
<1>2. \A j \in Ids : IdInv(j)'
  <2> TAKE j \in Ids
  <2> QED BY DEF IInv, SweepTake, TakeOut, Go, TypeOK, IdInv, Files, Freed, Fresh,
             Direct, StartPcs
<1>3. Busy' \subseteq Busy
  BY DEF IInv, SweepTake, TakeOut, Go, TypeOK, Busy, StartPcs
<1>4. LimitInv'
  BY <1>3, NoneJoins DEF IInv
<1> QED BY <1>1, <1>2, <1>4 DEF IInv

(* The cleanup task goes back to sleep. *)
LEMMA SweepDoneInv ==
  ASSUME IInv, SweepDone
  PROVE  IInv'
<1>1. TypeOK'
  BY DEF IInv, SweepDone, TypeOK, Sessions
<1>2. \A j \in Ids : IdInv(j)'
  <2> TAKE j \in Ids
  <2> QED BY DEF IInv, SweepDone, IdInv, Files, Freed, Fresh, Direct
<1>3. Busy' \subseteq Busy
  BY DEF SweepDone, Busy
<1>4. LimitInv'
  BY <1>3, NoneJoins DEF IInv
<1> QED BY <1>1, <1>2, <1>4 DEF IInv

(* The process restarts. *)
LEMMA RestartInv ==
  ASSUME IInv, Restart
  PROVE  IInv'
<1>1. TypeOK'
  BY LimitsAssumption DEF IInv, Restart, TypeOK
<1>2. \A j \in Ids : IdInv(j)'
  <2> TAKE j \in Ids
  <2> QED BY DEF IInv, Restart, IdInv, Files, Freed, Fresh, Direct, StartPcs
<1>3. Busy' \subseteq Busy
  BY DEF Restart, Busy, StartPcs
<1>4. LimitInv'
  BY <1>3, NoneJoins DEF IInv
<1> QED BY <1>1, <1>2, <1>4 DEF IInv

(* Nothing changes. *)
LEMMA StutterInv ==
  ASSUME IInv, UNCHANGED vars
  PROVE  IInv'
<1>1. TypeOK'
  BY DEF IInv, vars, TypeOK, Sessions, sweepVars
<1>2. \A j \in Ids : IdInv(j)'
  <2> TAKE j \in Ids
  <2> QED BY DEF IInv, vars, IdInv, Files, Freed, Fresh, Direct
<1>3. Busy' \subseteq Busy
  BY DEF vars, Busy
<1>4. LimitInv'
  BY <1>3, NoneJoins DEF IInv
<1> QED BY <1>1, <1>2, <1>4 DEF IInv

-----------------------------------------------------------------------------
LEMMA InvStep == IInv /\ [Next]_vars => IInv'
<1> SUFFICES ASSUME IInv, [Next]_vars PROVE IInv'
  OBVIOUS
<1>1. CASE \E i \in Ids : StartDirect(i)
  BY <1>1, StartDirectInv
<1>2. CASE \E i \in Ids : StartTranscode(i)
  BY <1>2, StartTranscodeInv
<1>3. CASE \E i \in Ids : MakeDir(i)
  BY <1>3, MakeDirInv
<1>4. CASE \E i \in Ids : Spawn(i)
  BY <1>4, SpawnInv
<1>5. CASE \E i \in Ids : Fallback(i)
  BY <1>5, FallbackInv
<1>6. CASE \E i \in Ids : Verify(i)
  BY <1>6, VerifyInv
<1>7. CASE \E i \in Ids : Register(i)
  BY <1>7, RegisterInv
<1>8. CASE \E i \in Ids : Cut(i)
  BY <1>8, CutInv
<1>9. CASE \E i \in Ids : FfmpegExits(i)
  BY <1>9, FfmpegExitsInv
<1>10. CASE \E i \in Ids : PlayerLeaves(i)
  BY <1>10, PlayerLeavesInv
<1>11. CASE \E i \in Ids : Expire(i)
  BY <1>11, ExpireInv
<1>12. CASE \E i \in Ids : Heartbeat(i)
  BY <1>12, HeartbeatInv
<1>13. CASE \E i \in Ids : UserStop(i)
  BY <1>13, UserStopInv
<1>14. CASE \E i \in Ids : StopKill(i)
  BY <1>14, StopKillInv
<1>15. CASE \E i \in Ids : StopRemove(i)
  BY <1>15, StopRemoveInv
<1>16. CASE \E i \in Ids : StopUpdate(i)
  BY <1>16, StopUpdateInv
<1>17. CASE \E i \in Ids : SweepTake(i)
  BY <1>17, SweepTakeInv
<1>18. CASE SweepScan
  BY <1>18, SweepScanInv
<1>19. CASE SweepDone
  BY <1>19, SweepDoneInv
<1>20. CASE Restart
  BY <1>20, RestartInv
<1>21. CASE UNCHANGED vars
  BY <1>21, StutterInv
<1> QED
  BY <1>1, <1>2, <1>3, <1>4, <1>5, <1>6, <1>7, <1>8, <1>9, <1>10, <1>11, <1>12,
     <1>13, <1>14, <1>15, <1>16, <1>17, <1>18, <1>19, <1>20, <1>21 DEF Next, Start,
     Environment, StopStep, Sweep

THEOREM Inductive == Spec => []IInv
BY InitInv, InvStep, PTL DEF Spec

(* Every variable keeps its type; idle sessions are sessions of the table.   *)
THEOREM TypeCorrect == Spec => []TypeOK
<1>1. IInv => TypeOK
  BY DEF IInv
<1> QED BY <1>1, Inductive, PTL

(* A transcode in the table has its directory, its process and its row.      *)
THEOREM ServedSessionsHaveFiles == Spec => []ServedHasFiles
<1>1. IInv => ServedHasFiles
  BY DEF IInv, IdInv, Files, ServedHasFiles, Transcodes, Sessions
<1> QED BY <1>1, Inductive, PTL

(* A session that ended undisturbed leaves no process, directory or active   *)
(* row behind.                                                               *)
THEOREM EndedSessionsAreReleased == Spec => []ReleasedAll
<1>1. IInv => ReleasedAll
  BY DEF IInv, IdInv, Freed, ReleasedAll
<1> QED BY <1>1, Inductive, PTL

(* For any limit and any number of overlapping starts, the transcodes exceed *)
(* the limit by fewer than the starts.                                       *)
THEOREM OvershootIsBounded == Spec => []LimitOvershoot
<1>1. ASSUME IInv PROVE LimitOvershoot
  <2>1. Transcodes \subseteq Busy
    BY DEF Transcodes, Sessions, Busy
  <2>2. /\ IsFiniteSet(Busy) /\ Cardinality(Busy) \in Nat
        /\ Cardinality(Transcodes) \in Nat
    BY FiniteIds DEF Busy, Transcodes, Sessions
  <2>3. Cardinality(Transcodes) <= Cardinality(Busy)
    BY <2>1, <2>2, FS_Subset
  <2> QED BY <1>1, <2>2, <2>3, LimitsAssumption DEF IInv, LimitInv, LimitOvershoot
<1> QED BY <1>1, Inductive, PTL

(* With starts that never overlap the limit is kept. *)
THEOREM LimitIsKeptAlone ==
  ASSUME Starters = 1
  PROVE  Spec => []LimitHeld
<1>1. ASSUME LimitOvershoot PROVE LimitHeld
  <2>1. Cardinality(Transcodes) \in Nat
    BY FiniteIds DEF Transcodes, Sessions
  <2> QED BY <1>1, <2>1, LimitsAssumption DEF LimitOvershoot, LimitHeld
<1> QED BY <1>1, OvershootIsBounded, PTL
=============================================================================
