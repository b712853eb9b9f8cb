-------------------------- MODULE ProcessLifeProofs --------------------------
(***************************************************************************)
(* Proofs about ProcessLife, for any numbers of pids, sessions, updates    *)
(* and ends of the process: the pid file has every child it should, a      *)
(* recorded orphan is found again, and no cut-off update leaves a part of  *)
(* an executable.                                                          *)
(***************************************************************************)
EXTENDS ProcessLife, FiniteSetTheorems, TLAPS

SessionStates == {"none", "spawned", "recording", "running", "removing", "closed"} \cup Closing
Holding == {"recording", "removing"}

\* Types of what has to do with children and the pid file.
PidType ==
  /\ proc \in {"down", "cleaning", "clearing", "up"}
  /\ kern \in [Pids -> {"free", "child", "orphan", "lost", "killed", "stranger"}]
  /\ ses \in [Sessions -> SessionStates]
  /\ pid \in [Sessions -> Pids \cup {None}]
  /\ mem \in [Sessions -> SUBSET Pids]
  /\ lock \in Sessions \cup {None}
  /\ file.pids \in SUBSET Pids
  /\ todo \in SUBSET Pids
  /\ gone \in SUBSET Sessions /\ dropped \in SUBSET Sessions

\* pidFileMu: the session between reading and writing holds it, and the file
\* is cut for as long; the record being written has the new pid.
LockInv ==
  /\ \A s \in Sessions : ses[s] \in Holding <=> lock = s
  /\ lock # None => ~file.whole
  /\ \A s \in Sessions : ses[s] = "recording" => pid[s] \in mem[s]

\* A session has a pid from Spawn to the end of its Close. Another may have
\* the same, but no orphan of an earlier life has.
OwnPid ==
  /\ \A s \in Sessions : pid[s] = None <=> ses[s] \in {"none", "closed"}
  /\ \A s \in Sessions : pid[s] \in Pids => kern[pid[s]] # "orphan"

\* There are sessions only after CleanOrphans, which deals with every orphan
\* before it clears the file.
LifeInv ==
  /\ proc # "up" => \A s \in Sessions : ses[s] = "none"
  /\ proc = "cleaning" => \A p \in Pids : kern[p] = "orphan" => p \in todo
  /\ proc = "clearing" => \A p \in Pids : kern[p] # "orphan"

PidInv == PidType /\ LockInv /\ OwnPid /\ LifeInv /\ ChildRecorded /\ OrphanFound

pidVars == <<proc, kern, ses, pid, gone, untracked, mem, lock, file, dropped, todo>>

\* The lock is free, and the file is on its own, before the process is up.
LEMMA DownIsFree == PidInv /\ proc # "up" => lock = None
  BY DEF PidInv, PidType, LockInv, LifeInv, Holding

\* In the initial state nothing runs and the file is empty.
LEMMA InitPid == Init => PidInv
<1> SUFFICES ASSUME Init PROVE PidInv
  OBVIOUS
<1> USE ProcessAssumption
<1>1. PidType
  BY DEF Init, PidType, SessionStates
<1>2. LockInv
  BY DEF Init, LockInv, Holding
<1>3. OwnPid /\ LifeInv
  BY DEF Init, OwnPid, LifeInv
<1>4. ChildRecorded /\ OrphanFound
  BY DEF Init, ChildRecorded, OrphanFound
<1> QED
  BY <1>1, <1>2, <1>3, <1>4 DEF PidInv

\* The end of the process, by a kill or a restart.
LEMMA LifeEndsPid == PidInv /\ LifeEnds => PidInv'
<1> SUFFICES ASSUME PidInv, LifeEnds PROVE PidInv'
  OBVIOUS
<1> USE ProcessAssumption
<1>0. \A p \in Pids : /\ kern'[p] = LeftBehind(p)
                      /\ LeftBehind(p) \in {"free", "child", "orphan", "lost", "killed", "stranger"}
  BY DEF LifeEnds, LeftBehind, PidInv, PidType
<1>1. PidType'
  <2>1. kern' \in [Pids -> {"free", "child", "orphan", "lost", "killed", "stranger"}]
    BY <1>0 DEF LifeEnds
  <2> QED
    BY <2>1 DEF PidInv, PidType, LifeEnds, SessionStates
<1>2. LockInv'
  BY DEF LifeEnds, LockInv, Holding
<1>3. OwnPid' /\ LifeInv'
  BY DEF LifeEnds, OwnPid, LifeInv
<1>4. ChildRecorded'
  BY DEF LifeEnds, ChildRecorded
<1>5. OrphanFound'
  <2> SUFFICES ASSUME NEW p \in Pids, kern'[p] = "orphan" PROVE file.whole /\ p \in file.pids
    BY DEF OrphanFound, Recorded, LifeEnds
  <2>1. (kern[p] = "child" /\ p \in OnFile) \/ (kern[p] = "orphan" /\ lock = None)
    BY <1>0 DEF LeftBehind
  <2> QED
    BY <2>1 DEF PidInv, OrphanFound, Recorded, OnFile
<1> QED
  BY <1>1, <1>2, <1>3, <1>4, <1>5 DEF PidInv

\* Start and CleanOrphans.
LEMMA MachinePid == PidInv /\ Machine => PidInv'
<1> SUFFICES ASSUME PidInv, Machine PROVE PidInv'
  OBVIOUS
<1> USE ProcessAssumption DEF sesVars, fileVars, CleanOnly
<1>0. /\ proc # "up" /\ lock = None /\ \A s \in Sessions : ses[s] = "none" /\ pid[s] = None
      /\ UNCHANGED <<ses, pid, gone, untracked, mem, lock, dropped>>
  <2>1. proc # "up" /\ UNCHANGED <<ses, pid, gone, untracked, mem, lock, dropped>>
    BY DEF Machine, Start, CleanKills, CleanKillFails, CleanTruncates, CleanWrites, CleanWriteFails
  <2> QED
    BY <2>1, DownIsFree DEF PidInv, LifeInv, OwnPid
<1>a. LockInv' /\ ChildRecorded'
  BY <1>0 DEF PidInv, LockInv, ChildRecorded, Holding
<1>b. OwnPid'
  BY <1>0 DEF PidInv, OwnPid
<1>1. CASE Start
  <2>1. PidType'
    BY <1>0, <1>1 DEF PidInv, PidType, Start, OnFile
  <2>2. kern' = kern /\ file' = file
    BY <1>1 DEF Start
  <2>3. \A p \in Pids : kern[p] = "orphan" => p \in OnFile
    BY <1>0 DEF PidInv, OrphanFound, Recorded, OnFile
  <2>4. proc' = "up" \/ (proc' = "cleaning" /\ todo' = OnFile)
    BY <1>1 DEF Start
  <2>5. LifeInv'
    BY <1>0, <2>2, <2>3, <2>4 DEF LifeInv
  <2>6. OrphanFound'
    BY <1>0, <2>2 DEF PidInv, OrphanFound, Recorded
  <2> QED
    BY <1>a, <1>b, <2>1, <2>5, <2>6 DEF PidInv
<1>2. ASSUME NEW p \in Pids, CleanKills(p) \/ CleanKillFails(p) PROVE PidInv'
  <2>1. /\ file' = file /\ todo' = todo \ {p} /\ proc' = "cleaning" /\ proc = "cleaning"
        /\ DOMAIN kern' = Pids /\ \A q \in Pids \ {p} : kern'[q] = kern[q]
        /\ kern'[p] # "orphan" /\ kern' = [q \in Pids |-> kern'[q]]
        /\ kern'[p] \in {"free", "child", "orphan", "lost", "killed", "stranger"}
    BY <1>2 DEF PidInv, PidType, CleanKills, CleanKillFails, Ours
  <2>2. PidType'
    <3>1. kern' \in [Pids -> {"free", "child", "orphan", "lost", "killed", "stranger"}]
      BY <2>1 DEF PidInv, PidType
    <3> QED
      BY <1>0, <2>1, <3>1 DEF PidInv, PidType
  <2>3. LifeInv' /\ OrphanFound'
    BY <1>0, <2>1 DEF PidInv, LifeInv, OrphanFound, Recorded
  <2> QED
    BY <1>a, <1>b, <2>2, <2>3 DEF PidInv
<1>3. CASE CleanTruncates \/ CleanWrites \/ CleanWriteFails
  <2>1. kern' = kern /\ todo' = todo /\ \A p \in Pids : kern[p] # "orphan"
    BY <1>3 DEF PidInv, LifeInv, CleanTruncates, CleanWrites, CleanWriteFails
  <2>2. file' = file \/ file'.pids = {}
    BY <1>3 DEF CleanTruncates, CleanWrites, CleanWriteFails
  <2>3. proc' \in {"clearing", "up"}
    BY <1>3 DEF CleanTruncates, CleanWrites, CleanWriteFails
  <2>4. PidType'
    BY <1>0, <2>1, <2>2, <2>3 DEF PidInv, PidType
  <2>5. LifeInv' /\ OrphanFound'
    BY <1>0, <2>1, <2>3 DEF LifeInv, OrphanFound
  <2> QED
    BY <1>a, <1>b, <2>4, <2>5 DEF PidInv
<1> QED
  BY <1>1, <1>2, <1>3 DEF Machine

\* What is left of the kernel's view when the file's records are forgotten.
LEMMA ForgetPid ==
  ASSUME PidInv, Forget
  PROVE  /\ kern' \in [Pids -> {"free", "child", "orphan", "lost", "killed", "stranger"}]
         /\ \A p \in Pids : kern'[p] # "orphan"
         /\ dropped' = Sessions
  BY DEF Forget, PidInv, PidType

\* A session takes the lock and cuts the file: RecordPID and RemovePID read.
LEMMA ReadsPid ==
  ASSUME PidInv, NEW s \in Sessions, RecordReads(s) \/ RecordForgets(s) \/ RemoveReads(s)
  PROVE  PidInv'
<1> USE ProcessAssumption DEF Elsewhere, Reads
<1>0. proc = "up" /\ lock = None /\ pid[s] \in Pids /\ ses[s] \notin Holding
  BY DEF RecordReads, RecordForgets, RemoveReads, MayLock, PidInv, PidType, OwnPid, LifeInv, Holding
<1>k. /\ kern' \in [Pids -> {"free", "child", "orphan", "lost", "killed", "stranger"}]
      /\ \A p \in Pids : kern'[p] = "orphan" => kern[p] = "orphan" /\ ~RecordForgets(s)
  <2>1. CASE RecordForgets(s)
    BY <2>1, ForgetPid DEF RecordForgets
  <2>2. CASE ~RecordForgets(s)
    BY <2>2 DEF RecordReads, RemoveReads, PidInv, PidType
  <2> QED
    BY <2>1, <2>2
<1>u. /\ pid' = pid /\ gone' = gone /\ untracked' = untracked /\ proc' = proc /\ todo' = todo
      /\ lock' = s /\ file' = [whole |-> FALSE, pids |-> {}]
  BY DEF RecordReads, RecordForgets, RemoveReads
<1>n. PICK next : next \in Holding /\ ses' = [ses EXCEPT ![s] = next] /\ (next = "recording" => ~RemoveReads(s))
  BY DEF RecordReads, RecordForgets, RemoveReads, Holding
<1>1. PidType'
  <2>1. mem' \in [Sessions -> SUBSET Pids]
    BY <1>0 DEF RecordReads, RecordForgets, RemoveReads, PidInv, PidType, OnFile
  <2>2. dropped' \in SUBSET Sessions
    BY DEF RecordReads, RecordForgets, RemoveReads, Forget, PidInv, PidType
  <2>3. ses' \in [Sessions -> SessionStates]
    BY <1>n DEF PidInv, PidType, SessionStates, Holding
  <2> QED
    BY <1>k, <1>u, <2>1, <2>2, <2>3 DEF PidInv, PidType
<1>2. LockInv'
  <2>1. \A t \in Sessions : ses'[t] \in Holding <=> t = s
    BY <1>0, <1>n DEF PidInv, PidType, LockInv, Holding
  <2>2. ses'[s] = "recording" => pid[s] \in mem'[s]
    BY <1>n DEF PidInv, PidType, RecordReads, RecordForgets
  <2> QED
    BY <1>u, <2>1, <2>2 DEF LockInv, Holding
<1>3. OwnPid' /\ LifeInv'
  <2>1. \A t \in Sessions : ses'[t] \in {"none", "closed"} <=> ses[t] \in {"none", "closed"}
    BY <1>0, <1>n DEF PidInv, PidType, OwnPid, Holding
  <2> QED
    BY <1>0, <1>k, <1>u, <2>1 DEF PidInv, PidType, OwnPid, LifeInv
<1>4. ChildRecorded'
  <2> SUFFICES ASSUME NEW t \in Sessions, t \notin untracked, t \notin dropped',
                      ses'[t] \in {"running", "stdin", "term"}
               PROVE  pid[t] \in mem'[s]
    BY <1>u DEF ChildRecorded, Recorded
  <2>1. t # s /\ ses[t] = ses'[t]
    BY <1>n DEF PidInv, PidType, Holding
  <2>2. t \notin dropped /\ ~RecordForgets(s) /\ (RemoveReads(s) => pid[t] # pid[s])
    BY <2>1 DEF RecordReads, RecordForgets, Forget, RemoveReads
  <2>3. file.whole /\ pid[t] \in file.pids
    BY <2>1, <2>2, <1>0 DEF PidInv, ChildRecorded, Recorded
  <2> QED
    BY <2>2, <2>3 DEF RecordReads, RemoveReads, PidInv, PidType, OnFile
<1>5. OrphanFound'
  <2> SUFFICES ASSUME NEW p \in Pids, kern'[p] = "orphan" PROVE p \in mem'[s]
    BY <1>u DEF OrphanFound, Recorded
  <2>1. kern[p] = "orphan" /\ ~RecordForgets(s) /\ p # pid[s]
    BY <1>0, <1>k DEF PidInv, OwnPid
  <2>2. file.whole /\ p \in file.pids
    BY <2>1, <1>0 DEF PidInv, OrphanFound, Recorded
  <2> QED
    BY <2>1, <2>2 DEF RecordReads, RemoveReads, PidInv, PidType, OnFile
<1> QED
  BY <1>1, <1>2, <1>3, <1>4, <1>5 DEF PidInv

\* It writes the file, or fails to, and gives the lock back.
LEMMA WritesPid ==
  ASSUME PidInv, NEW s \in Sessions, RecordWrites(s) \/ RemoveWrites(s) \/ WriteFails(s)
  PROVE  PidInv'
<1> USE ProcessAssumption DEF Elsewhere, Writes
<1>0. proc = "up" /\ lock = s /\ s # None /\ ~file.whole /\ pid[s] \in Pids
  BY DEF RecordWrites, RemoveWrites, WriteFails, PidInv, PidType, LockInv, OwnPid, LifeInv, Holding
<1>k. /\ kern' \in [Pids -> {"free", "child", "orphan", "lost", "killed", "stranger"}]
      /\ \A p \in Pids : kern'[p] = "orphan" => kern[p] = "orphan" /\ ~WriteFails(s)
  <2>1. CASE WriteFails(s)
    BY <2>1, ForgetPid DEF WriteFails
  <2>2. CASE ~WriteFails(s)
    BY <2>2 DEF RecordWrites, RemoveWrites, PidInv, PidType
  <2> QED
    BY <2>1, <2>2
<1>u. gone' = gone /\ untracked' = untracked /\ proc' = proc /\ todo' = todo /\ lock' = None
  BY DEF RecordWrites, RemoveWrites, WriteFails
<1>n. \/ ses' = [ses EXCEPT ![s] = "running"] /\ pid' = pid
      \/ ses' = [ses EXCEPT ![s] = "closed"] /\ pid' = [pid EXCEPT ![s] = None]
  BY DEF RecordWrites, RemoveWrites, WriteFails
<1>1. PidType'
  <2>1. file'.pids \in SUBSET Pids
    BY DEF RecordWrites, RemoveWrites, WriteFails, PidInv, PidType
  <2>2. pid' \in [Sessions -> Pids \cup {None}] /\ ses' \in [Sessions -> SessionStates]
    BY <1>n DEF PidInv, PidType, SessionStates
  <2>3. mem' \in [Sessions -> SUBSET Pids] /\ dropped' \in SUBSET Sessions
    BY DEF RecordWrites, RemoveWrites, WriteFails, Forget, PidInv, PidType
  <2> QED
    BY <1>k, <1>u, <2>1, <2>2, <2>3 DEF PidInv, PidType
<1>2. LockInv'
  <2>1. \A t \in Sessions : ses'[t] \notin Holding
    BY <1>0, <1>n DEF PidInv, PidType, LockInv, Holding
  <2> QED
    BY <1>u, <2>1 DEF LockInv, Holding
<1>3. OwnPid' /\ LifeInv'
  <2>1. \A t \in Sessions : pid'[t] = None <=> ses'[t] \in {"none", "closed"}
    BY <1>0, <1>n DEF PidInv, PidType, OwnPid
  <2>2. \A t \in Sessions : pid'[t] \in Pids => pid'[t] = pid[t]
    BY <1>n DEF PidInv, PidType
  <2> QED
    BY <1>0, <1>k, <1>u, <2>1, <2>2 DEF PidInv, PidType, OwnPid, LifeInv
<1>4. OrphanFound'
  <2> SUFFICES ASSUME NEW p \in Pids, kern'[p] = "orphan" PROVE file'.whole /\ p \in file'.pids
    BY DEF OrphanFound, Recorded
  <2>1. kern[p] = "orphan" /\ ~WriteFails(s)
    BY <1>k
  <2>2. p \in mem[s]
    BY <2>1, <1>0 DEF PidInv, OrphanFound, Recorded
  <2> QED
    BY <2>1, <2>2 DEF RecordWrites, RemoveWrites
<1>5. ChildRecorded'
  <2> SUFFICES ASSUME NEW t \in Sessions, t \notin untracked, t \notin dropped',
                      ses'[t] \in {"running", "stdin", "term"}
               PROVE  file'.whole /\ pid'[t] \in file'.pids
    BY <1>u DEF ChildRecorded, Recorded
  <2>0. ~WriteFails(s)
    BY DEF WriteFails, Forget
  <2>1. file' = [whole |-> TRUE, pids |-> mem[s]]
    BY <2>0 DEF RecordWrites, RemoveWrites
  <2>2. CASE t = s
    <3>1. RecordWrites(s)
      BY <2>0, <2>2 DEF RemoveWrites, PidInv, PidType
    <3> QED
      BY <2>1, <2>2, <3>1 DEF RecordWrites, PidInv, LockInv
  <2>3. CASE t # s
    <3>1. ses[t] = ses'[t] /\ pid'[t] = pid[t]
      BY <2>3, <1>n DEF PidInv, PidType
    <3>2. t \notin dropped
      BY <2>0, <2>3 DEF RecordWrites, RemoveWrites
    <3> QED
      BY <2>1, <3>1, <3>2, <1>0 DEF PidInv, ChildRecorded, Recorded
  <2> QED
    BY <2>2, <2>3
<1> QED
  BY <1>1, <1>2, <1>3, <1>4, <1>5 DEF PidInv

\* The other steps of a session leave the file alone.
LEMMA SessionPid ==
  ASSUME PidInv, NEW s \in Sessions,
         \/ SendTerm(s) \/ SendKill(s) \/ SeesExit(s) \/ CloseOnly(s) \/ RecordFails(s)
         \/ CloseStdin(s) \/ ChildExits(s) \/ \E p \in Pids : Spawn(s, p)
  PROVE  PidInv'
<1> USE ProcessAssumption DEF Elsewhere, fileVars, sesVars
<1>1. CASE SendTerm(s) \/ SeesExit(s) \/ CloseStdin(s) \/ RecordFails(s)
  <2> USE DEF SendTerm, SeesExit, CloseStdin, RecordFails
  <2>0. proc = "up"
    BY <1>1 DEF PidInv, LifeInv
  <2>1. PidType'
    BY <1>1 DEF PidInv, PidType, SessionStates, Closing
  <2>2. LockInv' /\ OwnPid'
    BY <1>1 DEF PidInv, PidType, LockInv, OwnPid, Holding
  <2>3. LifeInv' /\ OrphanFound'
    BY <1>1, <2>0 DEF PidInv, LifeInv, OrphanFound, Recorded
  <2>4. ChildRecorded'
    BY <1>1 DEF PidInv, PidType, ChildRecorded, Recorded
  <2> QED
    BY <2>1, <2>2, <2>3, <2>4 DEF PidInv
<1>2. CASE SendKill(s) \/ ChildExits(s)
  <2> USE DEF SendKill, ChildExits
  <2>0. pid[s] \in Pids /\ proc = "up"
    BY <1>2 DEF PidInv, PidType, OwnPid, LifeInv
  <2>1. PidType'
    BY <1>2, <2>0 DEF PidInv, PidType, SessionStates, Closing
  <2>2. LockInv' /\ OwnPid'
    BY <1>2, <2>0 DEF PidInv, PidType, LockInv, OwnPid, Holding
  <2>3. LifeInv' /\ OrphanFound'
    BY <1>2, <2>0 DEF PidInv, PidType, LifeInv, OrphanFound, Recorded
  <2>4. ChildRecorded'
    BY <1>2 DEF PidInv, PidType, ChildRecorded, Recorded
  <2> QED
    BY <2>1, <2>2, <2>3, <2>4 DEF PidInv
<1>3. CASE CloseOnly(s)
  <2> USE DEF CloseOnly
  <2>0. proc = "up"
    BY <1>3 DEF PidInv, LifeInv
  <2>1. PidType'
    BY <1>3 DEF PidInv, PidType, SessionStates
  <2>2. LockInv' /\ OwnPid'
    BY <1>3 DEF PidInv, PidType, LockInv, OwnPid, Holding
  <2>3. LifeInv' /\ OrphanFound'
    BY <1>3, <2>0 DEF PidInv, LifeInv, OrphanFound, Recorded
  <2>4. ChildRecorded'
    BY <1>3 DEF PidInv, PidType, ChildRecorded, Recorded
  <2> QED
    BY <2>1, <2>2, <2>3, <2>4 DEF PidInv
<1>4. ASSUME NEW p \in Pids, Spawn(s, p) PROVE PidInv'
  <2> USE DEF Spawn
  <2>1. PidType'
    BY <1>4 DEF PidInv, PidType, SessionStates
  <2>2. LockInv' /\ OwnPid'
    BY <1>4 DEF PidInv, PidType, LockInv, OwnPid, Holding
  <2>3. LifeInv' /\ OrphanFound'
    BY <1>4 DEF PidInv, PidType, LifeInv, OrphanFound, Recorded
  <2>4. ChildRecorded'
    BY <1>4 DEF PidInv, PidType, ChildRecorded, Recorded
  <2> QED
    BY <2>1, <2>2, <2>3, <2>4 DEF PidInv
<1> QED
  BY <1>1, <1>2, <1>3, <1>4

\* An orphan exits or a stranger starts.
LEMMA OthersPid ==
  ASSUME PidInv, NEW p \in Pids, OrphanExits(p) \/ StrangerStarts(p)
  PROVE  PidInv'
<1> USE DEF OrphanExits, StrangerStarts, Elsewhere, fileVars, sesVars
<1>1. PidType'
  BY DEF PidInv, PidType
<1>2. LockInv' /\ ChildRecorded'
  BY DEF PidInv, LockInv, ChildRecorded, Recorded
<1>3. OwnPid'
  BY DEF PidInv, PidType, OwnPid
<1>4. LifeInv' /\ OrphanFound'
  BY DEF PidInv, PidType, LifeInv, OrphanFound, Recorded
<1> QED
  BY <1>1, <1>2, <1>3, <1>4 DEF PidInv

\* The steps of an update that are not a restart touch none of it.
LEMMA UnchangedPid == PidInv /\ UNCHANGED pidVars => PidInv'
  BY DEF pidVars, PidInv, PidType, LockInv, OwnPid, LifeInv, ChildRecorded, OrphanFound, Recorded

\* Every step preserves the invariant.
LEMMA NextPid == PidInv /\ [Next]_vars => PidInv'
<1> SUFFICES ASSUME PidInv, [Next]_vars PROVE PidInv'
  OBVIOUS
<1>1. CASE Killed \/ Machine
  BY <1>1, LifeEndsPid, MachinePid DEF Killed
<1>2. ASSUME NEW s \in Sessions,
             SessionStep(s) \/ CloseStdin(s) \/ ChildExits(s) \/ \E p \in Pids : Spawn(s, p)
      PROVE  PidInv'
  BY <1>2, ReadsPid, WritesPid, SessionPid DEF SessionStep
<1>3. ASSUME NEW u \in Updaters, UpdateStep(u) PROVE PidInv'
  <2>1. CASE Restart(u)
    BY <2>1, LifeEndsPid DEF Restart
  <2>2. CASE ~Restart(u)
    <3>1. UNCHANGED pidVars
      BY <1>3, <2>2 DEF UpdateStep, Fetch, FetchFails, CopyStarts, CopyEnds, CopyFails, Rename, RenameFails,
           RestartFails, FilesStay, UpdateOnly, sesVars, fileVars, pidVars
    <3> QED
      BY <3>1, UnchangedPid
  <2> QED
    BY <2>1, <2>2
<1>4. ASSUME NEW p \in Pids, OrphanExits(p) \/ StrangerStarts(p) PROVE PidInv'
  BY <1>4, OthersPid
<1>5. CASE UNCHANGED vars
  BY <1>5, UnchangedPid DEF vars, sesVars, fileVars, pidVars
<1> QED
  BY <1>1, <1>2, <1>3, <1>4, <1>5 DEF Next

\* The inductive invariant on children and the pid file.
THEOREM PidInvariant == Spec => []PidInv
  BY InitPid, NextPid, PTL DEF Spec

\* For any sessions recording and removing pids at once, none loses the
\* record of another, whatever becomes of the file otherwise: what takes a
\* record away early is a failed read or write, or the removal of an equal pid
\* (RecordPID, RemovePID under pidFileMu).
THEOREM RecordsKept == Spec => []ChildRecorded
<1>1. PidInv => ChildRecorded
  BY DEF PidInv
<1> QED
  BY <1>1, PidInvariant, PTL

\* Through any number of crashes a child that outlived its process with its
\* pid on file stays recorded until it is dead or CleanOrphans has tried to
\* kill it; only a failed read or write of the file, or a crash in the middle
\* of rewriting it, loses the record (CleanOrphans, RecordPID, RemovePID).
THEOREM OrphansFound == Spec => []OrphanFound
<1>1. PidInv => OrphanFound
  BY DEF PidInv
<1> QED
  BY <1>1, PidInvariant, PTL

-----------------------------------------------------------------------------
(* The executable.                                                         *)

UpdateStates == {"idle", "fetched", "copying", "copied", "installed", "over"}

\* Types of what has to do with updates; a writer of a file has it open.
UpdateType ==
  /\ upd \in [Updaters -> UpdateStates]
  /\ fd \in [Updaters -> Files \cup {None}]
  /\ exe \in Files /\ dest \in Files \cup {None}
  /\ owed \in [Files -> SUBSET Updaters]
  /\ \A f \in Files : \A u \in owed[f] : fd[u] = f
  /\ \A u \in Updaters : upd[u] \in {"idle", "fetched"} => fd[u] = None

\* As long as no two updates meet at <exe>.new: the one that is there writes
\* that file alone, it is not the executable, and it is whole when copied.
Alone ==
  /\ Whole(exe) /\ dest # exe
  /\ \A u, v \in AtNew : u = v
  /\ \A u \in AtNew : fd[u] = dest /\ fd[u] # None
  /\ \A u \in Updaters : upd[u] = "copying" => owed[fd[u]] = {u}
  /\ \A u \in Updaters : upd[u] = "copied" => owed[fd[u]] = {}

UpdateInv == UpdateType /\ (~overlap => Alone)

\* There are more files than updates, so an update that has opened none finds
\* one that is neither the executable nor anybody's.
LEMMA NewFileExists ==
  ASSUME UpdateType, NEW u \in Updaters, fd[u] = None
  PROVE  \E f \in Files : f # exe /\ \A v \in Updaters : fd[v] # f
<1> SUFFICES ASSUME \A f \in Files : f = exe \/ \E v \in Updaters : fd[v] = f
             PROVE  FALSE
  OBVIOUS
<1> DEFINE N == Cardinality(Updaters)
           g == [f \in Files |-> IF f = exe THEN u ELSE CHOOSE v \in Updaters : fd[v] = f]
<1>1. N \in Nat /\ IsFiniteSet(Updaters)
  BY ProcessAssumption, FS_CardinalityType
<1> HIDE DEF N
<1>2. Files = 0..N
  BY <1>1 DEF Files, N
<1>3. IsFiniteSet(Files) /\ Cardinality(Files) = N + 1
  BY <1>1, <1>2, FS_Interval
<1>4. g \in [Files -> Updaters]
  OBVIOUS
<1>5. \A f \in Files : f # exe => fd[g[f]] = f
  OBVIOUS
<1>6. g[exe] = u
  BY DEF UpdateType
<1> HIDE DEF g
<1>7. N < Cardinality(Files)
  BY <1>1, <1>3
<1>8. PICK f, h \in Files : f # h /\ g[f] = g[h]
  BY <1>1, <1>3, <1>4, <1>7, FS_PigeonHole DEF N
<1>9. None \notin Files
  BY <1>1, <1>2, ProcessAssumption
<1> QED
  BY <1>5, <1>6, <1>8, <1>9

\* None is no file.
LEMMA NoneNoFile == None \notin Files
<1>1. Cardinality(Updaters) \in Nat
  BY ProcessAssumption, FS_CardinalityType
<1> QED
  BY <1>1, ProcessAssumption DEF Files

\* In the initial state the executable is whole and there is no other file.
LEMMA InitUpdate == Init => UpdateInv
<1> SUFFICES ASSUME Init PROVE UpdateInv
  OBVIOUS
<1>1. 0 \in Files /\ None # 0
  BY ProcessAssumption DEF Files
<1>2. UpdateType
  BY <1>1 DEF Init, UpdateType, UpdateStates
<1>3. Alone
  BY <1>1 DEF Init, Alone, AtNew, Whole
<1> QED
  BY <1>2, <1>3 DEF UpdateInv

\* A step that touches no update.
LEMMA UnchangedUpdate == UpdateInv /\ UNCHANGED updVars => UpdateInv'
  BY DEF updVars, UpdateInv, UpdateType, Alone, AtNew, Whole

\* The end of the process leaves the files as they are, and nobody at them.
LEMMA LifeEndsUpdate == UpdateInv /\ LifeEnds => UpdateInv'
<1> SUFFICES ASSUME UpdateInv, LifeEnds PROVE UpdateInv'
  OBVIOUS
<1>1. UpdateType'
  BY DEF UpdateInv, UpdateType, UpdateStates, LifeEnds
<1>2. AtNew' = {}
  BY DEF AtNew, LifeEnds
<1>3. ~overlap' => Alone'
  BY <1>2 DEF UpdateInv, UpdateType, Alone, AtNew, Whole, LifeEnds
<1> QED
  BY <1>1, <1>3 DEF UpdateInv

\* copyFile opens <exe>.new.
LEMMA CopyStartsUpdate ==
  ASSUME UpdateInv, NEW u \in Updaters, CopyStarts(u)
  PROVE  UpdateInv'
<1> DEFINE f == IF dest = None THEN NewFile ELSE dest
<1>0. upd[u] = "fetched" /\ fd[u] = None /\ u \notin AtNew
  BY DEF CopyStarts, Step, UpdateInv, UpdateType, AtNew
<1>1. f \in Files /\ (dest # exe => f # exe)
  <2>1. CASE dest = None
    <3>1. \E x \in Files : x # exe /\ x # dest /\ \A v \in Updaters : fd[v] # x
      BY <1>0, <2>1, NewFileExists, NoneNoFile DEF UpdateInv
    <3>2. NewFile \in Files /\ NewFile # exe
      BY <3>1 DEF NewFile
    <3> QED
      BY <2>1, <3>2
  <2>2. CASE dest # None
    BY <2>2 DEF UpdateInv, UpdateType
  <2> QED
    BY <2>1, <2>2
<1> HIDE DEF f
<1>2. /\ upd' = [upd EXCEPT ![u] = "copying"] /\ fd' = [fd EXCEPT ![u] = f]
      /\ dest' = f /\ owed' = [owed EXCEPT ![f] = (owed[f] \cap AtNew) \cup {u}]
      /\ overlap' = (overlap \/ AtNew # {}) /\ exe' = exe
  BY DEF CopyStarts, Step, f
<1>3. \A g \in Files : u \notin owed[g]
  BY <1>0, NoneNoFile DEF UpdateInv, UpdateType
<1>4. UpdateType'
  <2>1. upd' \in [Updaters -> UpdateStates] /\ fd' \in [Updaters -> Files \cup {None}]
    BY <1>1, <1>2 DEF UpdateInv, UpdateType, UpdateStates
  <2>2. owed' \in [Files -> SUBSET Updaters]
    BY <1>1, <1>2 DEF UpdateInv, UpdateType
  <2>3. \A g \in Files : \A v \in owed'[g] : fd'[v] = g
    BY <1>1, <1>2, <1>3 DEF UpdateInv, UpdateType
  <2> QED
    BY <1>1, <1>2, <2>1, <2>2, <2>3 DEF UpdateInv, UpdateType
<1>5. ASSUME ~overlap' PROVE Alone'
  <2>1. AtNew = {} /\ Alone
    BY <1>2, <1>5 DEF UpdateInv
  <2>2. AtNew' = {u}
    BY <1>2, <2>1 DEF AtNew, UpdateInv, UpdateType
  <2>3. f # exe /\ owed'[f] = {u} /\ owed'[exe] = {}
    BY <1>1, <1>2, <2>1 DEF Alone, Whole, UpdateInv, UpdateType
  <2>4. fd'[u] = f /\ f # None
    BY <1>1, <1>2, NoneNoFile DEF UpdateInv, UpdateType
  <2>5. \A v \in Updaters : upd'[v] \in {"copying", "copied"} => v = u
    BY <2>2 DEF AtNew
  <2>6. upd'[u] = "copying"
    BY <1>2 DEF UpdateInv, UpdateType
  <2> QED
    BY <1>2, <2>2, <2>3, <2>4, <2>5, <2>6 DEF Alone, Whole
<1> QED
  BY <1>4, <1>5 DEF UpdateInv

\* The other steps of an update.
LEMMA UpdateStepUpdate ==
  ASSUME UpdateInv, NEW u \in Updaters, UpdateStep(u), ~Restart(u), ~CopyStarts(u)
  PROVE  UpdateInv'
<1> USE DEF Step
<1>1. CASE Fetch(u) \/ FetchFails(u) \/ RestartFails(u)
  <2>1. UpdateType' /\ UNCHANGED <<fd, exe, dest, owed, overlap>>
    BY <1>1 DEF Fetch, FetchFails, RestartFails, FilesStay, UpdateInv, UpdateType, UpdateStates
  <2>2. \A v \in Updaters : upd'[v] \in {"copying", "copied"} => upd[v] = upd'[v]
    BY <1>1 DEF Fetch, FetchFails, RestartFails, UpdateInv, UpdateType
  <2> QED
    BY <2>1, <2>2 DEF UpdateInv, Alone, AtNew, Whole
<1>2. CASE CopyEnds(u)
  <2>0. fd[u] \in Files \cup {None}
    BY DEF UpdateInv, UpdateType
  <2>1. UpdateType'
    BY <1>2, <2>0 DEF CopyEnds, UpdateInv, UpdateType, UpdateStates
  <2>2. ASSUME ~overlap' PROVE Alone'
    <3>1. Alone /\ u \in AtNew /\ AtNew' = AtNew
      BY <1>2, <2>2 DEF CopyEnds, UpdateInv, UpdateType, AtNew
    <3>2. fd[u] \in Files /\ fd[u] = dest /\ owed[fd[u]] = {u}
      BY <1>2, <2>0, <3>1 DEF CopyEnds, Alone
    <3>3. owed'[fd[u]] = {} /\ owed'[exe] = {}
      BY <1>2, <3>1, <3>2 DEF CopyEnds, UpdateInv, UpdateType, Alone, Whole
    <3>4. \A v \in Updaters : upd'[v] \in {"copying", "copied"} => v = u /\ upd'[v] = "copied"
      BY <1>2, <3>1 DEF CopyEnds, UpdateInv, UpdateType, Alone, AtNew
    <3> QED
      BY <1>2, <3>1, <3>3, <3>4 DEF CopyEnds, Alone, Whole
  <2> QED
    BY <2>1, <2>2 DEF UpdateInv
<1>3. CASE CopyFails(u) \/ Rename(u) \/ RenameFails(u)
  <2>1. UpdateType'
    BY <1>3 DEF CopyFails, Rename, RenameFails, UpdateInv, UpdateType, UpdateStates
  <2>2. ASSUME ~overlap' PROVE Alone'
    <3>1. Alone /\ u \in AtNew
      BY <1>3, <2>2 DEF CopyFails, Rename, RenameFails, UpdateInv, UpdateType, AtNew
    <3>2. AtNew' = {}
      BY <1>3, <3>1 DEF CopyFails, Rename, RenameFails, UpdateInv, UpdateType, Alone, AtNew
    <3>3. dest' # exe' /\ owed'[exe'] = {}
      BY <1>3, <3>1, NoneNoFile DEF CopyFails, Rename, RenameFails, UpdateInv, UpdateType, Alone, Whole
    <3> QED
      BY <3>2, <3>3 DEF Alone, AtNew, Whole
  <2> QED
    BY <2>1, <2>2 DEF UpdateInv
<1> QED
  BY <1>1, <1>2, <1>3 DEF UpdateStep

\* Every step preserves the invariant.
LEMMA NextUpdate == UpdateInv /\ [Next]_vars => UpdateInv'
<1> SUFFICES ASSUME UpdateInv, [Next]_vars PROVE UpdateInv'
  OBVIOUS
<1>1. CASE Killed
  BY <1>1, LifeEndsUpdate DEF Killed
<1>2. CASE Machine
  BY <1>2, UnchangedUpdate DEF Machine, Start, CleanKills, CleanKillFails, CleanTruncates, CleanWrites,
     CleanWriteFails, CleanOnly
<1>3. ASSUME NEW s \in Sessions,
             SessionStep(s) \/ CloseStdin(s) \/ ChildExits(s) \/ \E p \in Pids : Spawn(s, p)
      PROVE  UpdateInv'
  <2>1. UNCHANGED updVars
    BY <1>3 DEF SessionStep, RecordReads, RecordForgets, Reads, RecordWrites, Writes, RecordFails,
         SendTerm, SendKill, SeesExit, CloseOnly, RemoveReads, RemoveWrites, WriteFails,
         CloseStdin, ChildExits, Spawn, Elsewhere
  <2> QED
    BY <2>1, UnchangedUpdate
<1>4. ASSUME NEW u \in Updaters, UpdateStep(u) PROVE UpdateInv'
  BY <1>4, LifeEndsUpdate, CopyStartsUpdate, UpdateStepUpdate DEF Restart
<1>5. ASSUME NEW p \in Pids, OrphanExits(p) \/ StrangerStarts(p) PROVE UpdateInv'
  BY <1>5, UnchangedUpdate DEF OrphanExits, StrangerStarts, Elsewhere
<1>6. CASE UNCHANGED vars
  BY <1>6, UnchangedUpdate DEF vars
<1> QED
  BY <1>1, <1>2, <1>3, <1>4, <1>5, <1>6 DEF Next

\* The inductive invariant on updates.
THEOREM UpdateInvariant == Spec => []UpdateInv
  BY InitUpdate, NextUpdate, PTL DEF Spec

\* For any number of updates, cut off anywhere and followed by others, the
\* executable is never a part of a file, as long as no two of them were at
\* <exe>.new at once (replaceExecutable).
THEOREM ExecutableWhole == Spec => []ExeWhole
<1>1. UpdateInv => ExeWhole
  BY DEF UpdateInv, Alone, ExeWhole
<1> QED
  BY <1>1, UpdateInvariant, PTL

-----------------------------------------------------------------------------
(* Types.                                                                  *)

\* The types that the invariants above do not need.
RestType ==
  /\ ends \in 0..MaxEnds /\ untracked \subseteq Discoveries /\ overlap \in BOOLEAN
  /\ file \in [whole : BOOLEAN, pids : SUBSET Pids]

\* What is written to the pid file is of its type.
LEMMA Records ==
  ASSUME NEW P \in SUBSET Pids, NEW b \in BOOLEAN
  PROVE  [whole |-> b, pids |-> P] \in [whole : BOOLEAN, pids : SUBSET Pids]
OBVIOUS

\* Every step keeps them.
LEMMA NextRest == PidInv /\ RestType /\ [Next]_vars => RestType'
<1> SUFFICES ASSUME PidInv, RestType, [Next]_vars PROVE RestType'
  OBVIOUS
<1>f. file \in [whole : BOOLEAN, pids : SUBSET Pids]
  BY DEF RestType
<1> USE ProcessAssumption DEF RestType
<1>0. ASSUME UNCHANGED <<ends, untracked, overlap, file>> PROVE RestType'
  BY <1>0
<1>1. ASSUME LifeEnds PROVE RestType'
  BY <1>1 DEF LifeEnds
<1>2. CASE Machine
  <2>1. UNCHANGED <<ends, untracked, overlap>>
    BY <1>2 DEF Machine, Start, CleanKills, CleanKillFails, CleanTruncates, CleanWrites, CleanWriteFails,
         CleanOnly, sesVars, updVars
  <2>2. file' = file \/ file' = [whole |-> FALSE, pids |-> {}] \/ file' = [whole |-> TRUE, pids |-> {}]
    BY <1>2 DEF Machine, Start, CleanKills, CleanKillFails, CleanTruncates, CleanWrites, CleanWriteFails,
         fileVars
  <2>3. file' \in [whole : BOOLEAN, pids : SUBSET Pids]
    BY <1>f, <2>2, Records
  <2> QED
    BY <2>1, <2>3
<1>3. ASSUME NEW s \in Sessions,
             SessionStep(s) \/ CloseStdin(s) \/ ChildExits(s) \/ \E p \in Pids : Spawn(s, p)
      PROVE  RestType'
  <2> USE DEF SessionStep, RecordReads, RecordForgets, Reads, RecordWrites, Writes, RecordFails,
              SendTerm, SendKill, SeesExit, CloseOnly, RemoveReads, RemoveWrites, WriteFails,
              CloseStdin, ChildExits, Spawn, Elsewhere
  <2>1. UNCHANGED <<ends, untracked, overlap>>
    BY <1>3 DEF sesVars, updVars
  <2>2. file' = file \/ file' = [whole |-> FALSE, pids |-> {}] \/ file' = [whole |-> TRUE, pids |-> mem[s]]
    BY <1>3 DEF fileVars
  <2>3. mem[s] \in SUBSET Pids
    BY DEF PidInv, PidType
  <2>4. file' \in [whole : BOOLEAN, pids : SUBSET Pids]
    BY <1>f, <2>2, <2>3, Records
  <2> QED
    BY <2>1, <2>4
<1>4. ASSUME NEW u \in Updaters, UpdateStep(u) PROVE RestType'
  <2>1. CASE CopyStarts(u)
    <3>1. UNCHANGED <<ends, untracked, file>>
      BY <2>1 DEF CopyStarts, UpdateOnly, sesVars, fileVars
    <3>2. overlap' \in BOOLEAN
      BY <2>1 DEF CopyStarts
    <3> QED
      BY <3>1, <3>2
  <2>2. CASE ~CopyStarts(u) /\ ~Restart(u)
    BY <1>0, <1>4, <2>2 DEF UpdateStep, Fetch, FetchFails, CopyEnds, CopyFails, Rename, RenameFails,
         RestartFails, FilesStay, UpdateOnly, sesVars, fileVars
  <2> QED
    BY <1>1, <2>1, <2>2 DEF Restart
<1>5. ASSUME NEW p \in Pids, OrphanExits(p) \/ StrangerStarts(p) PROVE RestType'
  BY <1>0, <1>5 DEF OrphanExits, StrangerStarts, Elsewhere, sesVars, fileVars, updVars
<1>6. CASE UNCHANGED vars
  BY <1>0, <1>6 DEF vars, sesVars, fileVars, updVars
<1> QED
  BY <1>1, <1>2, <1>3, <1>4, <1>5, <1>6 DEF Next, Killed

\* Every variable keeps its type; <exe> is always some file, whatever an
\* update leaves behind (replaceExecutable).
THEOREM ProcessTypeCorrect == Spec => []TypeOK
<1>1. Init => RestType
  <2> SUFFICES ASSUME Init PROVE RestType
    OBVIOUS
  <2>1. ends \in 0..MaxEnds /\ untracked \subseteq Discoveries
    BY ProcessAssumption DEF Init
  <2>2. file \in [whole : BOOLEAN, pids : SUBSET Pids]
    BY DEF Init
  <2>3. overlap \in BOOLEAN
    BY DEF Init
  <2> QED
    BY <2>1, <2>2, <2>3 DEF RestType
<1>2. PidInv /\ UpdateInv /\ RestType => TypeOK
  BY DEF PidInv, PidType, SessionStates, UpdateInv, UpdateType, UpdateStates, RestType, TypeOK
<1> QED
  BY <1>1, <1>2, NextRest, PidInvariant, UpdateInvariant, PTL DEF Spec
=============================================================================
