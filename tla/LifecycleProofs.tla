--------------------------- MODULE LifecycleProofs ---------------------------
(***************************************************************************)
(* Proofs about Lifecycle, for any number of processes: when a command     *)
(* starts only after the one before has ended and its daemon has the lock  *)
(* or has given up (Orderly), the files in .opbox exclude a second writer, *)
(* whichever processes die where.                                          *)
(***************************************************************************)
EXTENDS Lifecycle, TLAPS

ProcType ==
    [is : {"free", "client", "daemon", "gone"}, pc : ClientPcs \cup DaemonPcs \cup {"none"},
     ctl : ControlPcs \cup {"none"}, cmd : Commands \cup {"none"}, peer : 0 .. MaxProcs,
     build : {"same", "old"}, late : SUBSET Procs]

\* Where the main task of a daemon with a control task is.
ActingPcs == {"running", "closing", "dropPid", "dropLock", "exit"}

\* Of all processes only i has changed.
Only(i) == \A j \in Procs : j # i => proc'[j] = proc[j]

FileTypes ==
    /\ dir \in BOOLEAN /\ db \in BOOLEAN /\ link \in BOOLEAN
    /\ lock \in [by : 0 .. MaxProcs, pid : 0 .. MaxProcs]
    /\ pid \in 0 .. MaxProcs /\ sock \in 0 .. MaxProcs
-----------------------------------------------------------------------------
(* What the steps do to the processes.                                     *)

\* The type invariant in two parts.
LEMMA TypeParts ==
    /\ TypeOK <=> FileTypes /\ proc \in [Procs -> ProcType]
    /\ TypeOK' <=> FileTypes' /\ proc' \in [Procs -> ProcType]
    /\ MaxProcs \in Nat /\ \A i \in Procs : i \in 0 .. MaxProcs /\ i # 0
BY LifecycleAssumption DEF TypeOK, FileTypes, ProcType, Procs

\* A process that does not run.
LEMMA Idle ==
    /\ Free \in ProcType /\ Gone \in ProcType
    /\ Free.is = "free" /\ Gone.is = "gone" /\ Free.cmd = "none" /\ Free.peer = 0
    /\ Free.ctl = "none"
<1>0. 0 \in 0 .. MaxProcs
  BY LifecycleAssumption
<1>1. Free.is = "free" /\ Free.cmd = "none" /\ Free.peer = 0 /\ Free.ctl = "none"
  BY DEF Free
<1>2. Gone.is = "gone"
  BY DEF Free, Gone
<1>3. Free \in ProcType
  BY <1>0 DEF Free, ProcType
<1>4. Gone \in ProcType
  BY <1>0 DEF Free, Gone, ProcType
<1> QED  BY <1>1, <1>2, <1>3, <1>4

\* The process goes on somewhere else.
LEMMA GotoIs ==
    ASSUME proc \in [Procs -> ProcType], NEW i \in Procs, NEW pc \in ClientPcs \cup DaemonPcs,
           proc' = Goto(i, pc)
    PROVE  /\ proc' \in [Procs -> ProcType] /\ Only(i)
           /\ proc'[i].pc = pc /\ proc'[i].is = proc[i].is /\ proc'[i].cmd = proc[i].cmd
           /\ proc'[i].peer = proc[i].peer /\ proc'[i].ctl = proc[i].ctl
           /\ proc'[i].late = proc[i].late
<1>1. proc'[i] = [proc[i] EXCEPT !.pc = pc] /\ proc[i] \in ProcType
  BY DEF Goto
<1>2. proc'[i] \in ProcType /\ proc'[i].pc = pc /\ proc'[i].is = proc[i].is
      /\ proc'[i].cmd = proc[i].cmd /\ proc'[i].peer = proc[i].peer
      /\ proc'[i].ctl = proc[i].ctl /\ proc'[i].late = proc[i].late
  BY <1>1 DEF ProcType
<1>3. Only(i)
  BY DEF Goto, Only
<1>4. proc' \in [Procs -> ProcType]
  BY <1>2 DEF Goto
<1> QED  BY <1>2, <1>3, <1>4

\* The control task goes on, or ends.
LEMMA TurnIs ==
    ASSUME proc \in [Procs -> ProcType], NEW i \in Procs, NEW ctl \in ControlPcs \cup {"none"},
           proc' = Turn(i, ctl)
    PROVE  /\ proc' \in [Procs -> ProcType] /\ Only(i) /\ proc'[i].ctl = ctl
           /\ proc'[i].pc = proc[i].pc /\ proc'[i].is = proc[i].is
           /\ proc'[i].late = proc[i].late
<1>1. proc'[i] = [proc[i] EXCEPT !.ctl = ctl] /\ proc[i] \in ProcType
  BY DEF Turn
<1>2. proc'[i] \in ProcType /\ proc'[i].ctl = ctl /\ proc'[i].pc = proc[i].pc
      /\ proc'[i].is = proc[i].is /\ proc'[i].late = proc[i].late
  BY <1>1 DEF ProcType
<1>3. Only(i)
  BY DEF Turn, Only
<1>4. proc' \in [Procs -> ProcType]
  BY <1>2 DEF Turn
<1> QED  BY <1>2, <1>3, <1>4

\* The process is over.
LEMMA EndIs ==
    ASSUME proc \in [Procs -> ProcType], NEW i \in Procs, proc' = End(i)
    PROVE  proc' \in [Procs -> ProcType] /\ Only(i) /\ proc'[i] = Gone
BY Idle DEF End, Only

\* Where a request without an answer leads.
LEMMA NoAnswerIs ==
    ASSUME NEW i \in Procs, proc' = NoAnswer(i)
    PROVE  \/ proc[i].cmd = "start" /\ proc[i].peer = 0 /\ proc' = Goto(i, "spawn")
           \/ proc[i].cmd = "start" /\ proc[i].peer # 0 /\ proc' = Goto(i, "tick")
           \/ proc[i].cmd = "stop" /\ proc[i].peer # 0 /\ proc' = Goto(i, "rmPid")
           \/ proc' = End(i)
<1>1. CASE proc[i].cmd = "start" /\ proc[i].peer = 0
  BY <1>1 DEF NoAnswer
<1>2. CASE proc[i].cmd = "start" /\ proc[i].peer # 0
  BY <1>2 DEF NoAnswer
<1>3. CASE proc[i].cmd = "stop" /\ proc[i].peer # 0
  BY <1>3 DEF NoAnswer
<1>4. CASE /\ ~(proc[i].cmd = "start" /\ proc[i].peer = 0)
           /\ ~(proc[i].cmd = "start" /\ proc[i].peer # 0)
           /\ ~(proc[i].cmd = "stop" /\ proc[i].peer # 0)
  BY <1>4 DEF NoAnswer
<1> QED  BY <1>1, <1>2, <1>3, <1>4
-----------------------------------------------------------------------------
(* Steps by their kind.                                                    *)

\* Socket and link stay as the daemons need them, or are removed, when no control
\* task moves and nobody new takes the lock.
LEMMA FilesKept ==
    ASSUME CommandInv, FilesInv,
           \A j \in Procs : IsDaemon(j)' =>
              \/ proc'[j].pc = "create" /\ proc'[j].ctl = "none"
              \/ /\ IsDaemon(j) /\ proc'[j].ctl = proc[j].ctl /\ proc'[j].late = proc[j].late
                 /\ proc'[j].pc = "running" => proc[j].pc = "running"
                 /\ proc'[j].pc \in HoldingPcs \cup {"stamp"}
                    => proc[j].pc \in HoldingPcs \cup {"stamp"},
           \A j \in Procs : Holding(j)' /\ proc'[j].pc \notin {"pidfile", "dropLock"} => pid' = j,
           sock' = sock \/ sock' = 0, link' = link \/ ~link'
    PROVE  FilesInv'
<1>1. ASSUME NEW j \in Procs, Holding(j)' \/ (IsDaemon(j)' /\ At(j, "stamp")')
      PROVE  /\ Holding(j) \/ (IsDaemon(j) /\ At(j, "stamp"))
             /\ proc'[j].ctl = proc[j].ctl /\ proc'[j].late = proc[j].late
  BY <1>1 DEF Holding, At, HoldingPcs
<1>2. ASSUME NEW j \in Procs, Opening(j)' PROVE Opening(j)
  BY <1>2 DEF Opening
<1>3. ASSUME NEW j \in Procs, NEW ctl \in ControlPcs, Holding(j)', Control(j, ctl)'
      PROVE  Holding(j) /\ Control(j, ctl) /\ proc'[j].late = proc[j].late
  <2>1. /\ Holding(j) \/ (IsDaemon(j) /\ At(j, "stamp"))
        /\ proc'[j].ctl = proc[j].ctl /\ proc'[j].late = proc[j].late
    BY <1>1, <1>3
  <2>2. IsDaemon(j) /\ proc[j].ctl = ctl /\ ctl # "none"
    BY <1>3, <2>1 DEF Control, ControlPcs, Holding
  <2>3. proc[j].pc # "stamp"
    BY <2>2 DEF CommandInv
  <2> QED  BY <2>1, <2>2, <2>3 DEF Control, At
<1>4. \A i, j \in Procs :
          (Holding(i) \/ (IsDaemon(i) /\ At(i, "stamp")))' /\ Opening(j)' /\ i # j
          => j \in proc'[i].late
  BY <1>1, <1>2 DEF FilesInv
<1>5. \A i \in Procs :
          Holding(i)' /\ Control(i, "bind")' => sock' = 0 \/ sock' \in proc'[i].late
  BY <1>3 DEF FilesInv, ControlPcs
<1>6. \A i \in Procs : Holding(i)' /\ Control(i, "link")' /\ link' => proc'[i].late # {}
  BY <1>3 DEF FilesInv, ControlPcs
<1>7. StartsCleanly'
  BY DEF FilesInv, StartsCleanly, At
<1> QED  BY <1>4, <1>5, <1>6, <1>7 DEF FilesInv

\* Processes that end take nothing with them.
LEMMA Fades ==
    ASSUME LifecycleInv, UNCHANGED files, proc' \in [Procs -> ProcType],
           \A j \in Procs : proc'[j] = proc[j] \/ proc'[j] = Gone
    PROVE  LifecycleInv'
<1>1. UNCHANGED <<dir, db, lock, pid, link, sock>>
  BY DEF files
<1>2. \A j \in Procs :
          /\ IsClient(j)' => IsClient(j) /\ proc'[j] = proc[j]
          /\ IsDaemon(j)' => IsDaemon(j) /\ proc'[j] = proc[j]
  BY Idle DEF IsClient, IsDaemon
<1>3. \A j \in Procs : /\ Acquiring(j)' => Acquiring(j)
                       /\ Holding(j)' => Holding(j) /\ proc'[j] = proc[j]
  BY <1>2 DEF Acquiring, Holding
<1>4. TypeOK'
  <2>1. FileTypes
    BY TypeParts DEF LifecycleInv
  <2>2. FileTypes'
    BY <1>1, <2>1 DEF FileTypes
  <2> QED  BY <2>2, TypeParts
<1>5. CommandInv'
  BY <1>2, <1>3 DEF LifecycleInv, CommandInv, At
<1>6. DatabaseInv'
  BY <1>1, <1>2 DEF LifecycleInv, DatabaseInv, At
<1>7. LockInv'
  BY <1>1, <1>2, <1>3 DEF LifecycleInv, LockInv, At
<1>8. FilesInv'
  BY <1>1, <1>2, <1>3, FilesKept DEF LifecycleInv, FilesInv, At
<1> QED  BY <1>4, <1>5, <1>6, <1>7, <1>8 DEF LifecycleInv

\* What the others are does not change.
LEMMA Others ==
    ASSUME NEW i, Only(i)
    PROVE  \A j \in Procs : j # i =>
              /\ proc'[j] = proc[j] /\ (IsDaemon(j)' <=> IsDaemon(j)) /\ (IsClient(j)' <=> IsClient(j))
              /\ (Holding(j)' <=> Holding(j)) /\ (Acquiring(j)' <=> Acquiring(j))
              /\ (Opening(j)' <=> Opening(j))
BY DEF Only, IsDaemon, IsClient, Holding, Acquiring, Opening

\* A daemon that goes on meets the same commands, and the same database.
LEMMA DaemonMoves ==
    ASSUME LifecycleInv, NEW i \in Procs, IsDaemon(i), Only(i), UNCHANGED <<dir, db>>,
           proc'[i].is = "daemon", proc'[i].pc \in DaemonPcs, Acquiring(i)' => Acquiring(i),
           proc'[i].ctl # "none" => proc'[i].pc \in ActingPcs
    PROVE  CommandInv' /\ DatabaseInv'
<1>1. \A j \in Procs :
          /\ IsClient(j)' => IsClient(j) /\ proc'[j] = proc[j]
          /\ IsDaemon(j)' => IsDaemon(j) /\ (j # i => proc'[j] = proc[j])
  BY DEF IsClient, IsDaemon, Only
<1>2. \A j \in Procs : Acquiring(j)' => Acquiring(j)
  BY <1>1 DEF Acquiring
<1>3. CommandInv'
  BY <1>1, <1>2 DEF LifecycleInv, CommandInv, At, ActingPcs
<1>4. DatabaseInv'
  BY <1>1 DEF LifecycleInv, DatabaseInv, At
<1> QED  BY <1>3, <1>4

\* A daemon that keeps what it has of the lock.
LEMMA LockStays ==
    ASSUME LifecycleInv, NEW i \in Procs, IsDaemon(i), Only(i), lock' = lock,
           proc'[i].is = "daemon", proc'[i].pc \notin {"stamp", "unlink"},
           Holding(i)' => Holding(i)
    PROVE  LockInv'
<1>1. \A j \in Procs :
          /\ IsClient(j)' => IsClient(j) /\ proc'[j] = proc[j]
          /\ IsDaemon(j)' => IsDaemon(j) /\ (j # i => proc'[j] = proc[j])
  BY DEF IsClient, IsDaemon, Only
<1>2. \A j \in Procs : Holding(j)' => Holding(j)
  BY <1>1 DEF Holding
<1> QED  BY <1>1, <1>2 DEF LifecycleInv, LockInv, At

\* The daemon with the lock is the only one.
LEMMA OneHolder ==
    ASSUME LifecycleInv, NEW i \in Procs, NEW j \in Procs, Holding(i), Holding(j)
    PROVE  i = j
<1>1. lock = [by |-> i, pid |-> i] /\ lock = [by |-> j, pid |-> j]
  BY DEF LifecycleInv, LockInv
<1>2. lock.by = i /\ lock.by = j
  BY <1>1
<1> QED  BY <1>2

\* Nobody is about to stamp a lock that is held.
LEMMA NotBoth ==
    ASSUME LifecycleInv, NEW i \in Procs, NEW j \in Procs, Holding(i), IsDaemon(j), At(j, "stamp")
    PROVE  FALSE
<1>1. lock = [by |-> i, pid |-> i] /\ lock = [by |-> j, pid |-> 0] /\ i # 0
  BY TypeParts DEF LifecycleInv, LockInv
<1>2. lock.pid = i /\ lock.pid = 0
  BY <1>1
<1> QED  BY <1>1, <1>2

\* Nobody holds a lock that is not there, or that no living process has stamped.
LEMMA NoHolder ==
    ASSUME LifecycleInv, NEW j \in Procs, ~LockHeld \/ lock.pid = 0
    PROVE  ~Holding(j)
<1> SUFFICES ASSUME Holding(j) PROVE FALSE
  OBVIOUS
<1>1. lock.pid = j /\ j # 0
  BY TypeParts DEF LifecycleInv, LockInv
<1>2. Alive(j)
  BY DEF Holding, IsDaemon, Alive
<1> QED  BY <1>1, <1>2 DEF LockHeld

\* A lock file that is not there has no pid in it.
LEMMA NoLockPid == NoLock.pid = 0 /\ NoLock \in [by : 0 .. MaxProcs, pid : 0 .. MaxProcs]
BY LifecycleAssumption DEF NoLock
-----------------------------------------------------------------------------
(* The daemon's steps.                                                     *)

\* A daemon looks for the lock: it creates the file, or finds one.
LEMMA CreateLockInv ==
    ASSUME LifecycleInv, NEW i \in Procs, CreateLock(i)
    PROVE  LifecycleInv'
<1>0. FileTypes /\ proc \in [Procs -> ProcType]
  BY TypeParts DEF LifecycleInv
<1>1. IsDaemon(i) /\ At(i, "create") /\ Acquiring(i) /\ UNCHANGED <<dir, db, pid, link, sock>>
  BY DEF CreateLock, Acquiring, At
<1>2. proc[i].is = "daemon" /\ proc[i].ctl = "none" /\ proc[i] \in ProcType
  BY <1>0, <1>1 DEF LifecycleInv, CommandInv, IsDaemon, At
<1>3. /\ proc' \in [Procs -> ProcType] /\ Only(i) /\ proc'[i].pc \in {"stamp", "peek"}
      /\ proc'[i].is = "daemon" /\ proc'[i].ctl = "none"
      /\ lock = NoLock => /\ proc'[i].pc = "stamp"
                          /\ proc'[i].late = {j \in Procs : Opening(j)}
      /\ lock # NoLock => /\ proc'[i].pc = "peek" /\ proc'[i].late = proc[i].late
  <2>1. CASE lock = NoLock
    <3> DEFINE L == {j \in Procs : Opening(j)}
    <3>1. L \in SUBSET Procs
      OBVIOUS
    <3> HIDE DEF L
    <3>2. proc' = [proc EXCEPT ![i].pc = "stamp", ![i].late = L]
      BY <2>1 DEF CreateLock, Created, L
    <3>3. proc'[i] = [proc[i] EXCEPT !.pc = "stamp", !.late = L] /\ Only(i)
      BY <1>0, <3>2 DEF Only
    <3>4. /\ proc'[i] \in ProcType /\ proc'[i].pc = "stamp" /\ proc'[i].is = "daemon"
          /\ proc'[i].ctl = "none" /\ proc'[i].late = L
      BY <1>2, <3>1, <3>3 DEF ProcType, DaemonPcs
    <3>5. proc' \in [Procs -> ProcType]
      BY <1>0, <3>2, <3>4
    <3> QED  BY <2>1, <3>3, <3>4, <3>5 DEF L
  <2>2. CASE lock # NoLock
    <3>1. proc' = Goto(i, "peek")
      BY <2>2 DEF CreateLock
    <3> QED  BY <1>0, <1>2, <2>2, <3>1, GotoIs DEF DaemonPcs
  <2> QED  BY <2>1, <2>2
<1>4. CommandInv' /\ DatabaseInv'
  BY <1>1, <1>3, DaemonMoves DEF DaemonPcs
<1>5. ~Holding(i)' /\ IsDaemon(i)'
  BY <1>3 DEF Holding, HoldingPcs, IsDaemon
<1>6. \A j \in Procs : j # i =>
          /\ proc'[j] = proc[j] /\ (IsDaemon(j)' <=> IsDaemon(j)) /\ (IsClient(j)' <=> IsClient(j))
          /\ (Holding(j)' <=> Holding(j)) /\ (Acquiring(j)' <=> Acquiring(j))
          /\ (Opening(j)' <=> Opening(j))
  BY <1>3, Others
<1>7. ASSUME lock = NoLock
      PROVE  /\ proc'[i].pc = "stamp" /\ \A j \in Procs : ~Holding(j)'
             /\ \A j \in Procs : IsDaemon(j)' /\ proc'[j].pc \in {"stamp", "unlink"} => j = i
  <2>1. \A j \in Procs : ~Holding(j)'
    BY <1>5, <1>6, <1>7, NoHolder, NoLockPid
  <2> QED  BY <1>1, <1>3, <1>6, <1>7, <2>1 DEF LifecycleInv, CommandInv, Acquiring
<1>8. LockInv' /\ lock' \in [by : 0 .. MaxProcs, pid : 0 .. MaxProcs]
  <2>1. CASE lock = NoLock
    <3>1. lock' = [by |-> i, pid |-> 0]
      BY <2>1 DEF CreateLock
    <3>2. LockInv'
      BY <1>7, <2>1, <3>1 DEF LockInv, At
    <3> QED  BY <3>1, <3>2, TypeParts
  <2>2. CASE lock # NoLock
    <3>1. lock' = lock
      BY <2>2 DEF CreateLock
    <3> QED  BY <1>0, <1>1, <1>3, <1>5, <2>2, <3>1, LockStays DEF FileTypes
  <2> QED  BY <2>1, <2>2
<1>9. FilesInv'
  <2>1. CASE lock = NoLock
    <3>1. \A j, k \in Procs :
              (Holding(j) \/ (IsDaemon(j) /\ At(j, "stamp")))' /\ Opening(k)' /\ j # k
              => k \in proc'[j].late
      BY <1>3, <1>6, <1>7, <2>1 DEF At
    <3>2. StartsCleanly'
      BY <1>3, <1>6 DEF LifecycleInv, FilesInv, StartsCleanly, At
    <3> QED  BY <1>7, <2>1, <3>1, <3>2 DEF FilesInv
  <2>2. CASE lock # NoLock
    <3>1. \A j \in Procs : Holding(j)' /\ proc'[j].pc \notin {"pidfile", "dropLock"} => pid' = j
      BY <1>1, <1>5, <1>6 DEF LifecycleInv, FilesInv
    <3>2. proc'[i].pc = "peek" /\ proc'[i].ctl = proc[i].ctl /\ proc'[i].late = proc[i].late
      BY <1>2, <1>3, <2>2
    <3> QED  BY <1>1, <1>6, <3>1, <3>2, FilesKept DEF LifecycleInv, HoldingPcs
  <2> QED  BY <2>1, <2>2
<1>10. FileTypes'
  BY <1>0, <1>1, <1>8 DEF FileTypes
<1> QED  BY <1>3, <1>4, <1>8, <1>9, <1>10, TypeParts DEF LifecycleInv

\* The pid is written into the lock file: the daemon holds the lock.
LEMMA StampLockInv ==
    ASSUME LifecycleInv, NEW i \in Procs, StampLock(i)
    PROVE  LifecycleInv'
<1>0. FileTypes /\ proc \in [Procs -> ProcType]
  BY TypeParts DEF LifecycleInv
<1>1. IsDaemon(i) /\ At(i, "stamp") /\ Acquiring(i) /\ UNCHANGED <<dir, db, pid, link, sock>>
      /\ proc' = Goto(i, "pidfile")
  BY DEF StampLock, Acquiring, At
<1>2. /\ proc' \in [Procs -> ProcType] /\ Only(i) /\ proc'[i].pc = "pidfile"
      /\ proc'[i].is = "daemon" /\ proc'[i].ctl = "none" /\ proc'[i].late = proc[i].late
      /\ proc[i].ctl = "none"
  <2>1. proc[i].ctl = "none"
    BY <1>1 DEF LifecycleInv, CommandInv, At
  <2> QED  BY <1>0, <1>1, <2>1, GotoIs DEF DaemonPcs, HoldingPcs, IsDaemon
<1>3. CommandInv' /\ DatabaseInv'
  BY <1>1, <1>2, DaemonMoves DEF DaemonPcs, HoldingPcs
<1>4. lock = [by |-> i, pid |-> 0] /\ lock' = [by |-> i, pid |-> i]
  <2>1. lock = [by |-> i, pid |-> 0]
    BY <1>1 DEF LifecycleInv, LockInv
  <2> QED  BY <2>1 DEF StampLock
<1>5. \A j \in Procs : ~Holding(j)
  BY <1>4, NoHolder
<1>6. \A j \in Procs : j # i =>
          /\ proc'[j] = proc[j] /\ (IsDaemon(j)' <=> IsDaemon(j)) /\ (IsClient(j)' <=> IsClient(j))
          /\ (Holding(j)' <=> Holding(j)) /\ (Acquiring(j)' <=> Acquiring(j))
  BY <1>2, Others
<1>7. \A j \in Procs : IsDaemon(j)' => proc'[j].pc \notin {"stamp", "unlink"}
  BY <1>1, <1>2, <1>6 DEF LifecycleInv, CommandInv, Acquiring
<1>8. ~IsClient(i)' /\ \A j \in Procs : IsClient(j)' => proc'[j].cmd # "stop"
  BY <1>1, <1>2, <1>6 DEF LifecycleInv, CommandInv, IsClient
<1>9. \A j \in Procs : Holding(j)' => j = i
  BY <1>5, <1>6
<1>10. LockInv'
  BY <1>4, <1>7, <1>8, <1>9 DEF LockInv, At
<1>11. FilesInv'
  <2>1. \A j \in Procs : Holding(j)' /\ proc'[j].pc \notin {"pidfile", "dropLock"} => pid' = j
    BY <1>2, <1>9
  <2>2. proc[i].pc = "stamp"
    BY <1>1 DEF At
  <2> QED  BY <1>1, <1>2, <1>6, <2>1, <2>2, FilesKept DEF LifecycleInv, HoldingPcs
<1>12. FileTypes'
  BY <1>0, <1>1, <1>4, TypeParts DEF FileTypes
<1> QED  BY <1>2, <1>3, <1>10, <1>11, <1>12, TypeParts DEF LifecycleInv

\* The daemon reads whose lock it is.
LEMMA PeekLockInv ==
    ASSUME LifecycleInv, NEW i \in Procs, PeekLock(i)
    PROVE  LifecycleInv'
<1>0. FileTypes /\ proc \in [Procs -> ProcType]
  BY TypeParts DEF LifecycleInv
<1>1. IsDaemon(i) /\ At(i, "peek") /\ Acquiring(i) /\ UNCHANGED files
      /\ UNCHANGED <<dir, db, lock, pid, link, sock>>
  BY DEF PeekLock, Acquiring, At, files
<1>2. CASE LockHeld
  <2>1. proc' = End(i)
    BY <1>2 DEF PeekLock
  <2> QED  BY <1>0, <1>1, <2>1, EndIs, Fades DEF Only
<1>3. CASE ~LockHeld
  <2>1. proc' = Goto(i, "unlink")
    BY <1>3 DEF PeekLock
  <2>2. /\ proc' \in [Procs -> ProcType] /\ Only(i) /\ proc'[i].pc = "unlink"
        /\ proc'[i].is = "daemon" /\ proc'[i].ctl = "none" /\ proc'[i].late = proc[i].late
        /\ proc[i].ctl = "none"
    <3>1. proc[i].ctl = "none"
      BY <1>1 DEF LifecycleInv, CommandInv, At
    <3> QED  BY <1>0, <1>1, <2>1, <3>1, GotoIs DEF DaemonPcs, IsDaemon
  <2>3. CommandInv' /\ DatabaseInv'
    BY <1>1, <2>2, DaemonMoves DEF DaemonPcs
  <2>4. \A j \in Procs : ~Holding(j)
    BY <1>3, NoHolder
  <2>5. ~Holding(i)' /\ ~IsClient(i)' /\ IsDaemon(i)'
    BY <2>2 DEF Holding, HoldingPcs, IsClient, IsDaemon
  <2>6. \A j \in Procs : j # i =>
          /\ proc'[j] = proc[j] /\ (IsDaemon(j)' <=> IsDaemon(j)) /\ (IsClient(j)' <=> IsClient(j))
          /\ (Holding(j)' <=> Holding(j)) /\ (Acquiring(j)' <=> Acquiring(j))
    BY <2>2, Others
  <2>7. LockInv'
    BY <1>1, <2>2, <2>4, <2>5, <2>6 DEF LifecycleInv, LockInv, At
  <2>8. FilesInv'
    <3>1. \A j \in Procs : ~Holding(j)'
      BY <2>4, <2>5, <2>6
    <3> QED  BY <1>1, <2>2, <2>6, <3>1, FilesKept DEF LifecycleInv, HoldingPcs
  <2>9. FileTypes'
    BY <1>0, <1>1 DEF FileTypes
  <2> QED  BY <2>2, <2>3, <2>7, <2>8, <2>9, TypeParts DEF LifecycleInv
<1> QED  BY <1>2, <1>3

\* The stale lock file is removed when nobody holds the lock.
LEMMA UnlinkLockInv ==
    ASSUME LifecycleInv, NEW i \in Procs, UnlinkLock(i)
    PROVE  LifecycleInv'
<1>0. FileTypes /\ proc \in [Procs -> ProcType]
  BY TypeParts DEF LifecycleInv
<1>1. IsDaemon(i) /\ At(i, "unlink") /\ Acquiring(i) /\ UNCHANGED <<dir, db, pid, link, sock>>
      /\ lock' = NoLock
  BY DEF UnlinkLock, Acquiring, At
<1>2. CASE lock = NoLock
  <2>1. proc' = End(i) /\ UNCHANGED files
    BY <1>1, <1>2 DEF UnlinkLock, files
  <2> QED  BY <1>0, <2>1, EndIs, Fades DEF Only
<1>3. CASE lock # NoLock
  <2>1. proc' = Goto(i, "create")
    BY <1>3 DEF UnlinkLock
  <2>2. /\ proc' \in [Procs -> ProcType] /\ Only(i) /\ proc'[i].pc = "create"
        /\ proc'[i].is = "daemon" /\ proc'[i].ctl = "none" /\ proc'[i].late = proc[i].late
        /\ proc[i].ctl = "none"
    <3>1. proc[i].ctl = "none"
      BY <1>1 DEF LifecycleInv, CommandInv, At
    <3> QED  BY <1>0, <1>1, <2>1, <3>1, GotoIs DEF DaemonPcs, IsDaemon
  <2>3. CommandInv' /\ DatabaseInv'
    BY <1>1, <2>2, DaemonMoves DEF DaemonPcs
  <2>4. \A j \in Procs : ~Holding(j)
    BY <1>1 DEF LifecycleInv, LockInv
  <2>5. ~Holding(i)' /\ ~IsClient(i)' /\ IsDaemon(i)'
    BY <2>2 DEF Holding, HoldingPcs, IsClient, IsDaemon
  <2>6. \A j \in Procs : j # i =>
          /\ proc'[j] = proc[j] /\ (IsDaemon(j)' <=> IsDaemon(j)) /\ (IsClient(j)' <=> IsClient(j))
          /\ (Holding(j)' <=> Holding(j)) /\ (Acquiring(j)' <=> Acquiring(j))
    BY <2>2, Others
  <2>7. \A j \in Procs : IsDaemon(j)' => proc'[j].pc \notin {"stamp", "unlink"}
    BY <1>1, <2>2, <2>6 DEF LifecycleInv, CommandInv, Acquiring
  <2>8. LockInv'
    BY <2>4, <2>5, <2>6, <2>7 DEF LockInv, At
  <2>9. FilesInv'
    <3>1. \A j \in Procs : ~Holding(j)'
      BY <2>4, <2>5, <2>6
    <3> QED  BY <1>1, <2>2, <2>6, <3>1, FilesKept DEF LifecycleInv, HoldingPcs
  <2>10. FileTypes'
    BY <1>0, <1>1, NoLockPid DEF FileTypes
  <2> QED  BY <2>2, <2>3, <2>8, <2>9, <2>10, TypeParts DEF LifecycleInv
<1> QED  BY <1>2, <1>3

\* A daemon that holds the lock goes on, with its control task as it is; it may
\* change the pid file.
LEMMA HolderInv ==
    ASSUME LifecycleInv, NEW i \in Procs, Holding(i), NEW pc \in HoldingPcs,
           proc' = Goto(i, pc), UNCHANGED <<dir, db, lock, link, sock>>,
           proc[i].ctl = "none" \/ pc \in ActingPcs, pc # "running",
           pid' \in 0 .. MaxProcs, pc \notin {"pidfile", "dropLock"} => pid' = i
    PROVE  LifecycleInv'
<1>0. FileTypes /\ proc \in [Procs -> ProcType]
  BY TypeParts DEF LifecycleInv
<1>1. /\ proc' \in [Procs -> ProcType] /\ Only(i) /\ proc'[i].is = "daemon" /\ proc'[i].pc = pc
      /\ proc'[i].ctl = proc[i].ctl /\ proc'[i].late = proc[i].late /\ IsDaemon(i)
      /\ proc[i].pc \in HoldingPcs
  BY <1>0, GotoIs DEF DaemonPcs, Holding, IsDaemon
<1>2. ~Acquiring(i)' /\ pc \in DaemonPcs /\ pc \notin {"stamp", "unlink"}
  BY <1>1 DEF Acquiring, HoldingPcs, DaemonPcs
<1>3. CommandInv' /\ DatabaseInv'
  BY <1>1, <1>2, DaemonMoves
<1>4. LockInv'
  BY <1>1, <1>2, LockStays
<1>5. \A j \in Procs : j # i =>
          /\ proc'[j] = proc[j] /\ (IsDaemon(j)' <=> IsDaemon(j)) /\ (IsClient(j)' <=> IsClient(j))
          /\ (Holding(j)' <=> Holding(j)) /\ (Acquiring(j)' <=> Acquiring(j))
          /\ (Opening(j)' <=> Opening(j))
  BY <1>1, Others
<1>6. \A j \in Procs : Holding(j)' /\ proc'[j].pc \notin {"pidfile", "dropLock"} => pid' = j
  BY <1>1, <1>5, OneHolder
<1>7. FilesInv'
  BY <1>1, <1>5, <1>6, FilesKept DEF LifecycleInv
<1>8. FileTypes'
  BY <1>0 DEF FileTypes
<1> QED  BY <1>1, <1>3, <1>4, <1>7, <1>8, TypeParts DEF LifecycleInv

\* From the pid file to its removal.
LEMMA ServeInv ==
    ASSUME LifecycleInv, NEW i \in Procs,
           \/ WritePid(i) \/ (Load(i) /\ proc' = Goto(i, "dropPid"))
           \/ Close(i) \/ ControlFailed(i) \/ ShutDown(i) \/ DropPid(i)
    PROVE  LifecycleInv'
<1>0. /\ FileTypes /\ i \in 0 .. MaxProcs /\ 0 \in 0 .. MaxProcs
  BY TypeParts, LifecycleAssumption DEF LifecycleInv
<1>1. /\ UNCHANGED <<dir, db, lock, link, sock>> /\ Holding(i)
      /\ proc[i].pc \notin {"pidfile", "dropLock"} => pid = i
      /\ proc[i].pc \in {"pidfile", "load"} => proc[i].ctl = "none"
  <2>1. UNCHANGED <<dir, db, lock, link, sock>> /\ Holding(i)
    BY DEF WritePid, Load, Close, ControlFailed, ShutDown, DropPid, files, Holding, HoldingPcs, At
  <2>2. IsDaemon(i)
    BY <2>1 DEF Holding
  <2> QED  BY <2>1, <2>2 DEF LifecycleInv, FilesInv, CommandInv
<1>2. CASE WritePid(i)
  <2>1. proc' = Goto(i, "load") /\ pid' = i /\ proc[i].ctl = "none"
    BY <1>1, <1>2 DEF WritePid, At
  <2> QED  BY <1>0, <1>1, <2>1, HolderInv DEF HoldingPcs
<1>3. CASE (Load(i) /\ proc' = Goto(i, "dropPid")) \/ Close(i) \/ ControlFailed(i) \/ ShutDown(i)
  <2>1. PICK pc \in {"dropPid", "closing"} : proc' = Goto(i, pc)
    BY <1>3 DEF Close, ControlFailed, ShutDown
  <2>2. pid = i /\ pid' = pid
    BY <1>1, <1>3 DEF Load, Close, ControlFailed, ShutDown, At, files
  <2> QED  BY <1>0, <1>1, <2>1, <2>2, HolderInv DEF HoldingPcs, ActingPcs
<1>4. CASE DropPid(i)
  <2>1. proc' = Goto(i, "dropLock") /\ pid' = 0
    BY <1>4 DEF DropPid
  <2> QED  BY <1>0, <1>1, <2>1, HolderInv DEF HoldingPcs, ActingPcs
<1> QED  BY <1>2, <1>3, <1>4

\* The control task is spawned by the daemon that holds the lock: nobody else is
\* at the lock who would have to know.
LEMMA LoadInv ==
    ASSUME LifecycleInv, NEW i \in Procs, Load(i)
    PROVE  LifecycleInv'
<1>0. FileTypes /\ proc \in [Procs -> ProcType]
  BY TypeParts DEF LifecycleInv
<1>1. /\ IsDaemon(i) /\ At(i, "load") /\ Holding(i) /\ UNCHANGED <<dir, db, lock, pid, link, sock>>
      /\ proc[i].is = "daemon" /\ proc[i] \in ProcType
  BY <1>0 DEF Load, files, Holding, HoldingPcs, At, IsDaemon
<1>2. CASE proc' = Goto(i, "dropPid")
  BY <1>2, ServeInv
<1>3. CASE proc' = [proc EXCEPT ![i].pc = "running", ![i].ctl = "unsock"]
  <2>1. proc'[i] = [proc[i] EXCEPT !.pc = "running", !.ctl = "unsock"] /\ Only(i)
    BY <1>0, <1>3 DEF Only
  <2>2. /\ proc'[i] \in ProcType /\ proc'[i].is = "daemon" /\ proc'[i].pc = "running"
        /\ proc'[i].ctl = "unsock" /\ proc'[i].late = proc[i].late
    BY <1>1, <2>1 DEF ProcType, DaemonPcs, HoldingPcs, ControlPcs
  <2>3. proc' \in [Procs -> ProcType]
    BY <1>0, <1>3, <2>2
  <2>4. ~Acquiring(i)' /\ Holding(i)' /\ IsDaemon(i)'
    BY <2>2 DEF Acquiring, Holding, HoldingPcs, IsDaemon
  <2>5. CommandInv' /\ DatabaseInv'
    BY <1>1, <2>1, <2>2, <2>4, DaemonMoves DEF DaemonPcs, HoldingPcs, ActingPcs
  <2>6. LockInv'
    BY <1>1, <2>1, <2>2, LockStays
  <2>7. \A j \in Procs : j # i =>
          /\ proc'[j] = proc[j] /\ (IsDaemon(j)' <=> IsDaemon(j)) /\ (IsClient(j)' <=> IsClient(j))
          /\ (Holding(j)' <=> Holding(j)) /\ (Acquiring(j)' <=> Acquiring(j))
          /\ (Opening(j)' <=> Opening(j))
    BY <2>1, Others
  <2>8. ASSUME NEW j \in Procs, Holding(j)' \/ (IsDaemon(j)' /\ At(j, "stamp")')
        PROVE  j = i
    <3>1. CASE Holding(j)'
      BY <1>1, <2>7, <3>1, OneHolder
    <3>2. CASE IsDaemon(j)' /\ At(j, "stamp")'
      BY <1>1, <2>2, <2>7, <3>2, NotBoth DEF At
    <3> QED  BY <2>8, <3>1, <3>2
  <2>9. FilesInv'
    <3>1. \A j \in Procs : Holding(j)' => pid' = j
      BY <1>1, <2>8 DEF LifecycleInv, FilesInv, At
    <3>2. \A j, k \in Procs :
              (Holding(j) \/ (IsDaemon(j) /\ At(j, "stamp")))' /\ Opening(k)' /\ j # k
              => k \in proc'[j].late
      BY <1>1, <2>2, <2>7, <2>8 DEF LifecycleInv, FilesInv
    <3>3. \A j \in Procs : Holding(j)' => proc'[j].ctl \notin {"bind", "link"}
      BY <2>2, <2>8
    <3>4. StartsCleanly'
      BY <2>2, <2>7 DEF LifecycleInv, FilesInv, StartsCleanly, At
    <3> QED  BY <3>1, <3>2, <3>3, <3>4 DEF FilesInv, Control
  <2>10. FileTypes'
    BY <1>0, <1>1 DEF FileTypes
  <2> QED  BY <2>3, <2>5, <2>6, <2>9, <2>10, TypeParts DEF LifecycleInv
<1> QED  BY <1>2, <1>3 DEF Load

\* A step of a control task, whether its daemon still has the lock or not.
LEMMA TurnInv ==
    ASSUME LifecycleInv, NEW i \in Procs, IsDaemon(i), proc[i].ctl # "none",
           NEW ctl \in ControlPcs \cup {"none"}, proc' = Turn(i, ctl),
           UNCHANGED <<dir, db, lock, pid>>, sock' \in 0 .. MaxProcs, link' \in BOOLEAN,
           ctl \in {"bind", "unlinkLink", "link"} => Opening(i), ctl # "unsock",
           \A j \in Procs : Holding(j) /\ (IF j = i THEN ctl ELSE proc[j].ctl) = "bind"
                            => sock' = 0 \/ sock' \in proc[j].late,
           \A j \in Procs : Holding(j) /\ (IF j = i THEN ctl ELSE proc[j].ctl) = "link" /\ link'
                            => proc[j].late # {},
           At(i, "running") /\ ctl = "failed" => proc[i].late # {}
    PROVE  LifecycleInv'
<1>0. FileTypes /\ proc \in [Procs -> ProcType]
  BY TypeParts DEF LifecycleInv
<1>1. /\ proc' \in [Procs -> ProcType] /\ Only(i) /\ proc'[i].ctl = ctl
      /\ proc'[i].pc = proc[i].pc /\ proc'[i].is = "daemon" /\ proc'[i].late = proc[i].late
      /\ proc[i].is = "daemon"
  BY <1>0, TurnIs DEF IsDaemon
<1>2. proc[i].pc \in ActingPcs
  BY DEF LifecycleInv, CommandInv, ActingPcs
<1>3. /\ proc[i].pc \in DaemonPcs /\ proc[i].pc \notin {"stamp", "unlink"} /\ ~Acquiring(i)'
      /\ (Holding(i)' <=> Holding(i)) /\ IsDaemon(i)' /\ (Opening(i)' => Opening(i))
  BY <1>1, <1>2 DEF ActingPcs, DaemonPcs, HoldingPcs, Acquiring, Holding, IsDaemon, Opening
<1>4. CommandInv' /\ DatabaseInv'
  BY <1>1, <1>2, <1>3, DaemonMoves
<1>5. LockInv'
  BY <1>1, <1>3, LockStays
<1>6. \A j \in Procs : j # i =>
          /\ proc'[j] = proc[j] /\ (IsDaemon(j)' <=> IsDaemon(j)) /\ (IsClient(j)' <=> IsClient(j))
          /\ (Holding(j)' <=> Holding(j)) /\ (Acquiring(j)' <=> Acquiring(j))
          /\ (Opening(j)' <=> Opening(j))
  BY <1>1, Others
<1>7. FilesInv'
  <2>1. \A j \in Procs : Holding(j)' /\ proc'[j].pc \notin {"pidfile", "dropLock"} => pid' = j
    BY <1>1, <1>3, <1>6 DEF LifecycleInv, FilesInv
  <2>2. \A j, k \in Procs :
            (Holding(j) \/ (IsDaemon(j) /\ At(j, "stamp")))' /\ Opening(k)' /\ j # k
            => k \in proc'[j].late
    BY <1>1, <1>3, <1>6 DEF LifecycleInv, FilesInv, At
  <2>3. \A j \in Procs : Holding(j)' /\ Control(j, "bind")'
                         => sock' = 0 \/ sock' \in proc'[j].late
    BY <1>1, <1>3, <1>6 DEF Control
  <2>4. \A j \in Procs : Holding(j)' /\ Control(j, "link")' /\ link' => proc'[j].late # {}
    BY <1>1, <1>3, <1>6 DEF Control
  <2>5. StartsCleanly'
    BY <1>1, <1>6 DEF LifecycleInv, FilesInv, StartsCleanly, At
  <2> QED  BY <2>1, <2>2, <2>3, <2>4, <2>5 DEF FilesInv
<1>8. FileTypes'
  BY <1>0 DEF FileTypes
<1> QED  BY <1>1, <1>4, <1>5, <1>7, <1>8, TypeParts DEF LifecycleInv

\* The steps of the control task.  What it does to socket and link of a daemon
\* that has the lock by now, that daemon has it among its late ones.
LEMMA ControlInv ==
    ASSUME LifecycleInv, NEW i \in Procs, ControlStep(i)
    PROVE  LifecycleInv'
<1>0. /\ sock \in 0 .. MaxProcs /\ link \in BOOLEAN /\ i \in 0 .. MaxProcs
      /\ 0 \in 0 .. MaxProcs /\ i # 0
  BY TypeParts, LifecycleAssumption DEF LifecycleInv, FileTypes
<1>1. UNCHANGED <<dir, db, lock, pid>> /\ IsDaemon(i) /\ proc[i].ctl # "none"
  BY DEF ControlStep, RemoveStaleSocket, Bind, UnlinkLink, MakeLink, CancelControl, DropSocket,
         DropLink, Control, files
<1>2. /\ \A j \in Procs : Holding(j) /\ proc[j].ctl = "bind" => sock = 0 \/ sock \in proc[j].late
      /\ \A j \in Procs : Holding(j) /\ proc[j].ctl = "link" /\ link => proc[j].late # {}
      /\ \A j \in Procs : Holding(j) /\ j # i /\ Opening(i) => i \in proc[j].late
  BY DEF LifecycleInv, FilesInv, Control, Holding
<1>3. At(i, "running") => Holding(i)
  BY <1>1 DEF At, Holding, HoldingPcs
<1>4. CASE RemoveStaleSocket(i)
  <2>1. /\ proc' = Turn(i, "bind") /\ sock' = 0 /\ link' = link /\ Opening(i)
    BY <1>4 DEF RemoveStaleSocket, Control, Opening
  <2> QED  BY <1>0, <1>1, <1>2, <2>1, TurnInv DEF ControlPcs
<1>5. CASE Bind(i) /\ sock = 0
  <2>1. proc' = Turn(i, "unlinkLink") /\ sock' = i /\ link' = link /\ Opening(i)
    BY <1>5 DEF Bind, Control, Opening
  <2> QED  BY <1>0, <1>1, <1>2, <2>1, TurnInv DEF ControlPcs
<1>6. CASE Bind(i) /\ sock # 0
  <2>1. proc' = Turn(i, "failed") /\ sock' = sock /\ link' = link /\ proc[i].ctl = "bind"
    BY <1>6 DEF Bind, Control
  <2>2. At(i, "running") => proc[i].late # {}
    BY <1>2, <1>3, <1>6, <2>1
  <2> QED  BY <1>0, <1>1, <1>2, <2>1, <2>2, TurnInv DEF ControlPcs
<1>7. CASE UnlinkLink(i)
  <2>1. proc' = Turn(i, "link") /\ sock' = sock /\ link' = FALSE /\ Opening(i)
    BY <1>7 DEF UnlinkLink, Control, Opening
  <2>2. ~link' /\ link' \in BOOLEAN
    BY <2>1
  <2>3. proc' = Turn(i, "link") /\ sock' = sock /\ Opening(i)
    BY <2>1
  <2> QED  BY <1>0, <1>1, <1>2, <2>2, <2>3, TurnInv DEF ControlPcs
<1>8. CASE MakeLink(i)
  <2>1. PICK ctl \in {"failed", "serving"} :
            proc' = Turn(i, ctl) /\ (ctl = "failed" => link)
    BY <1>8 DEF MakeLink
  <2>2. sock' = sock /\ link' = TRUE /\ Opening(i) /\ proc[i].ctl = "link"
    BY <1>8 DEF MakeLink, Control, Opening
  <2>3. At(i, "running") /\ ctl = "failed" => proc[i].late # {}
    BY <1>2, <1>3, <2>1, <2>2
  <2>4. \A j \in Procs : Holding(j) /\ j # i => proc[j].late # {}
    BY <1>2, <2>2
  <2> QED  BY <1>0, <1>1, <1>2, <2>1, <2>2, <2>3, <2>4, TurnInv DEF ControlPcs
<1>9. CASE CancelControl(i)
  <2>1. proc' = Turn(i, "none") /\ sock' = sock /\ link' = link
    BY <1>9 DEF CancelControl, files
  <2> QED  BY <1>0, <1>1, <1>2, <2>1, TurnInv
<1>10. CASE DropSocket(i)
  <2>1. proc' = Turn(i, "dropLink") /\ sock' = 0 /\ link' = link
    BY <1>10 DEF DropSocket
  <2> QED  BY <1>0, <1>1, <1>2, <2>1, TurnInv DEF ControlPcs
<1>11. CASE DropLink(i)
  <2>1. proc' = Turn(i, "none") /\ sock' = sock /\ link' = FALSE
    BY <1>11 DEF DropLink
  <2>2. ~link' /\ link' \in BOOLEAN
    BY <2>1
  <2>3. proc' = Turn(i, "none") /\ sock' = sock
    BY <2>1
  <2> QED  BY <1>0, <1>1, <1>2, <2>2, <2>3, TurnInv
<1> QED  BY <1>4, <1>5, <1>6, <1>7, <1>8, <1>9, <1>10, <1>11 DEF ControlStep

\* The lock is given back.
LEMMA DropLockInv ==
    ASSUME LifecycleInv, NEW i \in Procs, DropLock(i)
    PROVE  LifecycleInv'
<1>0. FileTypes /\ proc \in [Procs -> ProcType]
  BY TypeParts DEF LifecycleInv
<1>1. /\ IsDaemon(i) /\ At(i, "dropLock") /\ Holding(i) /\ proc' = Goto(i, "exit")
      /\ UNCHANGED <<dir, db, pid, link, sock>>
  BY DEF DropLock, Holding, HoldingPcs, At
<1>2. lock = [by |-> i, pid |-> i] /\ lock.pid = i /\ lock' = NoLock
  <2>1. lock = [by |-> i, pid |-> i]
    BY <1>1 DEF LifecycleInv, LockInv
  <2>2. lock.pid = i
    BY <2>1
  <2> QED  BY <2>1, <2>2 DEF DropLock
<1>3. /\ proc' \in [Procs -> ProcType] /\ Only(i) /\ proc'[i].pc = "exit"
      /\ proc'[i].is = "daemon" /\ proc'[i].ctl = proc[i].ctl
      /\ proc'[i].late = proc[i].late
  BY <1>0, <1>1, GotoIs DEF DaemonPcs, IsDaemon
<1>4. ~Acquiring(i)' /\ ~Holding(i)' /\ ~IsClient(i)' /\ IsDaemon(i)'
  BY <1>3 DEF Acquiring, Holding, HoldingPcs, IsClient, IsDaemon
<1>5. CommandInv' /\ DatabaseInv'
  BY <1>1, <1>3, <1>4, DaemonMoves DEF DaemonPcs, ActingPcs
<1>6. \A j \in Procs : j # i =>
          /\ proc'[j] = proc[j] /\ (IsDaemon(j)' <=> IsDaemon(j)) /\ (IsClient(j)' <=> IsClient(j))
          /\ (Holding(j)' <=> Holding(j)) /\ (Acquiring(j)' <=> Acquiring(j))
  BY <1>3, Others
<1>7. \A j \in Procs : ~Holding(j)'
  BY <1>1, <1>4, <1>6, OneHolder
<1>8. \A j \in Procs : ~(IsDaemon(j)' /\ At(j, "stamp")')
  BY <1>1, <1>3, <1>6, NotBoth DEF At
<1>9. LockInv'
  BY <1>7, <1>8 DEF LockInv
<1>10. FilesInv'
  BY <1>1, <1>3, <1>6, <1>7, FilesKept DEF LifecycleInv, HoldingPcs
<1>11. FileTypes'
  BY <1>0, <1>1, <1>2, NoLockPid DEF FileTypes
<1> QED  BY <1>3, <1>5, <1>9, <1>10, <1>11, TypeParts DEF LifecycleInv
-----------------------------------------------------------------------------
(* The client's steps.                                                     *)

\* A command goes on somewhere else, with the daemons as they were.
LEMMA ClientMoves ==
    ASSUME LifecycleInv, NEW i \in Procs, IsClient(i), NEW pc \in ClientPcs, proc' = Goto(i, pc),
           lock' = lock, FileTypes',
           pc = "spawn" => proc[i].cmd = "start" /\ proc[i].peer = 0,
           pc \in {"ask", "wait", "rmPid"} => proc[i].cmd = "stop",
           pc \in {"wait", "rmPid"} => proc[i].peer # 0,
           db' => dir', db => db',
           pc = "mkdb" => dir',
           pc \in {"mkdb", "boot"} => \A j \in Procs : ~IsDaemon(j),
           At(i, "wait") /\ proc[i].peer # 0 => ~Alive(proc[i].peer),
           \A j \in Procs : Holding(j) => pid' = pid,
           sock' = sock \/ sock' = 0, link' = link \/ ~link'
    PROVE  LifecycleInv'
<1>0. /\ FileTypes /\ proc \in [Procs -> ProcType]
      /\ TypeOK /\ CommandInv /\ DatabaseInv /\ LockInv /\ FilesInv
  BY TypeParts DEF LifecycleInv
<1>1. /\ proc' \in [Procs -> ProcType] /\ Only(i) /\ proc'[i].pc = pc
      /\ proc'[i].is = "client" /\ proc'[i].cmd = proc[i].cmd /\ proc'[i].peer = proc[i].peer
  BY <1>0, GotoIs DEF IsClient
<1>2. /\ ~IsDaemon(i) /\ ~IsDaemon(i)' /\ IsClient(i)' /\ ~Holding(i)' /\ ~Acquiring(i)'
      /\ ~Holding(i) /\ ~Acquiring(i)
  BY <1>1 DEF IsDaemon, IsClient, Holding, Acquiring
<1>3. \A j \in Procs : j # i =>
          /\ proc'[j] = proc[j] /\ (IsDaemon(j)' <=> IsDaemon(j)) /\ (IsClient(j)' <=> IsClient(j))
          /\ (Holding(j)' <=> Holding(j)) /\ (Acquiring(j)' <=> Acquiring(j))
  BY <1>1, Others
<1>4. \A j \in Procs : IsClient(j)' => j = i
  BY <1>0, <1>2, <1>3 DEF CommandInv
<1>5. CommandInv'
  <2>1. \A j, k \in Procs : Acquiring(j)' /\ Acquiring(k)' => j = k
    BY <1>0, <1>2, <1>3 DEF CommandInv
  <2>2. \A j \in Procs : proc'[i].cmd # "start" \/ proc'[i].peer = 0 => ~Acquiring(j)'
    BY <1>0, <1>1, <1>2, <1>3 DEF CommandInv
  <2>3. \A j \in Procs : IsDaemon(j)' =>
            /\ proc'[j].pc \in DaemonPcs
            /\ proc'[j].ctl # "none" => proc'[j].pc \in ActingPcs
    BY <1>0, <1>2, <1>3 DEF CommandInv, ActingPcs
  <2> QED  BY <1>1, <1>4, <2>1, <2>2, <2>3 DEF CommandInv, At, ActingPcs
<1>6. DatabaseInv'
  BY <1>0, <1>1, <1>2, <1>3, <1>4 DEF DatabaseInv, At
<1>7. LockInv'
  <2>1. \A j \in Procs : Holding(j)' => Holding(j)
    BY <1>2, <1>3
  <2>2. \A j \in Procs : Holding(j) => lock' = [by |-> j, pid |-> j]
    BY <1>0 DEF LockInv
  <2>3. \A j \in Procs : IsDaemon(j)' /\ At(j, "stamp")' => lock' = [by |-> j, pid |-> 0]
    BY <1>0, <1>2, <1>3 DEF LockInv, At
  <2>4. \A j, k \in Procs : IsDaemon(j)' /\ At(j, "unlink")' => ~Holding(k)
    BY <1>0, <1>2, <1>3 DEF LockInv, At
  <2>5. ASSUME NEW j \in Procs, proc[i].cmd = "stop", proc[i].peer # 0, Holding(j)
        PROVE  FALSE
    <3>1. At(i, "wait") /\ j = proc[i].peer
      BY <1>0, <2>5 DEF LockInv
    <3>2. Alive(j)
      BY <2>5 DEF Holding, IsDaemon, Alive
    <3> QED  BY <2>5, <3>1, <3>2
  <2> QED  BY <1>1, <1>4, <2>1, <2>2, <2>3, <2>4, <2>5 DEF LockInv
<1>8. FilesInv'
  <2>1. \A j \in Procs : Holding(j)' /\ proc'[j].pc \notin {"pidfile", "dropLock"} => pid' = j
    BY <1>0, <1>2, <1>3 DEF FilesInv
  <2> QED  BY <1>0, <1>2, <1>3, <2>1, FilesKept
<1> QED  BY <1>1, <1>5, <1>6, <1>7, <1>8, TypeParts DEF LifecycleInv

\* A command ends, having removed no more than a link or a socket, or the pid
\* file of a daemon that is gone.
LEMMA ClientEnds ==
    ASSUME LifecycleInv, NEW i \in Procs, IsClient(i), proc' = End(i),
           UNCHANGED <<dir, db, lock>>, FileTypes',
           \A j \in Procs : Holding(j) => pid' = pid,
           sock' = sock \/ sock' = 0, link' = link \/ ~link'
    PROVE  LifecycleInv'
<1>0. /\ FileTypes /\ proc \in [Procs -> ProcType]
      /\ TypeOK /\ CommandInv /\ DatabaseInv /\ LockInv /\ FilesInv
  BY TypeParts DEF LifecycleInv
<1>1. proc' \in [Procs -> ProcType] /\ Only(i) /\ proc'[i] = Gone
  BY <1>0, EndIs
<1>2. \A j \in Procs :
          /\ IsClient(j)' => IsClient(j) /\ proc'[j] = proc[j]
          /\ IsDaemon(j)' => IsDaemon(j) /\ proc'[j] = proc[j]
  BY <1>1, Idle DEF IsClient, IsDaemon, Only
<1>3. \A j \in Procs : /\ Acquiring(j)' => Acquiring(j)
                       /\ Holding(j)' => Holding(j) /\ proc'[j] = proc[j]
  BY <1>2 DEF Acquiring, Holding
<1>4. CommandInv'
  BY <1>0, <1>2, <1>3 DEF CommandInv, At
<1>5. DatabaseInv'
  BY <1>0, <1>2 DEF DatabaseInv, At
<1>6. LockInv'
  BY <1>0, <1>2, <1>3 DEF LockInv, At
<1>7. FilesInv'
  <2>1. \A j \in Procs : Holding(j)' /\ proc'[j].pc \notin {"pidfile", "dropLock"} => pid' = j
    BY <1>0, <1>3 DEF FilesInv
  <2> QED  BY <1>0, <1>2, <2>1, FilesKept
<1> QED  BY <1>1, <1>4, <1>5, <1>6, <1>7, TypeParts DEF LifecycleInv

\* A request without an answer, and the clean-up after it.
LEMMA NoAnswerInv ==
    ASSUME LifecycleInv, NEW i \in Procs, IsClient(i), proc' = NoAnswer(i), ~At(i, "wait"),
           UNCHANGED <<dir, db, lock, pid>>, FileTypes',
           sock' = sock \/ sock' = 0, link' = link \/ ~link'
    PROVE  LifecycleInv'
<1>1. CASE proc' = End(i)
  BY <1>1, ClientEnds
<1>2. db => dir
  BY DEF LifecycleInv, DatabaseInv
<1>3. CASE proc[i].cmd = "start" /\ proc[i].peer = 0 /\ proc' = Goto(i, "spawn")
  BY <1>2, <1>3, ClientMoves DEF ClientPcs
<1>4. CASE proc[i].cmd = "start" /\ proc[i].peer # 0 /\ proc' = Goto(i, "tick")
  BY <1>2, <1>4, ClientMoves DEF ClientPcs
<1>5. CASE proc[i].cmd = "stop" /\ proc[i].peer # 0 /\ proc' = Goto(i, "rmPid")
  BY <1>2, <1>5, ClientMoves DEF ClientPcs
<1> QED  BY <1>1, <1>3, <1>4, <1>5, NoAnswerIs

\* init and clone.
LEMMA BootstrapInv ==
    ASSUME LifecycleInv, NEW i \in Procs,
           CheckUnconfigured(i) \/ CreateMetadataDir(i) \/ CreateDatabase(i) \/ Booted(i)
    PROVE  LifecycleInv'
<1>0. /\ FileTypes /\ DatabaseInv /\ UNCHANGED <<lock, pid, link, sock>>
      /\ IsClient(i) /\ ~At(i, "wait")
  BY TypeParts DEF LifecycleInv, CheckUnconfigured, CreateMetadataDir, CreateDatabase, Booted,
                   files, At
<1>1. CASE proc' = End(i) /\ UNCHANGED <<dir, db>>
  <2>1. FileTypes'
    BY <1>0, <1>1 DEF FileTypes
  <2> QED  BY <1>0, <1>1, <2>1, ClientEnds
<1>2. CASE CheckUnconfigured(i) /\ ~dir
  <2>1. proc' = Goto(i, "mkdir") /\ UNCHANGED <<dir, db>>
    BY <1>2 DEF CheckUnconfigured, files
  <2>2. FileTypes'
    BY <1>0, <2>1 DEF FileTypes
  <2> QED  BY <1>0, <2>1, <2>2, ClientMoves DEF DatabaseInv, ClientPcs
<1>3. CASE CreateMetadataDir(i) /\ ~dir
  <2>1. proc' = Goto(i, "mkdb") /\ dir' = TRUE /\ db' = db
    BY <1>3 DEF CreateMetadataDir
  <2>2. FileTypes'
    BY <1>0, <2>1 DEF FileTypes
  <2>3. \A j \in Procs : ~IsDaemon(j)
    BY <1>0, <1>3 DEF DatabaseInv
  <2> QED  BY <1>0, <2>1, <2>2, <2>3, ClientMoves DEF ClientPcs
<1>4. CASE CreateDatabase(i)
  <2>1. proc' = Goto(i, "boot") /\ dir' = dir /\ db' = TRUE /\ At(i, "mkdb")
    BY <1>4 DEF CreateDatabase
  <2>2. FileTypes'
    BY <1>0, <2>1 DEF FileTypes
  <2>3. dir /\ \A j \in Procs : ~IsDaemon(j)
    BY <1>0, <2>1 DEF DatabaseInv, At
  <2> QED  BY <1>0, <2>1, <2>2, <2>3, ClientMoves DEF ClientPcs
<1>5. CASE Booted(i) \/ (CheckUnconfigured(i) /\ dir) \/ (CreateMetadataDir(i) /\ dir)
  <2>1. proc' = End(i) /\ db' = db
    BY <1>5 DEF Booted, CheckUnconfigured, CreateMetadataDir, files
  <2>2. dir' = dir
    BY <1>0, <1>5 DEF Booted, CheckUnconfigured, CreateMetadataDir, files, FileTypes
  <2> QED  BY <1>1, <2>1, <2>2
<1> QED  BY <1>2, <1>3, <1>4, <1>5

\* The request of a command: answered, lost, or the socket is dead.
LEMMA ProbeInv ==
    ASSUME LifecycleInv, NEW i \in Procs, Probe(i)
    PROVE  LifecycleInv'
<1>0. /\ FileTypes /\ proc \in [Procs -> ProcType] /\ UNCHANGED files
      /\ UNCHANGED <<dir, db, lock, pid, link, sock>> /\ (db => dir)
      /\ IsClient(i) /\ At(i, "probe") /\ ~At(i, "wait")
  BY TypeParts DEF LifecycleInv, DatabaseInv, Probe, files, At
<1>1. FileTypes'
  BY <1>0 DEF FileTypes
<1>2. CASE proc' = Goto(i, "scrubLink")
  BY <1>0, <1>1, <1>2, ClientMoves DEF ClientPcs
<1>3. CASE proc' = NoAnswer(i)
  BY <1>0, <1>1, <1>3, NoAnswerInv
<1>4. CASE proc[i].cmd = "stop" /\ proc' = Goto(i, "ask")
  BY <1>0, <1>1, <1>4, ClientMoves DEF ClientPcs
<1>5. CASE proc' = End(i)
  BY <1>0, <1>1, <1>5, ClientEnds
<1>6. CASE Alive(proc[i].peer) /\ proc' = [End(i) EXCEPT ![proc[i].peer] = Gone]
  <2>1. proc[i].peer \in Procs
    BY <1>6 DEF Alive
  <2>2. \A j \in Procs : proc'[j] = proc[j] \/ proc'[j] = Gone
    BY <1>0, <1>6, <2>1 DEF End
  <2>3. proc' \in [Procs -> ProcType]
    BY <1>0, <1>6, <2>1, Idle DEF End
  <2> QED  BY <1>0, <2>2, <2>3, Fades
<1> QED  BY <1>2, <1>3, <1>4, <1>5, <1>6 DEF Probe

\* Dead links and sockets are removed.
LEMMA ScrubInv ==
    ASSUME LifecycleInv, NEW i \in Procs, ScrubLink(i) \/ ScrubSock(i)
    PROVE  LifecycleInv'
<1>0. /\ FileTypes /\ UNCHANGED <<dir, db, lock, pid>> /\ (db => dir)
      /\ IsClient(i) /\ ~At(i, "wait") /\ MaxProcs \in Nat
  BY TypeParts DEF LifecycleInv, DatabaseInv, ScrubLink, ScrubSock, At
<1>1. CASE ScrubLink(i)
  <2>1. link' = FALSE /\ sock' = sock
    BY <1>1 DEF ScrubLink
  <2>2. FileTypes'
    BY <1>0, <2>1 DEF FileTypes
  <2>3. CASE proc' = Goto(i, "scrubSock")
    BY <1>0, <2>1, <2>2, <2>3, ClientMoves DEF ClientPcs
  <2>4. CASE proc' = NoAnswer(i)
    BY <1>0, <2>1, <2>2, <2>4, NoAnswerInv
  <2> QED  BY <1>1, <2>3, <2>4 DEF ScrubLink
<1>2. CASE ScrubSock(i)
  <2>1. link' = link /\ sock' = 0 /\ proc' = NoAnswer(i)
    BY <1>2 DEF ScrubSock
  <2>2. FileTypes'
    BY <1>0, <2>1 DEF FileTypes
  <2> QED  BY <1>0, <2>1, <2>2, NoAnswerInv
<1> QED  BY <1>1, <1>2

\* Waiting for the child, or for the daemon that was stopped, and the end of stop.
LEMMA WaitInv ==
    ASSUME LifecycleInv, NEW i \in Procs, Tick(i) \/ Wait(i) \/ RemovePid(i)
    PROVE  LifecycleInv'
<1>0. /\ FileTypes /\ UNCHANGED <<dir, db, lock, link, sock>> /\ (db => dir) /\ IsClient(i)
      /\ MaxProcs \in Nat
  BY TypeParts DEF LifecycleInv, DatabaseInv, Tick, Wait, RemovePid, files
<1>1. CASE pid' = pid /\ proc' = End(i)
  <2>1. FileTypes'
    BY <1>0, <1>1 DEF FileTypes
  <2> QED  BY <1>0, <1>1, <2>1, ClientEnds
<1>2. CASE Tick(i)
  <2>1. pid' = pid /\ ~At(i, "wait")
    BY <1>2 DEF Tick, files, At
  <2>2. FileTypes'
    BY <1>0, <2>1 DEF FileTypes
  <2>3. CASE proc' = Goto(i, "probe")
    BY <1>0, <2>1, <2>2, <2>3, ClientMoves DEF ClientPcs
  <2> QED  BY <1>1, <1>2, <2>1, <2>3 DEF Tick
<1>3. CASE Wait(i)
  <2>1. pid' = pid
    BY <1>3 DEF Wait, files
  <2>2. FileTypes'
    BY <1>0, <2>1 DEF FileTypes
  <2>3. CASE ~Alive(proc[i].peer) /\ proc' = Goto(i, "scrubLink")
    BY <1>0, <2>1, <2>2, <2>3, ClientMoves DEF ClientPcs
  <2> QED  BY <1>1, <1>3, <2>1, <2>3 DEF Wait
<1>4. CASE RemovePid(i)
  <2>1. pid' = 0 /\ proc' = End(i) /\ At(i, "rmPid")
    BY <1>4 DEF RemovePid
  <2>2. FileTypes'
    BY <1>0, <2>1 DEF FileTypes
  <2>3. \A j \in Procs : ~Holding(j)
    <3>1. proc[i].cmd = "stop" /\ proc[i].peer # 0 /\ ~At(i, "wait")
      BY <1>0, <2>1 DEF LifecycleInv, CommandInv, At
    <3> QED  BY <1>0, <3>1 DEF LifecycleInv, LockInv
  <2> QED  BY <1>0, <2>1, <2>2, <2>3, ClientEnds
<1> QED  BY <1>2, <1>3, <1>4

\* start spawns its daemon when no other looks for the lock.
LEMMA SpawnInv ==
    ASSUME LifecycleInv, NEW i \in Procs, Spawn(i)
    PROVE  LifecycleInv'
<1>0. /\ FileTypes /\ proc \in [Procs -> ProcType] /\ CommandInv /\ DatabaseInv /\ LockInv
      /\ FilesInv /\ UNCHANGED <<dir, db, lock, pid, link, sock>>
      /\ IsClient(i) /\ At(i, "spawn")
  BY TypeParts DEF LifecycleInv, Spawn, files
<1>1. FileTypes'
  BY <1>0 DEF FileTypes
<1>2. CASE proc' = End(i)
  BY <1>0, <1>1, <1>2, ClientEnds
<1>3. ASSUME db, NEW j \in Procs, NEW build \in {"same", "old"}, NextPid(j),
             proc' = [proc EXCEPT ![i].pc = "probe", ![i].peer = j,
                                  ![j] = [Free EXCEPT !.is = "daemon", !.pc = "create",
                                                      !.build = build]]
      PROVE  LifecycleInv'
  <2> DEFINE d == [Free EXCEPT !.is = "daemon", !.pc = "create", !.build = build]
             c == [proc[i] EXCEPT !.pc = "probe", !.peer = j]
  <2>1. proc[j].is = "free" /\ i # j
    BY <1>0, <1>3, Idle DEF NextPid, IsClient
  <2>2. proc[i].cmd = "start" /\ proc[i].peer = 0 /\ proc[i].is = "client"
    BY <1>0 DEF CommandInv, IsClient
  <2>3. /\ d \in ProcType /\ d.is = "daemon" /\ d.pc = "create" /\ d.ctl = "none"
    BY Idle DEF Free, ProcType, DaemonPcs
  <2>4. /\ c \in ProcType /\ c.is = "client" /\ c.pc = "probe" /\ c.cmd = "start" /\ c.peer = j
    <3>1. proc[i] \in ProcType /\ j \in 0 .. MaxProcs
      BY <1>0, TypeParts
    <3> QED  BY <2>2, <3>1 DEF ProcType, ClientPcs
  <2>5. proc'[i] = c /\ proc'[j] = d /\ \A k \in Procs : k # i /\ k # j => proc'[k] = proc[k]
    BY <1>0, <1>3, <2>1
  <2>6. proc' = [proc EXCEPT ![i] = c, ![j] = d]
    BY <1>0, <1>3, <2>1
  <2> HIDE DEF c, d
  <2>7. proc' \in [Procs -> ProcType]
    BY <1>0, <2>3, <2>4, <2>6
  <2>8. /\ IsClient(i)' /\ ~IsDaemon(i)' /\ ~IsClient(j)' /\ IsDaemon(j)' /\ Acquiring(j)'
        /\ ~Holding(i)' /\ ~Holding(j)' /\ ~Acquiring(i)'
    BY <2>3, <2>4, <2>5 DEF IsClient, IsDaemon, Acquiring, Holding, HoldingPcs
  <2>9. \A k \in Procs : k # i /\ k # j =>
            /\ proc'[k] = proc[k] /\ (IsDaemon(k)' <=> IsDaemon(k))
            /\ (IsClient(k)' <=> IsClient(k)) /\ (Holding(k)' <=> Holding(k))
            /\ (Acquiring(k)' <=> Acquiring(k))
    BY <2>5 DEF IsDaemon, IsClient, Holding, Acquiring
  <2>10. /\ \A k \in Procs : IsClient(k)' => k = i
         /\ \A k \in Procs : Acquiring(k)' => k = j
         /\ \A k \in Procs : IsDaemon(k)' => k = j \/ IsDaemon(k)
         /\ \A k \in Procs : Holding(k)' => Holding(k) /\ k # i /\ k # j
    BY <1>0, <2>2, <2>8, <2>9 DEF CommandInv
  <2>11. CommandInv'
    <3>1. j # 0
      BY TypeParts
    <3>2. \A k \in Procs : IsDaemon(k)' =>
              /\ proc'[k].pc \in DaemonPcs
              /\ proc'[k].ctl # "none" => proc'[k].pc \in ActingPcs
      BY <1>0, <2>3, <2>5, <2>8, <2>9 DEF CommandInv, DaemonPcs, ActingPcs
    <3>3. /\ proc'[i].pc = "probe" /\ proc'[i].cmd = "start" /\ proc'[i].peer # 0
          /\ proc'[i].pc \in ClientPcs
      BY <2>4, <2>5, <3>1 DEF ClientPcs
    <3> QED  BY <2>10, <3>2, <3>3 DEF CommandInv, At, ActingPcs
  <2>12. DatabaseInv'
    <3>1. proc'[i].pc = "probe"
      BY <2>4, <2>5
    <3> QED  BY <1>0, <1>3, <2>10, <3>1 DEF DatabaseInv, At
  <2>13. LockInv'
    <3>1. proc'[i].cmd = "start" /\ proc'[j].pc = "create"
      BY <2>3, <2>4, <2>5
    <3>2. \A k \in Procs : IsDaemon(k)' => proc'[k].pc \notin {"stamp", "unlink"}
      BY <2>10, <3>1 DEF Acquiring
    <3> QED  BY <1>0, <2>10, <3>1, <3>2 DEF LockInv, At
  <2>14. FilesInv'
    <3>1. \A k \in Procs : Holding(k)' /\ proc'[k].pc \notin {"pidfile", "dropLock"} => pid' = k
      BY <1>0, <2>9, <2>10 DEF FilesInv
    <3>2. proc'[j].pc = "create" /\ proc'[j].ctl = "none"
      BY <2>3, <2>5
    <3> QED  BY <1>0, <2>8, <2>9, <3>1, <3>2, FilesKept
  <2> QED  BY <1>1, <2>7, <2>11, <2>12, <2>13, <2>14, TypeParts DEF LifecycleInv
<1> QED  BY <1>2, <1>3 DEF Spawn

\* stop asks the daemon that answers to end, or ends it by the pid in the pid file:
\* that is the daemon that holds the lock.
LEMMA StopRequestInv ==
    ASSUME LifecycleInv, NEW i \in Procs, StopRequest(i)
    PROVE  LifecycleInv'
<1>0. /\ FileTypes /\ proc \in [Procs -> ProcType] /\ CommandInv /\ DatabaseInv /\ LockInv
      /\ FilesInv /\ UNCHANGED <<dir, db, lock, pid, link, sock>> /\ (db => dir)
      /\ IsClient(i) /\ At(i, "ask") /\ ~At(i, "wait")
  BY TypeParts DEF LifecycleInv, DatabaseInv, StopRequest, files, At
<1>1. FileTypes'
  BY <1>0 DEF FileTypes
<1>2. CASE proc' = End(i)
  BY <1>0, <1>1, <1>2, ClientEnds
<1>3. CASE proc' = Goto(i, "scrubLink")
  BY <1>0, <1>1, <1>3, ClientMoves DEF ClientPcs
<1>4. ASSUME Answers
      PROVE  sock \in Procs /\ IsDaemon(sock) /\ At(sock, "running") /\ Holding(sock) /\ i # sock
  <2>1. sock \in Procs /\ IsDaemon(sock) /\ At(sock, "running")
    BY <1>4 DEF Answers, Listening
  <2> QED  BY <1>0, <2>1 DEF Holding, IsDaemon, IsClient, HoldingPcs, At
<1>5. proc[i].cmd = "stop" /\ proc[i].is = "client" /\ proc[i] \in ProcType
  BY <1>0 DEF CommandInv, At, IsClient
<1>6. ASSUME NEW p \in Procs, Holding(p), p # i, NEW x \in ProcType,
             \/ x = Gone
             \/ /\ x.is = "daemon" /\ x.pc = "closing" /\ pid = p
                /\ x.ctl = proc[p].ctl /\ x.late = proc[p].late,
             proc' = [proc EXCEPT ![p] = x, ![i] = [proc[i] EXCEPT !.pc = "wait", !.peer = p]]
      PROVE  LifecycleInv'
  <2> DEFINE c == [proc[i] EXCEPT !.pc = "wait", !.peer = p]
  <2>1. c \in ProcType /\ c.is = "client" /\ c.pc = "wait" /\ c.cmd = "stop" /\ c.peer = p
        /\ p # 0
    <3>1. p \in 0 .. MaxProcs /\ p # 0
      BY TypeParts
    <3> QED  BY <1>5, <3>1 DEF ProcType, ClientPcs
  <2>2. proc'[i] = c /\ proc'[p] = x /\ \A k \in Procs : k # i /\ k # p => proc'[k] = proc[k]
    BY <1>0, <1>6
  <2>3. proc' \in [Procs -> ProcType]
    BY <1>0, <1>6, <2>1
  <2> HIDE DEF c
  <2>4. /\ IsClient(i)' /\ ~IsDaemon(i)' /\ ~IsClient(p)' /\ ~Acquiring(p)' /\ ~Acquiring(i)'
        /\ ~Holding(i)'
    BY <1>6, <2>1, <2>2, Idle DEF IsClient, IsDaemon, Acquiring, Holding
  <2>5. \A k \in Procs : k # i /\ k # p =>
            /\ proc'[k] = proc[k] /\ (IsDaemon(k)' <=> IsDaemon(k))
            /\ (IsClient(k)' <=> IsClient(k)) /\ (Holding(k)' <=> Holding(k))
            /\ (Acquiring(k)' <=> Acquiring(k))
    BY <2>2 DEF IsDaemon, IsClient, Holding, Acquiring
  <2>6. /\ \A k \in Procs : IsClient(k)' => k = i
        /\ \A k \in Procs : ~Acquiring(k)'
    BY <1>0, <1>5, <2>4, <2>5 DEF CommandInv
  <2>7. \A k \in Procs : Holding(k)' => k = p
    BY <1>6, <2>4, <2>5, OneHolder
  <2>8. \A k \in Procs : IsDaemon(k)' =>
            /\ IsDaemon(k) /\ proc'[k].ctl = proc[k].ctl /\ proc'[k].late = proc[k].late
            /\ \/ proc'[k] = proc[k]
               \/ k = p /\ proc'[k].pc = "closing" /\ pid = p /\ proc[k].pc \in HoldingPcs
    BY <1>6, <2>2, <2>4, <2>5, Idle DEF IsDaemon, Holding
  <2>9. CommandInv'
    BY <1>0, <2>1, <2>2, <2>6, <2>8 DEF CommandInv, At, ClientPcs, DaemonPcs, HoldingPcs
  <2>10. DatabaseInv'
    BY <1>0, <2>1, <2>2, <2>6, <2>8 DEF DatabaseInv, At
  <2>11. LockInv'
    <3>1. lock' = [by |-> p, pid |-> p]
      BY <1>0, <1>6 DEF LockInv
    <3>2. \A k \in Procs : IsDaemon(k)' => proc'[k].pc \notin {"stamp", "unlink"}
      BY <2>6 DEF Acquiring
    <3> QED  BY <2>1, <2>2, <2>6, <2>7, <3>1, <3>2 DEF LockInv, At
  <2>12. FilesInv'
    <3>1. \A k \in Procs : Holding(k)' /\ proc'[k].pc \notin {"pidfile", "dropLock"} => pid' = k
      BY <1>0, <1>6, <2>2, <2>7, Idle DEF Holding, IsDaemon
    <3> QED  BY <1>0, <2>8, <3>1, FilesKept
  <2> QED  BY <1>1, <2>3, <2>9, <2>10, <2>11, <2>12, TypeParts DEF LifecycleInv
<1>7. ASSUME Answers,
             proc' = [proc EXCEPT ![sock].pc = "closing", ![i].pc = "wait", ![i].peer = sock]
      PROVE  LifecycleInv'
  <2>1. sock \in Procs /\ IsDaemon(sock) /\ At(sock, "running") /\ Holding(sock) /\ i # sock
    BY <1>4, <1>7
  <2>2. pid = sock
    BY <1>0, <2>1 DEF FilesInv, At
  <2> DEFINE x == [proc[sock] EXCEPT !.pc = "closing"]
  <2>3. x \in ProcType /\ x.is = "daemon" /\ x.pc = "closing"
        /\ x.ctl = proc[sock].ctl /\ x.late = proc[sock].late
    <3>1. proc[sock] \in ProcType /\ proc[sock].is = "daemon"
      BY <1>0, <2>1 DEF IsDaemon
    <3> QED  BY <2>2, <3>1 DEF ProcType, DaemonPcs, HoldingPcs
  <2>4. proc' = [proc EXCEPT ![sock] = x,
                             ![i] = [proc[i] EXCEPT !.pc = "wait", !.peer = sock]]
    BY <1>0, <1>7, <2>1
  <2> HIDE DEF x
  <2> QED  BY <1>6, <2>1, <2>2, <2>3, <2>4
<1>8. ASSUME Answers, Alive(pid),
             proc' = [proc EXCEPT ![pid] = Gone, ![i].pc = "wait", ![i].peer = pid]
      PROVE  LifecycleInv'
  <2>1. sock \in Procs /\ At(sock, "running") /\ Holding(sock) /\ i # sock
    BY <1>4, <1>8
  <2>2. pid = sock
    BY <1>0, <2>1 DEF FilesInv, At
  <2>3. proc' = [proc EXCEPT ![sock] = Gone,
                             ![i] = [proc[i] EXCEPT !.pc = "wait", !.peer = sock]]
    BY <1>0, <1>8, <2>1, <2>2
  <2> QED  BY <1>6, <2>1, <2>3, Idle
<1> QED  BY <1>2, <1>3, <1>7, <1>8 DEF StopRequest

\* A command starts when no other runs and no daemon looks for the lock.
LEMMA RunInv ==
    ASSUME LifecycleInv, Orderly, NEW i \in Procs, NEW cmd \in Commands, Run(i, cmd)
    PROVE  LifecycleInv'
<1>0. /\ FileTypes /\ proc \in [Procs -> ProcType] /\ CommandInv /\ DatabaseInv /\ LockInv
      /\ FilesInv /\ UNCHANGED <<dir, db, lock, pid, link, sock>>
  BY TypeParts DEF LifecycleInv, Run, files
<1>1. FileTypes'
  BY <1>0 DEF FileTypes
<1> DEFINE c == [Free EXCEPT !.is = "client", !.cmd = cmd,
                             !.pc = IF cmd = "bootstrap" THEN "check" ELSE "probe"]
<1>2. proc' = [proc EXCEPT ![i] = c] /\ \A j \in Procs : ~IsClient(j) /\ ~Acquiring(j)
  BY DEF Run
<1>3. /\ c \in ProcType /\ c.is = "client" /\ c.pc \in {"check", "probe"} /\ c.cmd = cmd
      /\ c.peer = 0
  BY Idle DEF Free, ProcType, ClientPcs
<1> HIDE DEF c
<1>4. proc' \in [Procs -> ProcType] /\ proc'[i] = c /\ Only(i)
  BY <1>0, <1>2, <1>3 DEF Only
<1>5. ~IsDaemon(i)' /\ IsClient(i)' /\ ~Holding(i)' /\ ~Acquiring(i)'
  BY <1>3, <1>4 DEF IsDaemon, IsClient, Holding, Acquiring
<1>6. \A j \in Procs : j # i =>
          /\ proc'[j] = proc[j] /\ (IsDaemon(j)' <=> IsDaemon(j)) /\ (IsClient(j)' <=> IsClient(j))
          /\ (Holding(j)' <=> Holding(j)) /\ (Acquiring(j)' <=> Acquiring(j))
  BY <1>4, Others
<1>7. /\ \A j \in Procs : IsClient(j)' => j = i
      /\ \A j \in Procs : ~Acquiring(j)'
      /\ \A j \in Procs : IsDaemon(j)' => IsDaemon(j) /\ proc'[j] = proc[j]
      /\ \A j \in Procs : Holding(j)' => Holding(j) /\ proc'[j] = proc[j]
  BY <1>2, <1>5, <1>6
<1>8. CommandInv'
  BY <1>0, <1>3, <1>4, <1>7 DEF CommandInv, At, ClientPcs
<1>9. DatabaseInv'
  BY <1>0, <1>3, <1>4, <1>7 DEF DatabaseInv, At
<1>10. LockInv'
  BY <1>0, <1>3, <1>4, <1>7 DEF LockInv, At
<1>11. FilesInv'
  <2>1. \A k \in Procs : Holding(k)' /\ proc'[k].pc \notin {"pidfile", "dropLock"} => pid' = k
    BY <1>0, <1>7 DEF FilesInv
  <2> QED  BY <1>0, <1>7, <2>1, FilesKept
<1> QED  BY <1>1, <1>4, <1>8, <1>9, <1>10, <1>11, TypeParts DEF LifecycleInv
-----------------------------------------------------------------------------
(* Theorems.                                                               *)

\* The invariant holds at first.
LEMMA LifecycleInit == Init => LifecycleInv
<1> SUFFICES ASSUME Init PROVE LifecycleInv
  OBVIOUS
<1>1. \A j \in Procs : proc[j] = Free /\ ~IsClient(j) /\ ~IsDaemon(j)
  BY Idle DEF Init, IsClient, IsDaemon
<1>2. \A j \in Procs : ~Acquiring(j) /\ ~Holding(j)
  BY <1>1 DEF Acquiring, Holding
<1>3. FileTypes
  BY NoLockPid, LifecycleAssumption DEF Init, FileTypes
<1>4. proc \in [Procs -> ProcType]
  BY Idle DEF Init
<1>5. CommandInv /\ LockInv
  BY <1>1, <1>2 DEF CommandInv, LockInv
<1>6. DatabaseInv
  BY <1>1 DEF DatabaseInv, Init
<1>7. FilesInv
  BY <1>1, <1>2 DEF FilesInv, StartsCleanly
<1> QED  BY <1>3, <1>4, <1>5, <1>6, <1>7, TypeParts DEF LifecycleInv

\* Every step keeps it, if commands are orderly.
LEMMA LifecycleNext ==
    ASSUME Orderly, LifecycleInv, [Next]_vars
    PROVE  LifecycleInv'
<1>0. FileTypes /\ proc \in [Procs -> ProcType]
  BY TypeParts DEF LifecycleInv
<1>1. ASSUME NEW i \in Procs, DaemonStep(i) \/ Close(i) PROVE LifecycleInv'
  <2>1. CASE Exit(i)
    <3>1. proc' = End(i) /\ UNCHANGED files
      BY <2>1 DEF Exit
    <3> QED  BY <1>0, <3>1, EndIs, Fades DEF Only
  <2> QED  BY <1>1, <2>1, CreateLockInv, StampLockInv, PeekLockInv, UnlinkLockInv, ServeInv,
              LoadInv, ControlInv, DropLockInv DEF DaemonStep
<1>2. ASSUME NEW i \in Procs, ClientStep(i) PROVE LifecycleInv'
  BY <1>2, BootstrapInv, ProbeInv, ScrubInv, WaitInv, SpawnInv, StopRequestInv DEF ClientStep
<1>3. ASSUME NEW i \in Procs, Crash(i) PROVE LifecycleInv'
  BY <1>0, <1>3, EndIs, Fades DEF Only, Crash
<1>4. ASSUME NEW i \in Procs, NEW cmd \in Commands, Run(i, cmd) PROVE LifecycleInv'
  BY <1>4, RunInv
<1>5. CASE DeleteMetadata
  <2>1. \A j \in Procs : ~IsClient(j) /\ ~IsDaemon(j)
    BY <1>5 DEF DeleteMetadata, Alive, IsClient, IsDaemon
  <2>2. proc' = proc /\ lock' = NoLock /\ dir' = FALSE /\ db' = FALSE /\ pid' = 0
        /\ link' = FALSE /\ sock' = 0
    BY <1>5 DEF DeleteMetadata
  <2>3. \A j \in Procs : ~IsClient(j)' /\ ~IsDaemon(j)' /\ ~Holding(j)' /\ ~Acquiring(j)'
    BY <2>1, <2>2 DEF IsClient, IsDaemon, Holding, Acquiring
  <2>4. FileTypes'
    BY <2>2, NoLockPid, TypeParts DEF FileTypes
  <2>5. CommandInv' /\ LockInv'
    BY <2>3 DEF CommandInv, LockInv
  <2>6. DatabaseInv'
    BY <2>2, <2>3 DEF DatabaseInv
  <2>7. FilesInv'
    BY <2>2, <2>3 DEF LifecycleInv, FilesInv, StartsCleanly
  <2> QED  BY <1>0, <2>2, <2>4, <2>5, <2>6, <2>7, TypeParts DEF LifecycleInv
<1>6. CASE UNCHANGED vars
  BY <1>0, <1>6, Fades DEF vars, files
<1> QED  BY <1>1, <1>2, <1>3, <1>4, <1>5, <1>6 DEF Next

\* When commands are orderly, the inductive invariant about commands, database, lock
\* and the other files holds, for any number of processes that die anywhere.
THEOREM LifecycleInvariant == ASSUME Orderly PROVE Spec => []LifecycleInv
<1>1. Init => LifecycleInv
  BY LifecycleInit
<1>2. LifecycleInv /\ [Next]_vars => LifecycleInv'
  BY LifecycleNext
<1> QED  BY <1>1, <1>2, PTL DEF Spec

\* When commands are orderly, DaemonLock and the checks of init and clone keep the
\* database and the directory to one writer.
THEOREM LockExcludes == ASSUME Orderly PROVE Spec => []OneWriter
<1>1. LifecycleInv => OneWriter
  <2> SUFFICES ASSUME LifecycleInv, NEW i \in Procs, NEW j \in Procs,
                      Syncing(i) \/ (IsClient(i) /\ At(i, "boot")),
                      Syncing(j) \/ (IsClient(j) /\ At(j, "boot"))
               PROVE  i = j
    BY DEF OneWriter
  <2>1. \A k \in Procs : Syncing(k) => Holding(k) /\ IsDaemon(k)
    BY DEF Syncing, Holding, HoldingPcs
  <2>2. CASE Syncing(i) /\ Syncing(j)
    BY <2>1, <2>2, OneHolder
  <2>3. CASE IsClient(i) /\ At(i, "boot")
    BY <2>1, <2>3 DEF LifecycleInv, CommandInv, DatabaseInv, At
  <2>4. CASE IsClient(j) /\ At(j, "boot")
    BY <2>1, <2>4 DEF LifecycleInv, CommandInv, DatabaseInv, At
  <2> QED  BY <2>2, <2>3, <2>4
<1> QED  BY <1>1, LifecycleInvariant, PTL

\* When commands are orderly, the pid file names the daemon that answers.
THEOREM PidFileNames == ASSUME Orderly PROVE Spec => []PidNamesDaemon
<1>1. LifecycleInv => PidNamesDaemon
  BY DEF LifecycleInv, FilesInv, PidNamesDaemon, Holding, HoldingPcs, At
<1> QED  BY <1>1, LifecycleInvariant, PTL

\* When commands are orderly, no daemon fails over a socket or a link that dead
\* processes left: a daemon whose bind or link fails has taken the lock while the
\* control task of an earlier one was yet to make its socket.
THEOREM ServesCleanly == ASSUME Orderly PROVE Spec => []StartsCleanly
<1>1. LifecycleInv => StartsCleanly
  BY DEF LifecycleInv, FilesInv
<1> QED  BY <1>1, LifecycleInvariant, PTL
=============================================================================
