----------------------------- MODULE Lifecycle -----------------------------
(***************************************************************************)
(* The processes of one checkout: the commands init, clone, start, stop    *)
(* and status of the client, the daemons that start spawns, and the files  *)
(* in .opbox through which they find and exclude each other.  Every system *)
(* call on one of these files is a step of its own; a process may die      *)
(* before any step, and what it has not removed stays.                     *)
(*                                                                         *)
(* Process ids are given out in order and not used again.  What init and   *)
(* clone do after the database exists is in module Bootstrap.              *)
(***************************************************************************)
EXTENDS Integers, FiniteSets

CONSTANTS
    MaxProcs,  \* how many processes there ever are
    Orderly    \* TRUE: a command starts only when no other command runs and
               \* no daemon is still acquiring the lock

ASSUME LifecycleAssumption == MaxProcs \in Nat \ {0} /\ Orderly \in BOOLEAN

VARIABLES
    dir,   \* .opbox exists
    db,    \* ... and holds a database
    lock,  \* daemon.lock: the process that created the file, the pid in it
    pid,   \* the pid in daemon.pid, 0 if there is no file
    link,  \* the symbolic link to the socket exists
    sock,  \* the process that bound the socket file, 0 if there is no file
    proc   \* the processes

vars == <<dir, db, lock, pid, link, sock, proc>>
files == <<dir, db, lock, pid, link, sock>>

Procs == 1 .. MaxProcs
NoLock == [by |-> 0, pid |-> 0]

\* A process: pc is where its main task is and ctl where the control task of a
\* daemon is.  late is history, of which nothing in the program depends: the daemons
\* that were still about to make their socket when this one took the lock.
Free == [is |-> "free", pc |-> "none", ctl |-> "none", cmd |-> "none", peer |-> 0, build |-> "same",
         late |-> {}]

IsClient(i) == proc[i].is = "client"
IsDaemon(i) == proc[i].is = "daemon"
Alive(i)    == i \in Procs /\ proc[i].is \in {"client", "daemon"}

At(i, pc) == proc[i].pc = pc

\* The process goes on at pc, or is over.
Goto(i, pc) == [proc EXCEPT ![i].pc = pc]
Gone        == [Free EXCEPT !.is = "gone"]
End(i)      == [proc EXCEPT ![i] = Gone]

\* The id of the next process.
NextPid(i) == proc[i] = Free /\ \A j \in 1 .. i - 1 : proc[j] # Free
-----------------------------------------------------------------------------
(* The daemon: DaemonLock, the pid file, and the control socket.           *)

Acquiring(i) == IsDaemon(i) /\ proc[i].pc \in {"create", "peek", "unlink", "stamp"}

\* The actors run until they are shut down.
Syncing(i) == IsDaemon(i) /\ proc[i].pc \in {"running", "closing"}

\* The control task is at work between remove_stale_socket and the link.
Opening(i) == IsDaemon(i) /\ proc[i].ctl \in {"unsock", "bind", "unlinkLink", "link"}

\* The lock file is this daemon's, yet without its pid.
Created(i) == [proc EXCEPT ![i].pc = "stamp", ![i].late = {j \in Procs : Opening(j)}]

\* Mutant: the pid file is written before the lock is held.
CreateLockAfterPid(i) ==
    /\ IsDaemon(i) /\ At(i, "create")
    /\ IF lock = NoLock
       THEN lock' = [by |-> i, pid |-> 0] /\ proc' = Created(i)
       ELSE lock' = lock /\ proc' = Goto(i, "peek")
    /\ pid' = i
    /\ UNCHANGED <<dir, db, link, sock>>

\* DaemonLock::acquire: create_new, then the pid is written into the file (into
\* the file of this process, even when it is no longer the one at the path).
CreateLock(i) ==
    /\ IsDaemon(i) /\ At(i, "create")
    /\ IF lock = NoLock
       THEN lock' = [by |-> i, pid |-> 0] /\ proc' = Created(i)
       ELSE lock' = lock /\ proc' = Goto(i, "peek")
    /\ UNCHANGED <<dir, db, pid, link, sock>>

StampLock(i) ==
    /\ IsDaemon(i) /\ At(i, "stamp")
    /\ lock' = IF lock.by = i THEN [lock EXCEPT !.pid = i] ELSE lock
    /\ proc' = Goto(i, "pidfile")
    /\ UNCHANGED <<dir, db, pid, link, sock>>

\* read_pid_file and process_is_alive
LockHeld == Alive(lock.pid)

\* Mutant: any lock that is there is taken to be a dead daemon's.
PeekLockUnchecked(i) ==
    /\ IsDaemon(i) /\ At(i, "peek")
    /\ proc' = Goto(i, "unlink")
    /\ UNCHANGED files

\* Mutant: a lock without a pid belongs to somebody who is about to write it.
PeekLockWaits(i) ==
    /\ IsDaemon(i) /\ At(i, "peek")
    /\ proc' = IF LockHeld THEN End(i)
               ELSE IF lock # NoLock /\ lock.pid = 0 THEN Goto(i, "create")
               ELSE Goto(i, "unlink")
    /\ UNCHANGED files

PeekLock(i) ==
    /\ IsDaemon(i) /\ At(i, "peek")
    /\ proc' = IF LockHeld THEN End(i) ELSE Goto(i, "unlink")
    /\ UNCHANGED files

\* The stale file is removed, whatever is at the path by now; when its owner was
\* faster the daemon ends with that error.
UnlinkLock(i) ==
    /\ IsDaemon(i) /\ At(i, "unlink")
    /\ lock' = NoLock
    /\ proc' = IF lock = NoLock THEN End(i) ELSE Goto(i, "create")
    /\ UNCHANGED <<dir, db, pid, link, sock>>

WritePid(i) ==
    /\ IsDaemon(i) /\ At(i, "pidfile")
    /\ pid' = i
    /\ proc' = Goto(i, "load")
    /\ UNCHANGED <<dir, db, lock, link, sock>>

\* Configuration, database and stream are checked, and one of them may be wrong;
\* or the actors and the control task are spawned and the main task waits.
Load(i) ==
    /\ IsDaemon(i) /\ At(i, "load")
    /\ \/ proc' = [proc EXCEPT ![i].pc = "running", ![i].ctl = "unsock"]
       \/ proc' = Goto(i, "dropPid")
    /\ UNCHANGED files
-----------------------------------------------------------------------------
(* serve_control, a task on a thread of its own.  From remove_stale_socket *)
(* to the link it has no await: whatever the main task does, the lock      *)
(* given back included, the control task goes on to its select loop.       *)

Control(i, ctl) == IsDaemon(i) /\ proc[i].ctl = ctl
Turn(i, ctl)    == [proc EXCEPT ![i].ctl = ctl]

\* Mutant: bind without removing the socket of an earlier daemon.
RemoveStaleSocketNot(i) ==
    /\ Control(i, "unsock")
    /\ proc' = Turn(i, "bind")
    /\ UNCHANGED files

RemoveStaleSocket(i) ==
    /\ Control(i, "unsock")
    /\ sock' = 0
    /\ proc' = Turn(i, "bind")
    /\ UNCHANGED <<dir, db, lock, pid, link>>

Bind(i) ==
    /\ Control(i, "bind")
    /\ IF sock = 0
       THEN sock' = i /\ proc' = Turn(i, "unlinkLink")
       ELSE sock' = sock /\ proc' = Turn(i, "failed")
    /\ UNCHANGED <<dir, db, lock, pid, link>>

\* replace_socket_symlink
UnlinkLink(i) ==
    /\ Control(i, "unlinkLink")
    /\ link' = FALSE
    /\ proc' = Turn(i, "link")
    /\ UNCHANGED <<dir, db, lock, pid, sock>>

MakeLink(i) ==
    /\ Control(i, "link")
    /\ link' = TRUE
    /\ proc' = Turn(i, IF link THEN "failed" ELSE "serving")
    /\ UNCHANGED <<dir, db, lock, pid, sock>>

\* The token is cancelled and the task aborted.  It may not have run at all yet;
\* in its select loop it ends and drops the SocketGuard: the socket, then the link.
CancelControl(i) ==
    /\ Control(i, "unsock") /\ ~At(i, "running")
    /\ proc' = Turn(i, "none")
    /\ UNCHANGED files

DropSocket(i) ==
    /\ Control(i, "serving") /\ ~At(i, "running")
    /\ sock' = 0
    /\ proc' = Turn(i, "dropLink")
    /\ UNCHANGED <<dir, db, lock, pid, link>>

DropLink(i) ==
    /\ Control(i, "dropLink")
    /\ link' = FALSE
    /\ proc' = Turn(i, "none")
    /\ UNCHANGED <<dir, db, lock, pid, sock>>

ControlStep(i) ==
    \/ RemoveStaleSocket(i) \/ Bind(i) \/ UnlinkLink(i) \/ MakeLink(i)
    \/ CancelControl(i) \/ DropSocket(i) \/ DropLink(i)
-----------------------------------------------------------------------------
(* The end of the main task.                                               *)

\* The control server has failed.
ControlFailed(i) ==
    /\ IsDaemon(i) /\ At(i, "running") /\ proc[i].ctl = "failed"
    /\ proc' = Goto(i, "closing")
    /\ UNCHANGED files

\* Ctrl-C, an actor that ends, or (StopRequest below) a request over the socket.
Close(i) ==
    /\ IsDaemon(i) /\ At(i, "running")
    /\ proc' = Goto(i, "closing")
    /\ UNCHANGED files

\* actors.shutdown has come back; the guards are dropped, the last one first.
ShutDown(i) ==
    /\ IsDaemon(i) /\ At(i, "closing")
    /\ proc' = Goto(i, "dropPid")
    /\ UNCHANGED files

DropPid(i) ==
    /\ IsDaemon(i) /\ At(i, "dropPid")
    /\ pid' = 0
    /\ proc' = Goto(i, "dropLock")
    /\ UNCHANGED <<dir, db, lock, link, sock>>

DropLock(i) ==
    /\ IsDaemon(i) /\ At(i, "dropLock")
    /\ lock' = IF lock.pid = i THEN NoLock ELSE lock
    /\ proc' = Goto(i, "exit")
    /\ UNCHANGED <<dir, db, pid, link, sock>>

\* The runtime is dropped, which waits for the control task.
Exit(i) ==
    /\ IsDaemon(i) /\ At(i, "exit") /\ proc[i].ctl \in {"none", "failed"}
    /\ proc' = End(i)
    /\ UNCHANGED files

DaemonStep(i) ==
    \/ CreateLock(i) \/ StampLock(i) \/ PeekLock(i) \/ UnlinkLock(i)
    \/ WritePid(i) \/ Load(i) \/ ControlStep(i) \/ ControlFailed(i)
    \/ ShutDown(i) \/ DropPid(i) \/ DropLock(i) \/ Exit(i)
-----------------------------------------------------------------------------
(* The client.  A command is run, and its process may be killed, at will.  *)

Commands == {"bootstrap", "start", "stop", "status"}

Run(i, cmd) ==
    /\ NextPid(i)
    /\ Orderly => \A j \in Procs : ~IsClient(j) /\ ~Acquiring(j)
    /\ cmd = "bootstrap" \/ dir  \* find_workspace_root
    /\ proc' = [proc EXCEPT ![i] = [Free EXCEPT !.is = "client", !.cmd = cmd,
                                     !.pc = IF cmd = "bootstrap" THEN "check" ELSE "probe"]]
    /\ UNCHANGED files

\* init and clone: ensure_sync_root_unconfigured, create_metadata_dir,
\* create_initialized_database, and the engine, which takes no lock.
CheckUnconfigured(i) ==
    /\ IsClient(i) /\ At(i, "check")
    /\ proc' = IF dir THEN End(i) ELSE Goto(i, "mkdir")
    /\ UNCHANGED files

CreateMetadataDir(i) ==
    /\ IsClient(i) /\ At(i, "mkdir")
    /\ dir' = TRUE
    /\ proc' = IF dir THEN End(i) ELSE Goto(i, "mkdb")
    /\ UNCHANGED <<db, lock, pid, link, sock>>

CreateDatabase(i) ==
    /\ IsClient(i) /\ At(i, "mkdb")
    /\ db' = TRUE
    /\ proc' = Goto(i, "boot")
    /\ UNCHANGED <<dir, lock, pid, link, sock>>

Booted(i) ==
    /\ IsClient(i) /\ At(i, "boot")
    /\ proc' = End(i)
    /\ UNCHANGED files

\* Where a command goes on after a request that got no answer: start spawns a
\* daemon or waits for the one it has, stop and status are over; stop also comes
\* here when it has cleaned up after the daemon it stopped.
NoAnswer(i) ==
    CASE proc[i].cmd = "start" /\ proc[i].peer = 0 -> Goto(i, "spawn")
      [] proc[i].cmd = "start" /\ proc[i].peer # 0 -> Goto(i, "tick")
      [] proc[i].cmd = "stop"  /\ proc[i].peer # 0 -> Goto(i, "rmPid")
      [] OTHER -> End(i)

\* send_request reads the link and connects.  Without a link, or when a daemon
\* that is ending drops the connection, the request fails.  When the socket is
\* gone, or nobody listens on it, the client removes link and socket.
Listening(j) == j \in Procs /\ IsDaemon(j) /\ proc[j].ctl \in {"unlinkLink", "link", "serving"}

Deaf    == link /\ ~Listening(sock)
Lost    == link => Listening(sock) /\ ~At(sock, "running")
Answers == link /\ Listening(sock) /\ At(sock, "running") /\ proc[sock].ctl = "serving"

\* request_valid_status: a daemon of another build ends start, which then kills
\* its own child, and status; stop goes on to ask it.
Probe(i) ==
    /\ IsClient(i) /\ At(i, "probe")
    /\ \/ Deaf /\ proc' = Goto(i, "scrubLink")
       \/ Lost /\ proc' = NoAnswer(i)
       \/ /\ Answers
          /\ proc' = IF proc[i].cmd = "stop" THEN Goto(i, "ask")
                     ELSE IF proc[sock].build # "same" /\ proc[i].peer # 0 /\ Alive(proc[i].peer)
                     THEN [End(i) EXCEPT ![proc[i].peer] = Gone]
                     ELSE End(i)
    /\ UNCHANGED files

\* remove_stale_socket_files: the link, then the file it pointed to.
ScrubLink(i) ==
    /\ IsClient(i) /\ At(i, "scrubLink")
    /\ link' = FALSE
    /\ proc' = IF link THEN Goto(i, "scrubSock") ELSE NoAnswer(i)
    /\ UNCHANGED <<dir, db, lock, pid, sock>>

ScrubSock(i) ==
    /\ IsClient(i) /\ At(i, "scrubSock")
    /\ sock' = 0
    /\ proc' = NoAnswer(i)
    /\ UNCHANGED <<dir, db, lock, pid, link>>

\* run_start: the database must be there; the child may be another build.
Spawn(i) ==
    /\ IsClient(i) /\ At(i, "spawn")
    /\ \/ ~db /\ proc' = End(i)
       \/ /\ db
          /\ \E j \in Procs, build \in {"same", "old"} :
                /\ NextPid(j)
                /\ proc' = [proc EXCEPT ![i].pc = "probe", ![i].peer = j,
                                        ![j] = [Free EXCEPT !.is = "daemon", !.pc = "create",
                                                            !.build = build]]
    /\ UNCHANGED files

\* One round of the wait: the child is gone, the deadline has passed, or again.
Tick(i) ==
    /\ IsClient(i) /\ At(i, "tick")
    /\ \/ proc' = End(i)
       \/ Alive(proc[i].peer) /\ proc' = Goto(i, "probe")
    /\ UNCHANGED files

\* request_stop; a daemon too old to know the request is sent SIGTERM by the pid
\* in daemon.pid, and dies of it.
StopRequest(i) ==
    /\ IsClient(i) /\ At(i, "ask")
    /\ \/ Deaf /\ proc' = Goto(i, "scrubLink")
       \/ Lost /\ proc' = End(i)
       \/ /\ Answers /\ proc[sock].build # "old"
          /\ proc' = [proc EXCEPT ![sock].pc = "closing", ![i].pc = "wait", ![i].peer = sock]
       \/ /\ Answers /\ proc[sock].build = "old" /\ Alive(pid)
          /\ proc' = [proc EXCEPT ![pid] = Gone, ![i].pc = "wait", ![i].peer = pid]
       \/ /\ Answers /\ proc[sock].build = "old" /\ ~Alive(pid)
          /\ proc' = End(i)
    /\ UNCHANGED files

\* wait_for_daemon_process_exit: clean up after the process, or give up.
Wait(i) ==
    /\ IsClient(i) /\ At(i, "wait")
    /\ proc' = IF Alive(proc[i].peer) THEN End(i) ELSE Goto(i, "scrubLink")
    /\ UNCHANGED files

RemovePid(i) ==
    /\ IsClient(i) /\ At(i, "rmPid")
    /\ pid' = 0
    /\ proc' = End(i)
    /\ UNCHANGED <<dir, db, lock, link, sock>>

ClientStep(i) ==
    \/ CheckUnconfigured(i) \/ CreateMetadataDir(i) \/ CreateDatabase(i) \/ Booted(i)
    \/ Probe(i) \/ ScrubLink(i) \/ ScrubSock(i) \/ Spawn(i) \/ Tick(i)
    \/ StopRequest(i) \/ Wait(i) \/ RemovePid(i)
-----------------------------------------------------------------------------
\* A process dies where it is.
Crash(i) ==
    /\ Alive(i)
    /\ proc' = End(i)
    /\ UNCHANGED files

\* The user deletes .opbox, as the messages of a failed bootstrap advise.
DeleteMetadata ==
    /\ dir /\ \A i \in Procs : ~Alive(i)
    /\ dir' = FALSE /\ db' = FALSE /\ lock' = NoLock /\ pid' = 0 /\ link' = FALSE /\ sock' = 0
    /\ UNCHANGED proc

Init ==
    /\ dir = FALSE /\ db = FALSE /\ lock = NoLock /\ pid = 0 /\ link = FALSE /\ sock = 0
    /\ proc = [i \in Procs |-> Free]

Next ==
    \/ \E i \in Procs : DaemonStep(i) \/ ClientStep(i) \/ Close(i) \/ Crash(i)
    \/ \E i \in Procs, cmd \in Commands : Run(i, cmd)
    \/ DeleteMetadata

\* As long as a daemon has a step to take, one of them takes one.
Spec == Init /\ [][Next]_vars /\ WF_vars(\E i \in Procs : DaemonStep(i))
-----------------------------------------------------------------------------
\* At most one process works on the database and the directory: one daemon's
\* actors or one bootstrap, whatever was left behind by processes that died.
OneWriter ==
    \A i, j \in Procs :
        (Syncing(i) \/ (IsClient(i) /\ At(i, "boot")))
        /\ (Syncing(j) \/ (IsClient(j) /\ At(j, "boot"))) => i = j

\* daemon.pid names the daemon that answers, so that a stop by signal ends that
\* daemon and no other process.
PidNamesDaemon == \A i \in Procs : IsDaemon(i) /\ At(i, "running") => pid = i

\* What dead processes left never keeps a daemon from serving.  Only a daemon that
\* was still making its socket when it had given the lock back can: the control
\* task outlives the lock, and its late bind or link is in the next daemon's way.
StartsCleanly ==
    \A i \in Procs :
        IsDaemon(i) /\ At(i, "running") /\ proc[i].ctl = "failed" => proc[i].late # {}
-----------------------------------------------------------------------------
(* Why this is so when commands are orderly.                               *)

ClientPcs ==
    {"check", "mkdir", "mkdb", "boot", "probe", "scrubLink", "scrubSock", "spawn", "tick",
     "ask", "wait", "rmPid"}

HoldingPcs ==
    {"pidfile", "load", "running", "closing", "dropPid", "dropLock"}

DaemonPcs == {"create", "peek", "unlink", "stamp", "exit"} \cup HoldingPcs

ControlPcs == {"unsock", "bind", "unlinkLink", "link", "serving", "dropLink", "failed"}

\* The daemon has the lock and has not given it back.
Holding(i) == IsDaemon(i) /\ proc[i].pc \in HoldingPcs

TypeOK ==
    /\ dir \in BOOLEAN /\ db \in BOOLEAN /\ link \in BOOLEAN
    /\ lock \in [by : 0 .. MaxProcs, pid : 0 .. MaxProcs]
    /\ pid \in 0 .. MaxProcs /\ sock \in 0 .. MaxProcs
    /\ proc \in [Procs -> [is : {"free", "client", "daemon", "gone"},
                           pc : ClientPcs \cup DaemonPcs \cup {"none"},
                           ctl : ControlPcs \cup {"none"},
                           cmd : Commands \cup {"none"}, peer : 0 .. MaxProcs,
                           build : {"same", "old"}, late : SUBSET Procs]]

\* There is one command at a time, and one daemon that looks for the lock: the
\* child of the command, if there is one.
CommandInv ==
    /\ \A i, j \in Procs : IsClient(i) /\ IsClient(j) => i = j
    /\ \A i, j \in Procs : Acquiring(i) /\ Acquiring(j) => i = j
    /\ \A i, j \in Procs :
          IsClient(i) /\ (proc[i].cmd # "start" \/ proc[i].peer = 0) => ~Acquiring(j)
    /\ \A i \in Procs : IsClient(i) =>
          /\ proc[i].pc \in ClientPcs
          /\ At(i, "spawn") => proc[i].cmd = "start" /\ proc[i].peer = 0
          /\ proc[i].pc \in {"ask", "wait", "rmPid"} => proc[i].cmd = "stop"
          /\ proc[i].pc \in {"wait", "rmPid"} => proc[i].peer # 0
    /\ \A i \in Procs : IsDaemon(i) =>
          /\ proc[i].pc \in DaemonPcs
          /\ proc[i].ctl # "none" => proc[i].pc \in {"running", "closing", "dropPid", "dropLock", "exit"}

\* No daemon runs without a database, or while one is being made.
DatabaseInv ==
    /\ db => dir
    /\ \A i \in Procs : IsDaemon(i) => db
    /\ \A i \in Procs : IsClient(i) /\ At(i, "mkdb") => dir
    /\ \A i, j \in Procs : IsClient(i) /\ proc[i].pc \in {"mkdb", "boot"} => ~IsDaemon(j)

\* The lock file belongs to the daemon that holds it.  Who is about to remove it
\* as stale, or cleans up after the daemon it stopped, does so when nobody holds it.
LockInv ==
    /\ \A i \in Procs : Holding(i) => lock = [by |-> i, pid |-> i]
    /\ \A i \in Procs : IsDaemon(i) /\ At(i, "stamp") => lock = [by |-> i, pid |-> 0]
    /\ \A i, j \in Procs : IsDaemon(i) /\ At(i, "unlink") => ~Holding(j)
    /\ \A i, j \in Procs :
          IsClient(i) /\ proc[i].cmd = "stop" /\ proc[i].peer # 0 /\ Holding(j)
          => At(i, "wait") /\ j = proc[i].peer

\* The other files are as the daemon that holds the lock has made them, unless one
\* of those it knows to be late has come in between.
FilesInv ==
    /\ \A i \in Procs : Holding(i) /\ proc[i].pc \notin {"pidfile", "dropLock"} => pid = i
    /\ \A i, j \in Procs :
          (Holding(i) \/ (IsDaemon(i) /\ At(i, "stamp"))) /\ Opening(j) /\ i # j
          => j \in proc[i].late
    /\ \A i \in Procs :
          Holding(i) /\ Control(i, "bind") => sock = 0 \/ sock \in proc[i].late
    /\ \A i \in Procs : Holding(i) /\ Control(i, "link") /\ link => proc[i].late # {}
    /\ StartsCleanly

\* The inductive invariant of the proofs.
LifecycleInv == TypeOK /\ CommandInv /\ DatabaseInv /\ LockInv /\ FilesInv
-----------------------------------------------------------------------------
\* Every daemon that is spawned comes to answer, or ends; it never goes round for
\* the lock for ever.
StartSettles ==
    \A i \in Procs : IsDaemon(i) ~> ((At(i, "running") /\ proc[i].ctl = "serving") \/ ~Alive(i))
=============================================================================
