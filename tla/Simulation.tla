----------------------------- MODULE Simulation -----------------------------
(***************************************************************************)
(* The deterministic simulation: daemons on in-memory directories, the     *)
(* shared log, and a controller that runs one of the workloads.  The       *)
(* program tries one schedule per seed; here every interleaving of the     *)
(* controller's commands with the daemons' steps is a behaviour.           *)
(***************************************************************************)
EXTENDS SimWorkloads

CONSTANTS
    Scripts  \* the names of the workloads to run

VARIABLES
    work,    \* the name of the workload
    part,    \* the index of its current part
    pc,      \* how many commands of the part each daemon has been given
    seen     \* the object id the controller remembers, {} at first

scriptVars == <<work, part, pc, seen>>
vars == <<daemon, log, work, part, pc, seen>>

\* Workload and its parsing from the command line.
Workload(name) ==
    CASE name = "General" -> General
      [] name = "ProjectionStorm" -> ProjectionStorm
      [] name = "ScopedScan" -> ScopedScan
      [] name = "ClearExisting" -> ClearExisting
      [] name = "ClearBeforeQuiescence" -> ClearBeforeQuiescence
      [] name = "BinaryIgnore" -> BinaryIgnore
      [] name = "TooLargeIgnore" -> TooLargeIgnore
      [] name = "PermissionDenied" -> PermissionDenied
      [] name = "LargeTextMultipart" -> LargeTextMultipart
      [] name = "SamePathCreateConflict" -> SamePathCreateConflict
      [] name = "ConflictPlusLaterEdit" -> ConflictPlusLaterEdit
      [] name = "ManyFileConflictStorm" -> ManyFileConflictStorm
      [] name = "DeleteVsEdit" -> DeleteVsEdit
      [] name = "SameFileEdits" -> SameFileEdits
      [] name = "OrphanedProjectionWrite" -> OrphanedProjectionWrite
      [] name = "SafeSave" -> SafeSave
      [] name = "ClearViaSafeSave" -> ClearViaSafeSave
      [] name = "RenamePreservesObject" -> RenamePreservesObject
      [] name = "FaultReadChangedDuringRead" -> FaultReadChangedDuringRead
      [] name = "FaultProjectionConflictBeforeSwap" -> FaultProjectionConflictBeforeSwap
      [] name = "FaultProjectionConflictAfterSwap" -> FaultProjectionConflictAfterSwap
      [] name = "FaultProjectionTempLeak" -> FaultProjectionTempLeak
      [] name = "OfflineReconnectMerge" -> OfflineReconnectMerge
      [] name = "HoldAndReleaseBurst" -> HoldAndReleaseBurst
      [] name = "PartitionBothDaemons" -> PartitionBothDaemons
      [] name = "FlappingConnectivity" -> FlappingConnectivity
      [] name = "AsymmetricPartition" -> AsymmetricPartition
      [] name = "PartitionDuringProjection" -> PartitionDuringProjection
      [] name = "TransientHighPacketLoss" -> TransientHighPacketLoss
      [] name = "SustainedEditingStress" -> SustainedEditingStress
      [] name = "DeleteWhileOffline" -> DeleteWhileOffline
      [] name = "CloneClobber" -> CloneClobber
      [] name = "InitThenClone" -> InitThenClone
      [] name = "InterruptedInit" -> InterruptedInit
      [] name = "InterruptedClone" -> InterruptedClone
      [] name = "CloneRace" -> CloneRace
      [] name = "RestartDuringProjection" -> RestartDuringProjection
      [] name = "OrphanedFirstRound" -> OrphanedFirstRound
      [] name = "RenameThenReuse" -> RenameThenReuse
      [] name = "IgnoredInTheWay" -> IgnoredInTheWay

\* A workload starts daemons on new databases and directories with finitely many
\* files, and its parts give each of them a list of commands.
IsWorkload(w) ==
    /\ w.start = [d \in DOMAIN w.start |-> w.start[d]]
    /\ \A d \in DOMAIN w.start :
          LET s == w.start[d]
          IN  /\ IsFiniteSet(DOMAIN s.disk)
              /\ s = Fresh(s.mode, [p \in DOMAIN s.disk |-> s.disk[p].text])
    /\ Len(w.parts) \in Nat \ {0}
    /\ \A i \in 1 .. Len(w.parts) : \A d \in DOMAIN w.start :
          LET ops == w.parts[i].ops[d]
          IN  Len(ops) \in Nat /\ \A j \in 1 .. Len(ops) : ops[j].cmd \in Commands

ASSUME ScriptsAssumption == \A name \in Scripts : IsWorkload(Workload(name))

Parts == Workload(work).parts
-----------------------------------------------------------------------------
(* The controller.                                                         *)

\* SimDaemonHandle: what a command does to its daemon.
Do(s, c) ==
    CASE c.cmd = "write"   -> WriteFile(s, c.path, c.text, c.kind)
      [] c.cmd = "replace" -> ReplaceFile(s, c.path, c.text, "text")
      [] c.cmd = "append"  -> AddToFile(s, c.path, c.words)
      [] c.cmd = "delete"  -> DeleteFile(s, c.path)
      [] c.cmd = "rename"  -> RenameFile(s, c.path, c.to)
      [] c.cmd = "scan"    -> [s EXCEPT !.scan = Coalesce(@, c.scope)]
      [] c.cmd = "inject"  -> [s EXCEPT !.faults = @ \cup {c.fault}]
      [] c.cmd = "link"    -> [s EXCEPT !.link = c.link]
      [] c.cmd = "init"    -> Over(s, "init")
      [] c.cmd = "clone"   -> [Over(s, "clone") EXCEPT !.clobber = c.clobber]
      [] c.cmd = "start"   -> Started(s)

\* snapshot_utf8_text_files
Snapshot(d) ==
    LET disk == daemon[d].disk
    IN  [p \in {q \in DOMAIN disk : disk[q].kind = "text"} |-> disk[p].text]

TextAt(d, p) == IF p \in DOMAIN Snapshot(d) THEN {Snapshot(d)[p]} ELSE {}

\* prior_live_paths of debug_snapshot
PriorObject(d, p) ==
    IF p \in LivePrior(daemon[d]) THEN {daemon[d].prior.tree[p].object} ELSE {}

Holds(c) ==
    CASE c.is = "files"     -> Snapshot(1) = c.want /\ Snapshot(2) = c.want
      [] c.is = "files_on"  -> Snapshot(c.of) = c.want
      [] c.is = "text"      -> \A d \in {1, 2} : TextAt(d, c.path) = {Lines(c.words)}
      [] c.is = "markers"   -> /\ TextAt(1, c.path) = TextAt(2, c.path)
                               /\ \E t \in TextAt(1, c.path) : c.words \subseteq DOMAIN t
      [] c.is = "one_of"    -> Snapshot(1) = Snapshot(2) /\ Snapshot(1) \in c.wants
      [] c.is = "same"      -> Snapshot(1) = Snapshot(2)
      [] c.is = "stable"    -> DOMAIN daemon[c.of].stable.tree = c.paths
      [] c.is = "empty"     -> daemon[c.of].outbox = <<>>
      [] c.is = "at_least"  -> Len(daemon[c.of].outbox) >= c.n
      [] c.is = "ignored"   -> Cardinality(DOMAIN daemon[c.of].ignored) = c.n
      [] c.is = "mode"      -> daemon[c.of].mode \in c.modes
      [] c.is = "matching"  -> /\ PriorObject(1, c.path) # {}
                               /\ PriorObject(2, c.path) = PriorObject(1, c.path)
      [] c.is = "preserved" -> PriorObject(1, c.path) = seen /\ PriorObject(2, c.path) = seen

Finished == part > Len(Parts)

Command(d) ==
    /\ ~Finished
    /\ pc[d] < Len(Parts[part].ops[d])
    /\ Becomes(d, Do(daemon[d], Parts[part].ops[d][pc[d] + 1]))
    /\ pc' = [pc EXCEPT ![d] = @ + 1]
    /\ UNCHANGED <<log, work, part, seen>>

EndPart ==
    /\ ~Finished
    /\ \A d \in Daemons : pc[d] = Len(Parts[part].ops[d])
    /\ \A c \in Parts[part].until : Holds(c)
    /\ part' = part + 1
    /\ pc' = [d \in Daemons |-> 0]
    /\ seen' = IF Parts[part].keep = {} THEN seen
               ELSE UNION {PriorObject(1, p) : p \in Parts[part].keep}
    /\ UNCHANGED <<daemon, log, work>>

\* The controller has its result; the daemons run on.
Idle == Finished /\ UNCHANGED vars
-----------------------------------------------------------------------------
Init ==
    /\ work \in Scripts
    /\ daemon = Workload(work).start
    /\ log = <<>>
    /\ part = 1
    /\ pc = [d \in Daemons |-> 0]
    /\ seen = {}

Engine(d) == (Import(d) \/ Plan(d) \/ Act(d) \/ Bootstrapping(d)) /\ UNCHANGED scriptVars
Writer(d) == Publish(d) /\ UNCHANGED scriptVars
Reader(d) == Ingest(d) /\ UNCHANGED scriptVars

Controller == EndPart \/ \E d \in Daemons : Command(d)

Next ==
    \/ \E d \in Daemons : Engine(d) \/ Writer(d) \/ Reader(d)
    \/ Controller
    \/ Idle

\* The process runs on until the workload is finished; no task is promised a
\* turn.  That some step is possible until then is the absence of deadlock.
Progress == []<>Finished \/ []<><<vars' # vars>>_vars

Spec == Init /\ [][Next]_vars /\ Progress

\* Whether the engine loop of d has something to do: ENABLED Engine(d), written
\* out because TLC evaluates ENABLED of so large an action too slowly.
EngineReady(d) ==
    LET s == daemon[d]
    IN  \/ s.mode \in {"init", "draining", "clone", "pulling", "projecting"}
        \/ /\ s.mode = "sync"
           /\ \/ s.epoch # NoEpoch
              \/ s.scan # {} \/ Differences(s) # {}
              \/ Actions(s) # <<>>

ReaderReady(d) ==
    daemon[d].mode = "sync" /\ daemon[d].link.recv /\ daemon[d].cursor < Len(log)

WriterReady(d) ==
    daemon[d].mode = "sync" /\ daemon[d].link.send /\ daemon[d].outbox # <<>>

\* Every task gets its turn: weak fairness of the engine loop (with EngineReady
\* for its ENABLED), the reader and the writer of each daemon, and of the
\* controller.
Fairness ==
    /\ \A d \in 1 .. 2 :
        /\ []<>~EngineReady(d) \/ []<><<Engine(d)>>_vars
        /\ WF_vars(Reader(d)) /\ WF_vars(Writer(d)) /\ WF_vars(Command(d))
    /\ WF_vars(EndPart)

FairSpec == Init /\ [][Next]_vars /\ Fairness
-----------------------------------------------------------------------------
(* Properties.                                                             *)

\* Every workload comes to its end: whatever the schedule, the files, outboxes
\* and object ids that the wait_for_ functions of the simulation ask for are
\* reached before the process runs out of steps or goes round in circles.
Completes == <>Finished

Caught(d) ==
    /\ daemon[d].mode = "sync"
    /\ daemon[d].outbox = <<>> /\ daemon[d].cursor = Len(log)

\* Daemons that have sent and applied everything have the same namespace, tree
\* and documents, in whatever order each of them came by the updates and however
\* often.  A document that is not there is read as an empty one.
SameLogSameState ==
    LET caught == {d \in Daemons : Caught(d)}
    IN  \A d \in caught : \A e \in caught \ {d} :
            LET s == daemon[d].stable
                t == daemon[e].stable
            IN  /\ s.ns = t.ns /\ s.tree = t.tree
                /\ \A o \in DOMAIN s.docs \cup DOMAIN t.docs :
                      Lookup(s.docs, o) = Lookup(t.docs, o)

\* The words that commands have appended to files of daemon d so far.
Typed(d) ==
    LET given(i) == IF i = part THEN pc[d] ELSE Len(Parts[i].ops[d])
        commands == UNION {{Parts[i].ops[d][j] : j \in 1 .. given(i)} :
                              i \in {i \in DOMAIN Parts : i <= part}}
    IN  UNION {c.words : c \in {c \in commands : c.cmd = "append"}}

\* What a user adds to a file stays: it is in a file of that directory or in the
\* shared documents, also while a projection, a delete, an edit of the same file
\* by another daemon, a partition or a restart is under way.
TypedIsKept ==
    \A d \in Daemons : \A w \in Typed(d) :
        \/ \E p \in DOMAIN daemon[d].disk : w \in DOMAIN daemon[d].disk[p].text
        \/ \E o \in DOMAIN daemon[d].stable.docs : w \in DOMAIN Text(daemon[d].stable.docs[o])

\* No word is twice in a file (wait_for_shared_text_with_markers): a daemon never
\* takes what it projected itself for an edit of the user.
MarkersOnce ==
    \A d \in Daemons : \A p \in DOMAIN daemon[d].disk :
        \A w \in DOMAIN daemon[d].disk[p].text : daemon[d].disk[p].text[w] = 1

Resting(d) ==
    /\ daemon[d].mode = "sync" /\ daemon[d].link = [send |-> TRUE, recv |-> TRUE]
    /\ ~ReaderReady(d) /\ ~WriterReady(d) /\ ~EngineReady(d)

\* Connected daemons with nothing left to do show the same text files, temporary
\* files of projections apart.
QuietDisksAgree ==
    LET visible(d) == {p \in DOMAIN Snapshot(d) : ~HardIgnored(p)}
        resting    == {d \in Daemons : Resting(d)}
    IN  \A d \in resting : \A e \in resting \ {d} :
            /\ visible(d) = visible(e)
            /\ \A p \in visible(d) : Snapshot(d)[p] = Snapshot(e)[p]

\* A rename or a safe save moves an object: it never leaves the object at two
\* paths of the tree at once.
OneFilePerObject ==
    \A d \in Daemons : \A p, q \in DOMAIN daemon[d].stable.tree :
        daemon[d].stable.tree[p].object = daemon[d].stable.tree[q].object => p = q

\* prior never runs ahead of stable: its claims, removals and document operations
\* are all known to stable, or an import would capture against operations that
\* no other daemon has.
PriorBehindStable ==
    \A d \in Daemons :
        LET prior == daemon[d].prior
            stable == daemon[d].stable
        IN  /\ prior.ns.claims \subseteq stable.ns.claims
            /\ prior.ns.removed \subseteq stable.ns.removed
            /\ \A o \in DOMAIN prior.docs :
                   /\ DOMAIN prior.docs[o].ins \subseteq DOMAIN Lookup(stable.docs, o).ins
                   /\ prior.docs[o].del \subseteq Lookup(stable.docs, o).del

\* A bootstrap that reports success has published all it has, has read up to the
\* tail it started with, and left a directory that needs no projection: the
\* errors in between all end it as failed.
BootstrapIsComplete ==
    \A d \in Daemons :
        daemon[d].mode = "done" =>
            /\ daemon[d].cursor >= daemon[d].tail /\ Actions(daemon[d]) = <<>>
            /\ \A o \in daemon[d].stable.ns.objects :
                  \E i \in DOMAIN log : log[i].object = <<>> /\ o \in log[i].update.objects
            /\ \A o \in DOMAIN daemon[d].stable.docs :
                  \E i \in DOMAIN log : log[i].object = o

\* A clone without clobber changes or removes no file that is there, also when
\* the user creates it after the check that the directory is empty.
CloneKeepsLocalFiles ==
    [][pc' = pc =>
        \A d \in Daemons :
            daemon[d].mode \in {"clone", "pulling", "projecting"} /\ ~daemon[d].clobber =>
                \A p \in DOMAIN daemon[d].disk :
                    /\ p \in DOMAIN daemon'[d].disk
                    /\ daemon'[d].disk[p] = daemon[d].disk[p]]_vars
=============================================================================
