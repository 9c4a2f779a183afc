---------------------------- MODULE SimWorkloads ----------------------------
(***************************************************************************)
(* The workloads of the deterministic simulation (sim/src/main.rs), one    *)
(* definition per run_ function.  A workload is the daemons it starts and  *)
(* a sequence of parts.  A part gives each daemon a list of commands and   *)
(* ends when all are done and its checks hold; the commands of one daemon  *)
(* run in order, those of several daemons in any interleaving.             *)
(*                                                                         *)
(* Numbers of files, rounds and edits are cut to one or two.  Words stand  *)
(* for lines: every edit adds a word of its own.  The request for a scan   *)
(* that follows most writes is left out where the periodic full scan,      *)
(* possible at any time here, does the same.                               *)
(***************************************************************************)
EXTENDS Bootstrap, TLC

Lines(words) == [w \in words |-> 1]
-----------------------------------------------------------------------------
(* Commands (SimDaemonCommand).                                            *)

WriteTo(p, words)    == [cmd |-> "write", path |-> p, text |-> Lines(words), kind |-> "text"]
WriteOdd(p, kind)    == [cmd |-> "write", path |-> p, text |-> EmptyText, kind |-> kind]
ReplaceBy(p, words)  == [cmd |-> "replace", path |-> p, text |-> Lines(words)]
AppendTo(p, w)       == [cmd |-> "append", path |-> p, words |-> {w}]
DeleteAt(p)          == [cmd |-> "delete", path |-> p]
Rename(p, q)         == [cmd |-> "rename", path |-> p, to |-> q]
RequestScan(scope)   == [cmd |-> "scan", scope |-> scope]
Inject(kind, p, words) ==
    [cmd |-> "inject", fault |-> [kind |-> kind, path |-> p, text |-> Lines(words)]]
Link(send, recv)     == [cmd |-> "link", link |-> [send |-> send, recv |-> recv]]
RunInit              == [cmd |-> "init"]
RunClone(clobber)    == [cmd |-> "clone", clobber |-> clobber]
Start                == [cmd |-> "start"]

Commands == {"write", "replace", "append", "delete", "rename", "scan", "inject", "link",
             "init", "clone", "start"}

Partition == Link(FALSE, FALSE)
Repair    == Link(TRUE, TRUE)
-----------------------------------------------------------------------------
(* Checks (the wait_for_ functions).                                       *)

Files(want)          == [is |-> "files", want |-> want]
FilesOn(d, want)     == [is |-> "files_on", of |-> d, want |-> want]
FileText(p, words)   == [is |-> "text", path |-> p, words |-> words]
Markers(p, words)    == [is |-> "markers", path |-> p, words |-> words]
OneOf(wants)         == [is |-> "one_of", wants |-> wants]
SameFiles            == [is |-> "same"]
StablePaths(d, ps)   == [is |-> "stable", of |-> d, paths |-> ps]
OutboxEmpty(d)       == [is |-> "empty", of |-> d]
OutboxAtLeast(d, n)  == [is |-> "at_least", of |-> d, n |-> n]
IgnoredCount(d, n)   == [is |-> "ignored", of |-> d, n |-> n]
ModeOf(d, modes)     == [is |-> "mode", of |-> d, modes |-> modes]
MatchingObject(p)    == [is |-> "matching", path |-> p]
PreservedObject(p)   == [is |-> "preserved", path |-> p]

OutboxesEmpty == {OutboxEmpty(1), OutboxEmpty(2)}
-----------------------------------------------------------------------------
(* The shape of a workload.                                                *)

A == <<1>>
B == <<2>>
T == <<0>>  \* the temporary file of an editor's safe save

None == <<>>

\* The conflict path of daemon d's file at p.
ConflictPath(p, d) == p \o <<1, d>>

Part(a, b, checks) == [ops |-> <<a, b>>, until |-> checks, keep |-> {}]
Wait(checks) == Part(None, None, checks)

\* A part after which the controller remembers the object at p.
Keeping(p, part) == [part EXCEPT !.keep = {p}]

Syncing(files1, files2, parts) ==
    [start |-> <<Fresh("sync", files1), Fresh("sync", files2)>>, parts |-> parts]

\* The base text on both daemons, which many workloads begin with.
Base(words) == Keeping(A, Part(<<WriteTo(A, words)>>, None, {FileText(A, words), MatchingObject(A)}))
-----------------------------------------------------------------------------
(* Creation, scans and files that are left alone.                          *)

General ==
    Syncing(None, None,
        <<Part(<<WriteTo(A, {1})>>, <<WriteTo(B, {2})>>,
               {Files(A :> Lines({1}) @@ B :> Lines({2}))})>>)

ProjectionStorm ==
    Syncing(None, None,
        <<Part(<<WriteTo(A, {1}), WriteTo(B, {2}), WriteTo(A \o A, {3})>>, None,
               {Files(A :> Lines({1}) @@ B :> Lines({2}) @@ (A \o A) :> Lines({3}))})>>)

ScopedScan ==
    Syncing(None, None,
        <<Keeping(A, Part(<<WriteTo(A, {1}), RequestScan(A)>>, None,
                          {Files(A :> Lines({1})), MatchingObject(A)})),
          Part(<<ReplaceBy(A, {1, 2}), RequestScan(A)>>, None,
               {Files(A :> Lines({1, 2})), PreservedObject(A)}),
          Part(<<DeleteAt(A), RequestScan(A)>>, None, {Files(None)})>>)

ClearExisting ==
    Syncing(None, None,
        <<Part(None, <<WriteTo(A, {1})>>, {FileText(A, {1})}),
          Part(None, <<ReplaceBy(A, {})>>, {FileText(A, {})})>>)

ClearBeforeQuiescence ==
    Syncing(None, None,
        <<Part(None, <<WriteTo(A, {1}), ReplaceBy(A, {})>>, {FileText(A, {})})>>)

BinaryIgnore ==
    Syncing(None, None,
        <<Part(None, <<WriteOdd(A, "binary")>>, {IgnoredCount(2, 1), FilesOn(1, None)}),
          Part(None, <<ReplaceBy(A, {1})>>, {Files(A :> Lines({1}))})>>)

TooLargeIgnore ==
    Syncing(None, None,
        <<Part(None, <<WriteOdd(A, "huge")>>, {IgnoredCount(2, 1), FilesOn(1, None)}),
          Part(None, <<ReplaceBy(A, {1})>>, {Files(A :> Lines({1})), IgnoredCount(2, 0)})>>)

PermissionDenied ==
    Syncing(None, None,
        <<Part(None, <<Inject("denied", A, {}), WriteTo(A, {1}), RequestScan(Full)>>, {}),
          Part(None, <<RequestScan(Full)>>, {FileText(A, {1}), IgnoredCount(2, 0)})>>)

LargeTextMultipart ==
    Syncing(None, None,
        <<Base({1, 2}),
          Part(None, <<AppendTo(A, 3)>>, {FileText(A, {1, 2, 3}), PreservedObject(A)})>>)
-----------------------------------------------------------------------------
(* Conflicts.                                                              *)

\* Both daemons create a file at one instant, here before they start; the file
\* of daemon 1 keeps the path.
Conflicted(words1, words2) == A :> Lines(words1) @@ ConflictPath(A, 2) :> Lines(words2)

SamePathCreateConflict ==
    Syncing(A :> Lines({1}), A :> Lines({2}), <<Wait({Files(Conflicted({1}, {2}))})>>)

ConflictPlusLaterEdit ==
    Syncing(A :> Lines({1}), A :> Lines({2}),
        SamePathCreateConflict.parts \o
        <<Part(<<AppendTo(ConflictPath(A, 2), 3)>>, <<AppendTo(A, 4)>>,
               {Files(Conflicted({1, 4}, {2, 3}))})>>)

ManyFileConflictStorm ==
    LET only(d) == <<3, d>> :> Lines({2 + d})
    IN  Syncing(A :> Lines({1}) @@ only(1), A :> Lines({2}) @@ only(2),
                <<Wait({Files(Conflicted({1}, {2}) @@ only(1) @@ only(2))})>>)

DeleteVsEdit ==
    Syncing(None, None,
        <<Base({1}),
          Part(<<DeleteAt(A)>>, <<AppendTo(A, 2)>>,
               {OneOf({None, A :> Lines({1, 2}), A :> Lines({2}),
                       ConflictPath(A, 2) :> Lines({1, 2}),
                       ConflictPath(A, 2) :> Lines({2})})})>>)

SameFileEdits ==
    Syncing(None, None,
        <<Base({1}),
          Part(<<AppendTo(A, 2)>>, <<AppendTo(A, 3), AppendTo(A, 4)>>,
               {Markers(A, {1, 2, 3, 4})})>>)

\* Bursts of B over all files, edits of A while they arrive, and no wait between
\* two rounds.
OrphanedProjectionWrite ==
    Syncing(A :> Lines({1}) @@ B :> Lines({2}), None,
        <<Wait({Files(A :> Lines({1}) @@ B :> Lines({2}))}),
          Part(None, <<AppendTo(A, 3), AppendTo(B, 4), RequestScan(Full)>>, {}),
          Part(<<AppendTo(B, 5), RequestScan(B)>>, None, {}),
          Part(None, <<AppendTo(A, 6), AppendTo(B, 7), RequestScan(Full)>>, {}),
          Part(<<AppendTo(A, 8), RequestScan(A)>>, None,
               {Files(A :> Lines({1, 3, 6, 8}) @@ B :> Lines({2, 4, 5, 7}))})>>)
-----------------------------------------------------------------------------
(* Editors that save through a temporary file, and renames.                *)

SafeSaveOn(words) == <<WriteTo(T, words), DeleteAt(A), WriteTo(A, words), DeleteAt(T)>>

SafeSave ==
    Syncing(None, None,
        <<Base({1}),
          Part(SafeSaveOn({1, 2}), None, {Files(A :> Lines({1, 2})), PreservedObject(A)})>>)

ClearViaSafeSave ==
    Syncing(None, None,
        <<Base({1}),
          Part(None, SafeSaveOn({}), {Files(A :> EmptyText), PreservedObject(A)})>>)

RenamePreservesObject ==
    Syncing(None, None,
        <<Base({1}),
          Part(<<Rename(A, B), RequestScan(Full)>>, None,
               {Files(B :> Lines({1})), PreservedObject(B)})>>)
-----------------------------------------------------------------------------
(* Errors of the file layer.                                               *)

FaultReadChangedDuringRead ==
    Syncing(None, None,
        <<Part(<<Inject("changed", A, {2}), WriteTo(A, {1}), RequestScan(A)>>, None,
               {Files(A :> Lines({2}))})>>)

\* A local edit that lands around the swap of a projected write.
ProjectionConflict(kind) ==
    Syncing(None, None,
        <<Part(<<Inject(kind, A, {1})>>, None, {}),
          Part(None, <<WriteTo(A, {2}), RequestScan(A)>>, {Files(Conflicted({1}, {2}))})>>)

FaultProjectionConflictBeforeSwap == ProjectionConflict("before_swap")
FaultProjectionConflictAfterSwap  == ProjectionConflict("after_swap")

FaultProjectionTempLeak ==
    Syncing(None, None,
        <<Part(<<Inject("leak", A, {2})>>, None, {}),
          Part(None, <<WriteTo(A, {1}), RequestScan(A)>>,
               {FilesOn(1, A :> Lines({1}) @@ TempPath(A) :> Lines({2})),
                FilesOn(2, A :> Lines({1})), StablePaths(1, {A}), StablePaths(2, {A})})>>)
-----------------------------------------------------------------------------
(* Connections that are lost, held, one-way or unreliable.  A daemon whose *)
(* link is down neither sends nor receives.                                *)

OfflineReconnectMerge ==
    Syncing(None, None,
        <<Base({1}),
          Part(None, <<Partition, AppendTo(A, 2)>>, {OutboxAtLeast(2, 1)}),
          Part(<<AppendTo(A, 3)>>, None, {}),
          Part(None, <<Repair>>, {Markers(A, {2, 3}), OutboxEmpty(2)})>>)

HoldAndReleaseBurst ==
    Syncing(None, None,
        <<Base({1}),
          Part(<<AppendTo(A, 3)>>, <<Partition, AppendTo(A, 2), Repair>>,
               {Markers(A, {2, 3})} \cup OutboxesEmpty)>>)

PartitionBothDaemons ==
    Syncing(None, None,
        <<Base({1}),
          Part(<<Partition, AppendTo(A, 2)>>, <<Partition, AppendTo(A, 3)>>,
               {OutboxAtLeast(1, 1), OutboxAtLeast(2, 1)}),
          Part(<<Repair>>, <<Repair>>, {Markers(A, {2, 3})} \cup OutboxesEmpty)>>)

FlappingConnectivity ==
    Syncing(None, None,
        <<Base({1}),
          Part(<<AppendTo(A, 2)>>, <<Partition>>, {}),
          Part(<<AppendTo(A, 3)>>, <<Repair, Partition, Repair>>,
               {Markers(A, {2, 3})} \cup OutboxesEmpty)>>)

AsymmetricPartition ==
    Syncing(None, None,
        <<Base({1}),
          Part(<<AppendTo(A, 2)>>, <<Link(FALSE, TRUE), AppendTo(A, 3)>>, {}),
          Part(None, <<Repair>>, {Markers(A, {2, 3})} \cup OutboxesEmpty)>>)

PartitionDuringProjection ==
    Syncing(None, None,
        <<Part(<<Partition, Repair>>, <<WriteTo(A, {1}), RequestScan(A), WriteTo(B, {2})>>,
               {Files(A :> Lines({1}) @@ B :> Lines({2}))} \cup OutboxesEmpty)>>)

TransientHighPacketLoss ==
    Syncing(None, None,
        <<Part(<<WriteTo(A, {1})>>, <<WriteTo(B, {2})>>,
               {FileText(A, {1}), FileText(B, {2})} \cup OutboxesEmpty),
          Part(<<AppendTo(A, 3)>>, <<Partition, AppendTo(B, 4), Repair>>,
               {Markers(A, {3}), Markers(B, {4})} \cup OutboxesEmpty)>>)

SustainedEditingStress ==
    Syncing(None, None,
        <<Part(<<AppendTo(A, 1), AppendTo(A, 2)>>, <<AppendTo(B, 3)>>,
               {Markers(A, {1, 2}), Markers(B, {3})} \cup OutboxesEmpty)>>)

DeleteWhileOffline ==
    Syncing(None, None,
        <<Base({1}),
          Part(None, <<Partition, AppendTo(A, 2)>>, {OutboxAtLeast(2, 1)}),
          Part(<<DeleteAt(A)>>, None, {}),
          Part(None, <<Repair>>, {SameFiles} \cup OutboxesEmpty)>>)
-----------------------------------------------------------------------------
(* Clone over a populated directory: daemon 3 is refused, daemon 2 takes   *)
(* the shared version of A, keeps <<3>> and then starts to sync.           *)

CloneClobber ==
    LET shared == A :> Lines({1}) @@ B :> Lines({2})
        local  == A :> Lines({3}) @@ B :> Lines({2}) @@ <<3>> :> Lines({4})
        result == shared @@ <<3>> :> Lines({4})
    IN  [start |-> <<Fresh("sync", shared), Fresh("idle", local),
                     Fresh("idle", A :> Lines({3}))>>,
         parts |->
            <<[Wait({StablePaths(1, {A, B}), OutboxEmpty(1)}) EXCEPT !.ops = <<None, None, None>>],
              [Wait({ModeOf(3, {"refused"})}) EXCEPT !.ops = <<None, None, <<RunClone(FALSE)>>>>],
              [Wait({ModeOf(2, {"done"}), FilesOn(2, result)}) EXCEPT
                    !.ops = <<None, <<RunClone(TRUE)>>, None>>],
              [Wait({Files(result)}) EXCEPT !.ops = <<None, <<Start>>, None>>]>>]
-----------------------------------------------------------------------------
(* Histories the program has no workload for.                              *)

\* init and clone as the client runs them, while the first daemon already edits.
InitThenClone ==
    [start |-> <<Fresh("idle", A :> Lines({1})), Fresh("idle", None)>>,
     parts |->
        <<Part(<<RunInit>>, None, {ModeOf(1, {"done"})}),
          Part(<<Start, AppendTo(A, 2), WriteTo(B, {3})>>, <<RunClone(FALSE)>>,
               {ModeOf(2, {"done"})}),
          Part(None, <<Start>>, {Files(A :> Lines({1, 2}) @@ B :> Lines({3}))})>>]

\* The connection is lost during init or clone, and the user starts the daemon
\* on what is there.
InterruptedInit ==
    [start |-> <<Fresh("idle", A :> Lines({1})), Fresh("sync", None)>>,
     parts |->
        <<Part(<<RunInit, Partition>>, None, {ModeOf(1, {"done", "failed"})}),
          Part(<<Repair, Start>>, None, {Files(A :> Lines({1}))})>>]

InterruptedClone ==
    [start |-> <<Fresh("sync", A :> Lines({1})), Fresh("idle", None)>>,
     parts |->
        <<Wait({StablePaths(1, {A}), OutboxEmpty(1)}),
          Part(<<AppendTo(A, 2)>>, <<RunClone(FALSE), Partition>>,
               {ModeOf(2, {"done", "failed"})}),
          Part(None, <<Repair, Start>>, {Files(A :> Lines({1, 2}))})>>]

\* The user writes into the directory that is being cloned.
CloneRace ==
    [start |-> <<Fresh("sync", A :> Lines({1})), Fresh("idle", None)>>,
     parts |->
        <<Wait({StablePaths(1, {A}), OutboxEmpty(1)}),
          Part(None, <<RunClone(FALSE), WriteTo(A, {2})>>,
               {ModeOf(2, {"done", "failed", "refused"})}),
          Part(None, <<Start>>, {SameFiles} \cup OutboxesEmpty)>>]

\* The daemon stops in the middle of a projection and starts again.
RestartDuringProjection ==
    Syncing(A :> Lines({1}) @@ B :> Lines({2}), None,
        <<Wait({Files(A :> Lines({1}) @@ B :> Lines({2}))}),
          Part(None, <<AppendTo(A, 3), AppendTo(B, 4), RequestScan(Full)>>, {}),
          Part(<<Start>>, None, {Files(A :> Lines({1, 3}) @@ B :> Lines({2, 4}))})>>)

\* The first round of OrphanedProjectionWrite alone: an edit of A aborts the
\* projection of the burst, and no newer edit follows.
OrphanedFirstRound ==
    Syncing(A :> Lines({1}) @@ B :> Lines({2}), None,
        <<Wait({Files(A :> Lines({1}) @@ B :> Lines({2}))}),
          Part(None, <<AppendTo(A, 3), AppendTo(B, 4), RequestScan(Full)>>, {}),
          Part(<<AppendTo(B, 5), RequestScan(B)>>, None,
               {Files(A :> Lines({1, 3}) @@ B :> Lines({2, 4, 5}))})>>)

\* A file is renamed and its old name is used again for another text.
RenameThenReuse ==
    Syncing(None, None,
        <<Base({1}),
          Part(<<Rename(A, B), RequestScan(Full)>>, None, {Files(B :> Lines({1}))}),
          Part(<<WriteTo(A, {2})>>, None,
               {Files(A :> Lines({2}) @@ B :> Lines({1}))})>>)

\* A remote file arrives at a path where the user keeps a file that is ignored.
IgnoredInTheWay ==
    Syncing(None, None,
        <<Part(None, <<WriteOdd(A, "binary")>>, {IgnoredCount(2, 1)}),
          Part(<<WriteTo(A, {1}), WriteTo(B, {2})>>, None, {FilesOn(2, B :> Lines({2}))})>>)
=============================================================================
