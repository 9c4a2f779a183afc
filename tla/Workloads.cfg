SPECIFICATION Spec
CONSTANT Scripts = {"General", "ProjectionStorm", "ScopedScan", "ClearExisting", "ClearBeforeQuiescence", "BinaryIgnore", "TooLargeIgnore", "PermissionDenied", "LargeTextMultipart", "SamePathCreateConflict", "ConflictPlusLaterEdit", "ManyFileConflictStorm", "DeleteVsEdit", "SameFileEdits", "SafeSave", "ClearViaSafeSave", "RenamePreservesObject", "FaultReadChangedDuringRead", "FaultProjectionConflictBeforeSwap", "FaultProjectionConflictAfterSwap", "FaultProjectionTempLeak", "OfflineReconnectMerge", "HoldAndReleaseBurst", "PartitionBothDaemons", "FlappingConnectivity", "AsymmetricPartition", "PartitionDuringProjection", "TransientHighPacketLoss", "SustainedEditingStress", "DeleteWhileOffline", "CloneClobber", "InitThenClone", "InterruptedInit", "InterruptedClone", "CloneRace", "RestartDuringProjection", "OrphanedFirstRound"}
INVARIANTS SameLogSameState TypedIsKept MarkersOnce QuietDisksAgree OneFilePerObject PriorBehindStable BootstrapIsComplete SharedInv
PROPERTIES Completes CloneKeepsLocalFiles
