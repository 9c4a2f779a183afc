SPECIFICATION Spec
CONSTANT Scripts = {"OrphanedProjectionWrite"}
INVARIANT MarkersOnce
