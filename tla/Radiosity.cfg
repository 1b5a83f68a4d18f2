SPECIFICATION Spec
CONSTANTS
    Scenes <- MCScenes
    MaxDivisions <- MCDiv
    MaxSights <- MCSights
INVARIANTS PatchesExact VerticesShared SightExact
CHECK_DEADLOCK FALSE
