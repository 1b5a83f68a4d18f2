SPECIFICATION Spec
CONSTANTS
    Scenes <- MCScenes
    MaxDivisions <- MCDiv
    MaxSights <- MCSights
INVARIANT AncestorsTested
CHECK_DEADLOCK FALSE
