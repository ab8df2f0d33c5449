\* Two Runs, their results and reports, every command and two versions.
SPECIFICATION Spec
CONSTANTS
    Runs = {r1, r2}
    None = None
    MaxVersion = 2
SYMMETRY RunSymmetry
INVARIANTS
    PointerIsPublished
    OnePublishedPlan
PROPERTIES
    HistoryIsKept
    PointerFollowsPublication
