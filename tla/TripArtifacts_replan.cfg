\* A plan and two replans from it.
SPECIFICATION Spec
CONSTANTS
    Runs = {r1, r2, r3}
    None = None
    MaxVersion = 1
SYMMETRY RunSymmetry
INVARIANTS
    NoStaleReplan
