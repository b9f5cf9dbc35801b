SPECIFICATION Spec
CONSTANTS
    Client = {c1, c2}
    Key = {k1, k2}
    MaxId = 3
INVARIANTS
    DerivesOnlyCommits
    ReferentIsThere
SYMMETRY Symmetry
