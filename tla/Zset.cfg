SPECIFICATION Spec
CONSTANTS
    Clients = {c1, c2}
    Members = {1, 2, 3}
    Scores <- WithNaN
    Places <- Corners
    GridBits = 12
    Kinds = {"none", "string"}
CONSTRAINTS OneOddity ShortList
SYMMETRY Symmetry
INVARIANTS MirrorsScores  RanksAndSlices GeoInverts
CHECK_DEADLOCK FALSE
