\* Limits of one and two, lists cut at one item, bodies of up to four lines.
SPECIFICATION FairSpec
CONSTANTS
    DefaultLimit = 1
    MaxLimit = 2
    MaxRows = 1
    AskedLimits = {0, 1, 2, 3}
    MaxLines = 4
CHECK_DEADLOCK FALSE
INVARIANTS
    BodiesInv
    CutIsTold
    DecodesAsStated
PROPERTY
    QueryEnds
