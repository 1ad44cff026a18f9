CONSTANTS
    a = a  b = b
    w1 = w1  w2 = w2  s1 = s1  k1 = k1
    d1 = d1  d2 = d2  d3 = d3
    n1 = n1  n2 = n2
    Downloads = {d1, d2, d3}
    Found = {}
    Items = {a, b}
    ItemOf <- MCItemOf
    Extras <- MCExtras
    NameOf <- MCNameOf
    QualityOf <- MCQuality
    UpgradeAllowed = TRUE
    Cutoff = 3
    Allowed = {1, 2}
    BinSettings = {TRUE, FALSE}
    Workers = {w1, w2}
    Scanners = {s1}
    Cleaners = {k1}
    Faults = {"db", "fs", "crash"}
    MaxFaults = 1
    NoRow = NoRow
    NoDownload = NoDownload
SYMMETRY Symmetry
SPECIFICATION Spec
INVARIANTS TypeOK ItemKeepsFile BinIsListed
PROPERTY NeverDowngraded
CHECK_DEADLOCK FALSE
