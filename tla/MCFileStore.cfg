SPECIFICATION Spec
CONSTANTS
    k1 = k1
    k2 = k2
    k3 = k3
    n1 = n1
    n2 = n2
    d1 = d1
    Key = {k1, k2, k3}
    Name = {n1, n2}
    FileOf <- SharedName
    Doc = {d1, d2}
    Thread = {t1, t2}
    Older <- OtherPrograms
    MaxWrites = 2
    MaxFaults = 2
    Absent = Absent
INVARIANTS
    LoadIsPromised
    FilesAreListed
PROPERTY IsKeyStore
SYMMETRY Alike
CHECK_DEADLOCK FALSE
