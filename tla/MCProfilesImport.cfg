SPECIFICATION DataSpec
CONSTANTS
    Parts = {"profiles"}
    ssid = ssid
    v0 = v0
    v1 = v1
    quoted = quoted
    n1 = n1
    n2 = n2
    n3 = n3
    n4 = n4
    o1 = o1
    o2 = o2
    o3 = o3
    o4 = o4
    t1 = t1
    t2 = t2
    t3 = t3
    b = b
    Names <- MCNames
    Keys <- MCKeys
    Values <- MCValues
    Default <- MCDefault
    Unwritable <- MCUnwritable
    Absent = Absent
    Damaged = Damaged
    NULL = NULL
    LenMod = 65536
    Nodes <- MCNodes
    Objs <- MCObjs
    Borrowed <- MCBorrowed
    TreeKeys <- MCTreeKeys
    TreeValues <- MCTreeValues
    BorrowedValues <- MCBorrowedValues
    Other = Other
    Fault = Fault
PROPERTIES
    ImportsAvailable
