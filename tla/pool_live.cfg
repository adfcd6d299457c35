SPECIFICATION FairSpec
CONSTANTS
    c1 = c1
    loop = loop
    a1 = a1
    t1 = t1
    t2 = t2
    t3 = t3
    w1 = w1
    w2 = w2
    w3 = w3
    w4 = w4
    Callers = {c1}
    Loop = loop
    Addresses = {a1}
    Transports = {t1}
    AddressOf <- OneToOneAddress
    Foreign = {}
    Overrides = {}
    Wrappers = {w1, w2}
    MaxFree = 1
    TaskStartMayFail = TRUE
    None = None
PROPERTIES
    ClosesSettle
