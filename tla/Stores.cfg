SPECIFICATION StoresSpec
CONSTANTS
    a = a
    b = b
    o1 = o1
    o2 = o2
    tx1 = tx1
    tx2 = tx2
    Objects = {a, b, o1}
    Txns = {tx1, tx2}
    Callers = {1, 2}
    Calls <- MCCalls
    Outputs <- MCOutputs
    LabelsOf <- MCLabelsOf
    Keys <- MCKeys
    Lookups <- MCLookups
    MaxRestarts = 1
    Addresses = {"alice", "bob"}
    Orders <- MCOrders
    Nodes = {1, 2}
    Requests = {1, 2, 3, 4}
    Kind <- MCKind
    Objs <- MCObjs
    MaxLost = 1
INVARIANTS LookupResolves Conserved OneCreator
PROPERTY Serializable
CHECK_DEADLOCK FALSE
