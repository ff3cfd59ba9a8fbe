\* Two application threads and the yield thread, three records.
CONSTANTS
    Users = {u1, u2}
    Yield = y
    Nodes = {n1, n2, n3}
    List = list
    NULL = NULL
SYMMETRY ThreadsAndNodes
SPECIFICATION Spec
INVARIANT ListSafe
\* The behaviour ends where the list is damaged.
CHECK_DEADLOCK FALSE
