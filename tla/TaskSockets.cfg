SPECIFICATION SocketsSpec
CONSTANTS
    s1 = s1
    s2 = s2
    u1 = u1
    u2 = u2
    t1 = t1
    t2 = t2
    Sockets = {s1}
    Users = {u1, u2}
    Tasks = {t1, t2}
    UserOf <- MCUserOf
    OwnerOf <- MCOwnerOf
    Members = {u1}
    Shared = {t1, t2}
    Publishers = {p1, p2}
    None = None
    Window = 1
    Capacity = 3
    MaxSubscriptions = 2
    MaxTasks = 2
    MaxEvents = 2
INVARIANTS ShownOnce
PROPERTIES ClientsAreReached
CHECK_DEADLOCK FALSE
