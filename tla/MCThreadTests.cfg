SPECIFICATION TestSpec
CONSTANTS
    Tcb = {t1, t2, t3, t4, t5}
    Mutex = {m1, m2}
    Cond = {c1}
    NULL = NULL
    Garbage = Garbage
    HeapContent = {NULL}
    MaxId = 8
    MaxInits = 1
    Tests = {"test1", "test2", "test3", "test4", "test5", "test6", "test7", "test11"}
    Lock1 = m1
    Lock2 = m2
    Condition = c1
    Joiners = 2
    Workers = 3
    Rounds = 4
INVARIANTS OutputRight
PROPERTIES EndsAsAnnounced
