SPECIFICATION Spec
CONSTANTS
    Procs = {server, seed, spare}
    Levels = {l1, l2, l3}
    Tools = {t1, t2}
    None = None
INVARIANTS
    TypeOK
    CleanMeansCurrent
    ReadyIsCurrent
    AssignmentsCarried
PROPERTIES
    UndisturbedIsServed
    StartServes
