CONSTANTS
    Lessons = {l1, l2}
    Procs = {p1, p2}
    Days = {1, 2}
    DayLength = 3
    NoLesson = NoLesson
    Free = Free
SPECIFICATION Spec
SYMMETRY ScheduleSymmetry
INVARIANTS
    OnlyPhantomsOverlap
    NobodyStuck
PROPERTY
    NoSelfConflict
CHECK_DEADLOCK FALSE
