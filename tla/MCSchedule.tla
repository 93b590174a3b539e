----------------------------- MODULE MCSchedule -----------------------------
(* Small instances of Schedule for TLC.                                     *)
EXTENDS Schedule, TLC

\* Lesson ids and requests are interchangeable (safety runs only).
ScheduleSymmetry == Permutations(Lessons) \cup Permutations(Procs)
=============================================================================
