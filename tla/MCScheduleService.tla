--------------------------- MODULE MCScheduleService ---------------------------
EXTENDS ScheduleService, TLC
Symmetry == Permutations(Schedules) \cup Permutations(Ticks)
=============================================================================
