---------------------------- MODULE MCSchedules ----------------------------
(* Small instances of Schedules for TLC. *)
EXTENDS Schedules, TLC

CONSTANTS p1, p2, s1, s2

\* No definition names a patch or a producer.
ScheduleSymmetry == Permutations({p1, p2}) \cup Permutations({s1, s2})

=============================================================================
