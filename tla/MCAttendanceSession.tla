------------------------ MODULE MCAttendanceSession ------------------------
(* Instances of AttendanceSession for TLC.                                 *)
EXTENDS AttendanceSession, TLC

CONSTANTS t1, t2, s1, s2, present, absent, n1, why

TwoStudents == Permutations({s1, s2})

=============================================================================
