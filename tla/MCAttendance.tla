---------------------------- MODULE MCAttendance ----------------------------
EXTENDS Attendance, TLC

CONSTANTS m1, m2, s1, s2, k1, k2, i1, i2, q1, q2

Swap == Permutations({q1, q2}) \cup Permutations(Members) \cup Permutations(Sessions)
          \cup Permutations(Reports) \cup Permutations(Codes)
=============================================================================
