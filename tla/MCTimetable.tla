---------------------------- MODULE MCTimetable ----------------------------
EXTENDS Timetable, TLC

CONSTANTS s1, s2, s3, yoga, swim, r1, r2, c1, c2, c3, l1, q1, q2

\* Classes yoga and swim of coaches c1 and c2 meet at different times; then each coach
\* supports the other's class; then c3 stands in for c1 in a class c2 supports.
\* c2 has asked for the first slot off.
At(k, r, slot) == [status |-> "SCHEDULED", class |-> k, room |-> r, slot |-> slot, sub |-> None]
Free3(k)       == [At(k, r1, 1) EXCEPT !.status = "NONE"]
Lead(c, d)     == [x \in {c1, c2, c3} |-> IF x = c THEN "primary" ELSE IF x = d THEN "support" ELSE "none"]
Asks           == [l \in {l1} |-> [coach |-> c2, slot |-> 1, status |-> "PENDING"]]

MCOpenings ==
  {[session |-> (s1 :> At(yoga, r1, 1) @@ s2 :> At(swim, r2, 2) @@ s3 :> Free3(yoga)),
    role |-> (yoga :> Lead(c1, None) @@ swim :> Lead(c2, None)), leave |-> Asks],
   [session |-> (s1 :> At(yoga, r1, 1) @@ s2 :> At(swim, r1, 2) @@ s3 :> Free3(yoga)),
    role |-> (yoga :> Lead(c1, c2) @@ swim :> Lead(c2, c1)), leave |-> Asks],
   [session |-> (s1 :> [At(yoga, r1, 1) EXCEPT !.sub = c3] @@ s2 :> At(swim, r2, 2) @@ s3 :> Free3(yoga)),
    role |-> (yoga :> Lead(c1, c2) @@ swim :> Lead(c2, None)), leave |-> Asks]}

Swap == Permutations({q1, q2})
=============================================================================
