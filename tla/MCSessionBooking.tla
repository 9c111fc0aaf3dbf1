---------------------------- MODULE MCSessionBooking ----------------------------
(* SessionBooking with two classes: yoga has sessions 1 and 2, swimming has *)
(* session 3, which overlaps session 1.                                    *)
EXTENDS SessionBooking, TLC

Sessions == {1, 2, 3}
Classes == {"yoga", "swimming"}
ClassOfSession == <<"yoga", "yoga", "swimming">>
SameTime == {<<1, 3>>, <<3, 1>>}
\* Session 1 overlaps the other two, one of its own class.
YogaOverlaps == SameTime \cup {<<1, 2>>, <<2, 1>>}

\* One session.
OneSession == {1}
OneClassOf == <<"yoga">>

\* One class with two sessions.
TwoSessions == {1, 2}
OneClass == {"yoga"}
YogaOnly == <<"yoga", "yoga">>
OneEach == <<"yoga", "swimming">>
NoOverlap == {}
BothAtOnce == {<<1, 2>>, <<2, 1>>}

Symmetric == Permutations(Member) \cup Permutations(Request)

================================================================================
