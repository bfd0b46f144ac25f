--------------------------- MODULE MCBleSupervisor ---------------------------
(* Small instances of BleSupervisor: who may ask what in each run. *)
EXTENDS BleSupervisor, TLC

CONSTANTS a1, a2, m1, m2, p1, p2

Of(o, i, d) == [op |-> o, id |-> i, dev |-> d, replace |-> FALSE]
Swap(q)     == [q EXCEPT !.replace = TRUE]
\* the address is the one the toy reports (Linux, Windows)
SameIds  == [d \in Devices |-> IF d = p1 THEN m1 ELSE m2]
\* the system hides the address (macOS)
OtherIds == [d \in Devices |-> IF d = p1 THEN a1 ELSE a2]

\* every route, on a toy whose id is first guessed and then reported
Routes == {Of("connect", a1, p1), Swap(Of("connect", a1, p1)), Of("auto", m1, p1),
           Of("reconnect", m1, p1), Of("disconnect", m1, p1), Of("remove", m1, p1),
           Of("disable", m1, p1)}
Overlaps == {Of("connect", m1, p1), Of("disconnect", m1, p1)}
Again    == {Of("auto", m1, p1)}
Swaps    == {Of("connect", m1, p1), Swap(Of("connect", m1, p1))}
Stale    == {Of("connect", m1, p1), Of("connect", m2, p2), Of("reconnect", m1, p1)}
Closing  == {Of("connect", m1, p1), Of("connect", m2, p2), Of("disable", m1, p1)}
Lives    == {Of("connect", m1, p1), Of("connect", m2, p2), Of("disconnect", m1, p1),
             Of("remove", m1, p1)}
CallSymmetry == Permutations(Calls)
=============================================================================
