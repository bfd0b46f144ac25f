---------------------------- MODULE MCPlaySessions ----------------------------
(***************************************************************************)
(* Instances of PlaySessions.                                              *)
(***************************************************************************)
EXTENDS PlaySessions
CONSTANT a

Of(op, t, n) == [op |-> op, toy |-> t, time |-> n]
RunJobs == {Of("preset", a, 1), Of("preset", a, 2), Of("pattern", AllToys, 1), Of("loop", a, 0),
            Of("stopToy", a, 0), Of("stopAll", a, 0), Of("shutdown", a, 0)}
=============================================================================
