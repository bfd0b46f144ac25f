------------------------- MODULE MCControlScheduler -------------------------
(* Small instances of ControlScheduler: who may ask what in each run. *)
EXTENDS ControlScheduler, TLC

CONSTANTS t1, t2, v1, v2

Fn(fs, l, d)   == [op |-> "function", toy |-> t1, feats |-> fs, level |-> l,
                   timed |-> d, fresh |-> FALSE]
Fresh(fs, l)   == [Fn(fs, l, FALSE) EXCEPT !.fresh = TRUE]
Off(f)         == [Fn({f}, 0, FALSE) EXCEPT !.op = "stopFeature"]
StopToy        == [Fn({}, 0, FALSE) EXCEPT !.op = "stopToy"]
StopAll        == [StopToy EXCEPT !.op = "stopAll"]
All(l, d)      == [Fn(Features, l, d) EXCEPT !.op = "functionAll"]
Closing        == [StopToy EXCEPT !.op = "shutdown"]

\* holds, timers and single-motor stops on two motors
MotorJobs == {Fn({v1}, 1, FALSE), Fn({v1}, 2, TRUE), Fn({v2}, 2, FALSE), Off(v1)}
\* stopping one of two motors
ZeroJobs  == {Fn({v1}, 1, FALSE), Fn({v2}, 2, FALSE), Off(v1)}
\* two levels of one motor
LevelJobs == {Fn({v1}, 1, FALSE), Fn({v1}, 2, FALSE), Fn({v2}, 1, FALSE)}
\* the scheduler of an old configuration is closed
ConfigJobs == {Fn({v1}, 1, FALSE), Closing}
\* stop_previous on another motor
FreshJobs == {Fn({v1}, 1, FALSE), Fresh({v2}, 1)}
LiveJobs  == {Fn({v1}, 1, FALSE), Fn({v1}, 2, TRUE), Off(v1), StopToy, Closing}
TimedJobs == {Fn({v1}, 1, TRUE), Fn({v2}, 2, TRUE)}
OtherToy  == [Fn({v1}, 1, FALSE) EXCEPT !.toy = t2]
\* every operation, on one motor
AllJobs   == {Fn({v1}, 1, FALSE), Fn({v1}, 2, TRUE), Fn({v1}, 0, FALSE), Off(v1),
              All(1, FALSE), Fresh({v1}, 1), StopToy, StopAll, Closing, OtherToy}
ReqSymmetry == Permutations(Reqs)
=============================================================================
