---------------------------- MODULE MCBleDirect ----------------------------
(***************************************************************************)
(* Instances of BleDirect: the requests a run issues.                      *)
(***************************************************************************)
EXTENDS BleDirect
CONSTANTS a, b

Base == [op |-> "stop", ids |-> {a}, hub |-> FALSE, wait |-> TRUE, timing |-> "none",
         stopPrevious |-> FALSE, openEnded |-> FALSE, emulate |-> FALSE, timeout |-> FALSE,
         a |-> [m \in Motors |-> 1]]
One(m, v) == [n \in Motors |-> IF n = m THEN v ELSE Keep]
Function(timing, wait) == [Base EXCEPT !.op = "function", !.timing = timing, !.wait = wait]
Hold(wait) == [Function("time", wait) EXCEPT !.ids = {a, b}, !.hub = TRUE]
HubStop == [Base EXCEPT !.ids = {a, b}, !.hub = TRUE]
Timed(op, wait) == [Base EXCEPT !.op = op, !.timing = "time", !.wait = wait]

ClientRequests ==
    {Base, Function("time", FALSE), Function("loop", FALSE),
     [Function("time", TRUE) EXCEPT !.timeout = TRUE, !.stopPrevious = TRUE,
                                     !.a = One(1, 1)],
     Timed("pattern", FALSE), Timed("preset", FALSE),
     [Timed("preset", FALSE) EXCEPT !.openEnded = TRUE, !.emulate = TRUE],
     [Base EXCEPT !.op = "set"], [Base EXCEPT !.op = "query"], [Base EXCEPT !.op = "play"],
     [Base EXCEPT !.op = "position"],
     [Base EXCEPT !.op = "connect"], [Base EXCEPT !.op = "disconnect"]}
HubRequests == {[Hold(FALSE) EXCEPT !.stopPrevious = TRUE], HubStop}
LevelRequests == {[Base EXCEPT !.op = "function"], [Base EXCEPT !.op = "function", !.a = One(1, 0)],
                  [Base EXCEPT !.op = "query"]}
TailRequests == {Function("time", FALSE), [Base EXCEPT !.op = "function"]}
SetRequests == {Function("time", FALSE), [Base EXCEPT !.op = "set"]}
PresetRequests == {Timed("preset", FALSE)}
AllRequests == ClientRequests \union HubRequests
=============================================================================
