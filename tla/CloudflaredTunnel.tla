-------------------------- MODULE CloudflaredTunnel --------------------------
(***************************************************************************)
(* services/http_api/tunnel.py: start() and stop() requests, the worker    *)
(* task that spawns the tunnel process and starts it again, and the        *)
(* process.  A step is the code between two awaits.                        *)
(*                                                                         *)
(* A start() creates at most one worker, so the call names its worker.     *)
(***************************************************************************)
EXTENDS Integers, FiniteSets

CONSTANTS
  Calls,         \* HTTP requests, each of them served once
  Asks,          \* what they may ask: a set of functions
  Processes,     \* child processes there may be in a behaviour
  MaxExits,      \* how many of them may exit by themselves
  None           \* no task, no process

ASSUME TunnelAssumption ==
  /\ Asks \subseteq [Calls -> {"start", "stop"}] /\ MaxExits \in Nat
  /\ None \notin Calls \cup Processes

VARIABLES
  desired,   \* _state.desired
  stopping,  \* _stop.is_set()
  url,       \* _state.url is not None
  task,      \* _task: a worker
  proc,      \* _proc: a process
  alive,     \* per process: is it unborn, up, asked to terminate, gone?
  exits,
  op, pc,    \* per call: what it asks, where it is
  victim,    \* per call and per worker: the process whose end it awaits
  joins,     \* per call: the worker a stop() awaits
  wpc,       \* per worker: where it is
  mine,      \* per worker: the process whose output it reads
  cancelled, \* per worker: a cancel() not yet delivered
  crossed    \* history: a start() has arrived before a stop() was answered

state   == <<desired, stopping, url, task, proc>>
callers == <<op, pc, joins, crossed>>
workers == <<wpc, mine, cancelled>>
vars    == <<desired, stopping, url, task, proc, alive, exits,
             op, pc, victim, joins, wpc, mine, cancelled, crossed>>

Actors == {"call", "work"} \X Calls
\* faults: done() is not tested; a running task is not looked for
IdleNone   == task = None
IdleAlways == TRUE
\* no task, or a task that is done()
Over == {None} \cup {w \in Calls : wpc[w] = "done"}
Idle == task \in Over

Init ==
  /\ desired = FALSE /\ stopping = FALSE /\ url = FALSE
  /\ task = None /\ proc = None
  /\ alive = [p \in Processes |-> "unborn"] /\ exits = 0
  /\ op \in Asks /\ pc = [c \in Calls |-> "idle"]
  /\ victim = [a \in Actors |-> None]
  /\ joins = [c \in Calls |-> None]
  /\ wpc = [c \in Calls |-> "none"] /\ mine = [c \in Calls |-> None]
  /\ cancelled = [c \in Calls |-> FALSE]
  /\ crossed = FALSE

-----------------------------------------------------------------------------
(* _kill_proc: the process is taken out of _proc, then asked to terminate; *)
(* a process that ignores it is killed, so the wait ends with the process. *)
Alive(p) == p # None /\ alive[p] # "gone"
\* fault: the test of returncode is inverted
MustWaitGone == proc # None /\ ~Alive(proc)
MustWait     == Alive(proc)
TakeProc(a) ==
  /\ proc' = None
  /\ victim' = [victim EXCEPT ![a] = IF MustWait THEN proc ELSE None]
  /\ alive'  = IF MustWait THEN [alive EXCEPT ![proc] = "term"] ELSE alive

-----------------------------------------------------------------------------
(* Calls *)

\* waiting for the URL delays the answer and changes nothing
Start(c) ==
  /\ pc[c] = "idle" /\ op[c] = "start"
  /\ desired' = TRUE
  /\ IF Idle
     THEN /\ stopping' = FALSE
          /\ task' = c
          /\ wpc' = [wpc EXCEPT ![c] = "new"]
     ELSE UNCHANGED <<stopping, task, wpc>>
  /\ pc' = [pc EXCEPT ![c] = "done"]
  /\ crossed' = (crossed \/ \E d \in Calls : pc[d] \in {"kill", "join"})
  /\ UNCHANGED <<url, proc, alive, exits, op, victim, joins, mine, cancelled>>

\* fault: the task is awaited but not cancelled
CancelNot(w) == UNCHANGED cancelled
Cancel(w)    == cancelled' = [cancelled EXCEPT ![w] = TRUE]

\* the task is taken out of _task, cancelled and awaited
Cancels(c) ==
  /\ task' = None
  /\ IF Idle
     THEN /\ url' = FALSE
          /\ pc' = [pc EXCEPT ![c] = "done"]
          /\ UNCHANGED <<joins, cancelled>>
     ELSE /\ joins' = [joins EXCEPT ![c] = task]
          /\ Cancel(task)
          /\ pc' = [pc EXCEPT ![c] = "join"]
          /\ UNCHANGED url

\* nothing is awaited where there is no process to kill
Stop(c) ==
  /\ pc[c] = "idle" /\ op[c] = "stop"
  /\ desired' = FALSE /\ stopping' = TRUE
  /\ IF MustWait
     THEN pc' = [pc EXCEPT ![c] = "kill"] /\ UNCHANGED <<url, task, joins, cancelled>>
     ELSE Cancels(c)
  /\ TakeProc(<<"call", c>>)
  /\ UNCHANGED <<exits, op, wpc, mine, crossed>>

StopCancels(c) ==
  /\ pc[c] = "kill" /\ ~Alive(victim[<<"call", c>>])
  /\ victim' = [victim EXCEPT ![<<"call", c>>] = None]
  /\ Cancels(c)
  /\ UNCHANGED <<desired, stopping, proc, alive, exits, op, wpc, mine, crossed>>

StopReturns(c) ==
  /\ pc[c] = "join" /\ joins[c] \in Over
  /\ url' = FALSE
  /\ joins' = [joins EXCEPT ![c] = None]
  /\ pc' = [pc EXCEPT ![c] = "done"]
  /\ UNCHANGED <<desired, stopping, task, proc, alive, exits, op, victim, crossed, workers>>

-----------------------------------------------------------------------------
(* The worker *)

Moves(w, where) == wpc' = [wpc EXCEPT ![w] = where]
Wanted == desired /\ ~stopping

\* the head of _loop and of _run_once, up to the await of the spawn
RunOnce(w) ==
  IF Wanted THEN Moves(w, "spawn") /\ url' = FALSE
            ELSE Moves(w, "done") /\ UNCHANGED url

Begins(w) ==
  /\ wpc[w] = "new" /\ ~cancelled[w]
  /\ RunOnce(w)
  /\ UNCHANGED <<desired, stopping, task, proc, alive, exits, callers, victim, mine, cancelled>>

Spawns(w) ==
  /\ wpc[w] = "spawn" /\ ~cancelled[w]
  /\ \E p \in Processes :
       /\ alive[p] = "unborn"
       /\ alive' = [alive EXCEPT ![p] = "up"]
       /\ proc' = p
       /\ mine' = [mine EXCEPT ![w] = p]
  /\ Moves(w, "read")
  /\ UNCHANGED <<desired, stopping, url, task, exits, callers, victim, cancelled>>

\* no binary, or the spawn fails: restart after a delay, unless stopped
SpawnFails(w) ==
  /\ wpc[w] = "spawn" /\ ~cancelled[w]
  /\ Moves(w, IF Wanted THEN "delay" ELSE "done")
  /\ UNCHANGED <<state, alive, exits, callers, victim, mine, cancelled>>

PrintsUrl(w) ==
  /\ wpc[w] = "read" /\ ~cancelled[w] /\ alive[mine[w]] # "gone"
  /\ ~url
  /\ url' = TRUE
  /\ UNCHANGED <<desired, stopping, task, proc, alive, exits, callers, victim, workers>>

\* faults: no restart; the old link is still shown
LeavesForGood(w) == Moves(w, "done")
UrlKept    == url
\* the end of `finally`: an exit that was not asked for is an error, which the
\* loop answers with a restart, and which replaces a CancelledError in flight
Leaves(w)  == Moves(w, IF Wanted THEN "delay" ELSE "done")
UrlDropped == url /\ ~Wanted
Finally(w) ==
  /\ Leaves(w)
  /\ url' = UrlDropped
  /\ victim' = [victim EXCEPT ![<<"work", w>>] = None]
  /\ mine' = [mine EXCEPT ![w] = None]

\* end of output, or a cancellation while reading: `finally` kills _proc
Eof(w) ==
  /\ wpc[w] = "read"
  /\ cancelled[w] \/ alive[mine[w]] = "gone"
  /\ IF MustWait
     THEN /\ TakeProc(<<"work", w>>)
          /\ Moves(w, "kill")
          /\ UNCHANGED <<url, mine>>
     ELSE proc' = None /\ Finally(w) /\ UNCHANGED alive
  /\ cancelled' = [cancelled EXCEPT ![w] = FALSE]
  /\ UNCHANGED <<desired, stopping, task, exits, callers>>

Killed(w) ==
  /\ wpc[w] = "kill" /\ ~cancelled[w]
  /\ ~Alive(victim[<<"work", w>>])
  /\ Finally(w)
  /\ UNCHANGED <<desired, stopping, task, proc, alive, exits, callers, cancelled>>

\* the delay is over, or stop() has set the event
Restarts(w) ==
  /\ wpc[w] = "delay" /\ ~cancelled[w]
  /\ RunOnce(w)
  /\ UNCHANGED <<desired, stopping, task, proc, alive, exits, callers, victim, mine, cancelled>>

\* CancelledError anywhere else ends the worker; a spawn under way is undone
Abandons(w) ==
  /\ cancelled[w] /\ wpc[w] \in {"new", "spawn", "kill", "delay"}
  /\ cancelled' = [cancelled EXCEPT ![w] = FALSE]
  /\ victim' = [victim EXCEPT ![<<"work", w>>] = None]
  /\ mine' = [mine EXCEPT ![w] = None]
  /\ Moves(w, "done")
  /\ UNCHANGED <<state, alive, exits, callers>>

-----------------------------------------------------------------------------
(* Processes *)

Terminates(p) ==
  /\ alive[p] = "term"
  /\ alive' = [alive EXCEPT ![p] = "gone"]
  /\ UNCHANGED <<state, exits, callers, victim, workers>>

Exits(p) ==
  /\ alive[p] = "up" /\ exits < MaxExits
  /\ exits' = exits + 1
  /\ alive' = [alive EXCEPT ![p] = "gone"]
  /\ UNCHANGED <<state, callers, victim, workers>>
-----------------------------------------------------------------------------
CallSteps(c) == StopCancels(c) \/ StopReturns(c)
WorkSteps(w) ==
  \/ Begins(w) \/ Spawns(w) \/ PrintsUrl(w) \/ Eof(w) \/ Killed(w)
  \/ Restarts(w) \/ Abandons(w)
Answered == \A c \in Calls : pc[c] = "done"
\* a worker reads, and a stop() may await it, as long as its process runs
Parked(c) == pc[c] = "join" /\ joins[c] \in {w \in Calls : wpc[w] = "read"}
Rest == (\A c \in Calls : pc[c] = "done" \/ Parked(c)) /\ UNCHANGED vars

Next ==
  \/ \E c \in Calls : Start(c) \/ Stop(c) \/ CallSteps(c) \/ WorkSteps(c) \/ SpawnFails(c)
  \/ \E p \in Processes : Terminates(p) \/ Exits(p)
  \/ Rest

Spec == Init /\ [][Next]_vars

\* Ready tasks run, delays elapse, spawns succeed in the end, signals work.
FairSpec ==
  /\ Spec
  /\ \A c \in Calls : WF_vars(CallSteps(c))
  /\ \A w \in Calls : WF_vars(Begins(w) \/ Eof(w) \/ Killed(w) \/ Restarts(w) \/ Abandons(w))
  /\ \A w \in Calls : SF_vars(Spawns(w)) /\ WF_vars(PrintsUrl(w))
  /\ \A p \in Processes : WF_vars(Terminates(p))
-----------------------------------------------------------------------------
(* Properties *)

TypeOK ==
  /\ desired \in BOOLEAN /\ stopping \in BOOLEAN /\ url \in BOOLEAN
  /\ task \in Calls \cup {None} /\ proc \in Processes \cup {None}
  /\ alive \in [Processes -> {"unborn", "up", "term", "gone"}]
  /\ exits \in 0 .. MaxExits
  /\ op \in Asks
  /\ pc \in [Calls -> {"idle", "kill", "join", "done"}]
  /\ victim \in [Actors -> Processes \cup {None}]
  /\ joins \in [Calls -> Calls \cup {None}]
  /\ wpc \in [Calls -> {"none", "new", "spawn", "read", "kill", "delay", "done"}]
  /\ mine \in [Calls -> Processes \cup {None}]
  /\ cancelled \in [Calls -> BOOLEAN] /\ crossed \in BOOLEAN
  \* what is cancelled is alive, who reads has a process, who waits knows for what
  /\ \A c \in Calls :
       /\ wpc[c] # "none" => op[c] = "start"
       /\ cancelled[c] => wpc[c] \notin {"none", "done"}
       /\ (mine[c] # None) <=> wpc[c] \in {"read", "kill"}
       /\ (joins[c] # None) <=> pc[c] = "join"
       /\ (victim[<<"call", c>>] # None) <=> pc[c] = "kill"
       /\ (victim[<<"work", c>>] # None) <=> wpc[c] = "kill"

(* "Owns one child process" (tunnel.py:81): two processes are never up at once. *)
OneProcess == Cardinality({p \in Processes : alive[p] = "up"}) <= 1

(* "... and keeps it alive while desired" (tunnel.py:81): as long as a tunnel   *)
(* is wanted, a worker that stop() can reach is there to start it.              *)
DesiredHasWorker == (Answered /\ desired) => ~Idle

\* The rest is stated for behaviours in which no tunnel is asked for before a
\* stop() has been answered; stop() may overlap with stop(), start() with start().

(* As long as that is so, there is one process, whatever overlaps (tunnel.py:81). *)
CalmOneProcess == ~crossed => OneProcess

(* Once every request has been answered and the last one was a stop, no process *)
(* is left that nobody has asked to terminate, and no link is shown             *)
(* (tunnel.py:171-185).                                                         *)
CalmStoppedIsDown ==
  (Answered /\ ~desired /\ ~crossed) => ~url /\ \A p \in Processes : alive[p] # "up"

(* The link that is shown belongs to a process that is still owned, or a stop   *)
(* is about to remove it (tunnel.py:181, 271-275).                              *)
CalmUrlIsOwned == (url /\ ~crossed) => proc # None \/ ~desired

(* A stop is answered (tunnel.py:171-185).                                      *)
CalmStopsFinish ==
  [](~crossed) => \A c \in Calls : (op[c] = "stop" /\ pc[c] # "idle") ~> (pc[c] = "done")

(* A tunnel that stays wanted is finally up for good, although its process      *)
(* exits and spawns fail (tunnel.py:192-220).                                   *)
CalmKeptAlive ==
  [](~crossed) => <>[](desired => \E p \in Processes : alive[p] = "up")
=============================================================================
