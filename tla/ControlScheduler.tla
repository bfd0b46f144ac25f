-------------------------- MODULE ControlScheduler --------------------------
(***************************************************************************)
(* The per-motor half of lovensepy/services/http_api/scheduler.py.         *)
(*                                                                         *)
(* Requests (HTTP handlers) and slots (the asyncio tasks that hold one     *)
(* motor) run on one event loop.  A step of the model is the code between  *)
(* two awaits that can really suspend: the acquisition of a toy's lock, a  *)
(* backend call, `await old` after a cancellation, the sleep or the park   *)
(* of a hold.  `_state_lock` is never held across such an await, so its    *)
(* sections are part of the step around them.                              *)
(*                                                                         *)
(* A request creates at most one slot per feature it names, so the pair    *)
(* <<request, feature>> stands for the task and for its uuid task_id.      *)
(***************************************************************************)
EXTENDS Integers, Sequences, Functions, AsyncLock

CONSTANTS
  Toys,          \* toy ids
  Features,      \* motor names of a toy
  Reqs,          \* HTTP requests, each of them served once
  MaxLevel,      \* largest level of FUNCTION_RANGES
  Jobs,          \* what a request may ask
  Additive,      \* does a motor a write does not list keep running?
  MaxFail,       \* how many writes to the backend may raise
  NoSlot,        \* `None` in _tasks
  NoJob          \* a request that has not arrived

NoLevel  == -1                       \* a key absent from _levels
Level    == 0 .. MaxLevel
Slots    == Reqs \X Features
Actors   == Reqs \cup Slots
FunctionOps == {"function", "functionAll"}
Ops      == FunctionOps \cup {"stopFeature", "stopToy", "stopAll", "shutdown"}

\* timed is duration > 0; fresh is stop_previous
Job == [op : Ops, toy : Toys, feats : SUBSET Features,
        level : Level, timed : BOOLEAN, fresh : BOOLEAN]

ASSUME LevelAssumption == MaxLevel \in Nat /\ MaxFail \in Nat /\ Additive \in BOOLEAN
ASSUME JobAssumption ==
  /\ Jobs \subseteq Job
  /\ \A j \in Jobs : j.op = "stopFeature" => j.level = 0 /\ ~j.timed
ASSUME DistinctAssumption ==
  /\ NoSlot \notin Slots
  /\ NoJob \notin Jobs
  /\ Reqs \cap Slots = {}
ASSUME FeatureAssumption == Features # {}

VARIABLES
  closed,        \* _closed
  tasks,         \* _tasks[toy][feature]: the registered slot
  levels,        \* _levels[toy][feature]
  rows,          \* _meta: the level shown by the row of a slot, NoLevel when none
  locks,         \* _locks[toy]: FIFO of actors, the head holds the lock
  wire,          \* the snapshot the holder of a toy's lock is writing
  motor,         \* what the toy does
  fails,         \* writes to the backend that have raised
  job, rpc,      \* per request: what it asks, where it is
  todo, cur,     \* features left of schedule_function's loop, feature at hand
  pend, waits,   \* keys left of cancel_every_slot_for_toy, slots awaited
  spc, cancelled \* per slot: where it is, a cancel() not yet delivered

reqVars  == <<job, rpc, todo, cur, pend, waits>>
slotVars == <<spc, cancelled>>
book     == <<closed, tasks, levels, rows>>
device   == <<locks, wire, motor, fails>>
vars     == <<closed, tasks, levels, rows, locks, wire, motor, fails,
              job, rpc, todo, cur, pend, waits, spc, cancelled>>

Toy(s)     == job[s[1]].toy
Feature(s) == s[2]
OwnsUnchecked(s) == TRUE                           \* fault: the test is missing
Owns(s)    == tasks[Toy(s)][Feature(s)] = s        \* `_tasks.get(key) is me`
Empty      == [f \in Features |-> NoLevel]
Silent     == [f \in Features |-> 0]
IsHold(j)  == ~j.timed /\ j.level > 0              \* duration <= 0 < level
IsZero(j)  == ~j.timed /\ j.level = 0
Keys(ts)   == {k \in ts \X Features : tasks[k[1]][k[2]] # NoSlot}
Registered == {tasks[k[1]][k[2]] : k \in Keys(Toys)}
Raised(t, f, l)    == [levels EXCEPT ![t][f] = l]
DroppedNot(t, f)   == levels                       \* fault: the level stays on record
Dropped(t, f)      == [levels EXCEPT ![t][f] = NoLevel]

Joined(t, a)      == [locks EXCEPT ![t] = Append(@, a)]
Released(t)       == [locks EXCEPT ![t] = Tail(@)]
Holds(t, a)       == HeldBy(locks[t], a)
ReleasedTo(t, a)  == [locks EXCEPT ![t] = Append(Tail(@), a)]

(***************************************************************************)
(* The control backend, as _apply_snapshot uses it: an empty snapshot      *)
(* zeroes every motor, any other sets the motors it lists.                 *)
(***************************************************************************)
LandedRaw(t, snap) == [motor EXCEPT ![t] = snap]   \* fault: absent keys are sent
Landed(t, snap) ==
  [motor EXCEPT ![t] =
     [f \in Features |-> IF snap = Empty THEN 0
                         ELSE IF snap[f] # NoLevel THEN snap[f]
                         ELSE IF Additive THEN @[f] ELSE 0]]
Quiet(ts) == [t \in Toys |-> IF t \in ts THEN Silent ELSE motor[t]]

Init ==
  /\ closed = FALSE
  /\ tasks  = [t \in Toys |-> [f \in Features |-> NoSlot]]
  /\ levels = [t \in Toys |-> Empty]
  /\ rows   = [s \in Slots |-> NoLevel]
  /\ locks  = [t \in Toys |-> <<>>]
  /\ wire   = [t \in Toys |-> Empty]
  /\ motor  = [t \in Toys |-> Silent]
  /\ fails  = 0
  /\ job    = [r \in Reqs |-> NoJob]
  /\ rpc    = [r \in Reqs |-> "idle"]
  /\ todo   = [r \in Reqs |-> {}]
  /\ cur    = [r \in Reqs |-> CHOOSE f \in Features : TRUE]
  /\ pend   = [r \in Reqs |-> {}]
  /\ waits  = [r \in Reqs |-> {}]
  /\ spc    = [s \in Slots |-> "free"]
  /\ cancelled = [s \in Slots |-> FALSE]

-----------------------------------------------------------------------------
(* Requests *)

Targets(j) == IF j.op = "stopAll" THEN Toys ELSE {j.toy}

\* A function request refused because the scheduler is closed.
Refuse(r) ==
  /\ rpc[r] = "idle" /\ closed
  /\ \E j \in Jobs : j.op \in FunctionOps /\ job' = [job EXCEPT ![r] = j]
  /\ rpc' = [rpc EXCEPT ![r] = "failed"]
  /\ UNCHANGED <<book, device, todo, cur, pend, waits, slotVars>>

\* schedule_function after the actions are expanded: stop_previous or the loop
Begin(r, j) ==
  /\ todo' = [todo EXCEPT ![r] = j.feats]
  /\ IF (j.op \in FunctionOps /\ ~j.fresh) \/ j.op = "stopFeature"
     THEN rpc' = [rpc EXCEPT ![r] = "next"] /\ UNCHANGED pend
     ELSE /\ rpc' = [rpc EXCEPT ![r] = "cancel"]
          /\ pend' = [pend EXCEPT ![r] = Keys(Targets(j))]

Submit(r) ==
  /\ rpc[r] = "idle"
  /\ \E j \in Jobs :
       /\ j.op # "shutdown" /\ (j.op \in FunctionOps => ~closed)
       /\ job' = [job EXCEPT ![r] = j]
       /\ IF j.op = "functionAll"        \* _expand_actions awaits get_toys
          THEN rpc' = [rpc EXCEPT ![r] = "expand"] /\ UNCHANGED <<todo, pend>>
          ELSE Begin(r, j)
  /\ UNCHANGED <<book, device, cur, waits, slotVars>>

\* get_toys is answered; or it raises, or does not list the toy, and so the request raises
Expand(r) ==
  /\ rpc[r] = "expand"
  /\ \/ Begin(r, job[r])
     \/ rpc' = [rpc EXCEPT ![r] = "failed"] /\ UNCHANGED <<todo, pend>>
  /\ UNCHANGED <<book, device, job, cur, waits, slotVars>>

\* fault: the task is cancelled but stays registered
ForgetNot(t, f) ==
  /\ cancelled' = [cancelled EXCEPT ![tasks[t][f]] = TRUE]
  /\ UNCHANGED tasks
\* The first half of _cancel_slot: forget the task, then cancel it.
Forget(t, f) ==
  LET s == tasks[t][f]
  IN  /\ tasks' = [tasks EXCEPT ![t][f] = NoSlot]
      /\ cancelled' = [cancelled EXCEPT ![s] = (spc[s] # "done")]

CancelOne(r) ==
  /\ rpc[r] = "cancel"
  /\ \E k \in pend[r] :
       /\ pend' = [pend EXCEPT ![r] = @ \ {k}]
       /\ IF tasks[k[1]][k[2]] = NoSlot
          THEN UNCHANGED <<tasks, cancelled, waits, rpc>>
          ELSE /\ Forget(k[1], k[2])
               /\ waits' = [waits EXCEPT ![r] = {tasks[k[1]][k[2]]}]
               /\ rpc' = [rpc EXCEPT ![r] = "await"]
  /\ UNCHANGED <<closed, levels, rows, device, job, todo, cur, spc>>

AllDone(ss) == \A s \in ss : spc[s] = "done"

Cancelled(r) ==
  /\ rpc[r] = "await" /\ AllDone(waits[r])
  /\ rpc' = [rpc EXCEPT ![r] = "cancel"]
  /\ waits' = [waits EXCEPT ![r] = {}]
  /\ UNCHANGED <<book, device, job, todo, cur, pend, slotVars>>

CancelledAll(r) ==
  /\ rpc[r] = "cancel" /\ pend[r] = {}
  /\ rpc' = [rpc EXCEPT ![r] = IF job[r].op \in FunctionOps THEN "next" ELSE "stop"]
  /\ UNCHANGED <<book, device, job, todo, cur, pend, waits, slotVars>>

\* stop_toy and stop_all: backend.stop() lands outside every toy's lock.
StopLands(r) ==
  /\ rpc[r] = "stop"
  /\ motor' = Quiet(Targets(job[r]))
  /\ rpc' = [rpc EXCEPT ![r] = "done"]
  /\ UNCHANGED <<book, locks, wire, fails, job, todo, cur, pend, waits, slotVars>>

StopFails(r) ==
  /\ rpc[r] = "stop" /\ fails < MaxFail
  /\ fails' = fails + 1
  /\ rpc' = [rpc EXCEPT ![r] = "failed"]
  /\ UNCHANGED <<book, locks, wire, motor, job, todo, cur, pend, waits, slotVars>>

\* The loop of schedule_function (and stop_feature, whose only feature is zeroed).
Finish(r) ==
  /\ rpc[r] = "next" /\ todo[r] = {}
  /\ rpc' = [rpc EXCEPT ![r] = "done"]
  /\ UNCHANGED <<book, device, job, todo, cur, pend, waits, slotVars>>

Take(r, f) ==
  /\ rpc[r] = "next" /\ f \in todo[r]
  /\ todo' = [todo EXCEPT ![r] = @ \ {f}]
  /\ cur' = [cur EXCEPT ![r] = f]

\* hold, or zero with nothing to cancel: wait for the toy's lock
TakeLock(r, f) ==
  LET j == job[r] IN
  /\ Take(r, f)
  /\ IsHold(j) \/ (IsZero(j) /\ tasks[j.toy][f] = NoSlot)
  /\ locks' = Joined(j.toy, r)
  /\ rpc' = [rpc EXCEPT ![r] = "lock"]
  /\ UNCHANGED <<book, wire, motor, fails, job, pend, waits, slotVars>>

\* timed hold or zero: _cancel_slot suspends on the previous slot
Displace(r, f) ==
  LET j == job[r] IN
  /\ Take(r, f)
  /\ ~IsHold(j) /\ tasks[j.toy][f] # NoSlot
  /\ Forget(j.toy, f)
  /\ waits' = [waits EXCEPT ![r] = {tasks[j.toy][f]}]
  /\ rpc' = [rpc EXCEPT ![r] = "replace"]
  /\ UNCHANGED <<closed, levels, rows, device, job, pend, spc>>

\* a new slot task and its _meta row; the task has not run yet
Create(r, f) ==
  LET t == job[r].toy IN
  /\ tasks' = [tasks EXCEPT ![t][f] = <<r, f>>]
  /\ levels' = Raised(t, f, job[r].level)
  /\ rows' = [rows EXCEPT ![<<r, f>>] = job[r].level]
  /\ spc' = [spc EXCEPT ![<<r, f>>] = "new"]

StartTimed(r, f) ==
  /\ Take(r, f)
  /\ job[r].timed /\ tasks[job[r].toy][f] = NoSlot
  /\ Create(r, f)
  /\ UNCHANGED <<closed, device, job, rpc, pend, waits, cancelled>>

ReplaceTimed(r) ==
  /\ rpc[r] = "replace" /\ AllDone(waits[r]) /\ job[r].timed
  /\ Create(r, cur[r])
  /\ waits' = [waits EXCEPT ![r] = {}]
  /\ rpc' = [rpc EXCEPT ![r] = "next"]
  /\ UNCHANGED <<closed, device, job, todo, cur, pend, cancelled>>

ReplaceZero(r) ==
  /\ rpc[r] = "replace" /\ AllDone(waits[r]) /\ ~job[r].timed
  /\ locks' = Joined(job[r].toy, r)
  /\ waits' = [waits EXCEPT ![r] = {}]
  /\ rpc' = [rpc EXCEPT ![r] = "lock"]
  /\ UNCHANGED <<book, wire, motor, fails, job, todo, cur, pend, slotVars>>

\* _meta rows of an indefinite hold on the motor, live or left behind
HoldRows(t, f) ==
  {s \in Slots : /\ rows[s] # NoLevel
                 /\ Toy(s) = t /\ Feature(s) = f /\ ~job[s[1]].timed}
Parkable(t, f) ==
  /\ tasks[t][f] # NoSlot /\ spc[tasks[t][f]] # "done"
  /\ HoldRows(t, f) # {}

\* fault: the snapshot is taken before the level is set
ToWriteStale(r, t) ==
  /\ Holds(t, r)
  /\ wire' = [wire EXCEPT ![t] = levels[t]]
  /\ rpc' = [rpc EXCEPT ![r] = "write"]
\* fault: only the motor at hand is sent
ToWriteDelta(r, t) ==
  /\ Holds(t, r)
  /\ wire' = [wire EXCEPT ![t] = [Empty EXCEPT ![cur[r]] = levels'[t][cur[r]]]]
  /\ rpc' = [rpc EXCEPT ![r] = "write"]
ToWrite(r, t) ==
  /\ Holds(t, r)
  /\ wire' = [wire EXCEPT ![t] = levels'[t]]       \* _apply_snapshot reads _levels
  /\ rpc' = [rpc EXCEPT ![r] = "write"]

\* slider tick on a running hold: overwrite the level in place
HoldUpdate(r) ==
  LET t == job[r].toy
      f == cur[r] IN
  /\ rpc[r] = "lock" /\ IsHold(job[r]) /\ Parkable(t, f)
  /\ levels' = Raised(t, f, job[r].level)
  /\ \E s \in HoldRows(t, f) : rows' = [rows EXCEPT ![s] = job[r].level]
  /\ ToWrite(r, t)
  /\ UNCHANGED <<closed, tasks, locks, motor, fails, job, todo, cur, pend, waits, slotVars>>

\* first touch: park a keeper, whatever is registered is not cancelled
HoldCreate(r) ==
  LET t == job[r].toy
      f == cur[r] IN
  /\ rpc[r] = "lock" /\ IsHold(job[r]) /\ ~Parkable(t, f)
  /\ Create(r, f)
  /\ ToWrite(r, t)
  /\ UNCHANGED <<closed, locks, motor, fails, job, todo, cur, pend, waits, cancelled>>

ZeroLevel(r) ==
  LET t == job[r].toy IN
  /\ rpc[r] = "lock" /\ IsZero(job[r])
  /\ levels' = Dropped(t, cur[r])
  /\ ToWrite(r, t)
  /\ UNCHANGED <<closed, tasks, rows, locks, motor, fails, job, todo, cur, pend, waits, slotVars>>

\* the slot it has just created starts before the write it then awaits returns
WriteLands(r) ==
  LET t == job[r].toy IN
  /\ rpc[r] = "write" /\ spc[<<r, cur[r]>>] # "new"
  /\ motor' = Landed(t, wire[t])
  /\ wire' = [wire EXCEPT ![t] = Empty]
  /\ locks' = Released(t)
  /\ rpc' = [rpc EXCEPT ![r] = "next"]
  /\ UNCHANGED <<book, fails, job, todo, cur, pend, waits, slotVars>>

\* the backend raises; the handler answers 502 and forgets its other features
WriteFails(r) ==
  LET t == job[r].toy IN
  /\ rpc[r] = "write" /\ fails < MaxFail
  /\ fails' = fails + 1
  /\ wire' = [wire EXCEPT ![t] = Empty]
  /\ locks' = Released(t)
  /\ rpc' = [rpc EXCEPT ![r] = "failed"]
  /\ UNCHANGED <<book, motor, job, todo, cur, pend, waits, slotVars>>

Shutdown(r) ==
  /\ rpc[r] = "idle"
  /\ \E j \in Jobs : j.op = "shutdown" /\ job' = [job EXCEPT ![r] = j]
  /\ closed' = TRUE
  /\ cancelled' = [s \in Slots |-> cancelled[s] \/ (s \in Registered /\ spc[s] # "done")]
  /\ waits' = [waits EXCEPT ![r] = Registered]
  /\ rpc' = [rpc EXCEPT ![r] = "gather"]
  /\ UNCHANGED <<tasks, levels, rows, device, todo, cur, pend, spc>>

ShutdownEnds(r) ==
  /\ rpc[r] = "gather" /\ AllDone(waits[r])
  /\ tasks'  = [t \in Toys |-> [f \in Features |-> NoSlot]]
  /\ levels' = [t \in Toys |-> Empty]
  /\ rows'   = [s \in Slots |-> NoLevel]
  /\ waits' = [waits EXCEPT ![r] = {}]
  /\ rpc' = [rpc EXCEPT ![r] = "done"]
  /\ UNCHANGED <<closed, device, job, todo, cur, pend, slotVars>>

-----------------------------------------------------------------------------
(* Slots: _run_slot *)

Move(s, pc) == spc' = [spc EXCEPT ![s] = pc]

SlotStart(s) ==
  /\ spc[s] = "new" /\ ~cancelled[s]
  /\ locks' = Joined(Toy(s), s)
  /\ Move(s, "lock")
  /\ UNCHANGED <<book, wire, motor, fails, reqVars, cancelled>>

MayApplyClosed(s) == Owns(s)                       \* fault: `_closed` is not tested
MayApply(s) == ~closed /\ Owns(s)

\* the slot owns its key: assert its first level and write the snapshot
SlotApply(s) ==
  LET t == Toy(s) IN
  /\ spc[s] = "lock" /\ ~cancelled[s] /\ Holds(t, s)
  /\ MayApply(s)
  /\ levels' = Raised(t, Feature(s), job[s[1]].level)
  /\ wire' = [wire EXCEPT ![t] = levels'[t]]
  /\ Move(s, "write")
  /\ UNCHANGED <<closed, tasks, rows, locks, motor, fails, reqVars, cancelled>>

\* closed, or a newer slot owns the key: return, through `finally`
SlotYields(s) ==
  /\ spc[s] = "lock" /\ ~cancelled[s] /\ Holds(Toy(s), s)
  /\ ~MayApply(s)
  /\ locks' = ReleasedTo(Toy(s), s)
  /\ Move(s, "fin")
  /\ UNCHANGED <<book, wire, motor, fails, reqVars, cancelled>>

SlotLands(s) ==
  LET t == Toy(s) IN
  /\ spc[s] = "write" /\ ~cancelled[s]
  /\ motor' = Landed(t, wire[t])
  /\ wire' = [wire EXCEPT ![t] = Empty]
  /\ locks' = Released(t)
  /\ Move(s, "hold")
  /\ UNCHANGED <<book, fails, reqVars, cancelled>>

SlotFails(s) ==
  LET t == Toy(s) IN
  /\ spc[s] = "write" /\ ~cancelled[s] /\ fails < MaxFail
  /\ fails' = fails + 1
  /\ wire' = [wire EXCEPT ![t] = Empty]
  /\ locks' = ReleasedTo(t, s)
  /\ Move(s, "fin")
  /\ UNCHANGED <<book, motor, reqVars, cancelled>>

\* the sleep of a timed hold elapses; a parked hold never wakes by itself
SlotElapses(s) ==
  /\ spc[s] = "hold" /\ ~cancelled[s] /\ job[s[1]].timed
  /\ locks' = Joined(Toy(s), s)
  /\ Move(s, "fin")
  /\ UNCHANGED <<book, wire, motor, fails, reqVars, cancelled>>

\* `finally` of the owner: give the key back and silence the motor
SlotRetires(s) ==
  LET t == Toy(s) IN
  /\ spc[s] = "fin" /\ ~cancelled[s] /\ Holds(t, s) /\ Owns(s)
  /\ tasks' = [tasks EXCEPT ![t][Feature(s)] = NoSlot]
  /\ levels' = Dropped(t, Feature(s))
  /\ rows' = [rows EXCEPT ![s] = NoLevel]
  /\ wire' = [wire EXCEPT ![t] = levels'[t]]
  /\ Move(s, "fwrite")
  /\ UNCHANGED <<closed, locks, motor, fails, reqVars, cancelled>>

\* `finally` of a slot that has been replaced or cancelled
SlotLeaves(s) ==
  /\ spc[s] = "fin" /\ ~cancelled[s] /\ Holds(Toy(s), s) /\ ~Owns(s)
  /\ rows' = [rows EXCEPT ![s] = NoLevel]
  /\ locks' = Released(Toy(s))
  /\ Move(s, "done")
  /\ UNCHANGED <<closed, tasks, levels, wire, motor, fails, reqVars, cancelled>>

SlotSilences(s) ==
  LET t == Toy(s) IN
  /\ spc[s] = "fwrite" /\ ~cancelled[s]
  /\ motor' = Landed(t, wire[t])
  /\ wire' = [wire EXCEPT ![t] = Empty]
  /\ locks' = Released(t)
  /\ Move(s, "done")
  /\ UNCHANGED <<book, fails, reqVars, cancelled>>

SlotSilenceFails(s) ==
  LET t == Toy(s) IN
  /\ spc[s] = "fwrite" /\ ~cancelled[s] /\ fails < MaxFail
  /\ fails' = fails + 1
  /\ wire' = [wire EXCEPT ![t] = Empty]
  /\ locks' = Released(t)
  /\ Move(s, "done")
  /\ UNCHANGED <<book, motor, reqVars, cancelled>>

-----------------------------------------------------------------------------
(* CancelledError is delivered at the await the slot is suspended on. *)

Deliver(s, pc) ==
  /\ cancelled[s] /\ spc[s] = pc
  /\ cancelled' = [cancelled EXCEPT ![s] = FALSE]

\* before the first step: the coroutine never runs, nor does its `finally`
CancelNew(s) ==
  /\ Deliver(s, "new") /\ Move(s, "done")
  /\ UNCHANGED <<book, device, reqVars>>

CancelWaiting(s) ==
  /\ Deliver(s, "lock") /\ Move(s, "fin")
  /\ locks' = [locks EXCEPT ![Toy(s)] = Append(Without(@, s), s)]
  /\ UNCHANGED <<book, wire, motor, fails, reqVars>>

\* the write being awaited may or may not have reached the toy
CancelWriting(s) ==
  LET t == Toy(s) IN
  /\ Deliver(s, "write") /\ Move(s, "fin")
  /\ motor' \in {motor, Landed(t, wire[t])}
  /\ wire' = [wire EXCEPT ![t] = Empty]
  /\ locks' = ReleasedTo(t, s)
  /\ UNCHANGED <<book, fails, reqVars>>

CancelHolding(s) ==
  /\ Deliver(s, "hold") /\ Move(s, "fin")
  /\ locks' = Joined(Toy(s), s)
  /\ UNCHANGED <<book, wire, motor, fails, reqVars>>

\* inside `finally`: the clean-up is abandoned, the row stays
CancelCleanup(s) ==
  /\ Deliver(s, "fin") /\ Move(s, "done")
  /\ locks' = [locks EXCEPT ![Toy(s)] = Without(@, s)]
  /\ UNCHANGED <<book, wire, motor, fails, reqVars>>

-----------------------------------------------------------------------------
ReqSteps(r) ==
  \/ Expand(r) \/ CancelOne(r) \/ Cancelled(r) \/ CancelledAll(r)
  \/ StopLands(r) \/ Finish(r)
  \/ \E f \in Features : TakeLock(r, f) \/ Displace(r, f) \/ StartTimed(r, f)
  \/ ReplaceTimed(r) \/ ReplaceZero(r)
  \/ HoldUpdate(r) \/ HoldCreate(r) \/ ZeroLevel(r) \/ WriteLands(r)
  \/ ShutdownEnds(r)

SlotSteps(s) ==
  \/ SlotStart(s) \/ SlotApply(s) \/ SlotYields(s) \/ SlotLands(s) \/ SlotElapses(s)
  \/ SlotRetires(s) \/ SlotLeaves(s) \/ SlotSilences(s)
  \/ CancelNew(s) \/ CancelWaiting(s) \/ CancelWriting(s) \/ CancelHolding(s)
  \/ CancelCleanup(s)

Failures ==
  \/ \E r \in Reqs : StopFails(r) \/ WriteFails(r)
  \/ \E s \in Slots : SlotFails(s) \/ SlotSilenceFails(s)

Arrivals == \E r \in Reqs : Submit(r) \/ Refuse(r) \/ Shutdown(r)

\* every request has been answered and every slot is parked or over
Settled ==
  /\ \A r \in Reqs : rpc[r] \in {"done", "failed"}
  /\ \A s \in Slots : /\ ~cancelled[s]
                      /\ \/ spc[s] \in {"free", "done"}
                         \/ spc[s] = "hold" /\ ~job[s[1]].timed
Rest == Settled /\ UNCHANGED vars

Next ==
  \/ Arrivals
  \/ \E r \in Reqs : ReqSteps(r)
  \/ \E s \in Slots : SlotSteps(s)
  \/ Failures
  \/ Rest

Spec == Init /\ [][Next]_vars

\* The event loop runs every ready task, backend calls return and sleeps elapse.
FairSpec ==
  /\ Spec
  /\ \A r \in Reqs : WF_vars(ReqSteps(r))
  /\ \A s \in Slots : WF_vars(SlotSteps(s))
-----------------------------------------------------------------------------
(* Properties *)

TypeOK ==
  /\ closed \in BOOLEAN
  /\ tasks  \in [Toys -> [Features -> Slots \cup {NoSlot}]]
  /\ levels \in [Toys -> [Features -> Level \cup {NoLevel}]]
  /\ rows   \in [Slots -> Level \cup {NoLevel}]
  /\ locks  \in [Toys -> Seq(Actors)]
  /\ wire   \in [Toys -> [Features -> Level \cup {NoLevel}]]
  /\ motor  \in [Toys -> [Features -> Level]]
  /\ fails  \in 0 .. MaxFail
  /\ job    \in [Reqs -> Jobs \cup {NoJob}]
  /\ rpc    \in [Reqs -> {"idle", "expand", "cancel", "await", "next", "replace", "lock",
                          "write", "stop", "gather", "done", "failed"}]
  /\ todo   \in [Reqs -> SUBSET Features]
  /\ cur    \in [Reqs -> Features]
  /\ pend   \in [Reqs -> SUBSET (Toys \X Features)]
  /\ waits  \in [Reqs -> SUBSET Slots]
  /\ spc    \in [Slots -> {"free", "new", "lock", "write", "hold", "fin", "fwrite", "done"}]
  /\ cancelled \in [Slots -> BOOLEAN]

(* While the scheduler is open, a registered slot is the task of its own key,  *)
(* has not finished and has no cancel() on its way: a slider tick that finds   *)
(* `existing` never trusts a task that is about to die (scheduler.py:469).     *)
RegisteredAlive ==
  ~closed => \A t \in Toys, f \in Features :
    LET s == tasks[t][f] IN
    s # NoSlot => /\ job[s[1]] # NoJob /\ Toy(s) = t /\ Feature(s) = f
                  /\ spc[s] \in {"new", "lock", "write", "hold", "fin"}
                  /\ ~cancelled[s]

\* no write raised, and no device-wide stop raced a hold
Undisturbed ==
  /\ fails = 0
  /\ \A r \in Reqs : job[r] = NoJob \/ job[r].op \notin {"stopToy", "stopAll"}

(* Once a registered hold has been asserted and nobody is at the toy's lock,   *)
(* the motor runs at the level the scheduler has on record, whatever slots,    *)
(* ticks and writes of the other motors came in between.                       *)
RunningHoldDriven ==
  Undisturbed => \A t \in Toys, f \in Features :
    LET s == tasks[t][f] IN
    ( /\ s # NoSlot /\ locks[t] = <<>>
      /\ levels[t][f] # NoLevel
      /\ spc[s] = "hold" /\ ~cancelled[s] ) => motor[t][f] = levels[t][f]

(* When every request has been answered and nothing is in flight, a motor that *)
(* runs is held by a registered slot: nothing runs that no row accounts for    *)
(* and no stop of that slot can reach (scheduler.py:392-398).                  *)
RunningMotorHasSlot ==
  (Settled /\ ~closed /\ Undisturbed) =>
    \A t \in Toys, f \in Features : motor[t][f] > 0 => tasks[t][f] # NoSlot

(* ... and the level its row shows is the level the motor runs at: the newest  *)
(* tick wins (scheduler.py:459-460).                                           *)
ReportedLevelIsCommanded ==
  (Settled /\ ~closed /\ Undisturbed) =>
    \A t \in Toys, f \in Features :
      LET s == tasks[t][f] IN
      (s # NoSlot /\ rows[s] # NoLevel /\ levels[t][f] # NoLevel) => rows[s] = motor[t][f]

(* A parked task can be reached: it is the registered one, so that a stop or a *)
(* timed hold that replaces it finds and cancels it (scheduler.py:379, :518).  *)
ParkedIsRegistered ==
  ~closed => \A s \in Slots :
    (spc[s] = "hold" /\ ~job[s[1]].timed /\ ~cancelled[s]) => Owns(s)

(* Whatever is cancelled, refused or raises, a lock's queue is exactly the      *)
(* actors that are at the lock: nobody who has finished or left is in it, nobody *)
(* queues twice, and only the holder has a write in flight (scheduler.py:366-398,*)
(* :467-513).                                                                    *)
AtLock(t) ==
  {r \in Reqs : rpc[r] \in {"lock", "write"} /\ job[r].toy = t}
    \cup {s \in Slots : spc[s] \in {"lock", "write", "fin", "fwrite"} /\ Toy(s) = t}
Writing(t) ==
  {r \in Reqs : rpc[r] = "write" /\ job[r].toy = t}
    \cup {s \in Slots : spc[s] \in {"write", "fwrite"} /\ Toy(s) = t}
LocksLive ==
  \A t \in Toys :
    /\ IsInjective(locks[t])
    /\ Range(locks[t]) = AtLock(t)
    /\ \A a \in Writing(t) : Holds(t, a)

(* A closed scheduler that has come to rest keeps nothing registered, although *)
(* a request that passed the `closed` check may still create slots after       *)
(* shutdown() has cleared the tables (scheduler.py:41-53, :367-368).           *)
ClosedKeepsNothing ==
  (Settled /\ closed) => \A t \in Toys : tasks[t] = [f \in Features |-> NoSlot]

(* No gap: while the same slot holds a motor and a level is on record for it,  *)
(* no step turns the motor off, neither a tick on this or another motor nor    *)
(* the end of a slot it has replaced (scheduler.py:389-391, :456-460).         *)
NoGap ==
  [][ Undisturbed' => \A t \in Toys, f \in Features :
        LET s == tasks[t][f] IN
        ( /\ s # NoSlot /\ tasks'[t][f] = s /\ spc[s] = "hold"
          /\ levels[t][f] > 0 /\ levels'[t][f] > 0
          /\ motor[t][f] > 0 ) => motor'[t][f] > 0 ]_vars

(* While the scheduler is open a motor is never taken from a live task: the     *)
(* `finally` of a slot gives back its own registration and not that of the hold *)
(* that has replaced it (scheduler.py:389-391).                                 *)
NoneAbandoned ==
  [][ ~closed' => \A t \in Toys, f \in Features :
        LET s == tasks[t][f] IN
        (s # NoSlot /\ tasks'[t][f] = NoSlot) =>
          cancelled'[s] \/ spc'[s] \in {"fwrite", "done"} ]_vars

(* `time=0` holds until stopped (routes/commands.py:36): the slot that carries *)
(* a hold once its request has the lock is one that no timer ends.             *)
HoldHasNoTimer ==
  [][ \A r \in Reqs :
        (rpc[r] = "lock" /\ rpc'[r] = "write" /\ IsHold(job[r])) =>
          ~job[tasks'[job[r].toy][cur[r]][1]].timed ]_vars

(* Closing a scheduler to swap in the one of a new configuration interrupts no *)
(* playback (runtime.py:247-248): no step of a closed scheduler stops a motor. *)
ReconfigKeepsPlayback ==
  [][ (closed /\ \A r \in Reqs : rpc[r] # "stop") =>
        \A t \in Toys, f \in Features : motor[t][f] > 0 => motor'[t][f] > 0 ]_vars

(* Every request is answered: waiting for a lock or for a cancelled slot ends. *)
RequestsFinish ==
  \A r \in Reqs : (rpc[r] # "idle") ~> (rpc[r] \in {"done", "failed"})

(* The slot of a timed hold ends once it sleeps, replaced or not.              *)
TimedSlotsEnd ==
  \A s \in Slots : (spc[s] = "hold" /\ job[s[1]].timed) ~> (spc[s] = "done")

(* When only timed holds are asked, every motor finally stops for good.        *)
TimedHoldsFallSilent ==
  <>[]( (Undisturbed /\ \A r \in Reqs : job[r] = NoJob \/ job[r].timed)
          => \A t \in Toys, f \in Features : motor[t][f] = 0 )
=============================================================================
