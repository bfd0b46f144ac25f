----------------------------- MODULE BleDirect -----------------------------
(***************************************************************************)
(* ble_direct/client.py and ble_direct/hub.py: one BleDirectClient per     *)
(* dual-motor toy and the hub that fans commands out to them.  A coroutine *)
(* is a task with the steps it has still to run; code between two awaits   *)
(* runs without interruption (cpu).  Writes reach the toy in the order in  *)
(* which they are submitted.                                               *)
(***************************************************************************)
EXTENDS Integers, Sequences, FiniteSets

CONSTANTS Toys, MaxCalls, MaxOpen, Requests, Attempts, MaxFaults, Fragile, None

ASSUME BleDirectAssumption ==
    MaxCalls \in Nat /\ MaxOpen \in Nat \ {0} /\ Attempts \in Nat \ {0}

VARIABLES task, toy, cpu, req, phase, failed, hold, ended, faults
hub == <<phase, failed, hold, ended>>
vars == <<task, toy, cpu, req, hub, faults>>

Calls == 1..MaxCalls
Motors == {1, 2}
Keep == -1                                \* a motor the request does not name
Off == [m \in Motors |-> 0]
Tasks == Calls \X Toys \X {"call", "tail"}
Idle == [todo |-> <<>>, at |-> "ready", on |-> None]

Op(name) == [op |-> name]
Put(ms, v, kind) == [op |-> "put", ms |-> ms, v |-> v, kind |-> kind, left |-> Attempts]
Send(a) == [op |-> "send", a |-> a]
Sleep == Op("sleep")
Silence == Op("silence")
Cancel == Op("cancel")

(* ---- the coroutines: what each request has to do ---- *)
Again(body, forever) == [op |-> "again", body |-> body, forever |-> forever]
Begin(steps) == [op |-> "begin", steps |-> steps]
\* fault: the timed level is not followed by a stop burst.
TimedUnsilenced(r) == <<Send(r.a), Sleep>>
FunctionBody(r) ==
    (IF r.stopPrevious THEN <<Silence>> ELSE <<>>) \o
    CASE r.timing = "none" -> <<Send(r.a)>>
      [] r.timing = "time" -> <<Send(r.a), Sleep, Silence, Sleep>>
      [] r.timing = "loop" -> LET turn == <<Send(r.a), Sleep, Silence, Sleep>>
                              IN turn \o <<Again(turn, FALSE), Silence>>
FunctionRequest(r) ==
    IF r.wait \/ r.timing = "none" THEN FunctionBody(r) ELSE <<Begin(FunctionBody(r))>>
\* fault: the deferred tail is left alone.
StopKeepsTail == <<Silence>>
StopRequest == <<Cancel, Silence>>
PatternTurn == <<Put(Motors, 1, "line"), Sleep>>
PatternRequest(r) ==
    LET body == PatternTurn \o <<Again(PatternTurn, FALSE), Silence>>
    IN <<Cancel>> \o IF r.wait THEN body ELSE <<Begin(body)>>
Emulated(r) == <<Cancel, Silence>> \o
    IF r.openEnded THEN <<Begin(PatternTurn \o <<Again(PatternTurn, TRUE)>>)>>
    ELSE PatternRequest(r)
PresetRequest(r) == <<Cancel, Silence, Put(Motors, 1, "line")>> \o
    CASE r.openEnded -> <<>>
      [] ~r.openEnded /\ r.wait -> <<Sleep, Silence>>
      [] OTHER -> <<Begin(<<Sleep, Silence>>)>>
SetVibration(r) == <<[op |-> "dedupe", a |-> r.a], Send(r.a), [op |-> "remember", a |-> r.a]>>
QueryLine == <<Put({}, 0, "line"), Sleep>>
PositionRequest == <<Put({}, 0, "line")>>
\* fault: the link-loss task is neither cancelled nor waited for.
ConnectAtOnce == <<Op("link")>>
Connect == <<Op("endLoss"), Op("link")>>
Disconnect == <<Op("intend"), Cancel, Op("endLoss"), Op("unlink")>>
Play(r) == FunctionBody(r) \o <<Sleep>> \o StopRequest
\* The hub holds several toys for one shared time instead of one time each.
Coordinated(r) == r.op = "function" /\ r.timing = "time" /\ Cardinality(r.ids) > 1
Script(r) ==
    CASE r.op = "function" -> IF Coordinated(r) THEN <<Cancel>> ELSE FunctionRequest(r)
      [] r.op = "stop" -> StopRequest
      [] r.op = "pattern" -> PatternRequest(r)
      [] r.op = "preset" -> IF r.emulate THEN Emulated(r) ELSE PresetRequest(r)
      [] r.op = "set" -> SetVibration(r)
      [] r.op = "query" -> QueryLine
      [] r.op = "position" -> PositionRequest
      [] r.op = "play" -> Play(r)
      [] r.op = "connect" -> Connect
      [] r.op = "disconnect" -> Disconnect

(* ---- running a task ---- *)
Done(t) == task[t].todo = <<>>
Runs(t, op) ==
    /\ cpu \in {None, t} /\ task[t].at = "ready" /\ ~Done(t)
    /\ Head(task[t].todo).op = op
Resume(t, steps) == [task EXCEPT ![t] = [todo |-> steps, at |-> "ready", on |-> None]]
Asleep(steps) == steps # <<>> /\ Head(steps) = Sleep
GoOn(t, steps) ==
    /\ task' = Resume(t, steps)
    /\ cpu' = IF steps = <<>> \/ Asleep(steps) THEN None ELSE t
Await(t, at) == task' = [task EXCEPT ![t].at = at] /\ cpu' = None
\* What a failed or cancelled task still runs: the finally of the tail.
Finally(t) == IF t[3] = "tail" THEN <<Op("end")>> ELSE <<>>
\* A gather hands the first exception on at once: the call is answered, a
\* coordinator leaves through its finally, the other toys' coroutines run on.
Raise(t) ==
    /\ GoOn(t, Finally(t))
    /\ failed' = IF t[3] = "call" THEN failed \union {t[1]} ELSE failed
    /\ hold' = IF t[3] = "call" /\ hold = t[1] THEN None ELSE hold
    /\ UNCHANGED <<phase, ended>>

Child(c, i) == <<c, i, "call">>
ChildrenDone(c) == \A i \in req[c].ids : Done(Child(c, i))
Open(c) ==
    /\ req[c] # None /\ c \notin failed
    /\ ~ChildrenDone(c) \/ phase[c] \in {"cancel", "quiet", "start", "hold", "stop"}
    /\ req[c].wait \/ phase[c] \in {"none", "cancel"}
Latest(i) == {c \in Calls : req[c] # None /\ i \in req[c].ids
                 /\ \A d \in Calls : d > c => req[d] = None \/ i \notin req[d].ids}

Init ==
    /\ task = [t \in Tasks |-> Idle]
    /\ toy = [i \in Toys |-> [link |-> TRUE, intent |-> FALSE, sig |-> None, dual |-> Off,
                              last |-> 0, deferred |-> None, loss |-> "none",
                              motor |-> Off, lossy |-> FALSE]]
    /\ cpu = None /\ req = [c \in Calls |-> None]
    /\ phase = [c \in Calls |-> "none"] /\ failed = {} /\ hold = None /\ ended = {}
    /\ faults = 0

\* hub.stop also sets the event of the hold it finds.
\* fault: the event of the hold is not set.
EventsKept(r) == ended
EventsSet(r) == IF r.op = "stop" /\ r.hub /\ hold # None THEN ended \union {hold} ELSE ended
\* The hub runs one coroutine per toy and gathers them.
FanOut(c, r) == [t \in Tasks |-> IF t[1] = c /\ t[2] \in r.ids /\ t[3] = "call"
                                 THEN [Idle EXCEPT !.todo = Script(r)] ELSE task[t]]
Start(c, r) ==
    /\ cpu = None /\ req[c] = None /\ \A d \in 1..(c - 1) : req[d] # None
    /\ Cardinality({d \in Calls : Open(d)}) < MaxOpen
    /\ r.op = "connect" => \A i \in r.ids : ~toy[i].link
    /\ req' = [req EXCEPT ![c] = r]
    /\ task' = FanOut(c, r)
    /\ phase' = [phase EXCEPT ![c] = IF Coordinated(r) THEN "cancel" ELSE "none"]
    /\ toy' = [i \in Toys |-> IF i \in r.ids THEN [toy[i] EXCEPT !.lossy = FALSE] ELSE toy[i]]
    /\ ended' = EventsSet(r)
    /\ UNCHANGED <<cpu, failed, hold, faults>>

\* cancel_deferred_playback and the start of begin_deferred_playback.
CancelTail(t) ==
    /\ Runs(t, "cancel")
    /\ LET d == toy[t[2]].deferred
       IN IF d \in Tasks /\ ~Done(d)
          THEN /\ task' = [task EXCEPT ![t].at = "join", ![t].on = d, ![d].at = "cancelled"]
               /\ cpu' = None /\ UNCHANGED toy
          ELSE /\ GoOn(t, Tail(task[t].todo))
               /\ toy' = [toy EXCEPT ![t[2]].deferred = None]
    /\ UNCHANGED <<req, hub, faults>>
Joined(t) ==
    /\ cpu = None /\ task[t].at = "join" /\ Done(task[t].on)
    /\ toy' = [toy EXCEPT ![t[2]].deferred = None]
    /\ GoOn(t, Tail(task[t].todo))
    /\ UNCHANGED <<req, hub, faults>>
Cancelled(t) ==
    /\ cpu = None /\ task[t].at = "cancelled"
    /\ GoOn(t, Finally(t))
    /\ UNCHANGED <<toy, req, hub, faults>>
\* fault: the tail before is not cancelled.
BeginOver(t) ==
    /\ Runs(t, "begin")
    /\ task' = [Resume(t, Tail(task[t].todo)) EXCEPT
                  ![<<t[1], t[2], "tail">>].todo = Head(task[t].todo).steps \o <<Op("end")>>]
    /\ cpu' = None
    /\ toy' = [toy EXCEPT ![t[2]].deferred = <<t[1], t[2], "tail">>]
    /\ UNCHANGED <<req, hub, faults>>
BeginTail(t) ==
    /\ Runs(t, "begin")
    /\ LET i == t[2]
           d == toy[i].deferred
           tail == <<t[1], i, "tail">>
       IN IF d \in Tasks /\ ~Done(d)
          THEN GoOn(t, <<Cancel>> \o task[t].todo) /\ UNCHANGED toy
          ELSE /\ task' = [Resume(t, Tail(task[t].todo)) EXCEPT
                             ![tail].todo = Head(task[t].todo).steps \o <<Op("end")>>]
               /\ cpu' = None
               /\ toy' = [toy EXCEPT ![i].deferred = tail]
    /\ UNCHANGED <<req, hub, faults>>
EndTail(t) ==
    /\ Runs(t, "end")
    /\ toy' = [toy EXCEPT ![t[2]].deferred = IF @ = t THEN None ELSE @]
    /\ GoOn(t, <<>>)
    /\ UNCHANGED <<req, hub, faults>>

(* ---- UART lines ---- *)
\* fault: the motor that is not named is not filled in.
CoerceRaw(i, a) == a
Coerce(i, a) == [m \in Motors |-> IF a[m] = Keep THEN toy[i].dual[m] ELSE a[m]]
Lines(x) ==
    LET on == {m \in Motors : x[m] > 0}
    IN IF Cardinality(on) = 1 THEN LET m == CHOOSE m \in on : TRUE IN <<Put({m}, x[m], "line")>>
       ELSE <<Put({1}, x[1], "line"), Put({2}, x[2], "line")>>
Prime(i, lines) ==
    IF Len(lines) = 1 /\ toy[i].last # 0 /\ toy[i].last \notin Head(lines).ms
    THEN <<Put(Motors \ Head(lines).ms, 0, "prime")>> ELSE <<>>
SendUart(t) ==
    /\ Runs(t, "send")
    /\ LET i == t[2]
           x == Coerce(i, Head(task[t].todo).a)
       IN GoOn(t, Prime(i, Lines(x)) \o Lines(x) \o <<[op |-> "levels", a |-> x]>>
                  \o Tail(task[t].todo))
    /\ UNCHANGED <<toy, req, hub, faults>>
LastMotor(x, was) ==
    CASE x[1] > 0 /\ x[2] > 0 -> 3
      [] x[1] > 0 /\ x[2] = 0 -> 1
      [] x[1] = 0 /\ x[2] > 0 -> 2
      [] OTHER -> was
RecordLevels(t) ==
    /\ Runs(t, "levels")
    /\ LET x == Head(task[t].todo).a
       IN toy' = [toy EXCEPT ![t[2]].dual = x, ![t[2]].last = LastMotor(x, @)]
    /\ GoOn(t, Tail(task[t].todo))
    /\ UNCHANGED <<req, hub, faults>>
SilenceAll(t) ==
    /\ Runs(t, "silence")
    /\ IF toy[t[2]].link
       THEN /\ GoOn(t, <<Put({1}, 0, "mute"), Put({2}, 0, "mute"), Op("zero")>>
                       \o Tail(task[t].todo))
            /\ toy' = [toy EXCEPT ![t[2]].sig = None] /\ UNCHANGED hub
       ELSE Raise(t) /\ UNCHANGED toy
    /\ UNCHANGED <<req, faults>>
Zero(t) ==
    /\ Runs(t, "zero")
    /\ toy' = [toy EXCEPT ![t[2]].dual = Off]
    /\ GoOn(t, Tail(task[t].todo))
    /\ UNCHANGED <<req, hub, faults>>

\* A line is submitted: it reaches the toy, or is lost on the air.
Drive(i, p, lands) == [toy[i] EXCEPT
    !.sig = IF p.kind = "mute" THEN @ ELSE None,
    !.last = IF p.kind = "line" THEN 0 ELSE @,
    !.lossy = @ \/ ~lands,
    !.motor = IF lands THEN [m \in Motors |-> IF m \in p.ms THEN p.v ELSE @[m]] ELSE @]
SubmitLine(t) ==
    /\ Runs(t, "put") /\ toy[t[2]].link
    /\ \E lands \in BOOLEAN :
         /\ ~lands => faults < MaxFaults /\ t[2] \in Fragile
         /\ faults' = IF lands THEN faults ELSE faults + 1
         /\ toy' = [toy EXCEPT ![t[2]] = Drive(t[2], Head(task[t].todo), lands)]
         /\ Await(t, IF lands THEN "sent" ELSE "lost")
    /\ UNCHANGED <<req, hub>>
\* Not connected, or the last attempt failed: the stop burst goes on, all else raises.
GiveUp(t) ==
    IF Head(task[t].todo).kind = "mute"
    THEN GoOn(t, Tail(task[t].todo)) /\ UNCHANGED hub
    ELSE Raise(t)
NoLink(t) ==
    /\ Runs(t, "put") /\ ~toy[t[2]].link
    /\ GiveUp(t)
    /\ UNCHANGED <<toy, req, faults>>
Landed(t) ==
    /\ cpu = None /\ task[t].at = "sent"
    /\ GoOn(t, Tail(task[t].todo))
    /\ UNCHANGED <<toy, req, hub, faults>>
Missed(t) ==
    /\ cpu = None
    /\ task[t].at = "lost" \/ (task[t].at = "sent" /\ ~toy[t[2]].link)
    /\ \/ /\ Head(task[t].todo).left > 1 /\ task[t].at = "lost"
          /\ task' = [task EXCEPT ![t].at = "ready", ![t].todo[1].left = @ - 1]
          /\ UNCHANGED <<cpu, hub>>
       \/ GiveUp(t)
    /\ UNCHANGED <<toy, req, faults>>
Dedupe(t) ==
    /\ Runs(t, "dedupe")
    /\ IF toy[t[2]].sig = Head(task[t].todo).a THEN GoOn(t, <<>>)
       ELSE GoOn(t, Tail(task[t].todo))
    /\ UNCHANGED <<toy, req, hub, faults>>
Remember(t) ==
    /\ Runs(t, "remember")
    /\ toy' = [toy EXCEPT ![t[2]].sig = Head(task[t].todo).a]
    /\ GoOn(t, Tail(task[t].todo))
    /\ UNCHANGED <<req, hub, faults>>

(* ---- time ---- *)
Wake(t) ==
    /\ Runs(t, "sleep")
    /\ GoOn(t, Tail(task[t].todo))
    /\ UNCHANGED <<toy, req, hub, faults>>
Repeat(t) ==
    /\ Runs(t, "again")
    /\ GoOn(t, Head(task[t].todo).body \o task[t].todo)
    /\ UNCHANGED <<toy, req, hub, faults>>
Deadline(t) ==
    /\ Runs(t, "again") /\ ~Head(task[t].todo).forever
    /\ GoOn(t, Tail(task[t].todo))
    /\ UNCHANGED <<toy, req, hub, faults>>

\* wait_for(_body(), timeout) cancels the body of an inline command.
Timeout(t) ==
    /\ cpu = None /\ t[3] = "call" /\ (task[t].at \in {"sent", "lost"} \/ Asleep(task[t].todo))
    /\ req[t[1]].timeout
    /\ Raise(t)
    /\ UNCHANGED <<toy, req, faults>>

(* ---- the link ---- *)
Cleared(r) == [r EXCEPT !.link = FALSE, !.sig = None, !.dual = Off, !.last = 0]
\* _on_bleak_disconnected; the toy itself keeps running.
Drop(i) ==
    /\ cpu = None /\ toy[i].link /\ faults < MaxFaults /\ i \in Fragile
    /\ faults' = faults + 1
    /\ toy' = [toy EXCEPT ![i] = IF @.intent THEN [@ EXCEPT !.link = FALSE]
                                 ELSE [Cleared(@) EXCEPT !.loss = "connecting", !.lossy = TRUE]]
    /\ UNCHANGED <<task, cpu, req, hub>>
\* _silence_after_link_loss: a temporary link, the full stop burst, disconnect.
LossConnect(i) ==
    /\ cpu = None /\ toy[i].loss = "connecting"
    /\ \E reached \in BOOLEAN : toy' = [toy EXCEPT ![i].loss = IF reached THEN "burst" ELSE "closing"]
    /\ UNCHANGED <<task, cpu, req, hub, faults>>
LossBurst(i) ==
    /\ cpu = None /\ toy[i].loss = "burst"
    /\ toy' = [toy EXCEPT ![i].motor = Off, ![i].loss = "closing"]
    /\ UNCHANGED <<task, cpu, req, hub, faults>>
LossClose(i) ==
    /\ cpu = None /\ toy[i].loss = "closing"
    /\ toy' = [toy EXCEPT ![i].loss = "none"]
    /\ UNCHANGED <<task, cpu, req, hub, faults>>
\* connect and disconnect cancel the link-loss task and wait for its finally.
EndLoss(t) ==
    /\ Runs(t, "endLoss")
    /\ LET i == t[2]
       IN IF toy[i].loss = "none"
          THEN GoOn(t, Tail(task[t].todo)) /\ UNCHANGED toy
          ELSE /\ toy' = [toy EXCEPT ![i].loss = "closing"]
               /\ Await(t, "lossEnd")
    /\ UNCHANGED <<req, hub, faults>>
LossEnded(t) ==
    /\ cpu = None /\ task[t].at = "lossEnd" /\ toy[t[2]].loss = "none"
    /\ GoOn(t, Tail(task[t].todo))
    /\ UNCHANGED <<toy, req, hub, faults>>
EstablishLink(t) ==
    /\ Runs(t, "link")
    /\ \/ /\ toy' = [toy EXCEPT ![t[2]].link = TRUE, ![t[2]].sig = None]
          /\ GoOn(t, Tail(task[t].todo)) /\ UNCHANGED hub
       \/ Raise(t) /\ UNCHANGED toy
    /\ UNCHANGED <<req, faults>>
Intend(t) ==
    /\ Runs(t, "intend")
    /\ toy' = [toy EXCEPT ![t[2]].intent = TRUE]
    /\ GoOn(t, Tail(task[t].todo))
    /\ UNCHANGED <<req, hub, faults>>
Unlink(t) ==
    /\ Runs(t, "unlink")
    /\ toy' = [toy EXCEPT ![t[2]] = [Cleared(@) EXCEPT !.intent = FALSE]]
    /\ GoOn(t, Tail(task[t].todo))
    /\ UNCHANGED <<req, hub, faults>>

(* ---- the hub's shared hold ---- *)
Fan(c, steps) == [t \in Tasks |-> IF t[1] = c /\ t[2] \in req[c].ids /\ t[3] = "call"
                                  THEN [Idle EXCEPT !.todo = steps] ELSE task[t]]
\* One gather of the coordinator follows the other.
Advance(c, from, to, steps) ==
    /\ cpu = None /\ phase[c] = from /\ c \notin failed /\ ChildrenDone(c)
    /\ phase' = [phase EXCEPT ![c] = to]
    /\ task' = Fan(c, steps)
    /\ UNCHANGED <<toy, cpu, req, failed, faults>>
Claim(c) ==
    /\ IF req[c] # None /\ req[c].stopPrevious THEN Advance(c, "cancel", "quiet", <<Silence>>)
       ELSE Advance(c, "cancel", "start", <<Send(req[c].a)>>)
    /\ hold' = c /\ UNCHANGED ended
StartMotors(c) == Advance(c, "quiet", "start", <<Send(req[c].a)>>) /\ UNCHANGED <<hold, ended>>
HoldOn(c) == Advance(c, "start", "hold", <<>>) /\ UNCHANGED <<hold, ended>>
\* The time is over, or hub.stop has set the event.
EndHold(c) == Advance(c, "hold", "stop", StopRequest) /\ UNCHANGED <<hold, ended>>
Release(c) ==
    /\ Advance(c, "stop", "done", <<>>)
    /\ hold' = (IF hold = c THEN None ELSE hold) /\ UNCHANGED ended

TaskStep(t) ==
    \/ CancelTail(t) \/ Joined(t) \/ Cancelled(t) \/ BeginTail(t) \/ EndTail(t)
    \/ SendUart(t) \/ RecordLevels(t) \/ SilenceAll(t) \/ Zero(t) \/ SubmitLine(t)
    \/ NoLink(t) \/ Landed(t) \/ Missed(t) \/ Dedupe(t) \/ Remember(t)
    \/ Wake(t) \/ Repeat(t)
    \/ EndLoss(t) \/ LossEnded(t) \/ EstablishLink(t) \/ Intend(t) \/ Unlink(t)
HubStep(c) == Claim(c) \/ StartMotors(c) \/ HoldOn(c) \/ EndHold(c) \/ Release(c)
LossStep(i) == LossConnect(i) \/ LossBurst(i) \/ LossClose(i)
Next ==
    \/ \E c \in Calls, r \in Requests : Start(c, r)
    \/ \E t \in Tasks : TaskStep(t) \/ Deadline(t) \/ Timeout(t)
    \/ \E i \in Toys : Drop(i) \/ LossStep(i)
    \/ \E c \in Calls : HubStep(c)

\* The event loop runs what is ready, in turn; a deadline is a time that comes.
Spec ==
    /\ Init /\ [][Next]_vars
    /\ \A t \in Tasks : SF_vars(TaskStep(t)) /\ SF_vars(Deadline(t))
    /\ \A i \in Toys : SF_vars(LossStep(i))
    /\ \A c \in Calls : SF_vars(HubStep(c))

-----------------------------------------------------------------------------
TypeOK ==
    /\ \A t \in Tasks : /\ task[t].at \in {"ready", "join", "cancelled", "sent", "lost", "lossEnd"}
                        /\ task[t].on \in Tasks \union {None}
    /\ \A i \in Toys : /\ toy[i].motor \in [Motors -> {0, 1}] /\ toy[i].dual \in [Motors -> {0, 1}]
                       /\ toy[i].deferred \in Tasks \union {None} /\ toy[i].last \in 0..3
                       /\ toy[i].loss \in {"none", "connecting", "burst", "closing"}
    /\ cpu \in Tasks \union {None} /\ hold \in Calls \union {None}
    /\ failed \subseteq Calls /\ ended \subseteq Calls
    /\ faults \in 0..MaxFaults

\* "Schedule coro_factory() as the sole deferred playback task for this link"
\* (client.py:829): a tail that is still alive is the registered one, so that
\* stop and the next playback can reach it.
SoleTail ==
    \A c \in Calls, i \in Toys : ~Done(<<c, i, "tail">>) => toy[i].deferred = <<c, i, "tail">>

\* A stop that was answered silenced the toy for good: no tail, loop or pattern
\* of an earlier call drives a motor again (client.py:1291).  A shared hold is
\* told to end but not waited for (hub.py:513).
StoppedIsSilent ==
    \A i \in Toys : \A c \in Latest(i) :
        /\ req[c].op = "stop" /\ Done(Child(c, i)) /\ c \notin failed
        /\ toy[i].link /\ ~toy[i].lossy
        /\ \A d \in Calls : phase[d] \notin {"quiet", "start", "hold", "stop"}
        => toy[i].motor = Off

\* Most toys accept one central: the temporary link of the link-loss task and
\* the client's own link are never up together (client.py:773).
OneCentral == \A i \in Toys : toy[i].link => toy[i].loss \in {"none", "connecting"}

\* hub.stop reaches the newest hold in progress (hub.py:513); one that a newer
\* hold took the slot of is not reached.
StopEndsHold ==
    \A c, d \in Calls :
        /\ req[c] # None /\ req[c].op = "stop" /\ req[c].hub
        /\ d < c /\ phase[d] = "hold" /\ \A e \in (d + 1)..(c - 1) : phase[e] = "none"
        => d \in ended

Quiet(i) == \A t \in Tasks : t[2] = i => Done(t)
\* "last UART levels after each dual-motor _send_uart_for_clamped" (client.py:625):
\* with nothing in flight the recorded levels are those the toy runs at.
LevelsKnown ==
    \A i \in Toys : toy[i].link /\ ~toy[i].lossy /\ Quiet(i) => toy[i].dual = toy[i].motor

\* A shared hold "starts all motors, then one shared wall-clock hold, then stops
\* all" (hub.py:424): one that failed leaves no motor on.
HoldStopsAll ==
    \A c \in Calls : phase[c] # "none" /\ c \in failed /\ ChildrenDone(c) =>
        \A i \in req[c].ids : c \in Latest(i) => toy[i].motor = Off

\* "If time is 0, levels stay until stop()" (client.py:1228).
LevelStays ==
    \A i \in Toys : \A c \in Latest(i) :
        /\ req[c].op = "function" /\ req[c].timing = "none" /\ Done(Child(c, i)) /\ c \notin failed
        /\ toy[i].link /\ ~toy[i].lossy
        => \A m \in Motors : req[c].a[m] = 1 => toy[i].motor[m] = 1

\* "This clears vibration dedupe state so a later set_vibration is not skipped
\* incorrectly" (client.py:1074).
SkippedOnlyWhenSet ==
    \A i \in Toys : toy[i].link /\ ~toy[i].lossy /\ toy[i].sig # None /\ Quiet(i)
                    => toy[i].motor = toy[i].sig

\* When timed playback, in the background, inline or shared by the hub, and all
\* that ran beside it are over, the toy is silent; no call on it failed
\* (client.py:822, 1214, 1313, 1416, hub.py:424).
TimedSilent ==
    \A i \in Toys : \A c \in Latest(i) :
        /\ req[c].op \in {"function", "pattern", "preset"}
        /\ req[c].timing # "none" /\ ~req[c].openEnded
        /\ Quiet(i) /\ \A d \in Calls : phase[d] \in {"none", "done"}
        /\ \A d \in failed : i \notin req[d].ids
        /\ toy[i].link /\ ~toy[i].lossy
        => toy[i].motor = Off
=============================================================================
