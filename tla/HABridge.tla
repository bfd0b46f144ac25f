------------------------------- MODULE HABridge -------------------------------
(***************************************************************************)
(* The Home Assistant bridge (ha_bridge.py): commands that arrive by MQTT  *)
(* are forwarded to a toy, what the toy does is shown on MQTT.             *)
(*                                                                         *)
(* One toy with several motors.  The broker keeps what is retained; what   *)
(* is published without a connection is lost (QoS 0).  paho's thread hands *)
(* coroutines to the loop; one await separates reading the levels of a     *)
(* command from writing them back, another one the inventory that is asked *)
(* for from its use.  Requests reach the toy in any order; on the LAN the  *)
(* toy reports what changes, in order.  Presets, the battery and names are *)
(* left out.  A message that was handed over arrives when it is handled.   *)
(***************************************************************************)
EXTENDS Integers, FiniteSets, Sequences, SequencesExt, AsyncLock

CONSTANTS
  Transports,    \* how the toy may be reached: by LAN, by a BLE hub, by one it finds in a scan
  Motors,        \* the features of the toy
  MaxLevel,      \* levels are 0 .. MaxLevel
  Commands,      \* commands under way at once
  MaxEvents,     \* reports of the toy under way at once
  MaxOdd,        \* commands, lost connections, failures, turns by hand, stops, together
  None

ASSUME BoundAssumption == {MaxLevel, MaxEvents, MaxOdd} \subseteq Nat
ASSUME TransportAssumption == Transports \subseteq {"lan", "hub", "scan"}
ASSUME MotorAssumption == IsFiniteSet(Motors)
ASSUME NoneAssumption  == None \notin Motors \cup Nat \cup {"on", "off", "gone", "fail"}

VARIABLES
  transport,     \* how the toy is reached
  run, control,  \* what start() and stop() have got to; whether _control is there
  up,            \* whether MQTT is connected
  link,          \* the toy in the app's list: on, off, or gone from it
  real,          \* what its motors do
  events,        \* its reports under way
  queue, answer, \* refreshes at the lock, the first one has it; its answer
  row, begun,    \* the toy in _toys, with its status; whether it is in _initialized_toy_states
  levels, last,  \* _feature_levels, what _deduper remembers
  ready, cleared, published, \* _inventory_ready, _cleared_stale_safe_ids, _published_discovery
  cmds,          \* the commands being handled
  bridge, avail, disc, shown, \* the broker: retained statuses, discovery; states as last seen
  odd, muddled, missed, gap   \* history: see the properties

busVars    == <<bridge, avail, disc, shown>>
toyVars    == <<link, real, events>>
memory     == <<row, begun, levels, last, ready, cleared, published>>
way        == <<transport, control>>
history    == <<muddled, missed, gap>>
vars == <<way, run, up, toyVars, queue, answer, memory, cmds, busVars, odd, history>>

Levels == 0 .. MaxLevel
Zero   == [m \in Motors |-> 0]
Free   == [stage |-> "free", motor |-> None, sent |-> Zero, alone |-> FALSE]
Odd    == odd < MaxOdd /\ odd' = odd + 1

\* The broker may hold what an earlier process left, which crashed.
Init ==
  /\ transport \in Transports /\ run = "off" /\ control = FALSE /\ up = FALSE
  /\ link \in {"on", "gone"} /\ real = Zero /\ events = <<>>
  /\ queue = <<>> /\ answer = None
  /\ row = "unknown" /\ begun = FALSE /\ levels = Zero /\ last = [m \in Motors |-> None]
  /\ ready = FALSE /\ cleared = FALSE /\ published = FALSE
  /\ cmds = [c \in Commands |-> Free]
  /\ disc \in BOOLEAN /\ bridge = "none" /\ avail = IF disc THEN "online" ELSE "none"
  /\ shown = Zero
  /\ odd = 0 /\ muddled = FALSE /\ missed = FALSE /\ gap = FALSE

-----------------------------------------------------------------------------
(* Publishing *)

Running   == run \in {"starting", "scanning", "opening", "on", "failed", "idle"}
Out       == {c \in Commands : cmds[c].stage # "free"}
Status(l) == IF l = "on" THEN "online" ELSE "offline"

Show(st) == avail' = IF up THEN st ELSE avail

ReportSingle(ms, values) ==           \* fault: a stop shows nothing
  /\ shown' = IF up THEN [m \in Motors |-> IF ms = {m} THEN values[m] ELSE shown[m]] ELSE shown
  /\ missed' = (missed \/ ~up)

\* _publish_state_str, forced, for the motors of a set.
Report(ms, values) ==
  /\ shown' = IF up THEN [m \in Motors |-> IF m \in ms THEN values[m] ELSE shown[m]] ELSE shown
  /\ missed' = (missed \/ ~up)

\* _publish_discovery_unlocked; the first states are zero.
Discover ==
  /\ published' = TRUE /\ begun' = TRUE
  /\ disc' = (disc \/ (up /\ ~published))
  /\ muddled' = (muddled \/ (~begun /\ row # "unknown"))
  /\ IF begun THEN UNCHANGED <<shown, missed, levels>>
     ELSE Report(Motors, Zero) /\ levels' = Zero

-----------------------------------------------------------------------------
(* start(), stop() and paho's thread *)

Start ==
  /\ run = "off"
  /\ run' = "starting" /\ control' = (transport # "scan")
  /\ UNCHANGED <<transport, up, toyVars, queue, answer, memory, cmds, busVars, odd, history>>

\* No broker within 30 s, or the scan fails: start() raises and leaves the rest as it is.
StartFails ==
  /\ run \in {"starting", "scanning"} /\ Odd
  /\ run' = "failed"
  /\ UNCHANGED <<way, up, toyVars, queue, answer, memory, cmds, busVars, history>>

\* The scan is over; start() refreshes itself before it goes on.
Scanned ==
  /\ run = "scanning"
  /\ run' = "opening" /\ control' = TRUE /\ queue' = Append(queue, "start")
  /\ UNCHANGED <<transport, up, toyVars, answer, memory, cmds, busVars, odd, history>>

\* start() again: the bridge is running, it says.
StartAgain ==
  /\ run = "failed"
  /\ run' = "idle"
  /\ UNCHANGED <<way, up, toyVars, queue, answer, memory, cmds, busVars, odd, history>>

Connect ==
  /\ ~up /\ run \notin {"off", "closing"}
  /\ up' = TRUE /\ bridge' = "online"
  /\ run' = IF run # "starting" THEN run ELSE IF transport = "scan" THEN "scanning" ELSE "on"
  /\ queue' = IF Running /\ control THEN Append(queue, "connect") ELSE queue
  /\ UNCHANGED <<way, toyVars, answer, memory, cmds, avail, disc, shown, odd, history>>

Disconnect ==
  /\ up /\ Odd
  /\ up' = FALSE
  /\ UNCHANGED <<way, run, toyVars, queue, answer, memory, cmds, busVars, history>>

Offline == IF up THEN bridge' = "offline" /\ avail' = IF row = "unknown" THEN avail ELSE "offline"
           ELSE UNCHANGED <<bridge, avail>>

FarewellFirst(at) == IF at = "stop" THEN Offline ELSE UNCHANGED <<bridge, avail>>  \* fault
Farewell(at)      == IF at = "end" THEN Offline ELSE UNCHANGED <<bridge, avail>>

ReleasedNot == answer                 \* fault: a cancelled refresh keeps the lock
Released    == IF queue # <<>> /\ Head(queue) = "loop" THEN None ELSE answer

\* stop(): no more work is taken on, the tasks are cancelled; the refresh of the loop ends.
Stop ==
  /\ run \in {"on", "failed", "idle"} /\ Odd
  /\ run' = "stopping" /\ Farewell("stop")
  /\ queue' = IF "loop" \in Range(queue) THEN Without(queue, "loop") ELSE queue
  /\ answer' = Released
  /\ events' = <<>> /\ missed' = (missed \/ events # <<>>) /\ muddled' = TRUE
  /\ UNCHANGED <<way, up, link, real, memory, cmds, disc, shown, gap>>

\* The client of the broker is dropped; the control client is being closed, and what waits
\* for it may still be answered.
Leave ==
  /\ run = "stopping"
  /\ run' = "closing" /\ up' = FALSE /\ Farewell("end")
  /\ gap' = ~up
  /\ UNCHANGED <<way, toyVars, queue, answer, memory, cmds, disc, shown, odd, muddled, missed>>

\* The rest of stop(): what waits for the control client has failed.
StopEnds ==
  /\ run = "closing"
  /\ run' = "off" /\ control' = FALSE
  /\ answer' = IF answer # None THEN "fail" ELSE None
  /\ cmds' = [c \in Commands |-> IF c \in Out THEN [cmds[c] EXCEPT !.stage = "failed"] ELSE Free]
  /\ levels' = Zero /\ last' = [m \in Motors |-> None]
  /\ ready' = FALSE /\ cleared' = FALSE /\ muddled' = TRUE
  /\ UNCHANGED <<transport, up, toyVars, queue, row, begun, published, busVars, odd, missed, gap>>

-----------------------------------------------------------------------------
(* The inventory *)

RefreshDue ==
  /\ run = "on" /\ "loop" \notin Range(queue)
  /\ queue' = Append(queue, "loop")
  /\ UNCHANGED <<way, run, up, toyVars, answer, memory, cmds, busVars, odd, history>>

\* get_toys() is answered, or fails: at once when the client is gone.
Inventory ==
  /\ queue # <<>> /\ answer = None
  /\ \/ control /\ answer' = link /\ UNCHANGED odd
     \/ control /\ answer' = "fail" /\ Odd
     \/ ~control /\ answer' = "fail" /\ UNCHANGED odd
  /\ UNCHANGED <<way, run, up, toyVars, queue, memory, cmds, busVars, history>>

SeenNews(st) == IF st # row THEN Show(Status(st)) ELSE UNCHANGED avail   \* fault: only news
Seen(st)     == Show(Status(st))

\* Rows are never dropped: one that is missing is off.
RowOf(a) == IF a # "gone" THEN a ELSE IF row = "unknown" THEN row ELSE "off"

\* Nothing is published, nor discovered, once the client of the broker is dropped.
Refreshed ==
  /\ queue # <<>> /\ answer # None
  /\ queue' = Tail(queue) /\ answer' = None
  /\ run' = IF run = "opening" /\ Head(queue) = "start" THEN "on" ELSE run
  /\ IF answer = "fail" THEN UNCHANGED <<row, ready>> ELSE row' = RowOf(answer) /\ ready' = TRUE
  /\ IF answer = "fail" \/ row' = "unknown" THEN UNCHANGED avail ELSE Seen(row')
  /\ IF answer = "fail" \/ row' = "unknown" \/ run \in {"closing", "off"}
     THEN UNCHANGED <<begun, levels, published, disc, shown, missed, muddled>> ELSE Discover
  /\ gap' = (gap \/ (run \in {"closing", "off"} /\ row # row' /\ row = "unknown"))
  /\ UNCHANGED <<way, up, toyVars, last, cleared, cmds, bridge, odd>>

-----------------------------------------------------------------------------
(* Commands *)

MergedAlone(m, v) == [Zero EXCEPT ![m] = v]           \* fault: the others are not looked up
Merged(m, v)      == [levels EXCEPT ![m] = v]

\* Whether the levels are about to be changed by a report that is on its way.
Echoes == \A i \in DOMAIN events : events[i].level = levels[events[i].motor]

\* A command arrives; one for all motors (None) is the stop button.
Command(c, m, v) ==
  /\ up /\ control /\ cmds[c].stage = "free" /\ \A d \in Commands : d < c => d \in Out
  /\ row # "unknown" /\ Odd
  /\ cmds' = [d \in Commands |->
       IF d = c THEN [stage |-> "out", motor |-> m, alone |-> Out = {},
                      sent |-> IF m = None THEN Zero ELSE Merged(m, v)]
       ELSE [cmds[d] EXCEPT !.alone = FALSE]]
  /\ muddled' = (muddled \/ Out # {} \/ (m # None /\ ~Echoes))
  /\ UNCHANGED <<way, run, up, toyVars, queue, answer, memory, busVars, missed, gap>>

\* A command for a toy nobody knows: it goes offline; what an earlier process has told of
\* it is deleted, once.
CommandUnknown ==
  /\ up /\ control /\ disc /\ row = "unknown" /\ Show("offline")
  /\ IF ready /\ ~cleared
     THEN disc' = FALSE /\ published' = FALSE /\ cleared' = TRUE
     ELSE UNCHANGED <<disc, published, cleared>>
  /\ UNCHANGED <<way, run, up, toyVars, queue, answer, row, begun, levels, last, ready, cmds,
                 bridge, shown, odd, history>>

Listening  == transport = "lan" /\ run = "on"
Turned(to) == SetToSeq({[motor |-> m, level |-> to[m]] : m \in {n \in Motors : to[n] # real[n]}})
Turn(to) ==
  /\ real' = to
  /\ events' = IF Listening THEN events \o Turned(to) ELSE events
  /\ Len(events') <= MaxEvents

\* The request is carried out by the toy, or is refused; an answer may get lost.
Reach(c) ==
  /\ cmds[c].stage = "out"
  /\ \/ link = "on" /\ Turn(cmds[c].sent) /\ UNCHANGED <<odd, muddled>>
        /\ cmds' = [cmds EXCEPT ![c].stage = "done"]
     \/ link # "on" /\ cmds' = [cmds EXCEPT ![c].stage = "refused"]
        /\ UNCHANGED <<real, events, odd, muddled>>
     \/ link = "on" /\ Turn(cmds[c].sent) /\ Odd /\ muddled' = TRUE
        /\ cmds' = [cmds EXCEPT ![c].stage = "failed"]
  /\ UNCHANGED <<way, run, up, link, queue, answer, memory, busVars, missed, gap>>

StoppedKept(sent) == levels                           \* fault: a stop leaves the levels
Stopped(sent)     == sent

\* The reports on their way end with zero.
EndAtZero == \A i \in DOMAIN events : events[i].level # 0 =>
               \E j \in i + 1 .. Len(events) : events[j] = [motor |-> events[i].motor, level |-> 0]

\* The answer is there: the levels that were sent are the levels now.
Return(c) ==
  LET cmd == cmds[c]  stop == cmd.motor = None IN
  /\ \/ /\ cmd.stage = "done"
        /\ levels' = IF stop THEN Stopped(cmd.sent) ELSE cmd.sent
        /\ Report(IF stop THEN Motors ELSE {cmd.motor}, cmd.sent)
        /\ muddled' = (muddled /\ ~(stop /\ cmd.alone /\ EndAtZero))
        /\ UNCHANGED <<row, avail>>
     \/ /\ cmd.stage \in {"refused", "failed"}
        /\ IF transport # "lan" /\ cmd.stage = "refused" THEN row' = "off" /\ Show("offline")
           ELSE UNCHANGED <<row, avail>>
        /\ UNCHANGED <<levels, shown, missed, muddled>>
  /\ cmds' = [cmds EXCEPT ![c] = Free]
  /\ UNCHANGED <<way, run, up, toyVars, queue, answer, begun, last, ready, cleared, published,
                 bridge, disc, odd, gap>>

-----------------------------------------------------------------------------
(* Toy Events, and what happens to the toy *)

\* ToyEventsClient hands over one report at a time, as they come; what is on its way when
\* the connection ends is lost.
Received(report) == events # <<>> /\ report = Head(events) /\ events' = Tail(events)
EventsLost       == events # <<>> /\ events' = <<>>

\* function-strength-changed, for a toy whose motors are known.
Event(m, v) ==
  /\ Received([motor |-> m, level |-> v])
  /\ IF row = "unknown" THEN UNCHANGED <<levels, last, shown, missed>>
     ELSE /\ levels' = [levels EXCEPT ![m] = v]
          /\ last' = [last EXCEPT ![m] = v]
          /\ IF last[m] # v THEN Report({m}, [n \in Motors |-> v]) ELSE UNCHANGED <<shown, missed>>
  /\ muddled' = (muddled \/ row = "unknown")
  /\ UNCHANGED <<way, run, up, link, real, queue, answer, row, begun, ready, cleared, published, cmds,
                 bridge, avail, disc, odd, gap>>

\* toy-list, which needs the lock and is taken once no refresh wants it.  A row that has no
\* status counts as connected, and the list may be older than the toy: one that says
\* otherwise than the toy is an odd event.
ToyList(st) ==
  /\ Listening /\ queue = <<>>
  /\ IF st = link THEN UNCHANGED odd ELSE Odd
  /\ row' = st /\ Seen(st) /\ Discover
  /\ UNCHANGED <<way, run, up, toyVars, queue, answer, last, ready, cleared, cmds, bridge, gap>>

\* The Toy Events connection breaks; it is opened again 3 s later.
LoseEvents ==
  /\ EventsLost /\ Odd
  /\ muddled' = TRUE /\ missed' = TRUE
  /\ UNCHANGED <<way, run, up, link, real, queue, answer, memory, cmds, busVars, gap>>

TurnByHand(m, v) ==
  /\ transport = "lan" /\ link = "on" /\ v # real[m] /\ Odd
  /\ Turn([real EXCEPT ![m] = v])
  /\ muddled' = (muddled \/ Out # {} \/ ~Listening)
  /\ cmds' = [c \in Commands |-> [cmds[c] EXCEPT !.alone = FALSE]]
  /\ UNCHANGED <<way, run, up, link, queue, answer, memory, busVars, missed, gap>>

\* The toy is switched off, taken out of the app, or back.
LinkChanges(l) ==
  /\ l # link /\ Odd
  /\ link' = l
  /\ real' \in {real, Zero}
  /\ muddled' = (muddled \/ real' # real) /\ missed' = (missed \/ real' # real)
  /\ UNCHANGED <<way, run, up, events, queue, answer, memory, cmds, busVars, gap>>

Next ==
  \/ Start \/ StartFails \/ Scanned \/ StartAgain \/ Connect \/ Disconnect
  \/ Stop \/ Leave \/ StopEnds
  \/ RefreshDue \/ Inventory \/ Refreshed
  \/ CommandUnknown \/ LoseEvents
  \/ \E st \in {"on", "off"} : ToyList(st)
  \/ \E c \in Commands : \/ Reach(c) \/ Return(c) \/ Command(c, None, 0)
                         \/ \E m \in Motors, v \in Levels : Command(c, m, v)
  \/ \E m \in Motors, v \in Levels : TurnByHand(m, v) \/ Event(m, v)
  \/ \E l \in {"on", "off", "gone"} : LinkChanges(l)

Spec == Init /\ [][Next]_vars

\* paho connects again, the refresh loop and its requests go on, the toy's reports arrive.
FairSpec ==
  /\ Spec
  /\ WF_vars(Connect) /\ WF_vars(RefreshDue) /\ WF_vars(Inventory) /\ WF_vars(Refreshed)

-----------------------------------------------------------------------------
(* Properties *)

\* Every variable has its type (ha_bridge.py:275-294).
TypeOK ==
  /\ transport \in Transports /\ {control, begun, up, ready, cleared, published, disc, muddled, missed, gap} \subseteq BOOLEAN
  /\ run \in {"off", "starting", "scanning", "opening", "on", "failed", "idle",
             "stopping", "closing"}
  /\ link \in {"on", "off", "gone"} /\ answer \in {None, "on", "off", "gone", "fail"}
  /\ row \in {"unknown", "on", "off"}
  /\ {real, levels, shown} \subseteq [Motors -> Levels] /\ last \in [Motors -> Levels \cup {None}]
  /\ Len(events) <= MaxEvents /\ Range(events) \subseteq [motor : Motors, level : Levels]
  /\ Range(queue) \subseteq {"loop", "connect", "start"} /\ (answer # None => queue # <<>>)
  /\ cmds \in [Commands -> [stage : {"free", "out", "done", "refused", "failed"},
                            motor : Motors \cup {None}, sent : [Motors -> Levels], alone : BOOLEAN]]
  /\ {bridge, avail} \subseteq {"none", "online", "offline"} /\ odd \in 0 .. MaxOdd

Quiet == Out = {} /\ events = <<>>

\* When nothing is under way the bridge's levels are the toy's, unless commands or turns by
\* hand have overlapped, something was lost, the bridge was stopped, or a toy that was turned
\* already is shown for the first time, since the last undisturbed stop of the toy; and what
\* was last shown is what the bridge believes, unless a message was lost
\* (ha_bridge.py:689-704, 740-747, 780-789).
LevelsAgree ==
  Quiet /\ row # "unknown" /\ ~muddled => levels = real /\ (~missed => shown = levels)

\* A command for one motor leaves the others as they are (ha_bridge.py:780-787).
MotorsApart ==
  [][\A c \in Commands, m \in Motors :
       cmds[c].stage = "out" /\ cmds[c].motor = m /\ cmds'[c].stage = "done" /\ ~muddled =>
         \A n \in Motors \ {m} : real'[n] = real[n]]_vars

\* A bridge that was stopped with the broker at hand is offline, and so is its toy, unless the
\* bridge heard of it only while it closed its client (ha_bridge.py:434-475).
StopShowsOffline ==
  run = "off" /\ ~gap /\ bridge # "none" => bridge = "offline" /\ (row # "unknown" => avail = "offline")

\* A toy that stays as it is is finally shown as it is (ha_bridge.py:530-538, 620-661).
AvailSettles ==
  \A l \in {"on", "off"} :
    <>[](run = "on" /\ up /\ link = l) => <>[](avail = Status(l))

\* Known not to hold: a start() that returns has started the bridge (ha_bridge.py:371).
StartStarts == run # "idle"

\* Known not to hold: a command keeps what other ones have set, over BLE, where only
\* commands turn the motors (ha_bridge.py:780-788).
OtherMotorKept ==
  [][\A c \in Commands, m \in Motors :
       cmds[c].stage = "out" /\ cmds[c].motor = m /\ cmds'[c].stage = "done" /\ transport # "lan" =>
         \A n \in Motors \ {m} : real'[n] = real[n]]_vars

\* Known not to hold: a toy that stays is finally discovered (ha_bridge.py:674-679).
DiscoverySettles == <>[](run = "on" /\ up /\ link = "on") => <>[]disc
=============================================================================
