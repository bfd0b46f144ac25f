---------------------------- MODULE BleSupervisor ----------------------------
(***************************************************************************)
(* Who keeps a BLE link up and who takes it down: the registry of          *)
(* ble_direct/hub.py, the supervision loop of ble_supervisor.py, the /ble  *)
(* routes of routes/ble.py and the part of runtime.py that closes the hub, *)
(* around the one ble_lock of the service.                                 *)
(*                                                                         *)
(* A step is the code between two awaits: the lock, a GATT connect or      *)
(* disconnect, the UART queries of enrichment, a scan.  A supervision      *)
(* round does not suspend between two rows unless it has to (sup = "round" *)
(* excludes every other step).                                             *)
(***************************************************************************)
EXTENDS Integers, Sequences, AsyncLock

CONSTANTS
  Ids,           \* toy ids
  Devices,       \* BLE peripherals, by address
  Guess,         \* [Devices -> Ids]: the id made of the address
  Mac,           \* [Devices -> Ids]: the id made of the address the toy reports
  Calls,         \* HTTP requests, each of them served once
  Asks,          \* what a request may ask
  Sup,           \* the supervision task
  NoDevice, NoAsk,
  MaxDrops,      \* how many links may be lost
  MaxFails,      \* how many GATT connects and UART queries may fail
  MaxTries       \* attempts are counted up to here

Ops == {"connect", "auto", "reconnect", "disconnect", "remove", "disable"}
Ask == [op : Ops, id : Ids, dev : Devices, replace : BOOLEAN]

ASSUME BleAssumption ==
  /\ Guess \in [Devices -> Ids] /\ Mac \in [Devices -> Ids]
  /\ Asks \subseteq Ask /\ NoAsk \notin Asks
  /\ Devices # {} /\ NoDevice \notin Devices /\ Sup \notin Calls
  /\ MaxDrops \in Nat /\ MaxFails \in Nat /\ MaxTries \in Nat \ {0}

VARIABLES
  entry,   \* hub._toys: the device of a registered id
  up,      \* client.is_connected of the registered client
  lost,    \* devices whose link belongs to a client that is not registered
  gone,    \* the hub has been closed and replaced by None
  st,      \* supervisor._states
  lock,    \* runtime.ble_lock, a FIFO whose head holds it
  drops, fails,
  ask, pc, \* per call: what it asks, where it is
  at, dev, \* id and device at hand
  todo,    \* scanned devices left (connect/auto)
  rest,    \* registered ids left (connect/auto), ids left to close (disable)
  made,    \* connected_ids of connect/auto
  sup,     \* where the supervision task is
  left,    \* rows of the round still to visit
  seen,    \* rows that said connected when the round began
  cur,     \* row at hand
  own      \* is the state at hand still the one in _states?

hubVars  == <<entry, up, lost, gone>>
callVars == <<ask, pc, at, dev, todo, rest, made>>
supVars  == <<sup, left, seen, cur, own>>
world    == <<drops, fails>>
vars     == <<entry, up, lost, gone, st, lock, drops, fails,
              ask, pc, at, dev, todo, rest, made, sup, left, seen, cur, own>>

\* _ToyState; due is next_attempt_mono <= now, failed is last_error
State == [known : BOOLEAN, paused : BOOLEAN, tries : 0 .. MaxTries,
          due : BOOLEAN, since : BOOLEAN, failed : BOOLEAN]
Absent == [known |-> FALSE, paused |-> FALSE, tries |-> 0,
           due |-> TRUE, since |-> FALSE, failed |-> FALSE]

Registered == {i \in Ids : entry[i] # NoDevice}
Linked(d)  == d \in lost \/ \E i \in Ids : entry[i] = d /\ up[i]
AtLockSup  == {"lock", "link", "battery"}
Holds(a)   == HeldBy(lock, a)
UnlockedNot == lock                                \* fault: the lock is kept
Unlocked   == Tail(lock)

NotedConnected(i) == [st EXCEPT ![i] = [Absent EXCEPT !.known = TRUE, !.since = TRUE]]
Paused(i)   == [st EXCEPT ![i].known = TRUE, ![i].paused = TRUE, ![i].since = FALSE]
Resumed(i)  == [st EXCEPT ![i].known = TRUE, ![i].paused = FALSE,
                          ![i].tries = 0, ![i].due = TRUE]
Forgotten(i) == [st EXCEPT ![i] = Absent]
KeptAll    == st                                   \* fault: nothing is dropped
\* the round drops the states of ids that are no longer registered
Kept       == [i \in Ids |-> IF i \in Registered THEN st[i] ELSE Absent]

Init ==
  /\ entry = [i \in Ids |-> NoDevice]
  /\ up    = [i \in Ids |-> FALSE]
  /\ lost  = {} /\ gone = FALSE
  /\ st    = [i \in Ids |-> Absent]
  /\ lock  = <<>>
  /\ drops = 0 /\ fails = 0
  /\ ask   = [c \in Calls |-> NoAsk]
  /\ pc    = [c \in Calls |-> "idle"]
  /\ at    = [c \in Calls |-> CHOOSE i \in Ids : TRUE]
  /\ dev   = [c \in Calls |-> CHOOSE d \in Devices : TRUE]
  /\ todo  = [c \in Calls |-> {}]
  /\ rest  = [c \in Calls |-> {}]
  /\ made  = [c \in Calls |-> {}]
  /\ sup = "sleep" /\ left = {} /\ seen = {}
  /\ cur = (CHOOSE i \in Ids : TRUE) /\ own = FALSE

-----------------------------------------------------------------------------
(* Calls *)

Asked(c, op) ==
  /\ pc[c] = "idle" /\ ~gone
  /\ \E q \in Asks : q.op = op /\ ask' = [ask EXCEPT ![c] = q]
Goto(c, where) == pc' = [pc EXCEPT ![c] = where]
Queue(c) == lock' = Append(lock, c) /\ Goto(c, "lock")

\* _connect_device, up to the lock
Connect(c) ==
  /\ Asked(c, "connect")
  /\ at'  = [at  EXCEPT ![c] = ask'[c].id]
  /\ dev' = [dev EXCEPT ![c] = ask'[c].dev]
  /\ Queue(c)
  /\ UNCHANGED <<hubVars, st, world, todo, rest, made, supVars>>

\* 404 when unknown; otherwise the pause is lifted before the lock is asked for
Reconnect(c) ==
  /\ Asked(c, "reconnect")
  /\ at' = [at EXCEPT ![c] = ask'[c].id]
  /\ IF at'[c] \in Registered
     THEN Queue(c) /\ st' = Resumed(at'[c])
     ELSE Goto(c, "failed") /\ UNCHANGED <<lock, st>>
  /\ UNCHANGED <<hubVars, world, dev, todo, rest, made, supVars>>

Disconnect(c) ==
  /\ Asked(c, "disconnect")
  /\ at' = [at EXCEPT ![c] = ask'[c].id]
  /\ st' = Paused(at'[c])
  /\ Queue(c)
  /\ UNCHANGED <<hubVars, world, dev, todo, rest, made, supVars>>

Remove(c) ==
  /\ Asked(c, "remove")
  /\ at' = [at EXCEPT ![c] = ask'[c].id]
  /\ Queue(c)
  /\ UNCHANGED <<hubVars, st, world, dev, todo, rest, made, supVars>>

AutoConnect(c) ==
  /\ Asked(c, "auto")
  /\ Goto(c, "scan")
  /\ UNCHANGED <<hubVars, st, lock, world, at, dev, todo, rest, made, supVars>>

Refused(c) ==
  /\ pc[c] = "idle" /\ gone
  /\ Goto(c, "failed")
  /\ UNCHANGED <<hubVars, st, lock, world, ask, at, dev, todo, rest, made, supVars>>

\* a peripheral with a link does not advertise
Scanned(c) ==
  /\ pc[c] = "scan"
  /\ \E ds \in SUBSET {d \in Devices : ~Linked(d)} : todo' = [todo EXCEPT ![c] = ds]
  /\ Goto(c, "rows")
  /\ UNCHANGED <<hubVars, st, lock, world, ask, at, dev, rest, made, supVars>>

NextRow(c) ==
  /\ pc[c] = "rows"
  /\ \E d \in todo[c] :
       /\ todo' = [todo EXCEPT ![c] = @ \ {d}]
       /\ dev' = [dev EXCEPT ![c] = d]
       /\ at' = [at EXCEPT ![c] = Guess[d]]
  /\ Queue(c)
  /\ UNCHANGED <<hubVars, st, world, ask, rest, made, supVars>>

\* include_registered: the registered toys that are still down
RowsDone(c) ==
  /\ pc[c] = "rows" /\ todo[c] = {}
  /\ rest' = [rest EXCEPT ![c] = {i \in Registered : ~up[i] /\ i \notin made[c]}]
  /\ Goto(c, "rest")
  /\ UNCHANGED <<hubVars, st, lock, world, ask, at, dev, todo, made, supVars>>

NextRest(c) ==
  /\ pc[c] = "rest"
  /\ \E i \in rest[c] :
       /\ rest' = [rest EXCEPT ![c] = @ \ {i}]
       /\ at' = [at EXCEPT ![c] = i]
  /\ lock' = Append(lock, c) /\ Goto(c, "relock")
  /\ UNCHANGED <<hubVars, st, world, ask, dev, todo, made, supVars>>

RestDone(c) ==
  /\ pc[c] = "rest" /\ rest[c] = {}
  /\ Goto(c, "done")
  /\ UNCHANGED <<hubVars, st, lock, world, ask, at, dev, todo, rest, made, supVars>>

\* is the call in the scanning half of connect/auto, or in a route of its own?
Adds(c)  == pc[c] = "lock" /\ ask[c].op \in {"connect", "auto"}
Plain(c) == pc[c] = "relock" \/ (pc[c] = "lock" /\ ask[c].op = "reconnect")
\* an exception ends a route, and only the row of connect/auto
Broken(c) == IF ask[c].op # "auto" THEN "failed"
             ELSE IF pc[c] \in {"relock", "relink"} THEN "rest" ELSE "rows"

\* already registered: connect only what is down, then read the UART
Known(c) ==
  /\ Adds(c) /\ Holds(c)
  /\ at[c] \in Registered /\ ~(ask[c].op = "connect" /\ ask[c].replace)
  /\ Goto(c, IF up[at[c]] THEN "enrich" ELSE "link")
  /\ UNCHANGED <<hubVars, st, lock, world, ask, at, dev, todo, rest, made, supVars>>

\* add_toy, also in place of a registration that is down
Register(c) ==
  /\ Adds(c) /\ Holds(c)
  /\ \/ at[c] \notin Registered
     \/ ask[c].op = "connect" /\ ask[c].replace /\ ~up[at[c]]
  /\ entry' = [entry EXCEPT ![at[c]] = dev[c]]
  /\ Goto(c, "link")
  /\ UNCHANGED <<up, lost, gone, st, lock, world, ask, at, dev, todo, rest, made, supVars>>

\* add_toy(replace=True) on a toy that is up: popped first, then refused
RegisterRefused(c) ==
  LET i == at[c] IN
  /\ Adds(c) /\ Holds(c)
  /\ ask[c].op = "connect" /\ ask[c].replace /\ i \in Registered /\ up[i]
  /\ entry' = [entry EXCEPT ![i] = NoDevice]
  /\ up' = [up EXCEPT ![i] = FALSE]
  /\ lost' = lost \cup {entry[i]}
  /\ lock' = Unlocked
  /\ Goto(c, "failed")
  /\ UNCHANGED <<gone, st, world, ask, at, dev, todo, rest, made, supVars>>

\* hub.connect of a known id; get_client raises when it has been removed
Relink(c) ==
  /\ Plain(c) /\ Holds(c)
  /\ IF at[c] \in Registered
     THEN Goto(c, IF pc[c] = "relock" THEN "relink" ELSE "link") /\ UNCHANGED lock
     ELSE Goto(c, Broken(c)) /\ lock' = Unlocked
  /\ UNCHANGED <<hubVars, st, world, ask, at, dev, todo, rest, made, supVars>>

LinkUp(c) ==
  /\ pc[c] = "link"
  /\ up' = [up EXCEPT ![at[c]] = TRUE]
  /\ Goto(c, "enrich")
  /\ UNCHANGED <<entry, lost, gone, st, lock, world, ask, at, dev, todo, rest, made, supVars>>

\* the second half of connect/auto does not read the UART
RelinkUp(c) ==
  /\ pc[c] = "relink"
  /\ up' = [up EXCEPT ![at[c]] = TRUE]
  /\ lock' = Unlocked
  /\ st' = NotedConnected(at[c])
  /\ made' = [made EXCEPT ![c] = @ \cup {at[c]}]
  /\ Goto(c, "rest")
  /\ UNCHANGED <<entry, lost, gone, world, ask, at, dev, todo, rest, supVars>>

LinkFails(c) ==
  /\ pc[c] \in {"link", "relink"} /\ fails < MaxFails
  /\ fails' = fails + 1
  /\ lock' = Unlocked
  /\ Goto(c, Broken(c))
  /\ UNCHANGED <<hubVars, st, drops, ask, at, dev, todo, rest, made, supVars>>

\* after enrich_toy_from_uart: release the lock and tell the supervisor
Enriched(c, i) ==
  /\ lock' = Unlocked
  /\ st' = NotedConnected(i)
  /\ made' = [made EXCEPT ![c] = @ \cup {i}]
  /\ Goto(c, IF ask[c].op = "auto" THEN "rows" ELSE "done")

\* the toy reports its address: its id becomes the one made of it, unless taken
EnrichRenames(c) ==
  LET i == at[c]
      n == Mac[entry[i]] IN
  /\ pc[c] = "enrich" /\ up[i]
  /\ n # i /\ n \notin Registered
  /\ entry' = [entry EXCEPT ![n] = entry[i], ![i] = NoDevice]
  /\ up' = [up EXCEPT ![n] = TRUE, ![i] = FALSE]
  /\ Enriched(c, n)
  /\ UNCHANGED <<lost, gone, world, ask, at, dev, todo, rest, supVars>>

EnrichKeeps(c) ==
  /\ pc[c] = "enrich"
  /\ ~up[at[c]] \/ Mac[entry[at[c]]] \in {at[c]} \cup Registered
  /\ Enriched(c, at[c])
  /\ UNCHANGED <<hubVars, world, ask, at, dev, todo, rest, supVars>>

\* a query fails: logged, and the id stays
EnrichFails(c) ==
  /\ pc[c] = "enrich" /\ up[at[c]] /\ fails < MaxFails
  /\ fails' = fails + 1
  /\ Enriched(c, at[c])
  /\ UNCHANGED <<hubVars, drops, ask, at, dev, todo, rest, supVars>>

DisconnectStarts(c) ==
  /\ pc[c] = "lock" /\ ask[c].op = "disconnect" /\ Holds(c)
  /\ IF at[c] \in Registered
     THEN Goto(c, "drop") /\ UNCHANGED lock
     ELSE Goto(c, "failed") /\ lock' = Unlocked
  /\ UNCHANGED <<hubVars, st, world, ask, at, dev, todo, rest, made, supVars>>

DisconnectLands(c) ==
  /\ pc[c] = "drop" /\ ask[c].op = "disconnect"
  /\ up' = [up EXCEPT ![at[c]] = FALSE]
  /\ lock' = Unlocked
  /\ Goto(c, "done")
  /\ UNCHANGED <<entry, lost, gone, st, world, ask, at, dev, todo, rest, made, supVars>>

Forgets(i) == st' = Forgotten(i) /\ own' = (own /\ cur # i)

\* the registration goes first, then the link
RemoveStarts(c) ==
  LET i == at[c] IN
  /\ pc[c] = "lock" /\ ask[c].op = "remove" /\ Holds(c)
  /\ entry' = [entry EXCEPT ![i] = NoDevice]
  /\ up' = [up EXCEPT ![i] = FALSE]
  /\ IF up[i]
     THEN /\ lost' = lost \cup {entry[i]}
          /\ dev' = [dev EXCEPT ![c] = entry[i]]
          /\ Goto(c, "drop")
          /\ UNCHANGED <<lock, st, own>>
     ELSE /\ lock' = Unlocked /\ Forgets(i) /\ Goto(c, "done")
          /\ UNCHANGED <<lost, dev>>
  /\ UNCHANGED <<gone, world, ask, at, todo, rest, made, sup, left, seen, cur>>

RemoveLands(c) ==
  /\ pc[c] = "drop" /\ ask[c].op = "remove"
  /\ lost' = lost \ {dev[c]}
  /\ lock' = Unlocked
  /\ Forgets(at[c])
  /\ Goto(c, "done")
  /\ UNCHANGED <<entry, up, gone, world, ask, at, dev, todo, rest, made, sup, left, seen, cur>>

\* apply_config(enable_ble=False): every toy is disconnected, outside the lock,
Disable(c) ==
  /\ Asked(c, "disable")
  /\ rest' = [rest EXCEPT ![c] = Registered]
  /\ Goto(c, "close")
  /\ UNCHANGED <<hubVars, st, lock, world, at, dev, todo, made, supVars>>

CloseOne(c) ==
  /\ pc[c] = "close"
  /\ \E i \in rest[c] : /\ up' = [up EXCEPT ![i] = FALSE]
                        /\ rest' = [rest EXCEPT ![c] = @ \ {i}]
  /\ UNCHANGED <<entry, lost, gone, st, lock, world, ask, pc, at, dev, todo, made, supVars>>

\* then the supervision task is cancelled at its await, then the hub is let go
Closed(c) ==
  /\ pc[c] = "close" /\ rest[c] = {}
  /\ gone' = TRUE
  /\ lock' = IF sup \in AtLockSup THEN Without(lock, Sup) ELSE lock
  /\ sup' = "off"
  /\ Goto(c, "done")
  /\ UNCHANGED <<entry, up, lost, st, world, ask, at, dev, todo, rest, made, left, seen, cur, own>>

-----------------------------------------------------------------------------
(* The supervision task *)

RoundBegins ==
  /\ sup = "sleep"
  /\ st' = Kept
  /\ left' = Registered
  /\ seen' = {i \in Registered : up[i]}
  /\ sup' = "round"
  /\ UNCHANGED <<hubVars, lock, world, callVars, cur, own>>

Visit(i) == sup = "round" /\ i \in left /\ left' = left \ {i}
Attend(i, where) == cur' = i /\ own' = TRUE /\ sup' = where /\ lock' = Append(lock, Sup)

\* a row that said connected: its battery may be due
VisitUp(i) ==
  /\ Visit(i) /\ i \in seen
  /\ st' = IF st[i].since THEN [st EXCEPT ![i].known = TRUE]
           ELSE [st EXCEPT ![i].known = TRUE, ![i].since = TRUE,
                           ![i].tries = 0, ![i].failed = FALSE]
  /\ \/ Attend(i, "battery")
     \/ UNCHANGED <<cur, own, sup, lock>>
  /\ UNCHANGED <<hubVars, world, callVars, seen>>

MayTryPaused(i) == st[i].due                       \* fault: the pause is not tested
MayTryOnce(i) == ~st[i].paused /\ ~st[i].failed    \* fault: a failure is final
MayTry(i) == ~st[i].paused /\ st[i].due

VisitIdle(i) ==
  /\ Visit(i) /\ i \notin seen /\ ~MayTry(i)
  /\ st' = [st EXCEPT ![i].known = TRUE, ![i].since = FALSE]
  /\ UNCHANGED <<hubVars, lock, world, callVars, sup, seen, cur, own>>

VisitDown(i) ==
  /\ Visit(i) /\ i \notin seen /\ MayTry(i)
  /\ st' = [st EXCEPT ![i].known = TRUE, ![i].since = FALSE,
                      ![i].tries = IF @ < MaxTries THEN @ + 1 ELSE @]
  /\ Attend(i, "lock")
  /\ UNCHANGED <<hubVars, world, callVars, seen>>

RoundEnds ==
  /\ sup = "round" /\ left = {}
  /\ sup' = "sleep"
  /\ UNCHANGED <<hubVars, st, lock, world, callVars, left, seen, cur, own>>

\* writes to a state that has been popped are lost
\* fault: the attempt is counted a second time
BackedOffTwice == IF own THEN [st EXCEPT ![cur].failed = TRUE, ![cur].due = FALSE,
                                         ![cur].tries = @ + 1] ELSE st
BackedOff == IF own THEN [st EXCEPT ![cur].failed = TRUE, ![cur].due = FALSE] ELSE st
Reached   == IF own THEN [st EXCEPT ![cur].tries = 0, ![cur].failed = FALSE,
                                    ![cur].due = TRUE, ![cur].since = TRUE]
             ELSE st

SupConnects ==
  /\ sup = "lock" /\ Holds(Sup)
  /\ IF cur \in Registered
     THEN sup' = "link" /\ UNCHANGED <<lock, st>>
     ELSE sup' = "round" /\ lock' = Unlocked /\ st' = BackedOff
  /\ UNCHANGED <<hubVars, world, callVars, left, seen, cur, own>>

SupLinkUp ==
  /\ sup = "link"
  /\ up' = [up EXCEPT ![cur] = TRUE]
  /\ st' = Reached
  /\ lock' = Append(Unlocked, Sup)                 \* refresh_battery
  /\ sup' = "battery"
  /\ UNCHANGED <<entry, lost, gone, world, callVars, left, seen, cur, own>>

SupLinkFails ==
  /\ sup = "link" /\ fails < MaxFails
  /\ fails' = fails + 1
  /\ st' = BackedOff
  /\ lock' = Unlocked
  /\ sup' = "round"
  /\ UNCHANGED <<hubVars, drops, callVars, left, seen, cur, own>>

\* refresh_battery never raises and touches no link
SupBattery ==
  /\ sup = "battery" /\ Holds(Sup)
  /\ lock' = Unlocked
  /\ sup' = "round"
  /\ UNCHANGED <<hubVars, st, world, callVars, left, seen, cur, own>>

-----------------------------------------------------------------------------
(* The environment *)

Elapse(i) ==
  /\ ~st[i].due
  /\ st' = [st EXCEPT ![i].due = TRUE]
  /\ UNCHANGED <<hubVars, lock, world, callVars, supVars>>

LinkDrops ==
  /\ drops < MaxDrops
  /\ drops' = drops + 1
  /\ \/ \E i \in Ids : up[i] /\ up' = [up EXCEPT ![i] = FALSE] /\ UNCHANGED lost
     \/ \E d \in lost : lost' = lost \ {d} /\ UNCHANGED up
  /\ UNCHANGED <<entry, gone, st, lock, fails, callVars, supVars>>
-----------------------------------------------------------------------------
Arrivals(c) ==
  \/ Connect(c) \/ Reconnect(c) \/ Disconnect(c) \/ Remove(c) \/ AutoConnect(c)
  \/ Disable(c) \/ Refused(c)

CallSteps(c) ==
  \/ Scanned(c) \/ NextRow(c) \/ RowsDone(c) \/ NextRest(c) \/ RestDone(c)
  \/ Known(c) \/ Register(c) \/ RegisterRefused(c) \/ Relink(c)
  \/ LinkUp(c) \/ RelinkUp(c) \/ EnrichRenames(c) \/ EnrichKeeps(c)
  \/ DisconnectStarts(c) \/ DisconnectLands(c) \/ RemoveStarts(c) \/ RemoveLands(c)
  \/ CloseOne(c) \/ Closed(c)

SupVisits == RoundEnds \/ \E i \in Ids : VisitUp(i) \/ VisitIdle(i) \/ VisitDown(i)
SupWakes  == RoundBegins \/ SupConnects \/ SupLinkUp \/ SupBattery
Failures  == SupLinkFails \/ \E c \in Calls : LinkFails(c) \/ EnrichFails(c)

Yielded   == sup # "round"
Settled   == sup = "off" /\ \A c \in Calls : pc[c] \in {"done", "failed"}

Next ==
  \/ SupVisits
  \/ Yielded /\ \/ \E c \in Calls : Arrivals(c) \/ CallSteps(c)
                \/ SupWakes \/ Failures
                \/ \E i \in Ids : Elapse(i)
                \/ LinkDrops
  \/ Settled /\ UNCHANGED vars

Spec == Init /\ [][Next]_vars

\* Ready tasks run, connects and queries return, the clock advances.
FairSpec ==
  /\ Spec
  /\ WF_vars(SupVisits)
  /\ WF_vars(Yielded /\ SupWakes)
  /\ \A c \in Calls : SF_vars(Yielded /\ CallSteps(c))
  /\ \A i \in Ids : SF_vars(Yielded /\ Elapse(i))
-----------------------------------------------------------------------------
(* Properties *)

TypeOK ==
  /\ entry \in [Ids -> Devices \cup {NoDevice}]
  /\ up \in [Ids -> BOOLEAN] /\ lost \subseteq Devices /\ gone \in BOOLEAN
  /\ st \in [Ids -> State]
  /\ lock \in Seq(Calls \cup {Sup})
  /\ drops \in 0 .. MaxDrops /\ fails \in 0 .. MaxFails
  /\ ask \in [Calls -> Asks \cup {NoAsk}]
  /\ pc \in [Calls -> {"idle", "scan", "rows", "rest", "lock", "relock", "link", "relink",
                       "enrich", "drop", "close", "done", "failed"}]
  /\ at \in [Calls -> Ids] /\ dev \in [Calls -> Devices]
  /\ todo \in [Calls -> SUBSET Devices]
  /\ rest \in [Calls -> SUBSET Ids] /\ made \in [Calls -> SUBSET Ids]
  /\ sup \in {"off", "sleep", "round", "lock", "link", "battery"}
  /\ left \subseteq Ids /\ seen \subseteq Ids /\ cur \in Ids /\ own \in BOOLEAN

\* calls and attempts that may still change the link of an id
AtLock == {c \in Calls : pc[c] \in {"lock", "relock", "link", "relink", "enrich", "drop"}}
Busy(i) == \E c \in AtLock : at[c] = i

(* A toy the user has disconnected stays down: once nobody has a request for it *)
(* in flight, a paused toy has no link, although an attempt to reconnect it may *)
(* have tested the pause long before it got the lock (ble_supervisor.py:213-219,*)
(* routes/ble.py:314-317).                                                      *)
PausedIsDown == \A i \in Ids : (st[i].paused /\ ~Busy(i)) => ~up[i]

(* The lock is queued for by exactly the calls and the attempt that are at it,  *)
(* so that nothing waits behind a request that has failed or was cancelled.     *)
LockLive ==
  /\ IsInjective(lock)
  /\ Range(lock) = AtLock \cup (IF sup \in AtLockSup THEN {Sup} ELSE {})
  /\ \A c \in Calls : pc[c] \in {"link", "relink", "enrich", "drop"} => Holds(c)
  /\ sup = "link" => Holds(Sup)

(* A supervised attempt brings up a toy the user has paused meanwhile only when *)
(* the disconnect that paused it is still waiting to take it down again.        *)
PauseWins ==
  [][ \A i \in Ids :
        (sup = "link" /\ sup' = "battery" /\ cur = i /\ st[i].paused) =>
          \E c \in Calls : pc[c] = "lock" /\ ask[c].op = "disconnect" /\ at[c] = i ]_vars

(* The pause of a disconnect that has been answered is in force: it was not     *)
(* lifted by a connect that had been asked for earlier (routes/ble.py:311).     *)
AnsweredDisconnectPauses ==
  [][ \A c \in Calls :
        (pc[c] = "drop" /\ pc'[c] = "done" /\ ask[c].op = "disconnect") =>
          st[at[c]].paused ]_vars

(* A link belongs to a registered toy: nothing is connected that no command can *)
(* reach and no disconnect can take down (hub.py:187-190).                      *)
LinksRegistered ==
  (\A c \in Calls : pc[c] \in {"idle", "done", "failed"}) => lost = {}

(* An address is registered once (routes/ble.py:197: "if new").                 *)
RegisteredOnce ==
  \A i, j \in Ids : (i # j /\ entry[i] = entry[j]) => entry[i] = NoDevice

(* A toy that a request has brought online shows no error and no back-off       *)
(* (ble_supervisor.py:96).                                                      *)
OnlineIsClean ==
  \A i \in Ids : (up[i] /\ st[i].since /\ ~Busy(i)) => ~st[i].failed /\ st[i].due

(* A hub that has been closed has no link left (hub.py:417).                    *)
ClosedIsDown ==
  (gone /\ AtLock = {}) => \A i \in Ids : ~up[i]

(* Every registered toy that is not paused is finally up for good, once links   *)
(* stop dropping and connects stop failing (ble_supervisor.py:1-7).             *)
KeptConnected ==
  <>[](\A i \in Registered : up[i] \/ st[i].paused)

(* Every call is answered, whatever waits for the lock.                         *)
CallsFinish == \A c \in Calls : (pc[c] # "idle") ~> (pc[c] \in {"done", "failed"})

(* A toy that has been forgotten drops out of the status, even when a round was *)
(* about to visit it (tests/test_ble_supervisor_unit.py:117).                   *)
ForgottenDropsOut ==
  \A i \in Ids : (i \notin Registered) ~> (~st[i].known \/ i \in Registered)
=============================================================================
