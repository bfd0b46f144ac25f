------------------------ MODULE ServiceRuntime_proof -------------------------
(***************************************************************************)
(* Theorems about ServiceRuntime, for any number of requests, accounts and *)
(* losses: one session as long as requests do not overlap, none left after *)
(* aclose(), workers that match the configuration; and, whatever overlaps, *)
(* one scheduler, commands that stay with their account and reach every    *)
(* part they are meant for.                                                *)
(***************************************************************************)
EXTENDS ServiceRuntime, TLAPS

-----------------------------------------------------------------------------
(* The inductive invariant *)

All       == Calls \cup {Main}
Busy(c)   == pc[c] # "idle"
Before(c) == pc[c] \in {"closing", "hub", "workers", "monitor"}     \* the swap is still to come
Nobody    == \A k \in Clients : ~Alive(k)
Numbers   == 0 .. MaxAsks + 1
Accounts  == Creds \cup {None}
Places    == {"idle", "closing", "hub", "workers", "monitor", "scheduler", "token", "url"}
Sound(f)  == f \in Configs /\ (f.socket => f.creds # None)

Jobs == [new : Configs \cup {None}, changed : BOOLEAN, stops : BOOLEAN, posts : BOOLEAN,
         sock : Numbers, hub : Numbers, waits : Numbers, made : Backends]

\* requests that are under way have numbers of their own, and are over before and after "up"
RequestsOK ==
  /\ life \in {"new", "starting", "up", "closing", "down"} /\ lapped \in BOOLEAN
  /\ pc \in [All -> Places] /\ job \in [All -> Jobs]
  /\ asks \in 0 .. MaxAsks /\ (life \in {"new", "starting"} => asks = 0)
  /\ Busy(Main) <=> life = "starting"
  /\ Busy(Main) => pc[Main] \in {"token", "url"} /\ job[Main].made = 1
  /\ \A c \in Calls : Busy(c) => life = "up" /\ job[c].made \in 2 .. asks + 1
  /\ \A c, d \in Calls : Busy(c) /\ Busy(d) /\ (Calm \/ job[c].made = job[d].made) => c = d

\* what a request brings to the swap: a backend it keeps is of the account it is kept for
Brings(at, j) ==
  /\ Sound(j.new) /\ of[j.made] = None
  /\ at = "closing" => j.changed /\ j.sock # 0
  /\ at # "closing" => (j.sock # 0 => ~j.changed /\ j.new.creds # None /\ of[j.sock] = j.new.creds)
  /\ at # "closing" => (~j.new.ble => j.hub = 0)

TransportsOK ==
  /\ Sound(cfg) /\ (cfg.socket => backend # 0) /\ (cfg.ble <=> hub # 0)
  /\ {backend, hub} \subseteq Numbers
  /\ of \in [Backends -> Accounts] /\ client \in [Backends -> Numbers]
  /\ backend # 0 => cfg.creds # None /\ of[backend] = cfg.creds
  /\ \A b \in Backends : b > asks + 1 => of[b] = None
  /\ \A c \in Calls : Before(c) => Brings(pc[c], job[c])

\* the scheduler that runs is the service's
SchedulersOK ==
  /\ sched \in Numbers /\ (life \in {"starting", "up"} => sched # 0)
  /\ OneScheduler

Tasks == {"new", "retry", "opening", "waiting", "cancelled", "over"}

\* a client with a connection waits for its end, and one that may go on was not told to stop
ClientsOK ==
  /\ task \in [Clients -> Tasks] /\ ws \in [Clients -> {"none", "up", "lost"}]
  /\ stop \in [Clients -> BOOLEAN] /\ io \in [Clients -> BOOLEAN] /\ lan \in [Clients -> BOOLEAN]
  /\ losses \in 0 .. MaxLosses
  /\ \A k \in Clients : ws[k] # "none" => task[k] = "waiting"
  /\ \A k \in Clients : Alive(k) \/ task[k] = "new" => ~stop[k]

\* the client that a request is to make has not run, those that backends have were started
StartedOK ==
  /\ \A b \in Backends : client[b] # 0 => task[client[b]] # "new"
  /\ \A k \in Clients : k > asks + 1 => task[k] = "new"
  /\ \A c \in All : Busy(c) => task[job[c].made] = "new"
  /\ \A c \in Calls : pc[c] = "closing" => job[c].waits # 0 /\ task[job[c].waits] # "new"
  /\ life \in {"new", "starting"} => \A k \in Clients : task[k] = "new"

\* with one request at a time: the session is closed before another is opened
SessionOK ==
  Calm =>
    /\ \A k \in Clients : Alive(k) => backend # 0 /\ client[backend] = k
    /\ \A c \in All :
         /\ pc[c] = "closing" => Nobody
         /\ pc[c] \in {"hub", "workers", "monitor"} => IF job[c].changed THEN Nobody ELSE job[c].sock = backend
         /\ pc[c] \in {"token", "url"} => Nobody /\ backend # 0 /\ job[c].sock = backend
    /\ life = "closing" \/ (life = "down" /\ (cfg.socket \/ backend = 0)) => Nobody

\* the workers run only while the service is up
HaltedOK ==
  /\ supervisor \in BOOLEAN /\ monitor \in Settings /\ failed \in BOOLEAN
  /\ life # "up" => ~supervisor /\ monitor = 0

\* a worker that runs was started for the configuration
Fresh == /\ supervisor => cfg.ble /\ cfg.auto
         /\ monitor # 0 => cfg.ble /\ monitor = cfg.monitor

\* a request that stops no worker changes nothing for it, and none that keeps BLE changes the hub
Spares(at, j) ==
  /\ ~j.stops => /\ j.new.monitor = cfg.monitor /\ j.new.ble = cfg.ble
                 /\ j.new.ble /\ j.new.auto
  /\ at # "closing" => j.hub = IF j.new.ble THEN hub ELSE 0
  /\ at \in {"workers", "monitor"} => ~supervisor
  /\ at = "monitor" => monitor = 0

\* with one request at a time: the workers are those of the configuration, or are being replaced
WorkersOK ==
  Calm => Fresh /\ WorkersMatch /\ \A c \in Calls : Before(c) => Spares(pc[c], job[c])

\* a command that is to reach the Socket knows a backend, and what it has been given is kept
CommandOK ==
  cmd # None =>
    /\ cmd \in Commands
    /\ cmd.sock # 0 => cmd.account # None /\ of[cmd.sock] = cmd.account
    /\ cmd.to \in {None, cmd.account}
    /\ "socket" \in cmd.ask \cup cmd.todo => cmd.sock # 0
    /\ IF cmd.ask # {} THEN cmd.had = {} /\ cmd.todo = {} ELSE cmd.given = cmd.todo \cup cmd.had

IInv == RequestsOK /\ TransportsOK /\ SchedulersOK /\ ClientsOK /\ StartedOK /\ SessionOK /\ HaltedOK /\ WorkersOK
        /\ CommandOK

-----------------------------------------------------------------------------
(* How a request goes on *)

\* a request goes to wait at "at", or swaps the transports and waits for the old scheduler
Lands(c, at, j) ==
  IF at = "scheduler" THEN Swap(c, j) ELSE Goto(c, at, j) /\ UNCHANGED <<transports, schedulers>>

\* the workers are left alone, or told to stop, or known not to run
Halts(at, j) ==
  CASE at = "workers"   -> supervisor' = FALSE /\ monitor' = monitor
    [] at = "monitor"   -> ~supervisor /\ supervisor' = supervisor /\ monitor' = 0
    [] at = "scheduler" -> UNCHANGED workers /\ (j.stops => ~supervisor /\ monitor = 0)
    [] OTHER            -> UNCHANGED workers

\* the local variables that do not change on the way to the swap
Same(i, j) == i.new = j.new /\ i.changed = j.changed /\ i.stops = j.stops /\ i.sock = j.sock
              /\ i.waits = j.waits /\ i.made = j.made

LEMMA Bounds == MaxAsks \in Nat /\ 0 \in Numbers /\ Backends \subseteq Numbers /\ Numbers \ {0} = Backends
                /\ \A b \in Backends : b \in Nat /\ b # 0
  <1>1. MaxAsks \in Nat /\ Backends = 1 .. MaxAsks + 1
    BY AskAssumption
  <1> QED BY <1>1 DEF Numbers

LEMMA WorkersLand == ASSUME NEW c, NEW j \in Jobs, supervisor \in BOOLEAN, ToWorkers(c, j)
                     PROVE  \E at \in {"workers", "monitor", "scheduler"} : Lands(c, at, j) /\ Halts(at, j)
  <1>1. CASE j.stops /\ supervisor
    <2>1. Lands(c, "workers", j) /\ Halts("workers", j)
      BY <1>1 DEF ToWorkers, Lands, Halts
    <2> QED BY <2>1
  <1>2. CASE j.stops /\ ~supervisor /\ monitor # 0
    <2>1. Lands(c, "monitor", j) /\ Halts("monitor", j)
      BY <1>2 DEF ToWorkers, ToMonitor, Lands, Halts
    <2> QED BY <2>1
  <1>3. CASE ~j.stops \/ (~supervisor /\ monitor = 0)
    <2>1. Lands(c, "scheduler", j) /\ Halts("scheduler", j)
      BY <1>3 DEF ToWorkers, ToMonitor, Lands, Halts, workers
    <2> QED BY <2>1
  <1> QED BY <1>1, <1>2, <1>3

LEMMA HubLands == ASSUME NEW c, NEW j \in Jobs, hub \in Numbers, supervisor \in BOOLEAN, j.new \in Configs, ToHub(c, j)
                  PROVE  \E at \in {"hub", "workers", "monitor", "scheduler"}, i \in Jobs :
                           /\ Same(i, j) /\ i.hub = IF j.new.ble THEN hub ELSE 0
                           /\ Lands(c, at, i) /\ Halts(at, i)
  <1>1. CASE ~j.new.ble /\ hub # 0
    <2> DEFINE i == [j EXCEPT !.hub = 0]
    <2>1. 0 \in Numbers
      BY Bounds
    <2>2. i \in Jobs /\ Same(i, j) /\ i.hub = 0
      BY <2>1 DEF Jobs, Same
    <2>3. Lands(c, "hub", i) /\ Halts("hub", i)
      BY <1>1 DEF ToHub, Lands, Halts
    <2> HIDE DEF i
    <2> QED BY <1>1, <2>2, <2>3
  <1>2. CASE ~(~j.new.ble /\ hub # 0)
    <2> DEFINE i == [j EXCEPT !.hub = hub]
    <2>1. i \in Jobs /\ Same(i, j) /\ i.hub = hub
      BY DEF Jobs, Same
    <2>2. ToWorkers(c, i)
      BY <1>2 DEF ToHub
    <2> HIDE DEF i
    <2>3. PICK at \in {"workers", "monitor", "scheduler"} : Lands(c, at, i) /\ Halts(at, i)
      BY <2>1, <2>2, WorkersLand
    <2>4. j.new.ble \in BOOLEAN
      BY DEF Configs
    <2>5. i.hub = IF j.new.ble THEN hub ELSE 0
      BY <1>2, <2>1, <2>4
    <2> QED BY <2>1, <2>3, <2>5
  <1> QED BY <1>1, <1>2

-----------------------------------------------------------------------------
(* What is asked for *)

LEMMA EffectiveSound == ASSUME NEW f \in Configs PROVE Sound(Effective(f)) /\ Effective(f).ble = f.ble
  BY DEF Effective, Sound, Configs

LEMMA UpdatedSound == ASSUME NEW u \in Updates, cfg \in Configs PROVE Sound(Updated(u))
  <1> DEFINE f == [x \in DOMAIN cfg |-> IF x \in DOMAIN u THEN u[x] ELSE cfg[x]]
  <1>1. f \in Configs
    <2>1. CASE u = SetLanIp
      BY <2>1 DEF SetLanIp, Configs
    <2>2. ASSUME NEW a \in Creds, u = SetSocket(a) PROVE f \in Configs
      BY <2>2 DEF SetSocket, Configs
    <2>3. ASSUME NEW a \in BOOLEAN, NEW m \in Settings, u = SetBleOptions(a, m) PROVE f \in Configs
      BY <2>3 DEF SetBleOptions, Configs
    <2>4. ASSUME NEW b \in BOOLEAN, NEW s \in BOOLEAN, u = SetTransports(b, s) PROVE f \in Configs
      BY <2>4 DEF SetTransports, Configs
    <2> QED BY <2>1, <2>2, <2>3, <2>4, UpdateAssumption
  <1>2. Updated(u) = Effective(f)
    BY DEF Updated
  <1> HIDE DEF f
  <1> QED BY <1>1, <1>2, EffectiveSound

\* What a request begins with.
Begins(u) == [new |-> Updated(u), changed |-> SocketChanged(u), stops |-> Stops(u),
              posts |-> "creds" \in DOMAIN u, sock |-> backend, hub |-> 0,
              waits |-> IF backend = 0 THEN 0 ELSE client[backend], made |-> asks + 2]

NoWorkKept == UNCHANGED <<life, pc, job, asks, lapped>>

LEMMA BeginsIsJob == ASSUME RequestsOK, TransportsOK, NEW u \in Updates, asks < MaxAsks
                     PROVE  Begins(u) \in Jobs /\ Sound(Begins(u).new)
  <1>1. Sound(Updated(u)) /\ SocketChanged(u) \in BOOLEAN
    BY UpdatedSound DEF TransportsOK, Sound, SocketChanged
  <1>2. Stops(u) \in BOOLEAN
    BY DEF Stops
  <1>3. asks + 2 \in Backends
    BY AskAssumption DEF RequestsOK
  <1>4. backend \in Numbers /\ 0 \in Numbers /\ (IF backend = 0 THEN 0 ELSE client[backend]) \in Numbers
    BY Bounds DEF TransportsOK
  <1>5. ("creds" \in DOMAIN u) \in BOOLEAN
    OBVIOUS
  <1> QED BY <1>1, <1>2, <1>3, <1>4, <1>5 DEF Begins, Jobs, Sound

\* A request that is taken on: the session is closed, or it goes on to the hub.
Taken(c, at, i, u) ==
  /\ i.new = Updated(u) /\ i.changed = SocketChanged(u) /\ i.stops = Stops(u) /\ i.made = asks + 2
  /\ i.waits = Begins(u).waits /\ i.sock = IF at # "closing" /\ i.changed THEN 0 ELSE backend
  /\ Lands(c, at, i) /\ Halts(at, i)
  /\ IF at = "closing"
     THEN i.changed /\ i.waits # 0 /\ Close(i.waits)
     ELSE /\ i.hub = (IF i.new.ble THEN hub ELSE 0)
          /\ (i.changed => i.waits = 0)
          /\ UNCHANGED <<task, stop, ws, io, lan>>

LEMMA AskTakes == ASSUME RequestsOK, TransportsOK, supervisor \in BOOLEAN,
                         NEW c \in Calls, NEW u \in Updates, Ask(c, u)
                  PROVE  \E at \in {"closing", "hub", "workers", "monitor", "scheduler"}, i \in Jobs : Taken(c, at, i, u)
  <1> DEFINE j == Begins(u)
  <1>1. asks < MaxAsks
    BY DEF Ask
  <1>2. j \in Jobs /\ Sound(j.new)
    BY <1>1, BeginsIsJob
  <1>3. /\ j.new = Updated(u) /\ j.changed = SocketChanged(u) /\ j.stops = Stops(u)
        /\ j.made = asks + 2 /\ j.sock = backend
    BY DEF Begins
  <1>4. IF j.changed /\ j.waits # 0
        THEN /\ Close(j.waits) /\ Goto(c, "closing", j)
             /\ UNCHANGED <<transports, schedulers, workers>>
        ELSE /\ ToHub(c, [j EXCEPT !.sock = IF j.changed THEN 0 ELSE @])
             /\ UNCHANGED <<task, stop, ws, io, lan>>
    BY Zenon DEF Ask, Begins
  <1>5. j.waits = Begins(u).waits
    OBVIOUS
  <1> HIDE DEF j
  <1>6. CASE j.changed /\ j.waits # 0
    <2>1. Taken(c, "closing", j, u)
      BY <1>3, <1>4, <1>5, <1>6 DEF Taken, Lands, Halts
    <2> QED BY <1>2, <2>1
  <1>7. CASE ~(j.changed /\ j.waits # 0)
    <2> DEFINE h == [j EXCEPT !.sock = IF j.changed THEN 0 ELSE @]
    <2>1. 0 \in Numbers /\ j.changed \in BOOLEAN
      BY <1>2, Bounds DEF Jobs
    <2>2. /\ h \in Jobs /\ h.new = j.new /\ h.changed = j.changed /\ h.stops = j.stops
          /\ h.waits = j.waits /\ h.made = j.made
          /\ h.sock = IF j.changed THEN 0 ELSE j.sock
      BY <1>2, <2>1 DEF Jobs
    <2>3. ToHub(c, h) /\ UNCHANGED <<task, stop, ws, io, lan>>
      BY <1>4, <1>7
    <2> HIDE DEF h
    <2>4. h.new \in Configs /\ hub \in Numbers
      BY <1>2, <2>2 DEF Sound, TransportsOK
    <2>5. PICK at \in {"hub", "workers", "monitor", "scheduler"}, i \in Jobs :
            /\ Same(i, h) /\ i.hub = IF h.new.ble THEN hub ELSE 0
            /\ Lands(c, at, i) /\ Halts(at, i)
      BY <2>2, <2>3, <2>4, HubLands
    <2>6. Taken(c, at, i, u)
      BY <1>3, <1>5, <1>7, <2>2, <2>3, <2>5 DEF Taken, Same
    <2> QED BY <2>6
  <1> QED BY <1>6, <1>7

\* A request that goes on: what it has waited for has ended.
Resumed(c, at, i) ==
  /\ i.new = job[c].new /\ i.changed = job[c].changed /\ i.stops = job[c].stops
  /\ i.waits = job[c].waits /\ i.made = job[c].made
  /\ IF pc[c] = "closing"
     THEN i.sock = 0 /\ i.hub = (IF i.new.ble THEN hub ELSE 0)
     ELSE i.sock = job[c].sock /\ i.hub = job[c].hub
  /\ Lands(c, at, i)
  /\ pc[c] = "workers" => at \in {"monitor", "scheduler"} /\ supervisor' = supervisor /\ monitor' = 0
  /\ pc[c] = "monitor" => at = "scheduler" /\ UNCHANGED workers
  /\ pc[c] \notin {"workers", "monitor"} => Halts(at, i)

Waited(c) == SessionClosed(c) \/ HubClosed(c) \/ SupervisorStopped(c) \/ MonitorStopped(c)

LEMMA WaitedResumes == ASSUME RequestsOK, TransportsOK, supervisor \in BOOLEAN, NEW c \in Calls, Waited(c)
                       PROVE  \E at \in {"hub", "workers", "monitor", "scheduler"}, i \in Jobs : Resumed(c, at, i)
  <1>1. job[c] \in Jobs /\ hub \in Numbers /\ Before(c) /\ job[c].new \in Configs
    BY DEF RequestsOK, TransportsOK, Waited, SessionClosed, HubClosed, SupervisorStopped, ToMonitor, MonitorStopped,
           Before, Brings, Sound, All
  <1>2. CASE SessionClosed(c)
    <2> DEFINE h == [job[c] EXCEPT !.sock = 0]
    <2>1. 0 \in Numbers
      BY Bounds
    <2>2. /\ h \in Jobs /\ h.new = job[c].new /\ h.changed = job[c].changed /\ h.stops = job[c].stops
          /\ h.waits = job[c].waits /\ h.made = job[c].made /\ h.sock = 0
      BY <1>1, <2>1 DEF Jobs
    <2>3. ToHub(c, h) /\ pc[c] = "closing"
      BY <1>2 DEF SessionClosed
    <2> HIDE DEF h
    <2>4. PICK at \in {"hub", "workers", "monitor", "scheduler"}, i \in Jobs :
            /\ Same(i, h) /\ i.hub = IF h.new.ble THEN hub ELSE 0
            /\ Lands(c, at, i) /\ Halts(at, i)
      BY <1>1, <2>2, <2>3, HubLands
    <2>5. Resumed(c, at, i)
      BY <2>2, <2>3, <2>4 DEF Resumed, Same
    <2> QED BY <2>5
  <1>3. CASE HubClosed(c)
    <2>1. PICK at \in {"workers", "monitor", "scheduler"} : Lands(c, at, job[c]) /\ Halts(at, job[c])
      BY <1>1, <1>3, WorkersLand DEF HubClosed
    <2>2. Resumed(c, at, job[c])
      BY <1>3, <2>1 DEF Resumed, HubClosed
    <2> QED BY <1>1, <2>2
  <1>4. CASE SupervisorStopped(c)
    <2>1. \E at \in {"monitor", "scheduler"} : Lands(c, at, job[c]) /\ supervisor' = supervisor /\ monitor' = 0
      BY <1>4 DEF SupervisorStopped, ToMonitor, Lands
    <2>2. PICK at \in {"monitor", "scheduler"} : Lands(c, at, job[c]) /\ supervisor' = supervisor /\ monitor' = 0
      BY <2>1
    <2>3. Resumed(c, at, job[c])
      BY <1>4, <2>2 DEF Resumed, SupervisorStopped
    <2> QED BY <1>1, <2>3
  <1>5. CASE MonitorStopped(c)
    <2>1. Resumed(c, "scheduler", job[c])
      BY <1>5 DEF Resumed, Lands, MonitorStopped
    <2> QED BY <1>1, <2>1
  <1> QED BY <1>2, <1>3, <1>4, <1>5 DEF Waited

LEMMA LandsGoes == ASSUME NEW c, NEW at, NEW i, Lands(c, at, i) PROVE Goto(c, at, i)
  BY DEF Lands, Swap

LEMMA GotoSets == ASSUME pc \in [All -> Places], job \in [All -> Jobs], NEW c \in All,
                         NEW at \in Places, NEW i \in Jobs, Goto(c, at, i)
                  PROVE  /\ pc' \in [All -> Places] /\ job' \in [All -> Jobs]
                         /\ pc'[c] = at /\ job'[c] = i
                         /\ \A d \in All \ {c} : pc'[d] = pc[d] /\ job'[d] = job[d]
  BY DEF Goto

-----------------------------------------------------------------------------
(* Numbers and places of the requests *)

LEMMA RequestsInit == Init => RequestsOK
  <1> SUFFICES ASSUME Init PROVE RequestsOK
    OBVIOUS
  <1>1. NoWork \in Jobs
    BY Bounds, AskAssumption DEF NoWork, Jobs
  <1>2. /\ pc \in [All -> Places] /\ job \in [All -> Jobs]
        /\ \A c \in All : ~Busy(c)
    BY <1>1 DEF Init, All, Places, Busy
  <1>3. Main \in All /\ Calls \subseteq All
    BY DEF All
  <1>4. life = "new" /\ lapped = FALSE /\ asks = 0
    BY DEF Init
  <1>5. ~Busy(Main) /\ \A c \in Calls : ~Busy(c)
    BY <1>2, <1>3
  <1>6. asks \in 0 .. MaxAsks
    BY <1>4, Bounds
  <1> QED BY <1>2, <1>4, <1>5, <1>6 DEF RequestsOK

LEMMA RequestsAsk == ASSUME RequestsOK, TransportsOK, supervisor \in BOOLEAN,
                            NEW c \in Calls, NEW u \in Updates, Ask(c, u)
                     PROVE  RequestsOK'
  <1>1. PICK at \in {"closing", "hub", "workers", "monitor", "scheduler"}, i \in Jobs : Taken(c, at, i, u)
    BY AskTakes
  <1>2. Goto(c, at, i) /\ i.made = asks + 2
    BY <1>1, LandsGoes DEF Taken
  <1>3. c \in All /\ Main \in All /\ Main # c /\ at \in Places /\ Calls \subseteq All
    BY AskAssumption DEF All, Places
  <1>4. /\ pc' \in [All -> Places] /\ job' \in [All -> Jobs] /\ pc'[c] = at /\ job'[c] = i
        /\ \A d \in All \ {c} : pc'[d] = pc[d] /\ job'[d] = job[d]
    BY <1>2, <1>3, GotoSets DEF RequestsOK
  <1>5. /\ life = "up" /\ life' = life /\ ~Busy(c) /\ asks \in Nat /\ asks < MaxAsks /\ asks' = asks + 1
        /\ lapped' = (lapped \/ \E d \in Calls : ~Idle(d))
    BY AskAssumption DEF Ask, Idle, Busy, RequestsOK
  <1>6. \A d \in All : Busy(d)' <=> d = c \/ Busy(d)
    BY <1>4, <1>3 DEF Busy
  <1>7. \A d \in Calls : Busy(d) => job[d].made \in 2 .. asks + 1
    BY DEF RequestsOK
  <1>8. \A d \in Calls : Busy(d)' => job'[d].made \in 2 .. asks' + 1
    BY <1>2, <1>3, <1>4, <1>5, <1>6, <1>7
  <1>9. ASSUME NEW d \in Calls, NEW e \in Calls, Busy(d)', Busy(e)', Calm' \/ job'[d].made = job'[e].made
        PROVE  d = e
    <2>1. CASE d # c /\ e # c
      BY <1>3, <1>4, <1>5, <1>6, <1>9, <2>1 DEF RequestsOK, Calm
    <2>2. CASE Calm'
      BY <1>3, <1>5, <1>6, <1>9, <2>2 DEF Calm, Idle, Busy
    <2>3. CASE d = c /\ e # c /\ job'[d].made = job'[e].made
      BY <1>2, <1>3, <1>4, <1>5, <1>6, <1>7, <1>9, <2>3
    <2>4. CASE e = c /\ d # c /\ job'[d].made = job'[e].made
      BY <1>2, <1>3, <1>4, <1>5, <1>6, <1>7, <1>9, <2>4
    <2> QED BY <1>9, <2>1, <2>2, <2>3, <2>4
  <1>10. lapped' \in BOOLEAN
    BY <1>5 DEF RequestsOK
  <1>11. ~Busy(Main)'
    BY <1>3, <1>5, <1>6 DEF RequestsOK
  <1> QED BY <1>4, <1>5, <1>8, <1>9, <1>10, <1>11, Bounds DEF RequestsOK

LEMMA RequestsGo == ASSUME RequestsOK, NEW c \in Calls, Busy(c), NEW at \in Places, NEW i \in Jobs,
                           Goto(c, at, i), at = "idle" \/ i.made = job[c].made,
                           UNCHANGED <<life, asks, lapped>>
                    PROVE  RequestsOK'
  <1>1. c \in All /\ Main \in All /\ Main # c /\ Calls \subseteq All
    BY AskAssumption DEF All
  <1>2. /\ pc' \in [All -> Places] /\ job' \in [All -> Jobs] /\ pc'[c] = at /\ job'[c] = i
        /\ \A d \in All \ {c} : pc'[d] = pc[d] /\ job'[d] = job[d]
    BY <1>1, GotoSets DEF RequestsOK
  <1>3. \A d \in All : Busy(d)' => Busy(d) /\ job'[d].made = job[d].made
    BY <1>2 DEF Busy
  <1>4. \A d \in Calls : Busy(d)' => life' = "up" /\ job'[d].made \in 2 .. asks' + 1
    BY <1>1, <1>3 DEF RequestsOK
  <1>5. \A d, e \in Calls : Busy(d)' /\ Busy(e)' /\ (Calm' \/ job'[d].made = job'[e].made) => d = e
    BY <1>1, <1>3 DEF RequestsOK, Calm
  <1>6. Busy(Main)' <=> Busy(Main)
    BY <1>1, <1>2 DEF Busy
  <1> QED BY <1>1, <1>2, <1>4, <1>5, <1>6 DEF RequestsOK

LEMMA CallGoes == ASSUME RequestsOK, TransportsOK, supervisor \in BOOLEAN, NEW c \in All,
                         CallStep(c) \/ SessionFails(c), ~Waited(c)
                  PROVE  /\ Busy(c) /\ pc[c] \in {"scheduler", "token", "url"}
                         /\ \E at \in {"idle", "token", "url"}, i \in Jobs :
                              Goto(c, at, i) /\ (at = "idle" \/ i.made = job[c].made)
                         /\ UNCHANGED <<asks, lapped>> /\ (c # Main => UNCHANGED life)
  <1>1. NoWork \in Jobs /\ job[c] \in Jobs /\ pc[c] \in Places
    BY Bounds, AskAssumption DEF NoWork, Jobs, RequestsOK
  <1>2. CASE SchedulerShut(c)
    <2>1. Connect(c, job[c])
      BY <1>2 DEF SchedulerShut
    <2> DEFINE i == [job[c] EXCEPT !.sock = backend]
    <2>2. i \in Jobs /\ i.made = job[c].made
      BY <1>1 DEF Jobs, TransportsOK
    <2>3. Goto(c, "token", i) \/ Goto(c, "idle", NoWork)
      BY <2>1 DEF Connect, Answer
    <2> HIDE DEF i
    <2> QED BY <1>1, <1>2, <2>2, <2>3 DEF SchedulerShut, Busy
  <1>3. CASE Token(c)
    BY <1>1, <1>3 DEF Token, Busy
  <1>4. CASE Session(c)
    BY <1>1, <1>4 DEF Session, Answer, Busy
  <1>5. CASE SessionFails(c)
    BY <1>1, <1>5 DEF SessionFails, Answer, Busy
  <1> QED BY <1>2, <1>3, <1>4, <1>5 DEF CallStep, Waited

LEMMA RequestsStep == RequestsOK /\ TransportsOK /\ supervisor \in BOOLEAN /\ [Next]_vars => RequestsOK'
  <1> SUFFICES ASSUME RequestsOK, TransportsOK, supervisor \in BOOLEAN, [Next]_vars PROVE RequestsOK'
    OBVIOUS
  <1>a. Main \in All /\ Calls \subseteq All /\ Main \notin Calls /\ \A c \in All : c = Main \/ c \in Calls
    BY AskAssumption DEF All
  <1>b. ASSUME NoWorkKept PROVE RequestsOK'
    BY <1>b DEF NoWorkKept, RequestsOK, Busy, Calm
  <1>1. CASE Start
    <2>1. NoWork \in Jobs /\ backend \in Numbers
      BY Bounds, AskAssumption DEF NoWork, Jobs, TransportsOK
    <2>2. /\ life = "new" /\ asks' = asks /\ lapped' = lapped
          /\ \/ Goto(Main, "token", [NoWork EXCEPT !.sock = backend]) /\ life' = "starting"
             \/ UNCHANGED <<pc, job>> /\ life' = "up"
      BY <1>1 DEF Start, callVars
    <2>3. \A c \in Calls : ~Busy(c)
      BY <2>2 DEF RequestsOK
    <2>4. CASE UNCHANGED <<pc, job>> /\ life' = "up"
      BY <2>2, <2>3, <2>4 DEF RequestsOK, Busy, Calm
    <2>5. CASE Goto(Main, "token", [NoWork EXCEPT !.sock = backend]) /\ life' = "starting"
      <3> DEFINE i == [NoWork EXCEPT !.sock = backend]
      <3>1. i \in Jobs /\ i.made = 1
        BY <2>1 DEF Jobs, NoWork
      <3>2. Goto(Main, "token", i) /\ "token" \in Places
        BY <2>5 DEF Places
      <3> HIDE DEF i
      <3>3. /\ pc' \in [All -> Places] /\ job' \in [All -> Jobs] /\ pc'[Main] = "token" /\ job'[Main] = i
            /\ \A d \in All \ {Main} : pc'[d] = pc[d] /\ job'[d] = job[d]
        BY <1>a, <3>1, <3>2, GotoSets DEF RequestsOK
      <3>4. \A d \in Calls : ~Busy(d)'
        BY <1>a, <2>3, <3>3 DEF Busy
      <3> QED BY <1>a, <2>2, <2>5, <3>1, <3>3, <3>4 DEF RequestsOK, Busy
    <2> QED BY <2>2, <2>4, <2>5
  <1>2. CASE Shutdown
    <2>1. /\ life = "up" /\ (\A c \in Calls : Idle(c)) /\ life' \in {"closing", "down"}
          /\ UNCHANGED <<pc, job, asks, lapped>>
      BY <1>2 DEF Shutdown, callVars
    <2> QED BY <2>1 DEF RequestsOK, Busy, Idle, Calm
  <1>3. CASE ShutdownEnds
    <2>1. life = "closing" /\ life' = "down" /\ UNCHANGED <<pc, job, asks, lapped>>
      BY <1>3 DEF ShutdownEnds, callVars
    <2> QED BY <2>1 DEF RequestsOK, Busy, Calm
  <1>4. CASE Commanded
    BY <1>b, <1>4 DEF Commanded, Command, NoWorkKept
  <1>5. CASE Obey
    BY <1>b, <1>5 DEF Obey, callVars, NoWorkKept
  <1>6. ASSUME NEW c \in Calls, NEW u \in Updates, Ask(c, u) PROVE RequestsOK'
    BY <1>6, RequestsAsk
  <1>7. ASSUME NEW c \in Calls, Waited(c) PROVE RequestsOK'
    <2>1. PICK at \in {"hub", "workers", "monitor", "scheduler"}, i \in Jobs : Resumed(c, at, i)
      BY <1>7, WaitedResumes
    <2>2. Goto(c, at, i) /\ i.made = job[c].made /\ at \in Places
      BY <2>1, LandsGoes DEF Resumed, Places
    <2>3. Busy(c) /\ UNCHANGED <<life, asks, lapped>>
      BY <1>7 DEF Waited, SessionClosed, HubClosed, SupervisorStopped, ToMonitor, MonitorStopped, Busy
    <2> QED BY <2>2, <2>3, RequestsGo
  <1>8. ASSUME NEW c \in Calls, CallStep(c) \/ SessionFails(c), ~Waited(c) PROVE RequestsOK'
    <2>1. /\ Busy(c) /\ UNCHANGED <<life, asks, lapped>>
          /\ \E at \in {"idle", "token", "url"}, i \in Jobs :
               Goto(c, at, i) /\ (at = "idle" \/ i.made = job[c].made)
      BY <1>a, <1>8, CallGoes
    <2>2. {"idle", "token", "url"} \subseteq Places
      BY DEF Places
    <2> QED BY <2>1, <2>2, RequestsGo
  <1>9. ASSUME CallStep(Main) \/ SessionFails(Main) PROVE RequestsOK'
    <2>1. Busy(Main) <=> life = "starting"
      BY DEF RequestsOK
    <2>2. Busy(Main) => pc[Main] \in {"token", "url"}
      BY DEF RequestsOK
    <2>3. Token(Main) \/ Session(Main) \/ SessionFails(Main)
      BY <1>9, <2>2 DEF CallStep, SessionClosed, HubClosed, SupervisorStopped, ToMonitor, MonitorStopped, SchedulerShut, Busy
    <2>4. Busy(Main) /\ UNCHANGED <<asks, lapped>>
      BY <2>3 DEF Token, Session, SessionFails, Busy
    <2>5. \A c \in Calls : ~Busy(c)
      BY <2>1, <2>4 DEF RequestsOK
    <2>6. NoWork \in Jobs /\ {"idle", "url"} \subseteq Places /\ job[Main] \in Jobs
      BY <1>a, Bounds, AskAssumption DEF NoWork, Jobs, Places, RequestsOK
    <2>7. CASE Token(Main)
      <3>1. Goto(Main, "url", job[Main]) /\ life' = life
        BY <2>7 DEF Token
      <3>2. /\ pc' \in [All -> Places] /\ job' \in [All -> Jobs] /\ pc'[Main] = "url" /\ job'[Main] = job[Main]
            /\ \A d \in All \ {Main} : pc'[d] = pc[d] /\ job'[d] = job[d]
        BY <1>a, <2>6, <3>1, GotoSets DEF RequestsOK
      <3>3. \A d \in Calls : ~Busy(d)'
        BY <1>a, <2>5, <3>2 DEF Busy
      <3> QED BY <1>a, <2>4, <3>1, <3>2, <3>3 DEF RequestsOK, Busy
    <2>8. CASE Session(Main) \/ SessionFails(Main)
      <3>1. Goto(Main, "idle", NoWork) /\ life' = "up"
        BY <2>8 DEF Session, SessionFails, Answer
      <3>2. /\ pc' \in [All -> Places] /\ job' \in [All -> Jobs] /\ pc'[Main] = "idle" /\ job'[Main] = NoWork
            /\ \A d \in All \ {Main} : pc'[d] = pc[d] /\ job'[d] = job[d]
        BY <1>a, <2>6, <3>1, GotoSets DEF RequestsOK
      <3>3. (\A d \in Calls : ~Busy(d)') /\ ~Busy(Main)'
        BY <1>a, <2>5, <3>2 DEF Busy
      <3> QED BY <1>a, <2>4, <3>1, <3>2, <3>3 DEF RequestsOK
    <2> QED BY <2>3, <2>7, <2>8
  <1>10. ASSUME NEW k \in Clients, Client(k) PROVE RequestsOK'
    BY <1>b, <1>10 DEF Client, callVars, NoWorkKept
  <1>11. CASE UNCHANGED vars
    BY <1>b, <1>11 DEF vars, callVars, NoWorkKept
  <1> QED BY <1>a, <1>1, <1>2, <1>3, <1>4, <1>5, <1>6, <1>7, <1>8, <1>9, <1>10, <1>11 DEF Next

-----------------------------------------------------------------------------
(* The transports, and what requests bring to them *)

LEMMA TransportsInit == Init => TransportsOK
  <1> SUFFICES ASSUME Init PROVE TransportsOK
    OBVIOUS
  <1>1. PICK f \in [lan : {FALSE}, ble : {TRUE}, auto : {TRUE}, monitor : {1}, socket : BOOLEAN,
                    creds : Creds \cup {None}] : cfg = Effective(f)
    BY DEF Init
  <1>2. Sound(cfg) /\ cfg.ble
    <2>1. 1 \in Settings
      BY DEF Settings
    <2>2. f.lan \in BOOLEAN /\ f.ble \in BOOLEAN /\ f.ble /\ f.auto \in BOOLEAN /\ f.monitor = 1
      OBVIOUS
    <2>3. f = [lan |-> f.lan, ble |-> f.ble, auto |-> f.auto, monitor |-> f.monitor,
               socket |-> f.socket, creds |-> f.creds]
      OBVIOUS
    <2>4. f \in Configs
      BY <2>1, <2>2, <2>3 DEF Configs
    <2> QED BY <1>1, <2>2, <2>4, EffectiveSound
  <1>3. 1 \in Backends /\ 0 \notin Backends
    BY Bounds, AskAssumption
  <1>4. /\ backend = (IF cfg.socket THEN 1 ELSE 0) /\ hub = 1 /\ asks = 0
        /\ of = [b \in Backends |-> IF b = backend THEN cfg.creds ELSE None]
        /\ client = [b \in Backends |-> 0] /\ \A c \in Calls : ~Before(c)
    BY DEF Init, Before
  <1>5. of \in [Backends -> Accounts] /\ client \in [Backends -> Numbers]
    BY <1>2, <1>4, Bounds DEF Sound, Configs, Accounts
  <1>6. {backend, hub} \subseteq Numbers
    BY <1>3, <1>4, Bounds
  <1>7. backend # 0 => cfg.creds # None /\ of[backend] = cfg.creds
    BY <1>2, <1>3, <1>4 DEF Sound
  <1>8. \A b \in Backends : b > asks + 1 => of[b] = None
    BY <1>4, Bounds
  <1> QED BY <1>2, <1>4, <1>5, <1>6, <1>7, <1>8 DEF TransportsOK

\* The swap gives credentials to a backend that it makes, and to no other.
LEMMA SwapMakes == ASSUME TransportsOK, NEW c \in Calls, NEW i \in Jobs, Swap(c, i), Brings("scheduler", i)
                   PROVE  /\ of' \in [Backends -> Accounts]
                          /\ \A b \in Backends : b # i.made \/ of[b] # None => of'[b] = of[b]
                          /\ backend' \in Numbers /\ hub' \in Numbers
                          /\ (i.new.socket => backend' # 0) /\ (i.new.ble <=> hub' # 0)
                          /\ backend' # 0 => i.new.creds # None /\ of'[backend'] = i.new.creds
  <1>1. /\ cfg' = i.new /\ backend' = Build(i.sock, i.new.socket, i.made) /\ hub' = Build(i.hub, i.new.ble, i.made)
        /\ of' = [b \in Backends |-> IF b = backend' /\ of[b] = None THEN i.new.creds ELSE of[b]]
    BY DEF Swap
  <1>2. /\ Sound(i.new) /\ of[i.made] = None /\ (~i.new.ble => i.hub = 0)
        /\ i.sock # 0 => i.new.creds # None /\ of[i.sock] = i.new.creds
    BY DEF Brings
  <1>3. /\ i.made \in Backends /\ i.made \in Numbers \ {0} /\ i.sock \in Numbers /\ i.hub \in Numbers
        /\ i.new.creds \in Accounts
    BY <1>2, Bounds DEF Jobs, Sound, Configs, Accounts
  <1>4. IF i.new.socket /\ i.sock = 0 THEN backend' = i.made ELSE backend' = i.sock
    BY <1>1 DEF Build
  <1>5. IF i.new.ble /\ i.hub = 0 THEN hub' = i.made ELSE hub' = i.hub
    BY <1>1 DEF Build
  <1>6. of' \in [Backends -> Accounts]
    BY <1>1, <1>3 DEF TransportsOK
  <1>7. \A b \in Backends : b # i.made \/ of[b] # None => of'[b] = of[b]
    BY <1>1, <1>2, <1>4, Bounds
  <1>8. backend' # 0 => i.new.creds # None /\ of'[backend'] = i.new.creds
    BY <1>1, <1>2, <1>3, <1>4, Bounds DEF Sound
  <1> QED BY <1>2, <1>3, <1>4, <1>5, <1>6, <1>7, <1>8

LEMMA LandsTransports ==
  ASSUME RequestsOK, TransportsOK, NEW c \in Calls, NEW at \in {"closing", "hub", "workers", "monitor", "scheduler"},
         NEW i \in Jobs, Lands(c, at, i), Brings(at, i), asks' \in Nat, asks <= asks', i.made <= asks' + 1,
         \A d \in Calls \ {c} : Before(d) => job[d].made # i.made,
         client' \in [Backends -> Numbers]
  PROVE  TransportsOK'
  <1>1. Goto(c, at, i) /\ at \in Places /\ c \in All /\ Calls \subseteq All
    BY LandsGoes DEF Places, All
  <1>2. /\ pc' \in [All -> Places] /\ job' \in [All -> Jobs] /\ pc'[c] = at /\ job'[c] = i
        /\ \A d \in All \ {c} : pc'[d] = pc[d] /\ job'[d] = job[d]
    BY <1>1, GotoSets DEF RequestsOK
  <1>3. /\ of \in [Backends -> Accounts] /\ asks \in Nat
        /\ \A b \in Backends : b > asks + 1 => of[b] = None
        /\ \A d \in Calls : Before(d) => Brings(pc[d], job[d])
    BY AskAssumption DEF TransportsOK, RequestsOK
  <1>4. \A b \in Backends : b > asks' + 1 => b > asks + 1 /\ b # i.made
    BY <1>3, Bounds
  <1>5. CASE at # "scheduler"
    <2>1. UNCHANGED transports
      BY <1>5 DEF Lands
    <2>2. ASSUME NEW d \in Calls, Before(d)' PROVE Brings(pc[d], job[d])'
      <3>1. CASE d = c
        BY <1>2, <2>1, <3>1 DEF Brings, transports
      <3>2. CASE d # c
        <4>1. pc'[d] = pc[d] /\ job'[d] = job[d] /\ Before(d)
          BY <1>1, <1>2, <2>2, <3>2 DEF Before
        <4> QED BY <1>3, <2>1, <4>1 DEF Brings, transports
      <3> QED BY <3>1, <3>2
    <2>3. \A b \in Backends : b > asks' + 1 => of'[b] = None
      BY <1>3, <1>4, <2>1 DEF transports
    <2> QED BY <2>1, <2>2, <2>3 DEF TransportsOK, transports
  <1>6. CASE at = "scheduler"
    <2>1. Swap(c, i) /\ Brings("scheduler", i) /\ cfg' = i.new /\ Sound(i.new)
      BY <1>6 DEF Lands, Swap, Brings
    <2>2. /\ of' \in [Backends -> Accounts]
          /\ \A b \in Backends : b # i.made \/ of[b] # None => of'[b] = of[b]
          /\ backend' \in Numbers /\ hub' \in Numbers
          /\ (i.new.socket => backend' # 0) /\ (i.new.ble <=> hub' # 0)
          /\ backend' # 0 => i.new.creds # None /\ of'[backend'] = i.new.creds
      BY <2>1, SwapMakes
    <2>3. ASSUME NEW d \in Calls, Before(d)' PROVE Brings(pc[d], job[d])'
      <3>1. d # c
        BY <1>2, <1>6, <2>3 DEF Before
      <3>2. pc'[d] = pc[d] /\ job'[d] = job[d] /\ Before(d)
        BY <1>1, <1>2, <2>3, <3>1 DEF Before
      <3>3. Brings(pc[d], job[d]) /\ job[d].made # i.made /\ job[d] \in Jobs
        BY <1>1, <1>3, <3>1, <3>2 DEF RequestsOK
      <3>4. job[d].made \in Backends /\ (job[d].sock # 0 => job[d].sock \in Backends)
        BY <3>3, Bounds DEF Jobs
      <3>5. of'[job[d].made] = None
        BY <2>2, <3>3, <3>4 DEF Brings
      <3>6. pc[d] # "closing" => (job[d].sock # 0 => of'[job[d].sock] = of[job[d].sock])
        BY <2>2, <3>3, <3>4 DEF Brings
      <3> QED BY <3>2, <3>3, <3>5, <3>6 DEF Brings
    <2>4. \A b \in Backends : b > asks' + 1 => of'[b] = None
      BY <1>3, <1>4, <2>2
    <2> QED BY <2>1, <2>2, <2>3, <2>4 DEF TransportsOK
  <1> QED BY <1>5, <1>6

LEMMA TransportsKept == ASSUME TransportsOK, UNCHANGED <<transports, asks>>, client' \in [Backends -> Numbers],
                               \A c \in Calls : Before(c)' => Before(c) /\ pc'[c] = pc[c] /\ job'[c] = job[c]
                        PROVE  TransportsOK'
  <1>1. \A c \in Calls : Before(c)' => Brings(pc[c], job[c])'
    BY DEF TransportsOK, Brings, transports
  <1> QED BY <1>1 DEF TransportsOK, transports

LEMMA AskTransports == ASSUME RequestsOK, TransportsOK, supervisor \in BOOLEAN,
                              NEW c \in Calls, NEW u \in Updates, Ask(c, u)
                       PROVE  TransportsOK'
  <1>1. PICK at \in {"closing", "hub", "workers", "monitor", "scheduler"}, i \in Jobs : Taken(c, at, i, u)
    BY AskTakes
  <1>2. Lands(c, at, i) /\ i.made = asks + 2 /\ i.new = Updated(u) /\ i.changed = (i.new.creds # cfg.creds)
    BY <1>1 DEF Taken, SocketChanged
  <1>3. asks \in Nat /\ asks' = asks + 1 /\ client' = client
    BY AskAssumption DEF Ask, RequestsOK
  <1>4. i.made \in Backends /\ of[i.made] = None
    BY <1>2, <1>3 DEF Jobs, TransportsOK
  <1>5. Sound(i.new)
    BY <1>2, UpdatedSound DEF TransportsOK, Sound
  <1>6. at = "closing" => i.changed /\ i.sock # 0
    <2>1. at = "closing" => i.waits # 0 /\ i.waits = Begins(u).waits /\ i.sock = backend /\ i.changed
      BY <1>1 DEF Taken
    <2>2. Begins(u).waits = IF backend = 0 THEN 0 ELSE client[backend]
      BY DEF Begins
    <2> QED BY <2>1, <2>2
  <1>7. at # "closing" => /\ (i.sock # 0 => ~i.changed /\ i.new.creds # None /\ of[i.sock] = i.new.creds)
                          /\ (~i.new.ble => i.hub = 0)
    <2>1. at # "closing" => i.sock = (IF i.changed THEN 0 ELSE backend) /\ i.hub = (IF i.new.ble THEN hub ELSE 0)
      BY <1>1 DEF Taken
    <2> QED BY <1>2, <2>1 DEF TransportsOK
  <1>8. Brings(at, i)
    BY <1>4, <1>5, <1>6, <1>7 DEF Brings
  <1>9. \A d \in Calls \ {c} : Before(d) => job[d].made # i.made
    BY <1>2, <1>3 DEF RequestsOK, Before, Busy
  <1>10. client' \in [Backends -> Numbers]
    BY <1>3 DEF TransportsOK
  <1> QED BY <1>2, <1>3, <1>8, <1>9, <1>10, LandsTransports

LEMMA WaitedTransports == ASSUME RequestsOK, TransportsOK, supervisor \in BOOLEAN, NEW c \in Calls, Waited(c)
                          PROVE  TransportsOK'
  <1>1. PICK at \in {"hub", "workers", "monitor", "scheduler"}, i \in Jobs : Resumed(c, at, i)
    BY WaitedResumes
  <1>2. Lands(c, at, i) /\ i.made = job[c].made
    BY <1>1 DEF Resumed
  <1>3. Before(c) /\ Busy(c) /\ asks' = asks
    BY DEF Waited, SessionClosed, HubClosed, SupervisorStopped, ToMonitor, MonitorStopped, Before, Busy
  <1>4. Brings(pc[c], job[c])
    BY <1>3 DEF TransportsOK
  <1>5. Brings(at, i)
    <2>1. i.new = job[c].new /\ i.changed = job[c].changed
      BY <1>1 DEF Resumed
    <2>2. IF pc[c] = "closing"
          THEN i.sock = 0 /\ i.hub = (IF i.new.ble THEN hub ELSE 0)
          ELSE i.sock = job[c].sock /\ i.hub = job[c].hub
      BY <1>1 DEF Resumed
    <2> QED BY <1>2, <1>4, <2>1, <2>2 DEF Brings
  <1>6. asks \in Nat /\ i.made <= asks + 1
    BY <1>2, <1>3, AskAssumption DEF RequestsOK
  <1>7. \A d \in Calls \ {c} : Before(d) => job[d].made # i.made
    BY <1>2, <1>3 DEF RequestsOK, Before, Busy
  <1>8. client' \in [Backends -> Numbers]
    BY Bounds DEF Waited, SessionClosed, HubClosed, SupervisorStopped, ToMonitor, MonitorStopped, TransportsOK
  <1> QED BY <1>2, <1>3, <1>5, <1>6, <1>7, <1>8, LandsTransports

LEMMA TransportsStep == RequestsOK /\ TransportsOK /\ supervisor \in BOOLEAN /\ [Next]_vars => TransportsOK'
  <1> SUFFICES ASSUME RequestsOK, TransportsOK, supervisor \in BOOLEAN, [Next]_vars PROVE TransportsOK'
    OBVIOUS
  <1>a. Main \in All /\ Calls \subseteq All /\ Main \notin Calls /\ \A c \in All : c = Main \/ c \in Calls
    BY AskAssumption DEF All
  <1>b. client \in [Backends -> Numbers]
    BY DEF TransportsOK
  <1>c. ASSUME UNCHANGED <<transports, client, asks, pc, job>> PROVE TransportsOK'
    BY <1>b, <1>c, TransportsKept DEF Before
  <1>1. CASE Start
    <2>2. UNCHANGED <<transports, client, asks>>
      BY <1>1 DEF Start
    <2>3. \A d \in Calls : pc'[d] = pc[d]
      BY <1>1, <1>a DEF Start, Goto, RequestsOK
    <2>4. \A d \in Calls : ~Before(d)
      BY <1>1 DEF Start, RequestsOK, Busy, Before
    <2> QED BY <1>b, <2>2, <2>3, <2>4, TransportsKept DEF Before
  <1>2. CASE Shutdown
    BY <1>c, <1>2 DEF Shutdown, callVars
  <1>3. CASE ShutdownEnds
    <2>1. UNCHANGED <<transports, asks, pc, job>> /\ client' = [client EXCEPT ![backend] = 0]
      BY <1>3 DEF ShutdownEnds, callVars
    <2>2. client' \in [Backends -> Numbers]
      BY <1>b, <2>1, Bounds
    <2> QED BY <2>1, <2>2, TransportsKept DEF Before
  <1>4. CASE Commanded
    BY <1>c, <1>4 DEF Commanded, Command
  <1>5. CASE Obey
    BY <1>c, <1>5 DEF Obey, callVars, transports, CommandStep, Index, Reply, Deliver
  <1>6. ASSUME NEW c \in Calls, NEW u \in Updates, Ask(c, u) PROVE TransportsOK'
    BY <1>6, AskTransports
  <1>7. ASSUME NEW c \in Calls, Waited(c) PROVE TransportsOK'
    BY <1>7, WaitedTransports
  <1>8. ASSUME NEW c \in All, CallStep(c) \/ SessionFails(c), ~Waited(c) PROVE TransportsOK'
    <2>1. /\ pc[c] \in {"scheduler", "token", "url"} /\ UNCHANGED asks
          /\ \E at \in {"idle", "token", "url"}, i \in Jobs : Goto(c, at, i)
      BY <1>8, CallGoes
    <2>2. PICK at \in {"idle", "token", "url"}, i \in Jobs : Goto(c, at, i)
      BY <2>1
    <2>3. /\ pc'[c] = at /\ \A d \in All \ {c} : pc'[d] = pc[d] /\ job'[d] = job[d]
      BY <2>2, GotoSets DEF RequestsOK, Places
    <2>4. \A d \in Calls : Before(d)' => Before(d) /\ pc'[d] = pc[d] /\ job'[d] = job[d]
      BY <1>a, <2>3 DEF Before
    <2>5. UNCHANGED transports
      BY <1>8 DEF CallStep, Waited, SchedulerShut, Token, Session, SessionFails
    <2>6. CASE Session(c)
      <3>1. job[c].made \in Numbers /\ client' = [client EXCEPT ![job[c].sock] = job[c].made]
        BY <2>6, Bounds DEF Session, RequestsOK, Jobs
      <3>2. client' \in [Backends -> Numbers]
        BY <1>b, <3>1
      <3> QED BY <2>1, <2>4, <2>5, <3>2, TransportsKept
    <2>7. CASE SchedulerShut(c) \/ Token(c) \/ SessionFails(c)
      <3>1. UNCHANGED client
        BY <2>7 DEF SchedulerShut, Token, SessionFails
      <3> QED BY <1>b, <2>1, <2>4, <2>5, <3>1, TransportsKept
    <2> QED BY <1>8, <2>6, <2>7 DEF CallStep, Waited
  <1>9. ASSUME NEW k \in Clients, Client(k) PROVE TransportsOK'
    BY <1>c, <1>9 DEF Client, callVars
  <1>10. CASE UNCHANGED vars
    BY <1>c, <1>10 DEF vars, callVars
  <1>11. Waited(Main) => FALSE
    BY DEF Waited, SessionClosed, HubClosed, SupervisorStopped, ToMonitor, MonitorStopped, RequestsOK, Busy
  <1> QED BY <1>a, <1>1, <1>2, <1>3, <1>4, <1>5, <1>6, <1>7, <1>8, <1>9, <1>10, <1>11 DEF Next

-----------------------------------------------------------------------------
(* The schedulers *)

LEMMA LandsSchedulers == ASSUME SchedulersOK, life = "up", life' = life, NEW c, NEW at, NEW i \in Jobs, Lands(c, at, i)
                         PROVE  SchedulersOK'
  <1>1. CASE at = "scheduler"
    <2>1. sched' = i.made /\ open' = (open \ {sched}) \cup {sched'} /\ open = {sched}
      BY <1>1 DEF Lands, Swap, Succeed, SchedulersOK, OneScheduler
    <2>2. sched' \in Numbers \ {0} /\ open' = {sched'}
      BY <2>1, Bounds DEF Jobs
    <2> QED BY <2>2 DEF SchedulersOK, OneScheduler
  <1>2. CASE at # "scheduler"
    BY <1>2 DEF Lands, schedulers, SchedulersOK, OneScheduler
  <1> QED BY <1>1, <1>2

LEMMA SchedulersStep == RequestsOK /\ TransportsOK /\ supervisor \in BOOLEAN /\ SchedulersOK /\ [Next]_vars
                        => SchedulersOK'
  <1> SUFFICES ASSUME RequestsOK, TransportsOK, supervisor \in BOOLEAN, SchedulersOK, [Next]_vars
               PROVE  SchedulersOK'
    OBVIOUS
  <1>a. Main \in All /\ Calls \subseteq All /\ \A c \in All : c = Main \/ c \in Calls
    BY DEF All
  <1>b. ASSUME UNCHANGED <<schedulers, life>> PROVE SchedulersOK'
    BY <1>b DEF SchedulersOK, OneScheduler, schedulers
  <1>1. CASE Start
    <2>1. 1 \in Numbers
      BY Bounds, AskAssumption
    <2> QED BY <1>1, <2>1 DEF Start, SchedulersOK, OneScheduler
  <1>2. CASE Shutdown
    BY <1>2, Bounds DEF Shutdown, SchedulersOK, OneScheduler
  <1>3. CASE ShutdownEnds
    BY <1>3 DEF ShutdownEnds, schedulers, SchedulersOK, OneScheduler
  <1>4. CASE Commanded
    BY <1>b, <1>4 DEF Commanded, Command
  <1>5. CASE Obey
    BY <1>b, <1>5 DEF Obey
  <1>6. ASSUME NEW c \in Calls, NEW u \in Updates, Ask(c, u) PROVE SchedulersOK'
    <2>1. PICK at \in {"closing", "hub", "workers", "monitor", "scheduler"}, i \in Jobs : Taken(c, at, i, u)
      BY <1>6, AskTakes
    <2>2. Lands(c, at, i) /\ life = "up" /\ life' = life
      BY <1>6, <2>1 DEF Taken, Ask
    <2> QED BY <2>2, LandsSchedulers
  <1>7. ASSUME NEW c \in Calls, Waited(c) PROVE SchedulersOK'
    <2>1. PICK at \in {"hub", "workers", "monitor", "scheduler"}, i \in Jobs : Resumed(c, at, i)
      BY <1>7, WaitedResumes
    <2>2. Busy(c) /\ life' = life
      BY <1>7 DEF Waited, SessionClosed, HubClosed, SupervisorStopped, ToMonitor, MonitorStopped, Busy
    <2>3. Lands(c, at, i) /\ life = "up"
      BY <2>1, <2>2 DEF Resumed, RequestsOK
    <2> QED BY <2>2, <2>3, LandsSchedulers
  <1>8. ASSUME NEW c \in All, CallStep(c) \/ SessionFails(c), ~Waited(c) PROVE SchedulersOK'
    <2>1. UNCHANGED schedulers
      BY <1>8 DEF CallStep, Waited, SchedulerShut, Token, Session, SessionFails
    <2>2. Busy(c)
      BY <1>8, CallGoes
    <2>3. life \in {"starting", "up"} /\ (life' = life \/ life' = "up")
      <3>1. CASE c \in Calls
        BY <1>8, <2>2, <3>1, CallGoes, AskAssumption DEF RequestsOK
      <3>2. CASE c = Main
        BY <1>8, <2>2, <3>2 DEF RequestsOK, CallStep, Waited, SchedulerShut, Token, Session, SessionFails
      <3> QED BY <1>a, <3>1, <3>2
    <2> QED BY <2>1, <2>3 DEF SchedulersOK, OneScheduler, schedulers
  <1>9. ASSUME NEW k \in Clients, Client(k) PROVE SchedulersOK'
    BY <1>b, <1>9 DEF Client
  <1>10. CASE UNCHANGED vars
    BY <1>b, <1>10 DEF vars
  <1>11. Waited(Main) => FALSE
    BY DEF Waited, SessionClosed, HubClosed, SupervisorStopped, ToMonitor, MonitorStopped, RequestsOK, Busy
  <1> QED BY <1>a, <1>1, <1>2, <1>3, <1>4, <1>5, <1>6, <1>7, <1>8, <1>9, <1>10, <1>11 DEF Next

-----------------------------------------------------------------------------
(* Commands *)

LEMMA SwapKeepsAccounts == ASSUME NEW c, NEW at, NEW i, Lands(c, at, i), TransportsOK,
                                  NEW b \in Backends, of[b] # None
                           PROVE  of'[b] = of[b]
  BY DEF Lands, Swap, transports, TransportsOK

LEMMA CommandSock == {0} \cup Backends = Numbers /\ \A c \in Commands : c.sock \in Numbers
  <1>1. {0} \cup Backends = Numbers
    BY Bounds
  <1> QED BY <1>1 DEF Commands

LEMMA CommandKept == ASSUME CommandOK, cmd' = cmd, \A b \in Backends : of[b] # None => of'[b] = of[b]
                     PROVE  CommandOK'
  <1>1. cmd # None => cmd.sock \in Numbers
    BY CommandSock DEF CommandOK
  <1>2. cmd # None /\ cmd.sock # 0 => cmd.sock \in Backends
    BY <1>1, Bounds
  <1> QED BY <1>2 DEF CommandOK

\* what a request that commands a toy begins with
LEMMA GivenOK == ASSUME TransportsOK, NEW wide \in BOOLEAN, NEW local \in BOOLEAN,
                        cmd' = Given(On, backend, cfg.creds, wide, local), of' = of
                 PROVE  CommandOK'
  <1> DEFINE g == Given(On, backend, cfg.creds, wide, local)
             direct == wide \/ Cardinality(On) = 1
  <1>1. On \subseteq Parts /\ ("socket" \in On <=> cfg.socket)
    BY DEF On, Parts
  <1>2. backend \in Numbers /\ cfg.creds \in Accounts /\ None \in Accounts
    BY DEF TransportsOK, Sound, Configs, Accounts
  <1>3. g = [local |-> local, sock |-> backend, account |-> cfg.creds, to |-> None,
             ask |-> IF direct THEN {} ELSE On, todo |-> IF direct THEN On ELSE {},
             given |-> IF direct THEN On ELSE {}, had |-> {}]
    BY DEF Given
  <1>4. direct \in BOOLEAN
    OBVIOUS
  <1> HIDE DEF direct
  <1>5. g \in Commands
    BY <1>1, <1>2, <1>3, <1>4, CommandSock DEF Commands, Accounts
  <1>6. /\ g.sock = backend /\ g.account = cfg.creds /\ g.to = None /\ g.had = {}
        /\ g.ask \cup g.todo = On /\ (IF g.ask # {} THEN g.todo = {} ELSE g.given = g.todo)
    BY <1>1, <1>3, <1>4
  <1> HIDE DEF g
  <1>7. cmd' = g
    BY DEF g
  <1> QED BY <1>1, <1>5, <1>6, <1>7 DEF CommandOK, TransportsOK

LEMMA DeliverOK == ASSUME CommandOK, NEW p \in Parts, Deliver(p, backend)
                   PROVE  CommandOK' /\ cmd' \in Commands
  <1>1. cmd # None /\ p \in cmd.todo /\ of' = of
    BY DEF Deliver
  <1>2. cmd \in Commands /\ cmd.sock \in Numbers /\ cmd.account \in Accounts
        /\ cmd.todo \subseteq Parts /\ cmd.had \subseteq Parts /\ cmd.ask = {}
    BY <1>1, CommandSock DEF CommandOK, Commands, Accounts
  <1> DEFINE n == [cmd EXCEPT !.todo = @ \ {p}, !.had = @ \cup {p}]
             m == [n EXCEPT !.to = of[cmd.sock]]
  <1>3. /\ n \in Commands /\ n.todo = cmd.todo \ {p} /\ n.had = cmd.had \cup {p} /\ n.ask = {}
        /\ n.given = cmd.given /\ n.sock = cmd.sock /\ n.account = cmd.account /\ n.to = cmd.to
    BY <1>2 DEF Commands
  <1>4. cmd' = n \/ (p = "socket" /\ cmd' = m)
    <2>1. n = [[cmd EXCEPT !.todo = @ \ {p}] EXCEPT !.had = @ \cup {p}]
      BY <1>2 DEF Commands
    <2>2. PICK r \in Outcomes(p) :
            LET c == IF r = "ok" THEN n ELSE [Absorb(cmd, p) EXCEPT !.had = @ \cup {p}]
            IN cmd' = IF p = "socket" /\ r = "ok" THEN [c EXCEPT !.to = Account(c, backend)] ELSE c
      BY DEF Deliver
    <2>3. CASE r = "ok"
      <3>1. cmd' = IF p = "socket" THEN [n EXCEPT !.to = Account(n, backend)] ELSE n
        BY <2>2, <2>3
      <3> QED BY <1>3, <3>1 DEF Account
    <2>4. CASE r # "ok"
      BY <2>1, <2>2, <2>4 DEF Absorb
    <2> QED BY <2>3, <2>4
  <1> HIDE DEF n
  <1>5. CASE cmd' = n
    BY <1>1, <1>3, <1>5 DEF CommandOK
  <1>6. CASE p = "socket" /\ cmd' = m
    <2>1. cmd.sock # 0 /\ of[cmd.sock] = cmd.account
      BY <1>1, <1>6 DEF CommandOK
    <2>2. /\ m \in Commands /\ m.to = cmd.account /\ m.todo = n.todo /\ m.had = n.had /\ m.ask = n.ask
          /\ m.given = n.given /\ m.sock = n.sock /\ m.account = n.account
      BY <1>2, <1>3, <2>1 DEF Commands, Accounts
    <2> HIDE DEF m
    <2> QED BY <1>1, <1>3, <1>6, <2>2 DEF CommandOK
  <1> QED BY <1>4, <1>5, <1>6

LEMMA ObeyOK == ASSUME TransportsOK, CommandOK, Obey PROVE CommandOK' /\ of' = of
  <1>1. of' = of /\ CommandStep(backend)
    BY DEF Obey, CommandStep, Index, Reply, Deliver
  <1>2. CASE Index
    <2>1. cmd # None /\ cmd.ask # {}
      BY <1>2 DEF Index
    <2>2. PICK used \in SUBSET cmd.ask :
            cmd' = IF used = {} THEN None ELSE [cmd EXCEPT !.ask = {}, !.todo = used, !.given = used]
      BY <1>2 DEF Index
    <2>3. CASE used = {}
      <3>1. cmd' = None
        BY <2>2, <2>3
      <3> QED BY <1>1, <3>1 DEF CommandOK
    <2>4. CASE used # {}
      <3> DEFINE n == [cmd EXCEPT !.ask = {}, !.todo = used, !.given = used]
      <3>1. cmd \in Commands /\ used \subseteq Parts
        BY <2>1 DEF CommandOK, Commands
      <3>2. n \in Commands /\ n.ask = {} /\ n.todo = used /\ n.given = used /\ n.had = cmd.had
            /\ n.sock = cmd.sock /\ n.account = cmd.account /\ n.to = cmd.to
        BY <3>1 DEF Commands
      <3>3. cmd' = n
        BY <2>2, <2>4
      <3> HIDE DEF n
      <3> QED BY <1>1, <2>1, <3>2, <3>3 DEF CommandOK
    <2> QED BY <2>3, <2>4
  <1>3. CASE Reply
    BY <1>3 DEF Reply, CommandOK
  <1>4. ASSUME NEW p \in Parts, Deliver(p, backend) PROVE CommandOK'
    BY <1>4, DeliverOK
  <1> QED BY <1>1, <1>2, <1>3, <1>4 DEF CommandStep

LEMMA CommandInv == RequestsOK /\ TransportsOK /\ supervisor \in BOOLEAN /\ CommandOK /\ [Next]_vars => CommandOK'
  <1> SUFFICES ASSUME RequestsOK, TransportsOK, supervisor \in BOOLEAN, CommandOK, [Next]_vars
               PROVE  CommandOK'
    OBVIOUS
  <1>a. Main \in All /\ Calls \subseteq All /\ \A c \in All : c = Main \/ c \in Calls
    BY DEF All
  <1>b. ASSUME UNCHANGED <<transports, cmd>> PROVE CommandOK'
    BY <1>b, CommandKept DEF transports
  <1>1. CASE Start \/ Shutdown \/ ShutdownEnds \/ UNCHANGED vars
    BY <1>b, <1>1 DEF Start, Shutdown, ShutdownEnds, vars
  <1>2. CASE Commanded
    <2>1. PICK wide \in BOOLEAN :
            \/ Command(FunctionRequest(On, backend, cfg.creds, wide))
            \/ Command(Stop(On, backend, cfg.creds, wide))
            \/ Command(PatternRequest(On, backend, cfg.creds, wide))
            \/ Command(PresetRequest(On, backend, cfg.creds, wide))
      BY <1>2 DEF Commanded
    <2>2. \E local \in BOOLEAN : cmd' = Given(On, backend, cfg.creds, wide, local)
      BY <2>1 DEF Command, FunctionRequest, Stop, PatternRequest, PresetRequest
    <2>3. of' = of
      BY <2>1 DEF Command, transports
    <2> QED BY <2>2, <2>3, GivenOK
  <1>3. CASE Obey
    BY <1>3, ObeyOK
  <1>4. ASSUME NEW c \in Calls, NEW u \in Updates, Ask(c, u) PROVE CommandOK'
    <2>1. PICK at \in {"closing", "hub", "workers", "monitor", "scheduler"}, i \in Jobs : Taken(c, at, i, u)
      BY <1>4, AskTakes
    <2>2. Lands(c, at, i) /\ cmd' = cmd
      BY <1>4, <2>1 DEF Taken, Ask
    <2> QED BY <2>2, SwapKeepsAccounts, CommandKept
  <1>5. ASSUME NEW c \in Calls, Waited(c) PROVE CommandOK'
    <2>1. PICK at \in {"hub", "workers", "monitor", "scheduler"}, i \in Jobs : Resumed(c, at, i)
      BY <1>5, WaitedResumes
    <2>2. Lands(c, at, i) /\ cmd' = cmd
      BY <1>5, <2>1 DEF Resumed, Waited, SessionClosed, HubClosed, SupervisorStopped, ToMonitor, MonitorStopped
    <2> QED BY <2>2, SwapKeepsAccounts, CommandKept
  <1>6. ASSUME NEW c \in All, CallStep(c) \/ SessionFails(c), ~Waited(c) PROVE CommandOK'
    BY <1>b, <1>6 DEF CallStep, Waited, SchedulerShut, Token, Session, SessionFails
  <1>7. ASSUME NEW k \in Clients, Client(k) PROVE CommandOK'
    BY <1>b, <1>7 DEF Client
  <1>8. Waited(Main) => FALSE
    BY DEF Waited, SessionClosed, HubClosed, SupervisorStopped, ToMonitor, MonitorStopped, RequestsOK, Busy
  <1> QED BY <1>a, <1>1, <1>2, <1>3, <1>4, <1>5, <1>6, <1>7, <1>8 DEF Next

-----------------------------------------------------------------------------
(* The clients *)

\* what a step of a client on its own does to its task
Alone(k) ==
  /\ task \in [Clients -> Tasks] /\ task' \in [Clients -> Tasks]
  /\ \A h \in Clients \ {k} : task'[h] = task[h]
  /\ task[k] # "new" /\ task'[k] # "new"
  /\ Alive(k)' <=> Alive(k)

LEMMA ClientAlone == ASSUME ClientsOK, NEW k \in Clients, ClientStep(k)
                     PROVE  ClientsOK' /\ Alone(k)
  <1>0. /\ task \in [Clients -> Tasks] /\ ws \in [Clients -> {"none", "up", "lost"}]
        /\ stop \in [Clients -> BOOLEAN] /\ io \in [Clients -> BOOLEAN] /\ lan \in [Clients -> BOOLEAN]
        /\ losses \in 0 .. MaxLosses /\ MaxLosses \in Nat
        /\ (ws[k] # "none" => task[k] = "waiting") /\ (Alive(k) => ~stop[k])
    BY AskAssumption DEF ClientsOK
  <1>a. losses < MaxLosses => losses + 1 \in 0 .. MaxLosses
    BY <1>0
  <1>1. CASE Loop(k)
    <2>1. ~stop[k] /\ task' = [task EXCEPT ![k] = "opening"] /\ task[k] = "retry"
      BY <1>0, <1>1 DEF Loop, Alive
    <2>2. /\ ws' = [ws EXCEPT ![k] = "none"] /\ io' = [io EXCEPT ![k] = FALSE]
          /\ lan' = [lan EXCEPT ![k] = FALSE] /\ stop' = stop /\ losses' = losses
      BY <1>1 DEF Loop, Dropped
    <2>3. Alone(k)
      BY <1>0, <2>1 DEF Alone, Alive, Tasks
    <2>4. ClientsOK'
      BY <1>0, <2>1, <2>2 DEF ClientsOK, Alive, Tasks
    <2> QED BY <2>3, <2>4
  <1>2. CASE OpenFails(k)
    <2>1. ~stop[k] /\ task' = [task EXCEPT ![k] = "retry"] /\ task[k] = "opening"
      BY <1>0, <1>2 DEF OpenFails, Alive, Again
    <2>2. UNCHANGED <<stop, ws, io, lan>> /\ losses' \in 0 .. MaxLosses
      BY <1>a, <1>2 DEF OpenFails, Loss
    <2>3. Alone(k)
      BY <1>0, <2>1 DEF Alone, Alive, Tasks
    <2>4. ClientsOK'
      BY <1>0, <2>1, <2>2 DEF ClientsOK, Alive, Tasks
    <2> QED BY <2>3, <2>4
  <1>3. CASE Opened(k)
    <2>1. task' = [task EXCEPT ![k] = "waiting"] /\ task[k] = "opening" /\ ~stop[k]
      BY <1>0, <1>3 DEF Opened, Alive
    <2>2. ws' = [ws EXCEPT ![k] = "up"] /\ UNCHANGED <<stop, io, lan, losses>>
      BY <1>3 DEF Opened
    <2>3. Alone(k)
      BY <1>0, <2>1 DEF Alone, Alive, Tasks
    <2>4. ClientsOK'
      BY <1>0, <2>1, <2>2 DEF ClientsOK, Alive, Tasks
    <2> QED BY <2>3, <2>4
  <1>4. CASE Handshake(k) \/ DeviceInfo(k) \/ PeerCloses(k)
    <2>1. task[k] = "waiting" /\ UNCHANGED <<task, stop>>
      BY <1>0, <1>4 DEF Handshake, DeviceInfo, PeerCloses
    <2>2. /\ ws' = ws \/ ws' = [ws EXCEPT ![k] = "lost"]
          /\ io' = io \/ io' = [io EXCEPT ![k] = TRUE]
          /\ lan' = lan \/ lan' = [lan EXCEPT ![k] = TRUE]
          /\ losses' \in 0 .. MaxLosses
      BY <1>0, <1>a, <1>4 DEF Handshake, DeviceInfo, PeerCloses, Loss
    <2>3. Alone(k)
      BY <1>0, <2>1 DEF Alone, Alive
    <2>4. io' \in [Clients -> BOOLEAN] /\ lan' \in [Clients -> BOOLEAN]
          /\ ws' \in [Clients -> {"none", "up", "lost"}] /\ \A h \in Clients \ {k} : ws'[h] = ws[h]
      BY <1>0, <2>2
    <2>5. ClientsOK'
      BY <2>1, <2>2, <2>4 DEF ClientsOK, Alive
    <2> QED BY <2>3, <2>5
  <1>5. CASE PingFails(k)
    <2>1. task[k] = "waiting" /\ ~stop[k] /\ task' = [task EXCEPT ![k] = "retry"]
      BY <1>0, <1>5 DEF PingFails, Cleanup, Again, Alive
    <2>2. /\ ws' = [ws EXCEPT ![k] = "none"] /\ io' = [io EXCEPT ![k] = FALSE]
          /\ lan' = [lan EXCEPT ![k] = FALSE] /\ stop' = stop /\ losses' = losses
      BY <1>5 DEF PingFails, Cleanup, Dropped
    <2>3. Alone(k)
      BY <1>0, <2>1 DEF Alone, Alive, Tasks
    <2>4. ClientsOK'
      BY <1>0, <2>1, <2>2 DEF ClientsOK, Alive, Tasks
    <2> QED BY <2>3, <2>4
  <1>6. CASE Cancelled(k)
    <2>1. task[k] = "cancelled" /\ task' = [task EXCEPT ![k] = "over"] /\ UNCHANGED <<stop, ws, io, lan, losses>>
      BY <1>6 DEF Cancelled
    <2>2. Alone(k)
      BY <1>0, <2>1 DEF Alone, Alive, Tasks
    <2>3. ClientsOK'
      BY <1>0, <2>1 DEF ClientsOK, Alive, Tasks
    <2> QED BY <2>2, <2>3
  <1> QED BY <1>1, <1>2, <1>3, <1>4, <1>5, <1>6 DEF ClientStep

\* a client that is closed may go on no more; no other hears of it
LEMMA CloseEnds == ASSUME ClientsOK, NEW k \in Clients, task[k] # "new", Close(k), losses' = losses
                   PROVE  /\ ClientsOK' /\ ~Alive(k)'
                          /\ \A h \in Clients \ {k} : task'[h] = task[h]
                          /\ \A h \in Clients : task'[h] = "new" <=> task[h] = "new"
  <1>1. /\ task \in [Clients -> Tasks] /\ ws \in [Clients -> {"none", "up", "lost"}]
        /\ stop \in [Clients -> BOOLEAN] /\ io \in [Clients -> BOOLEAN] /\ lan \in [Clients -> BOOLEAN]
    BY DEF ClientsOK
  <1>2. /\ task' = [task EXCEPT ![k] = IF Alive(k) THEN "cancelled" ELSE task[k]]
        /\ stop' = [stop EXCEPT ![k] = TRUE]
        /\ ws' = [ws EXCEPT ![k] = "none"] /\ io' = [io EXCEPT ![k] = FALSE] /\ lan' = [lan EXCEPT ![k] = FALSE]
    BY DEF Close, Dropped
  <1>3. /\ task' \in [Clients -> Tasks] /\ task'[k] \in {"cancelled", "over"}
        /\ \A h \in Clients \ {k} : task'[h] = task[h]
    BY <1>1, <1>2 DEF Alive, Tasks
  <1>4. /\ ws' \in [Clients -> {"none", "up", "lost"}] /\ ws'[k] = "none"
        /\ \A h \in Clients \ {k} : ws'[h] = ws[h]
    BY <1>1, <1>2
  <1>5. stop' \in [Clients -> BOOLEAN] /\ io' \in [Clients -> BOOLEAN] /\ lan' \in [Clients -> BOOLEAN]
        /\ \A h \in Clients \ {k} : stop'[h] = stop[h]
    BY <1>1, <1>2
  <1>6. ~Alive(k)'
    BY <1>3 DEF Alive
  <1>7. ClientsOK'
    BY <1>3, <1>4, <1>5 DEF ClientsOK, Alive
  <1> QED BY <1>3, <1>6, <1>7

LEMMA StartBegins == ASSUME ClientsOK, NEW k \in Clients, StartBackground(k), UNCHANGED <<stop, ws, io, lan, losses>>
                     PROVE  /\ ClientsOK' /\ task[k] = "new" /\ task'[k] # "new"
                            /\ \A h \in Clients \ {k} : task'[h] = task[h]
  <1>1. task[k] = "new" /\ task' = [task EXCEPT ![k] = "retry"] /\ task \in [Clients -> Tasks]
    BY DEF StartBackground, ClientsOK
  <1>2. ws[k] = "none" /\ ~stop[k]
    BY <1>1 DEF ClientsOK
  <1> QED BY <1>1, <1>2 DEF ClientsOK, Alive, Tasks

LEMMA StartedKept == ASSUME StartedOK, \A k \in Clients : task'[k] = "new" <=> task[k] = "new", asks' = asks,
                            \A b \in Backends : client'[b] \in {0, client[b]},
                            client \in [Backends -> Numbers], job \in [All -> Jobs],
                            \A d \in All : Busy(d)' => Busy(d) /\ job'[d].made = job[d].made,
                            \A d \in Calls : pc'[d] = "closing" => pc[d] = "closing" /\ job'[d].waits = job[d].waits,
                            life' \in {"new", "starting"} => life \in {"new", "starting"}
                     PROVE  StartedOK'
  <1>1. Clients = Backends
    BY AskAssumption
  <1>2. \A b \in Backends : client'[b] # 0 => client'[b] = client[b] /\ client[b] \in Clients
    BY <1>1, Bounds
  <1>3. \A d \in All : job[d].made \in Clients /\ (job[d].waits # 0 => job[d].waits \in Clients)
    BY <1>1, Bounds DEF Jobs
  <1>4. Calls \subseteq All
    BY DEF All
  <1>5. \A b \in Backends : client'[b] # 0 => task'[client'[b]] # "new"
    BY <1>2 DEF StartedOK
  <1>6. \A d \in All : Busy(d)' => task'[job'[d].made] = "new"
    BY <1>3 DEF StartedOK
  <1>7. \A d \in Calls : pc'[d] = "closing" => job'[d].waits # 0 /\ task'[job'[d].waits] # "new"
    BY <1>3, <1>4 DEF StartedOK
  <1> QED BY <1>5, <1>6, <1>7 DEF StartedOK

LEMMA AskStarted == ASSUME RequestsOK, TransportsOK, supervisor \in BOOLEAN, ClientsOK, StartedOK,
                           NEW c \in Calls, NEW u \in Updates, Ask(c, u)
                    PROVE  ClientsOK' /\ StartedOK'
  <1>1. PICK at \in {"closing", "hub", "workers", "monitor", "scheduler"}, i \in Jobs : Taken(c, at, i, u)
    BY AskTakes
  <1>2. /\ life = "up" /\ life' = life /\ client' = client /\ asks' = asks + 1 /\ asks \in Nat /\ asks < MaxAsks
        /\ losses' = losses /\ ~Busy(c)
    BY AskAssumption DEF Ask, RequestsOK, Idle, Busy
  <1>3. Goto(c, at, i) /\ i.made = asks + 2 /\ i.waits = Begins(u).waits
    BY <1>1, LandsGoes DEF Taken
  <1>4. c \in All /\ at \in Places /\ Calls \subseteq All
    BY DEF All, Places
  <1>5. /\ pc'[c] = at /\ job'[c] = i
        /\ \A d \in All \ {c} : pc'[d] = pc[d] /\ job'[d] = job[d]
    BY <1>3, <1>4, GotoSets DEF RequestsOK
  <1>6. Clients = Backends /\ i.made \in Clients
    BY AskAssumption DEF Jobs
  <1>7. i.waits # 0 => i.waits \in Clients /\ task[i.waits] # "new"
    <2>1. i.waits = IF backend = 0 THEN 0 ELSE client[backend]
      BY <1>3 DEF Begins
    <2>2. backend # 0 => backend \in Backends /\ client[backend] \in Numbers
      BY Bounds DEF TransportsOK
    <2> QED BY <1>6, <2>1, <2>2, Bounds DEF StartedOK
  <1>8. ClientsOK' /\ \A k \in Clients : task'[k] = "new" <=> task[k] = "new"
    <2>1. CASE at = "closing"
      <3>1. i.waits # 0 /\ Close(i.waits)
        BY <1>1, <2>1 DEF Taken
      <3> QED BY <1>2, <1>7, <3>1, CloseEnds
    <2>2. CASE at # "closing"
      <3>1. UNCHANGED clientVars
        BY <1>1, <1>2, <2>2 DEF Taken, clientVars
      <3> QED BY <3>1 DEF ClientsOK, clientVars, Alive
    <2> QED BY <2>1, <2>2
  <1>9. at = "closing" => i.waits # 0
    BY <1>1 DEF Taken
  <1>10. \A b \in Backends : client'[b] # 0 => task'[client'[b]] # "new"
    <2>1. \A b \in Backends : client[b] # 0 => client[b] \in Clients
      BY <1>6, Bounds DEF TransportsOK
    <2> QED BY <1>2, <1>8, <2>1 DEF StartedOK
  <1>11. \A k \in Clients : k > asks' + 1 => task'[k] = "new"
    BY <1>2, <1>6, <1>8, Bounds DEF StartedOK
  <1>12. ASSUME NEW d \in All, Busy(d)' PROVE task'[job'[d].made] = "new"
    <2>1. CASE d = c
      BY <1>2, <1>3, <1>5, <1>6, <1>8, <2>1 DEF StartedOK
    <2>2. CASE d # c
      <3>1. job'[d] = job[d] /\ Busy(d) /\ job[d].made \in Clients
        BY <1>5, <1>6, <1>12, <2>2 DEF Busy, RequestsOK, Jobs
      <3> QED BY <1>8, <3>1 DEF StartedOK
    <2> QED BY <2>1, <2>2
  <1>13. ASSUME NEW d \in Calls, pc'[d] = "closing" PROVE job'[d].waits # 0 /\ task'[job'[d].waits] # "new"
    <2>1. CASE d = c
      BY <1>5, <1>7, <1>8, <1>9, <1>13, <2>1
    <2>2. CASE d # c
      <3>1. job'[d] = job[d] /\ pc[d] = "closing" /\ job[d] \in Jobs
        BY <1>4, <1>5, <1>13, <2>2 DEF RequestsOK
      <3>2. job[d].waits # 0 /\ task[job[d].waits] # "new" /\ job[d].waits \in Clients
        BY <1>6, <3>1, Bounds DEF StartedOK, Jobs
      <3> QED BY <1>8, <3>1, <3>2
    <2> QED BY <2>1, <2>2
  <1> QED BY <1>2, <1>8, <1>10, <1>11, <1>12, <1>13 DEF StartedOK

LEMMA SessionStarted == ASSUME RequestsOK, TransportsOK, ClientsOK, StartedOK, NEW c \in All, Session(c)
                        PROVE  ClientsOK' /\ StartedOK'
  <1> DEFINE k == job[c].made
  <1>1. /\ Busy(c) /\ StartBackground(k) /\ UNCHANGED <<stop, ws, io, lan, losses, asks>>
        /\ client' = [client EXCEPT ![job[c].sock] = k] /\ Goto(c, "idle", NoWork)
        /\ life' = IF c = Main THEN "up" ELSE life
    BY DEF Session, Busy, Answer
  <1>2. Clients = Backends /\ k \in Clients /\ NoWork \in Jobs
    BY Bounds, AskAssumption DEF RequestsOK, Jobs, NoWork
  <1> HIDE DEF k
  <1>3. /\ ClientsOK' /\ task[k] = "new" /\ task'[k] # "new"
        /\ \A h \in Clients \ {k} : task'[h] = task[h]
    BY <1>1, <1>2, StartBegins
  <1>4. pc'[c] = "idle" /\ \A d \in All \ {c} : pc'[d] = pc[d] /\ job'[d] = job[d]
    BY <1>1, <1>2, GotoSets DEF RequestsOK, Places
  <1>5. \A b \in Backends : client[b] # 0 => client[b] \in Clients
    BY <1>2, Bounds DEF TransportsOK
  <1>6. \A b \in Backends : client'[b] = k \/ client'[b] = client[b]
    BY <1>1 DEF TransportsOK
  <1>7. \A b \in Backends : client'[b] # 0 => task'[client'[b]] # "new"
    BY <1>3, <1>5, <1>6 DEF StartedOK
  <1>8. \/ c = Main /\ life = "starting" /\ k = 1
        \/ c \in Calls /\ c # Main /\ life = "up" /\ k \in 2 .. asks + 1
    <2>1. c = Main \/ (c \in Calls /\ c # Main)
      BY AskAssumption DEF All
    <2> QED BY <1>1, <2>1 DEF RequestsOK, k
  <1>9. \A d \in All \ {c} : Busy(d)' => Busy(d) /\ job[d].made \in Clients /\ job[d].made # k
    <2>1. ASSUME NEW d \in All \ {c}, Busy(d)' PROVE Busy(d) /\ job[d].made \in Clients /\ job[d].made # k
      <3>1. Busy(d) /\ job[d].made \in Clients
        BY <1>2, <1>4, <2>1 DEF Busy, RequestsOK, Jobs
      <3>2. d \in Calls \/ d = Main
        BY DEF All
      <3>3. c \in Calls /\ d \in Calls
        BY <1>1, <1>8, <2>1, <3>1, <3>2 DEF RequestsOK
      <3> QED BY <1>1, <2>1, <3>1, <3>3 DEF RequestsOK, k
    <2> QED BY <2>1
  <1>10. \A d \in All : Busy(d)' => task'[job'[d].made] = "new"
    BY <1>3, <1>4, <1>9 DEF StartedOK, Busy
  <1>11. \A d \in Calls : pc'[d] = "closing" => job'[d].waits # 0 /\ task'[job'[d].waits] # "new"
    <2>1. ASSUME NEW d \in Calls, pc'[d] = "closing" PROVE job'[d].waits # 0 /\ task'[job'[d].waits] # "new"
      <3>1. d \in All /\ d # c
        BY <1>4, <2>1 DEF All
      <3>2. job'[d] = job[d] /\ pc[d] = "closing" /\ job[d] \in Jobs
        BY <1>4, <2>1, <3>1 DEF RequestsOK
      <3>3. job[d].waits # 0 /\ task[job[d].waits] # "new" /\ job[d].waits \in Clients
        BY <1>2, <3>2, Bounds DEF StartedOK, Jobs
      <3> QED BY <1>3, <3>2, <3>3
    <2> QED BY <2>1
  <1>12. life' \notin {"new", "starting"}
    BY <1>1, <1>8
  <1>13. \A h \in Clients : h > asks' + 1 => task'[h] = "new"
    <2>1. k <= asks + 1 /\ asks \in Nat
      BY <1>1, <1>8, AskAssumption DEF RequestsOK
    <2> QED BY <1>1, <1>2, <1>3, <2>1, Bounds DEF StartedOK
  <1> QED BY <1>3, <1>7, <1>10, <1>11, <1>12, <1>13 DEF StartedOK

LEMMA ClientsInit == Init => ClientsOK /\ StartedOK
  <1> SUFFICES ASSUME Init PROVE ClientsOK /\ StartedOK
    OBVIOUS
  <1>1. ClientInit /\ losses = 0 /\ \A k \in Clients : task[k] = "new" /\ ~stop[k] /\ ws[k] = "none"
    BY DEF Init, ClientInit
  <1>2. ClientsOK
    BY <1>1, AskAssumption DEF ClientInit, ClientsOK, Tasks
  <1>3. \A c \in All : ~Busy(c) /\ pc[c] = "idle"
    BY DEF Init, All, Busy
  <1>4. (\A b \in Backends : client[b] = 0) /\ Calls \subseteq All
    BY DEF Init, All
  <1>5. StartedOK
    BY <1>1, <1>3, <1>4 DEF StartedOK
  <1> QED BY <1>2, <1>5

LEMMA ClientsInv == RequestsOK /\ TransportsOK /\ supervisor \in BOOLEAN /\ ClientsOK /\ StartedOK /\ [Next]_vars
                    => ClientsOK' /\ StartedOK'
  <1> SUFFICES ASSUME RequestsOK, TransportsOK, supervisor \in BOOLEAN, ClientsOK, StartedOK, [Next]_vars
               PROVE  ClientsOK' /\ StartedOK'
    OBVIOUS
  <1>a. /\ Main \in All /\ Calls \subseteq All /\ Main \notin Calls /\ \A c \in All : c = Main \/ c \in Calls
        /\ client \in [Backends -> Numbers] /\ job \in [All -> Jobs] /\ Clients = Backends
    BY AskAssumption DEF All, TransportsOK, RequestsOK
  <1>b. ASSUME UNCHANGED clientVars PROVE ClientsOK' /\ \A k \in Clients : task'[k] = task[k]
    BY <1>b DEF clientVars, ClientsOK, Alive
  <1>c. ASSUME UNCHANGED <<clientVars, client, asks, pc, job>>, life' \in {"new", "starting"} => life \in {"new", "starting"}
        PROVE  ClientsOK' /\ StartedOK'
    <2>1. StartedOK'
      BY <1>a, <1>b, <1>c, StartedKept DEF Busy
    <2> QED BY <1>b, <1>c, <2>1
  <1>1. CASE Start
    <2>1. /\ UNCHANGED <<clientVars, client, asks>> /\ life = "new"
          /\ (UNCHANGED <<pc, job>> \/ Goto(Main, "token", [NoWork EXCEPT !.sock = backend]))
      BY <1>1 DEF Start
    <2>2. CASE UNCHANGED <<pc, job>>
      BY <1>c, <2>1, <2>2
    <2>3. CASE Goto(Main, "token", [NoWork EXCEPT !.sock = backend])
      <3> DEFINE i == [NoWork EXCEPT !.sock = backend]
      <3>1. NoWork \in Jobs /\ backend \in Numbers
        BY Bounds, AskAssumption DEF NoWork, Jobs, TransportsOK
      <3>2. i \in Jobs /\ i.made = 1
        BY <3>1 DEF Jobs, NoWork
      <3>3. Goto(Main, "token", i) /\ "token" \in Places
        BY <2>3 DEF Places
      <3> HIDE DEF i
      <3>4. /\ pc'[Main] = "token" /\ job'[Main] = i
            /\ \A d \in All \ {Main} : pc'[d] = pc[d] /\ job'[d] = job[d]
        BY <1>a, <3>2, <3>3, GotoSets DEF RequestsOK
      <3>5. \A d \in Calls : ~Busy(d) /\ ~Busy(d)' /\ pc'[d] # "closing"
        BY <1>a, <2>1, <3>4 DEF Busy, RequestsOK
      <3>6. 1 \in Clients /\ task[1] = "new"
        <4>1. 1 \in Clients
          BY <1>a, Bounds, AskAssumption
        <4>2. task[1] = "new"
          BY <1>1, <4>1 DEF Start, StartedOK
        <4> QED BY <4>1, <4>2
      <3>7. \A d \in All : Busy(d)' => task'[job'[d].made] = "new"
        BY <1>a, <1>b, <2>1, <3>2, <3>4, <3>5, <3>6
      <3>8. \A b \in Backends : client'[b] # 0 => task'[client'[b]] # "new"
        BY <2>1 DEF StartedOK, clientVars
      <3> QED BY <1>b, <2>1, <3>5, <3>7, <3>8 DEF StartedOK
    <2> QED BY <2>1, <2>2, <2>3
  <1>2. CASE Shutdown
    <2>1. /\ UNCHANGED <<losses, client, asks, pc, job>> /\ life' \in {"closing", "down"}
          /\ \/ UNCHANGED <<task, stop, ws, io, lan>>
             \/ backend # 0 /\ client[backend] # 0 /\ Close(client[backend])
      BY <1>2 DEF Shutdown, callVars
    <2>2. ClientsOK' /\ \A k \in Clients : task'[k] = "new" <=> task[k] = "new"
      <3>1. CASE UNCHANGED <<task, stop, ws, io, lan>>
        BY <1>b, <2>1, <3>1 DEF clientVars
      <3>2. CASE backend # 0 /\ client[backend] # 0 /\ Close(client[backend])
        <4>1. client[backend] \in Clients /\ task[client[backend]] # "new"
          BY <1>a, <3>2, Bounds DEF StartedOK, TransportsOK
        <4> QED BY <2>1, <3>2, <4>1, CloseEnds
      <3> QED BY <2>1, <3>1, <3>2
    <2>3. StartedOK'
      BY <1>a, <2>1, <2>2, StartedKept DEF Busy
    <2> QED BY <2>2, <2>3
  <1>3. CASE ShutdownEnds
    <2>1. UNCHANGED <<clientVars, asks, pc, job>> /\ client' = [client EXCEPT ![backend] = 0] /\ life' = "down"
      BY <1>3 DEF ShutdownEnds, callVars
    <2>2. \A b \in Backends : client'[b] \in {0, client[b]}
      BY <1>a, <2>1
    <2>3. StartedOK'
      BY <1>a, <1>b, <2>1, <2>2, StartedKept DEF Busy
    <2> QED BY <1>b, <2>1, <2>3
  <1>4. CASE Commanded
    BY <1>c, <1>4 DEF Commanded, Command
  <1>5. CASE Obey
    BY <1>c, <1>5 DEF Obey, callVars, CommandStep, Index, Reply, Deliver
  <1>6. ASSUME NEW c \in Calls, NEW u \in Updates, Ask(c, u) PROVE ClientsOK' /\ StartedOK'
    BY <1>6, AskStarted
  <1>7. ASSUME NEW c \in Calls, Waited(c) PROVE ClientsOK' /\ StartedOK'
    <2>1. PICK at \in {"hub", "workers", "monitor", "scheduler"}, i \in Jobs : Resumed(c, at, i)
      BY <1>7, WaitedResumes
    <2>2. Goto(c, at, i) /\ i.made = job[c].made /\ at \in Places
      BY <2>1, LandsGoes DEF Resumed, Places
    <2>3. /\ pc'[c] = at /\ job'[c] = i
          /\ \A d \in All \ {c} : pc'[d] = pc[d] /\ job'[d] = job[d]
      BY <1>a, <2>2, GotoSets DEF RequestsOK
    <2>4. Busy(c) /\ UNCHANGED <<clientVars, life, asks>>
      BY <1>7 DEF Waited, SessionClosed, HubClosed, SupervisorStopped, ToMonitor, MonitorStopped, Busy
    <2>5. \A b \in Backends : client'[b] \in {0, client[b]}
      BY <1>a, <1>7 DEF Waited, SessionClosed, HubClosed, SupervisorStopped, ToMonitor, MonitorStopped
    <2>6. \A d \in All : Busy(d)' => Busy(d) /\ job'[d].made = job[d].made
      BY <2>2, <2>3, <2>4 DEF Busy
    <2>7. \A d \in Calls : pc'[d] = "closing" => pc[d] = "closing" /\ job'[d].waits = job[d].waits
      BY <1>a, <2>3
    <2>8. StartedOK'
      BY <1>a, <1>b, <2>4, <2>5, <2>6, <2>7, StartedKept
    <2> QED BY <1>b, <2>4, <2>8
  <1>8. ASSUME NEW c \in All, CallStep(c) \/ SessionFails(c), ~Waited(c) PROVE ClientsOK' /\ StartedOK'
    <2>1. CASE Session(c)
      BY <2>1, SessionStarted
    <2>2. CASE SchedulerShut(c) \/ Token(c) \/ SessionFails(c)
      <3>1. /\ Busy(c) /\ UNCHANGED asks /\ pc[c] \in {"scheduler", "token", "url"}
            /\ \E at \in {"idle", "token", "url"}, i \in Jobs :
                 Goto(c, at, i) /\ (at = "idle" \/ i.made = job[c].made)
        BY <1>8, CallGoes
      <3>2. PICK at \in {"idle", "token", "url"}, i \in Jobs : Goto(c, at, i) /\ (at = "idle" \/ i.made = job[c].made)
        BY <3>1
      <3>3. /\ pc'[c] = at /\ job'[c] = i
            /\ \A d \in All \ {c} : pc'[d] = pc[d] /\ job'[d] = job[d]
        BY <3>2, GotoSets DEF RequestsOK, Places
      <3>4. \A d \in All : Busy(d)' => Busy(d) /\ job'[d].made = job[d].made
        BY <3>1, <3>2, <3>3 DEF Busy
      <3>5. \A d \in Calls : pc'[d] = "closing" => pc[d] = "closing" /\ job'[d].waits = job[d].waits
        BY <1>a, <3>3
      <3>6. UNCHANGED <<task, stop, ws, io, lan, client>> /\ (life' = life \/ life' = "up")
        BY <2>2 DEF SchedulerShut, Token, SessionFails, clientVars
      <3>7. losses' \in 0 .. MaxLosses
        BY <2>2, AskAssumption DEF SchedulerShut, Token, SessionFails, Loss, clientVars, ClientsOK
      <3>8. ClientsOK'
        BY <3>6, <3>7 DEF ClientsOK, Alive
      <3>9. StartedOK'
        BY <1>a, <3>1, <3>4, <3>5, <3>6, <3>8, StartedKept
      <3> QED BY <3>8, <3>9
    <2> QED BY <1>8, <2>1, <2>2 DEF CallStep, Waited
  <1>9. ASSUME NEW k \in Clients, Client(k) PROVE ClientsOK' /\ StartedOK'
    <2>1. ClientsOK' /\ Alone(k) /\ UNCHANGED <<life, client, asks, pc, job>>
      BY <1>9, ClientAlone DEF Client, callVars
    <2>2. \A h \in Clients : task'[h] = "new" <=> task[h] = "new"
      BY <2>1 DEF Alone
    <2>3. StartedOK'
      BY <1>a, <2>1, <2>2, StartedKept DEF Busy
    <2> QED BY <2>1, <2>3
  <1>10. CASE UNCHANGED vars
    BY <1>c, <1>10 DEF vars, callVars
  <1>11. Waited(Main) => FALSE
    BY DEF Waited, SessionClosed, HubClosed, SupervisorStopped, ToMonitor, MonitorStopped, RequestsOK, Busy
  <1> QED BY <1>a, <1>1, <1>2, <1>3, <1>4, <1>5, <1>6, <1>7, <1>8, <1>9, <1>10, <1>11 DEF Next

-----------------------------------------------------------------------------
(* The session *)

LEMMA CalmAlone == ASSUME RequestsOK, Calm, NEW c \in All, Busy(c), NEW d \in All, Busy(d) PROVE d = c
  <1>1. \A e \in All : e = Main \/ e \in Calls
    BY DEF All
  <1>2. CASE c \in Calls /\ d \in Calls
    BY <1>2 DEF RequestsOK
  <1>3. CASE c = Main \/ d = Main
    <2>1. life = "starting"
      BY <1>3 DEF RequestsOK
    <2>2. \A e \in Calls : ~Busy(e)
      BY <2>1 DEF RequestsOK
    <2> QED BY <1>1, <2>2
  <1> QED BY <1>1, <1>2, <1>3

\* the client that may be alive is the backend's, and one that has none has nobody alive
Owned == \A k \in Clients : Alive(k) => backend # 0 /\ client[backend] = k

LEMMA OwnedNobody == Owned /\ (backend = 0 \/ client[backend] = 0) => Nobody
  <1>1. \A k \in Clients : k # 0
    BY Bounds, AskAssumption
  <1> QED BY <1>1 DEF Owned, Nobody

LEMMA LandsSession == ASSUME RequestsOK, TransportsOK, NEW c \in Calls, life' = "up", \A d \in All \ {c} : ~Busy(d),
                             NEW at \in {"hub", "workers", "monitor", "scheduler"}, NEW i \in Jobs, Lands(c, at, i),
                             \A k \in Clients : task'[k] = task[k], Nobody \/ (Owned /\ client' = client),
                             IF i.changed THEN Nobody ELSE i.sock = backend
                      PROVE  SessionOK'
  <1>1. Goto(c, at, i) /\ c \in All /\ at \in Places /\ Calls \subseteq All
    BY LandsGoes DEF All, Places
  <1>2. /\ pc'[c] = at /\ job'[c] = i
        /\ \A d \in All \ {c} : pc'[d] = pc[d] /\ job'[d] = job[d]
    BY <1>1, GotoSets DEF RequestsOK
  <1>3. Nobody <=> Nobody'
    BY DEF Nobody, Alive
  <1>4. \A d \in All \ {c} : pc'[d] = "idle"
    BY <1>2 DEF Busy
  <1>5. i.changed \in BOOLEAN
    BY DEF Jobs
  <1>6. CASE at = "scheduler"
    <2>1. Nobody \/ (Owned /\ client' = client /\ i.sock = backend /\ backend # 0)
      BY <1>5, OwnedNobody
    <2>2. backend # 0 /\ i.sock = backend => backend' = backend
      BY <1>6 DEF Lands, Swap, Build
    <2>3. Owned'
      BY <1>3, <2>1, <2>2 DEF Owned, Nobody, Alive
    <2>4. \A d \in All : pc'[d] \notin {"closing", "hub", "workers", "monitor", "token", "url"}
      BY <1>2, <1>4, <1>6
    <2> QED BY <2>3, <2>4 DEF SessionOK, Owned
  <1>7. CASE at # "scheduler"
    <2>1. backend' = backend
      BY <1>7 DEF Lands, transports
    <2>2. Owned'
      BY <1>3, <2>1 DEF Owned, Nobody, Alive
    <2>3. \A d \in All : pc'[d] \notin {"closing", "token", "url"}
      BY <1>2, <1>4
    <2>4. \A d \in All : pc'[d] \in {"hub", "workers", "monitor"} =>
             IF job'[d].changed THEN Nobody' ELSE job'[d].sock = backend'
      BY <1>2, <1>3, <1>4, <2>1
    <2> QED BY <2>2, <2>3, <2>4 DEF SessionOK, Owned
  <1> QED BY <1>6, <1>7

LEMMA AskSession == ASSUME RequestsOK, TransportsOK, supervisor \in BOOLEAN, ClientsOK, StartedOK, SessionOK,
                           NEW c \in Calls, NEW u \in Updates, Ask(c, u)
                    PROVE  SessionOK'
  <1> SUFFICES ASSUME Calm' PROVE SessionOK'
    BY DEF SessionOK
  <1>1. PICK at \in {"closing", "hub", "workers", "monitor", "scheduler"}, i \in Jobs : Taken(c, at, i, u)
    BY AskTakes
  <1>2. /\ life = "up" /\ life' = life /\ client' = client /\ losses' = losses
        /\ lapped' = (lapped \/ \E d \in Calls : ~Idle(d))
    BY DEF Ask
  <1>3. Calm /\ \A d \in Calls : ~Busy(d)
    BY <1>2 DEF Calm, Idle, Busy
  <1>4. Main \in All /\ Calls \subseteq All /\ (\A d \in All : d = Main \/ d \in Calls) /\ c \in All
    BY DEF All
  <1>5. \A d \in All : ~Busy(d)
    BY <1>2, <1>3, <1>4 DEF RequestsOK
  <1>6. Owned
    BY <1>3 DEF SessionOK, Owned
  <1>7. Lands(c, at, i) /\ i.waits = IF backend = 0 THEN 0 ELSE client[backend]
    BY <1>1 DEF Taken, Begins
  <1>8. CASE at = "closing"
    <2>1. i.waits # 0 /\ Close(i.waits) /\ UNCHANGED backend
      BY <1>1, <1>7, <1>8 DEF Taken, Lands, transports
    <2>2. backend # 0 /\ i.waits = client[backend] /\ i.waits \in Clients /\ task[i.waits] # "new"
      <3>1. backend # 0 /\ i.waits = client[backend]
        BY <1>7, <2>1
      <3>2. backend \in Backends /\ client[backend] \in Numbers
        BY <3>1, Bounds DEF TransportsOK
      <3> QED BY <2>1, <3>1, <3>2, Bounds, AskAssumption DEF StartedOK
    <2>3. ~Alive(i.waits)' /\ \A h \in Clients \ {i.waits} : task'[h] = task[h]
      BY <1>2, <2>1, <2>2, CloseEnds
    <2>4. Nobody'
      BY <1>6, <2>2, <2>3 DEF Owned, Nobody, Alive
    <2>5. Goto(c, at, i) /\ at \in Places
      BY <1>7, LandsGoes DEF Places
    <2>6. /\ pc'[c] = at
          /\ \A d \in All \ {c} : pc'[d] = pc[d] /\ job'[d] = job[d]
      BY <1>4, <2>5, GotoSets DEF RequestsOK
    <2>7. \A d \in All : pc'[d] \in {"idle", "closing"}
      BY <1>5, <1>8, <2>6 DEF Busy
    <2> QED BY <1>2, <2>4, <2>7 DEF SessionOK, Nobody
  <1>9. CASE at # "closing"
    <2>1. /\ UNCHANGED task /\ (i.changed => i.waits = 0)
          /\ i.sock = IF i.changed THEN 0 ELSE backend
      BY <1>1, <1>9 DEF Taken
    <2>2. i.changed => Nobody
      BY <1>6, <1>7, <2>1, OwnedNobody
    <2>3. IF i.changed THEN Nobody ELSE i.sock = backend
      BY <2>1, <2>2
    <2>4. at \in {"hub", "workers", "monitor", "scheduler"} /\ life' = "up" /\ \A d \in All \ {c} : ~Busy(d)
      BY <1>2, <1>5, <1>9
    <2>5. Nobody \/ (Owned /\ client' = client)
      BY <1>2, <1>6
    <2> QED BY <1>7, <2>1, <2>3, <2>4, <2>5, LandsSession
  <1> QED BY <1>8, <1>9

LEMMA WaitedSession == ASSUME RequestsOK, TransportsOK, supervisor \in BOOLEAN, SessionOK, NEW c \in Calls, Waited(c)
                       PROVE  SessionOK'
  <1> SUFFICES ASSUME Calm' PROVE SessionOK'
    BY DEF SessionOK
  <1>1. PICK at \in {"hub", "workers", "monitor", "scheduler"}, i \in Jobs : Resumed(c, at, i)
    BY WaitedResumes
  <1>2. /\ Before(c) /\ Busy(c) /\ UNCHANGED <<task, life, lapped>>
        /\ pc[c] = "closing" \/ client' = client
    BY DEF Waited, SessionClosed, HubClosed, SupervisorStopped, ToMonitor, MonitorStopped, Before, Busy, clientVars
  <1>3. c \in All /\ Calm /\ life = "up"
    BY <1>2 DEF All, Calm, RequestsOK
  <1>4. \A d \in All \ {c} : ~Busy(d)
    BY <1>2, <1>3, CalmAlone
  <1>5. Lands(c, at, i) /\ i.changed = job[c].changed /\ (pc[c] # "closing" => i.sock = job[c].sock)
    BY <1>1 DEF Resumed
  <1>6. Owned /\ (pc[c] = "closing" => Nobody)
        /\ (pc[c] # "closing" => IF job[c].changed THEN Nobody ELSE job[c].sock = backend)
    BY <1>2, <1>3 DEF SessionOK, Owned, Before
  <1>7. pc[c] = "closing" => i.changed
    BY <1>2, <1>5 DEF TransportsOK, Brings
  <1>8. IF i.changed THEN Nobody ELSE i.sock = backend
    BY <1>5, <1>6, <1>7
  <1>9. Nobody \/ (Owned /\ client' = client)
    BY <1>2, <1>6
  <1> QED BY <1>2, <1>3, <1>4, <1>5, <1>8, <1>9, LandsSession

LEMMA CallSession == ASSUME RequestsOK, TransportsOK, supervisor \in BOOLEAN, ClientsOK, SessionOK, NEW c \in All,
                            CallStep(c) \/ SessionFails(c), ~Waited(c)
                     PROVE  SessionOK'
  <1> SUFFICES ASSUME Calm' PROVE SessionOK'
    BY DEF SessionOK
  <1>1. /\ Busy(c) /\ pc[c] \in {"scheduler", "token", "url"} /\ lapped' = lapped
        /\ \E at \in {"idle", "token", "url"}, i \in Jobs : Goto(c, at, i)
    BY CallGoes
  <1>2. Calm /\ UNCHANGED <<backend, cfg>>
    BY <1>1 DEF Calm, CallStep, Waited, SchedulerShut, Token, Session, SessionFails, transports
  <1>3. \A d \in All \ {c} : ~Busy(d)
    BY <1>1, <1>2, CalmAlone
  <1>4. \A d \in All \ {c} : pc'[d] = "idle"
    <2>1. PICK at \in {"idle", "token", "url"}, i \in Jobs : Goto(c, at, i)
      BY <1>1
    <2>2. \A d \in All \ {c} : pc'[d] = pc[d]
      BY <2>1, GotoSets DEF RequestsOK, Places
    <2> QED BY <1>3, <2>2 DEF Busy
  <1>5. life' \in {"starting", "up"}
    <2>1. c = Main \/ c \in Calls
      BY DEF All
    <2>2. life \in {"starting", "up"} /\ (life' = life \/ life' = "up")
      BY <1>1, <2>1 DEF RequestsOK, CallStep, Waited, SchedulerShut, Token, Session, SessionFails
    <2> QED BY <2>2
  <1>6. Owned
    BY <1>2 DEF SessionOK, Owned
  <1>7. pc[c] \in {"token", "url"} => Nobody /\ backend # 0 /\ job[c].sock = backend
    BY <1>2 DEF SessionOK
  <1>a. ASSUME UNCHANGED <<task, client>>, pc'[c] = "token" \/ pc'[c] = "url" => Nobody /\ backend # 0 /\ job'[c].sock = backend,
               pc'[c] \in {"idle", "token", "url"}
        PROVE  SessionOK'
    <2>1. Owned' /\ (Nobody => Nobody')
      BY <1>2, <1>6, <1>a DEF Owned, Nobody, Alive
    <2>2. \A d \in All : /\ pc'[d] \notin {"closing", "hub", "workers", "monitor"}
                         /\ pc'[d] \in {"token", "url"} => Nobody' /\ backend' # 0 /\ job'[d].sock = backend'
      BY <1>2, <1>4, <1>a, <2>1
    <2> QED BY <1>5, <2>1, <2>2 DEF SessionOK, Owned
  <1>8. CASE SchedulerShut(c)
    <2>1. Connect(c, job[c]) /\ UNCHANGED <<task, client>>
      BY <1>8 DEF SchedulerShut, clientVars
    <2>2. CASE backend # 0 /\ client[backend] = 0 /\ Goto(c, "token", [job[c] EXCEPT !.sock = backend])
      <3> DEFINE i == [job[c] EXCEPT !.sock = backend]
      <3>1. i \in Jobs /\ i.sock = backend
        BY DEF RequestsOK, TransportsOK, Jobs
      <3>2. Goto(c, "token", i)
        BY <2>2
      <3> HIDE DEF i
      <3>3. pc'[c] = "token" /\ job'[c] = i
        BY <3>1, <3>2, GotoSets DEF RequestsOK, Places
      <3>4. Nobody
        BY <1>6, <2>2, OwnedNobody
      <3> QED BY <1>a, <2>1, <2>2, <3>1, <3>3, <3>4
    <2>3. CASE Goto(c, "idle", NoWork)
      <3>1. pc'[c] = "idle"
        BY <2>3 DEF Goto, RequestsOK
      <3> QED BY <1>a, <2>1, <3>1
    <2> QED BY <2>1, <2>2, <2>3 DEF Connect, Answer
  <1>9. CASE Token(c)
    <2>1. Goto(c, "url", job[c]) /\ UNCHANGED <<task, client>> /\ pc[c] = "token"
      BY <1>9 DEF Token, clientVars
    <2>2. pc'[c] = "url" /\ job'[c] = job[c]
      BY <2>1 DEF Goto, RequestsOK
    <2> QED BY <1>7, <1>a, <2>1, <2>2
  <1>10. CASE SessionFails(c)
    <2>1. Goto(c, "idle", NoWork) /\ UNCHANGED <<task, client>>
      BY <1>10 DEF SessionFails, Answer
    <2>2. pc'[c] = "idle"
      BY <2>1 DEF Goto, RequestsOK
    <2> QED BY <1>a, <2>1, <2>2
  <1>11. CASE Session(c)
    <2> DEFINE k == job[c].made
    <2>1. /\ StartBackground(k) /\ client' = [client EXCEPT ![job[c].sock] = k] /\ Goto(c, "idle", NoWork)
          /\ pc[c] = "url" /\ UNCHANGED <<stop, ws, io, lan, losses>>
      BY <1>11 DEF Session, Answer
    <2>2. k \in Clients /\ backend # 0 /\ backend \in Backends /\ job[c].sock = backend /\ Nobody
      BY <1>7, <2>1, Bounds, AskAssumption DEF RequestsOK, TransportsOK, Jobs
    <2> HIDE DEF k
    <2>3. \A h \in Clients \ {k} : task'[h] = task[h]
      BY <2>1, <2>2, StartBegins
    <2>4. client'[backend] = k
      BY <2>1, <2>2 DEF TransportsOK
    <2>5. Owned'
      BY <1>2, <2>2, <2>3, <2>4 DEF Owned, Nobody, Alive
    <2>6. pc'[c] = "idle" 
      BY <2>1 DEF Goto, RequestsOK
    <2>7. \A d \in All : pc'[d] = "idle"
      BY <1>4, <2>6
    <2> QED BY <1>5, <2>5, <2>7 DEF SessionOK, Owned
  <1> QED BY <1>8, <1>9, <1>10, <1>11 DEF CallStep, Waited

LEMMA SessionInit == Init => SessionOK
  <1> SUFFICES ASSUME Init PROVE SessionOK
    OBVIOUS
  <1>1. /\ life = "new" /\ (\A c \in All : pc[c] = "idle") /\ (\A k \in Clients : ~Alive(k))
    BY DEF Init, All, ClientInit, Alive
  <1> QED BY <1>1 DEF SessionOK

LEMMA SessionInv == RequestsOK /\ TransportsOK /\ supervisor \in BOOLEAN /\ ClientsOK /\ StartedOK /\ SessionOK
                    /\ [Next]_vars => SessionOK'
  <1> SUFFICES ASSUME RequestsOK, TransportsOK, supervisor \in BOOLEAN, ClientsOK, StartedOK, SessionOK, [Next]_vars
               PROVE  SessionOK'
    OBVIOUS
  <1>a. Main \in All /\ Calls \subseteq All /\ \A c \in All : c = Main \/ c \in Calls
    BY DEF All
  <1>b. ASSUME UNCHANGED <<lapped, task, cfg, backend, client, pc, job, life>> PROVE SessionOK'
    BY <1>b DEF SessionOK, Calm, Nobody, Alive
  <1>1. CASE Start
    <2>1. Nobody /\ \A c \in All : ~Busy(c)
      BY <1>1, <1>a DEF Start, StartedOK, RequestsOK, Nobody, Alive
    <2>2. UNCHANGED <<task, backend>> /\ life' \in {"starting", "up"}
      BY <1>1 DEF Start, clientVars, transports
    <2>3. \A c \in All : pc'[c] = "idle" \/ (c = Main /\ pc'[c] = "token" /\ backend # 0 /\ job'[c].sock = backend)
      <3>1. NoWork \in Jobs /\ backend \in Numbers
        BY Bounds, AskAssumption DEF NoWork, Jobs, TransportsOK
      <3> DEFINE i == [NoWork EXCEPT !.sock = backend]
      <3>2. i \in Jobs /\ i.sock = backend
        BY <3>1 DEF Jobs
      <3>3. (backend # 0 /\ Goto(Main, "token", i)) \/ UNCHANGED <<pc, job>>
        BY <1>1 DEF Start
      <3> HIDE DEF i
      <3>4. CASE backend # 0 /\ Goto(Main, "token", i)
        <4>1. /\ pc'[Main] = "token" /\ job'[Main] = i
              /\ \A d \in All \ {Main} : pc'[d] = pc[d] /\ job'[d] = job[d]
          BY <1>a, <3>2, <3>4, GotoSets DEF RequestsOK, Places
        <4> QED BY <2>1, <3>2, <3>4, <4>1 DEF Busy
      <3>5. CASE UNCHANGED <<pc, job>>
        BY <2>1, <3>5 DEF Busy
      <3> QED BY <3>3, <3>4, <3>5
    <2>4. Nobody'
      BY <2>1, <2>2 DEF Nobody, Alive
    <2> QED BY <2>2, <2>3, <2>4 DEF SessionOK, Nobody
  <1>2. CASE Shutdown
    <2> SUFFICES ASSUME Calm' PROVE SessionOK'
      BY DEF SessionOK
    <2>1. /\ UNCHANGED <<cfg, backend, client, pc, lapped, losses>> /\ life = "up" /\ \A c \in Calls : ~Busy(c)
      BY <1>2 DEF Shutdown, callVars, transports, Busy, Idle
    <2>2. Owned /\ \A c \in All : pc'[c] = "idle"
      BY <1>a, <2>1 DEF SessionOK, Owned, Calm, RequestsOK, Busy
    <2>3. CASE cfg.socket /\ backend # 0 /\ client[backend] # 0
      <3>1. client[backend] \in Clients /\ task[client[backend]] # "new" /\ Close(client[backend])
        BY <1>2, <2>3, Bounds, AskAssumption DEF Shutdown, StartedOK, TransportsOK
      <3>2. ~Alive(client[backend])' /\ \A h \in Clients \ {client[backend]} : task'[h] = task[h]
        BY <2>1, <3>1, CloseEnds
      <3>3. Nobody'
        BY <2>1, <2>2, <3>2 DEF Owned, Nobody, Alive
      <3> QED BY <2>2, <3>3 DEF SessionOK, Nobody
    <2>4. CASE ~(cfg.socket /\ backend # 0 /\ client[backend] # 0)
      <3>1. UNCHANGED task /\ life' = "down"
        BY <1>2, <2>4 DEF Shutdown
      <3>2. cfg.socket \/ backend = 0 => Nobody
        BY <2>2, <2>4, OwnedNobody
      <3>3. Owned' /\ (Nobody => Nobody')
        BY <2>1, <2>2, <3>1 DEF Owned, Nobody, Alive
      <3> QED BY <2>1, <2>2, <3>1, <3>2, <3>3 DEF SessionOK, Owned
    <2> QED BY <2>3, <2>4
  <1>3. CASE ShutdownEnds
    <2>1. UNCHANGED <<task, cfg, backend, pc, job, lapped>> /\ life = "closing" /\ life' = "down"
      BY <1>3 DEF ShutdownEnds, callVars, transports, clientVars
    <2>2. Calm => Nobody
      BY <2>1 DEF SessionOK
    <2>3. \A c \in All : pc'[c] = "idle"
      BY <1>a, <2>1 DEF RequestsOK, Busy
    <2> QED BY <2>1, <2>2, <2>3 DEF SessionOK, Calm, Nobody, Alive
  <1>4. CASE Commanded
    BY <1>b, <1>4 DEF Commanded, Command, clientVars, transports
  <1>5. CASE Obey
    BY <1>b, <1>5 DEF Obey, callVars, clientVars, CommandStep, Index, Reply, Deliver
  <1>6. ASSUME NEW c \in Calls, NEW u \in Updates, Ask(c, u) PROVE SessionOK'
    BY <1>6, AskSession
  <1>7. ASSUME NEW c \in Calls, Waited(c) PROVE SessionOK'
    BY <1>7, WaitedSession
  <1>8. ASSUME NEW c \in All, CallStep(c) \/ SessionFails(c), ~Waited(c) PROVE SessionOK'
    BY <1>8, CallSession
  <1>9. ASSUME NEW k \in Clients, Client(k) PROVE SessionOK'
    <2>1. Alone(k) /\ UNCHANGED <<life, cfg, backend, client, pc, job, lapped>>
      BY <1>9, ClientAlone DEF Client, callVars, transports
    <2>2. \A h \in Clients : Alive(h)' <=> Alive(h)
      BY <2>1 DEF Alone, Alive
    <2>3. Nobody' <=> Nobody
      BY <2>2 DEF Nobody
    <2> QED BY <2>1, <2>2, <2>3 DEF SessionOK, Calm
  <1>10. CASE UNCHANGED vars
    BY <1>b, <1>10 DEF vars, callVars, clientVars, transports
  <1>11. Waited(Main) => FALSE
    BY DEF Waited, SessionClosed, HubClosed, SupervisorStopped, ToMonitor, MonitorStopped, RequestsOK, Busy
  <1> QED BY <1>a, <1>1, <1>2, <1>3, <1>4, <1>5, <1>6, <1>7, <1>8, <1>9, <1>10, <1>11 DEF Next

-----------------------------------------------------------------------------
(* The workers *)

LEMMA StartsFresh == ASSUME Sound(cfg), HaltedOK, StartWorkers, UNCHANGED cfg
                     PROVE  /\ supervisor' \in BOOLEAN /\ monitor' \in Settings
                            /\ Fresh => /\ Fresh'
                                        /\ supervisor' = (cfg.ble /\ cfg.auto)
                                        /\ monitor' = IF cfg.ble THEN cfg.monitor ELSE 0
  <1>1. cfg.ble \in BOOLEAN /\ cfg.auto \in BOOLEAN /\ cfg.monitor \in Settings
    BY DEF Sound, Configs
  <1>2. supervisor' = (supervisor \/ (cfg.ble /\ cfg.auto))
        /\ monitor' = IF cfg.ble /\ monitor = 0 THEN cfg.monitor ELSE monitor
    BY DEF StartWorkers, StartMonitor
  <1>3. supervisor' \in BOOLEAN /\ monitor' \in Settings
    BY <1>1, <1>2 DEF HaltedOK
  <1>4. ASSUME Fresh PROVE supervisor' = (cfg.ble /\ cfg.auto) /\ monitor' = IF cfg.ble THEN cfg.monitor ELSE 0
    BY <1>1, <1>2, <1>4 DEF Fresh, HaltedOK
  <1>5. ASSUME Fresh PROVE Fresh'
    BY <1>1, <1>4, <1>5 DEF Fresh
  <1> QED BY <1>3, <1>4, <1>5

LEMMA HaltedInv == RequestsOK /\ TransportsOK /\ HaltedOK /\ [Next]_vars => HaltedOK'
  <1> SUFFICES ASSUME RequestsOK, TransportsOK, HaltedOK, [Next]_vars PROVE HaltedOK'
    OBVIOUS
  <1>a. /\ Main \in All /\ Calls \subseteq All /\ (\A c \in All : c = Main \/ c \in Calls) /\ supervisor \in BOOLEAN /\ 0 \in Settings
        /\ monitor \in Settings /\ failed \in BOOLEAN /\ Sound(cfg)
    BY DEF All, HaltedOK, Settings, TransportsOK
  <1>b. ASSUME UNCHANGED <<workers, failed>>, life' = "up" => life = "up" \/ life = "starting", life = "up" => life' = "up"
        PROVE  HaltedOK'
    BY <1>b DEF HaltedOK, workers
  <1>1. CASE Start
    <2>1. CASE UNCHANGED workers /\ failed' = failed /\ life = "new"
      BY <2>1 DEF HaltedOK, workers
    <2>2. CASE StartWorkers /\ life' = "up" /\ UNCHANGED <<failed, cfg>>
      BY <1>a, <2>2, StartsFresh DEF HaltedOK
    <2> QED BY <1>1, <2>1, <2>2 DEF Start, transports
  <1>2. CASE Shutdown
    BY <1>a, <1>2 DEF Shutdown, HaltWorkers, callVars, HaltedOK
  <1>3. CASE ShutdownEnds
    BY <1>b, <1>3 DEF ShutdownEnds, callVars
  <1>4. CASE Commanded
    BY <1>b, <1>4 DEF Commanded, Command
  <1>5. CASE Obey
    BY <1>b, <1>5 DEF Obey, callVars
  <1>6. ASSUME NEW c \in Calls, NEW u \in Updates, Ask(c, u) PROVE HaltedOK'
    <2>1. PICK at \in {"closing", "hub", "workers", "monitor", "scheduler"}, i \in Jobs : Taken(c, at, i, u)
      BY <1>6, <1>a, AskTakes
    <2>2. Halts(at, i) /\ life = "up" /\ life' = life /\ failed' = failed
      BY <1>6, <2>1 DEF Taken, Ask
    <2> QED BY <1>a, <2>2 DEF Halts, HaltedOK, workers
  <1>7. ASSUME NEW c \in Calls, Waited(c) PROVE HaltedOK'
    <2>1. PICK at \in {"hub", "workers", "monitor", "scheduler"}, i \in Jobs : Resumed(c, at, i)
      BY <1>7, <1>a, WaitedResumes
    <2>2. Halts(at, i) \/ (monitor' \in {0, monitor} /\ supervisor' = supervisor)
      BY <2>1 DEF Resumed, workers
    <2>3. life = "up" /\ life' = life /\ failed' = failed
      BY <1>7 DEF Waited, SessionClosed, HubClosed, SupervisorStopped, ToMonitor, MonitorStopped, RequestsOK, Busy
    <2> QED BY <1>a, <2>2, <2>3 DEF Halts, HaltedOK, workers
  <1>8. ASSUME NEW c \in All, CallStep(c) \/ SessionFails(c), ~Waited(c) PROVE HaltedOK'
    <2>1. Busy(c) /\ (c # Main => life' = life)
      BY <1>8, <1>a, CallGoes
    <2>2. c \in Calls => life = "up" /\ c # Main
      BY <2>1, AskAssumption DEF RequestsOK
    <2>3. CASE UNCHANGED workers /\ life' = life /\ failed' \in BOOLEAN
      BY <2>3 DEF HaltedOK, workers
    <2>4. CASE StartWorkers /\ life' = "up" /\ failed' \in BOOLEAN /\ UNCHANGED cfg
      BY <1>a, <2>4, StartsFresh DEF HaltedOK
    <2>5. CASE SchedulerShut(c)
      <3>1. c \in Calls
        BY <1>a, <2>1, <2>5 DEF SchedulerShut, RequestsOK
      <3>2. UNCHANGED <<life, cfg>> /\ (UNCHANGED <<workers, failed>> \/ (StartWorkers /\ failed' = FALSE))
        BY <2>5 DEF SchedulerShut, Connect, Answer, transports
      <3> QED BY <1>a, <2>2, <2>3, <2>4, <3>1, <3>2
    <2>6. CASE Token(c)
      BY <1>a, <2>3, <2>6 DEF Token
    <2>7. CASE Session(c)
      <3>1. StartWorkers /\ failed' = FALSE /\ life' = (IF c = Main THEN "up" ELSE life) /\ UNCHANGED cfg
        BY <2>7 DEF Session, Answer, transports
      <3> QED BY <1>a, <2>2, <2>4, <3>1
    <2>8. CASE SessionFails(c)
      <3>1. UNCHANGED cfg /\ failed' \in BOOLEAN
            /\ IF c = Main THEN StartWorkers /\ life' = "up" ELSE UNCHANGED <<workers, life>>
        BY <2>8 DEF SessionFails, Answer, transports
      <3> QED BY <2>3, <2>4, <3>1
    <2> QED BY <1>8, <2>5, <2>6, <2>7, <2>8 DEF CallStep, Waited
  <1>9. ASSUME NEW k \in Clients, Client(k) PROVE HaltedOK'
    BY <1>b, <1>9 DEF Client, callVars
  <1>10. CASE UNCHANGED vars
    BY <1>b, <1>10 DEF vars, callVars
  <1>11. Waited(Main) => FALSE
    BY DEF Waited, SessionClosed, HubClosed, SupervisorStopped, ToMonitor, MonitorStopped, RequestsOK, Busy
  <1> QED BY <1>a, <1>1, <1>2, <1>3, <1>4, <1>5, <1>6, <1>7, <1>8, <1>9, <1>10, <1>11 DEF Next

LEMMA LandsWorkers == ASSUME RequestsOK, TransportsOK, HaltedOK, NEW c \in Calls, \A d \in All \ {c} : ~Busy(d), Fresh,
                             NEW at \in {"closing", "hub", "workers", "monitor", "scheduler"}, NEW i \in Jobs, Lands(c, at, i),
                             ~i.stops => /\ i.new.monitor = cfg.monitor /\ i.new.ble = cfg.ble
                                         /\ i.new.ble /\ i.new.auto,
                             at # "closing" => i.hub = (IF i.new.ble THEN hub ELSE 0),
                             supervisor' => supervisor, monitor' \in {0, monitor},
                             at \in {"workers", "monitor"} => ~supervisor', at = "monitor" => monitor' = 0,
                             at = "scheduler" /\ i.stops => ~supervisor' /\ monitor' = 0
                      PROVE  WorkersOK'
  <1>1. Goto(c, at, i) /\ c \in All /\ at \in Places /\ at # "idle" /\ Calls \subseteq All
    BY LandsGoes DEF All, Places
  <1>2. /\ pc'[c] = at /\ job'[c] = i
        /\ \A d \in All \ {c} : pc'[d] = pc[d] /\ job'[d] = job[d]
    BY <1>1, GotoSets DEF RequestsOK
  <1>3. WorkersMatch'
    BY <1>1, <1>2 DEF WorkersMatch, Idle
  <1>4. \A d \in Calls : Before(d)' => d = c
    BY <1>1, <1>2 DEF Before, Busy
  <1>5. CASE at = "scheduler"
    <2>1. cfg' = i.new /\ ~Before(c)'
      BY <1>2, <1>5 DEF Lands, Swap, Before
    <2>2. Fresh'
      BY <1>5, <2>1 DEF Fresh
    <2> QED BY <1>3, <1>4, <2>1, <2>2 DEF WorkersOK
  <1>6. CASE at # "scheduler"
    <2>1. cfg' = cfg /\ hub' = hub
      BY <1>6 DEF Lands, transports
    <2>2. Fresh'
      BY <2>1 DEF Fresh
    <2>3. Spares(pc[c], job[c])'
      BY <1>2, <2>1 DEF Spares
    <2> QED BY <1>3, <1>4, <2>2, <2>3 DEF WorkersOK
  <1> QED BY <1>5, <1>6

LEMMA StopsNot == ASSUME NEW u \in Updates, ~Stops(u)
                  PROVE  Updated(u).monitor = cfg.monitor /\ Updated(u).ble = cfg.ble
                         /\ Updated(u).ble /\ Updated(u).auto
  BY DEF Stops

LEMMA WorkersInit == Init => HaltedOK /\ WorkersOK
  <1> SUFFICES ASSUME Init PROVE HaltedOK /\ WorkersOK
    OBVIOUS
  <1>1. life = "new" /\ supervisor = FALSE /\ monitor = 0 /\ failed = FALSE
    BY DEF Init
  <1>2. \A c \in Calls : ~Before(c)
    BY DEF Init, Before
  <1>3. HaltedOK
    <2>1. 0 \in Settings
      BY DEF Settings
    <2>2. supervisor \in BOOLEAN /\ failed \in BOOLEAN /\ ~supervisor
      BY <1>1
    <2> QED BY <1>1, <2>1, <2>2 DEF HaltedOK
  <1>4. Fresh /\ WorkersMatch
    BY <1>1 DEF Fresh, WorkersMatch
  <1> QED BY <1>2, <1>3, <1>4 DEF WorkersOK

LEMMA WorkersInv == RequestsOK /\ TransportsOK /\ HaltedOK /\ WorkersOK /\ [Next]_vars => WorkersOK'
  <1> SUFFICES ASSUME RequestsOK, TransportsOK, HaltedOK, WorkersOK, [Next]_vars, Calm' PROVE WorkersOK'
    BY DEF WorkersOK
  <1>a. /\ Main \in All /\ Calls \subseteq All /\ (\A c \in All : c = Main \/ c \in Calls)
        /\ supervisor \in BOOLEAN /\ monitor \in Settings /\ Sound(cfg)
    BY DEF All, HaltedOK, TransportsOK
  <1>b. ASSUME UNCHANGED <<workers, failed, cfg, hub, pc, job, life, lapped>> PROVE WorkersOK'
    BY <1>b DEF WorkersOK, Calm, Fresh, workers, WorkersMatch, Idle, Before, Spares
  <1>1. CASE Start
    <2>1. life = "new" /\ UNCHANGED <<cfg, hub, lapped>> /\ (life' = "starting" \/ (life' = "up" /\ StartWorkers))
      BY <1>1 DEF Start, transports
    <2>2. \A c \in Calls : ~Before(c)'
      <3>1. \A c \in Calls : pc[c] = "idle"
        BY <2>1 DEF RequestsOK, Busy
      <3>2. \A c \in Calls : pc'[c] = pc[c]
        BY <1>1, <1>a, AskAssumption DEF Start, Goto, RequestsOK
      <3> QED BY <3>1, <3>2 DEF Before
    <2>3. Fresh
      BY <2>1 DEF WorkersOK, Calm
    <2>4. CASE life' = "starting"
      <3>1. UNCHANGED workers
        BY <1>1, <2>4 DEF Start
      <3>2. Fresh'
        BY <2>1, <2>3, <3>1 DEF Fresh, workers
      <3> QED BY <2>2, <2>4, <3>2 DEF WorkersOK, WorkersMatch
    <2>5. CASE life' = "up" /\ StartWorkers
      <3>1. Fresh' /\ supervisor' = (cfg.ble /\ cfg.auto) /\ monitor' = IF cfg.ble THEN cfg.monitor ELSE 0
        BY <1>a, <2>1, <2>3, <2>5, StartsFresh
      <3> QED BY <2>1, <2>2, <3>1 DEF WorkersOK, WorkersMatch
    <2> QED BY <2>1, <2>4, <2>5
  <1>2. CASE Shutdown
    <2>1. UNCHANGED <<cfg, pc, lapped>> /\ life' # "up" /\ supervisor' = FALSE /\ monitor' = 0
          /\ \A c \in Calls : Idle(c)
      BY <1>2 DEF Shutdown, HaltWorkers, callVars, transports
    <2> QED BY <2>1 DEF WorkersOK, Fresh, WorkersMatch, Before, Idle
  <1>3. CASE ShutdownEnds
    <2>1. UNCHANGED <<workers, cfg, hub, pc, job, lapped>> /\ life' = "down"
      BY <1>3 DEF ShutdownEnds, callVars, transports
    <2> QED BY <2>1 DEF WorkersOK, Calm, Fresh, workers, WorkersMatch, Before, Spares
  <1>4. CASE Commanded
    BY <1>b, <1>4 DEF Commanded, Command, transports
  <1>5. CASE Obey
    BY <1>b, <1>5 DEF Obey, callVars
  <1>6. ASSUME NEW c \in Calls, NEW u \in Updates, Ask(c, u) PROVE WorkersOK'
    <2>1. PICK at \in {"closing", "hub", "workers", "monitor", "scheduler"}, i \in Jobs : Taken(c, at, i, u)
      BY <1>6, <1>a, AskTakes
    <2>2. life = "up" /\ Calm /\ \A d \in Calls : ~Busy(d)
      BY <1>6 DEF Ask, Calm, Idle, Busy
    <2>3. \A d \in All \ {c} : ~Busy(d)
      BY <1>a, <2>2 DEF RequestsOK
    <2>4. Fresh
      BY <2>2 DEF WorkersOK
    <2>5. Lands(c, at, i) /\ Halts(at, i) /\ i.new = Updated(u) /\ i.stops = Stops(u)
          /\ (at # "closing" => i.hub = (IF i.new.ble THEN hub ELSE 0))
      BY <2>1 DEF Taken
    <2>6. ~i.stops => /\ i.new.monitor = cfg.monitor /\ i.new.ble = cfg.ble
                      /\ i.new.ble /\ i.new.auto
      BY <2>5, StopsNot
    <2>7. /\ supervisor' => supervisor
          /\ at \in {"workers", "monitor"} => ~supervisor'
          /\ at = "monitor" => monitor' = 0
          /\ at = "scheduler" /\ i.stops => ~supervisor' /\ monitor' = 0
      BY <1>a, <2>5 DEF Halts, workers
    <2>8. monitor' \in {0, monitor}
      BY <2>5 DEF Halts, workers
    <2> QED BY <2>3, <2>4, <2>5, <2>6, <2>7, <2>8, LandsWorkers
  <1>7. ASSUME NEW c \in Calls, Waited(c) PROVE WorkersOK'
    <2>1. PICK at \in {"hub", "workers", "monitor", "scheduler"}, i \in Jobs : Resumed(c, at, i)
      BY <1>7, <1>a, WaitedResumes
    <2>2. Before(c) /\ Busy(c) /\ Calm
      BY <1>7 DEF Waited, SessionClosed, HubClosed, SupervisorStopped, ToMonitor, MonitorStopped, Before, Busy, Calm
    <2>3. \A d \in All \ {c} : ~Busy(d)
      BY <1>a, <2>2, CalmAlone
    <2>4. Fresh /\ Spares(pc[c], job[c])
      BY <2>2 DEF WorkersOK
    <2>5. Lands(c, at, i) /\ i.new = job[c].new /\ i.stops = job[c].stops
          /\ i.hub = (IF i.new.ble THEN hub ELSE 0)
      BY <2>1, <2>4 DEF Resumed, Spares
    <2>6. ~i.stops => /\ i.new.monitor = cfg.monitor /\ i.new.ble = cfg.ble
                      /\ i.new.ble /\ i.new.auto
      BY <2>4, <2>5 DEF Spares
    <2>7. /\ supervisor' => supervisor
          /\ at \in {"workers", "monitor"} => ~supervisor'
          /\ at = "monitor" => monitor' = 0
          /\ at = "scheduler" /\ i.stops => ~supervisor' /\ monitor' = 0
          /\ monitor' \in {0, monitor}
      <3>1. CASE pc[c] = "workers"
        <4>1. monitor' = 0 /\ supervisor' = supervisor /\ ~supervisor
          BY <2>1, <2>4, <3>1 DEF Resumed, Spares
        <4> QED BY <4>1
      <3>2. CASE pc[c] = "monitor"
        <4>1. monitor' = 0 /\ supervisor' = supervisor /\ ~supervisor
          BY <2>1, <2>4, <3>2 DEF Resumed, Spares, workers
        <4> QED BY <4>1
      <3>3. CASE pc[c] \notin {"workers", "monitor"}
        <4>1. Halts(at, i)
          BY <2>1, <3>3 DEF Resumed
        <4> QED BY <1>a, <4>1 DEF Halts, workers
      <3> QED BY <3>1, <3>2, <3>3
    <2> QED BY <2>3, <2>4, <2>5, <2>6, <2>7, LandsWorkers
  <1>8. ASSUME NEW c \in All, CallStep(c) \/ SessionFails(c), ~Waited(c) PROVE WorkersOK'
    <2>1. Busy(c) /\ lapped' = lapped /\ pc[c] \in {"scheduler", "token", "url"} /\ (c # Main => life' = life)
          /\ \E at \in {"idle", "token", "url"}, i \in Jobs : Goto(c, at, i)
      BY <1>8, <1>a, CallGoes
    <2>2. Calm /\ Fresh
      BY <2>1 DEF WorkersOK, Calm
    <2>3. PICK at \in {"idle", "token", "url"}, i \in Jobs : Goto(c, at, i)
      BY <2>1
    <2>4. pc'[c] = at /\ \A d \in All \ {c} : pc'[d] = pc[d]
      BY <2>3, GotoSets DEF RequestsOK, Places
    <2>5. \A d \in All \ {c} : ~Busy(d)
      BY <2>1, <2>2, CalmAlone
    <2>6. \A d \in Calls : ~Before(d)'
      BY <1>a, <2>4, <2>5 DEF Before, Busy
    <2>7. ASSUME StartWorkers, UNCHANGED cfg PROVE WorkersOK'
      <3>1. Fresh' /\ supervisor' = (cfg.ble /\ cfg.auto) /\ monitor' = IF cfg.ble THEN cfg.monitor ELSE 0
        BY <1>a, <2>2, <2>7, StartsFresh
      <3> QED BY <2>6, <2>7, <3>1 DEF WorkersOK, WorkersMatch
    <2>8. ASSUME UNCHANGED <<workers, cfg>>, failed' \/ (c \in Calls /\ at # "idle") \/ life' # "up" PROVE WorkersOK'
      <3>1. Fresh'
        BY <2>2, <2>8 DEF Fresh, workers
      <3>2. WorkersMatch'
        BY <2>4, <2>8 DEF WorkersMatch, Idle
      <3> QED BY <2>6, <3>1, <3>2 DEF WorkersOK
    <2>9. CASE SchedulerShut(c)
      <3>1. c \in Calls /\ UNCHANGED cfg /\ Connect(c, job[c])
        BY <1>a, <2>1, <2>9 DEF SchedulerShut, RequestsOK, transports
      <3>2. CASE StartWorkers
        BY <2>7, <3>1, <3>2
      <3>3. CASE Goto(c, "token", [job[c] EXCEPT !.sock = backend]) /\ UNCHANGED workers
        <4>1. pc'[c] = "token"
          BY <3>3 DEF Goto, RequestsOK
        <4> QED BY <2>4, <2>8, <3>1, <3>3, <4>1
      <3> QED BY <3>1, <3>2, <3>3 DEF Connect
    <2>10. CASE Token(c)
      <3>1. UNCHANGED <<workers, cfg, life>> /\ Goto(c, "url", job[c])
        BY <2>10 DEF Token, transports
      <3>2. pc'[c] = "url"
        BY <3>1 DEF Goto, RequestsOK
      <3>3. c = Main => life = "starting"
        BY <2>1 DEF RequestsOK
      <3> QED BY <1>a, <2>4, <2>8, <3>1, <3>2, <3>3
    <2>11. CASE Session(c)
      BY <2>7, <2>11 DEF Session, transports
    <2>12. CASE SessionFails(c)
      <3>1. UNCHANGED cfg /\ failed' = (c # Main)
            /\ IF c = Main THEN StartWorkers ELSE UNCHANGED workers
        BY <2>12 DEF SessionFails, Answer, transports
      <3> QED BY <2>7, <2>8, <3>1
    <2> QED BY <1>8, <2>9, <2>10, <2>11, <2>12 DEF CallStep, Waited
  <1>9. ASSUME NEW k \in Clients, Client(k) PROVE WorkersOK'
    BY <1>b, <1>9 DEF Client, callVars, transports
  <1>10. CASE UNCHANGED vars
    BY <1>b, <1>10 DEF vars, callVars, transports
  <1>11. Waited(Main) => FALSE
    BY DEF Waited, SessionClosed, HubClosed, SupervisorStopped, ToMonitor, MonitorStopped, RequestsOK, Busy
  <1> QED BY <1>a, <1>1, <1>2, <1>3, <1>4, <1>5, <1>6, <1>7, <1>8, <1>9, <1>10, <1>11 DEF Next

-----------------------------------------------------------------------------
(* The invariant as a whole *)

LEMMA Invariance == Spec => []IInv
  <1>1. Init => IInv
    <2> SUFFICES ASSUME Init PROVE IInv
      OBVIOUS
    <2>1. SchedulersOK
      BY Bounds DEF Init, SchedulersOK, OneScheduler
    <2>2. CommandOK
      BY DEF Init, CommandOK
    <2> QED BY <2>1, <2>2, RequestsInit, TransportsInit, ClientsInit, SessionInit, WorkersInit DEF IInv
  <1>2. IInv /\ [Next]_vars => IInv'
    <2> SUFFICES ASSUME IInv, [Next]_vars PROVE IInv'
      OBVIOUS
    <2>1. supervisor \in BOOLEAN
      BY DEF IInv, HaltedOK
    <2> QED BY <2>1, RequestsStep, TransportsStep, SchedulersStep, ClientsInv, SessionInv, HaltedInv, WorkersInv,
               CommandInv DEF IInv
  <1> QED BY <1>1, <1>2, PTL DEF Spec

\* who stops being alive is closed: at the end, or for other credentials
LEMMA AliveEnds == ASSUME IInv, [Next]_vars, NEW k \in Clients, Alive(k), ~Alive(k)'
                   PROVE  \/ life' = "closing"
                          \/ \E c \in Calls : pc'[c] = "closing" /\ job'[c].new.creds # cfg.creds
  <1>a. /\ RequestsOK /\ TransportsOK /\ ClientsOK /\ supervisor \in BOOLEAN
        /\ Calls \subseteq All /\ task' # task
    BY DEF IInv, HaltedOK, All, Alive
  <1>1. CASE Start \/ ShutdownEnds \/ Commanded \/ Obey \/ UNCHANGED vars
    BY <1>1, <1>a DEF Start, ShutdownEnds, Commanded, Command, Obey, CommandStep, Index, Reply, Deliver, vars, clientVars
  <1>2. CASE Shutdown
    BY <1>2, <1>a DEF Shutdown
  <1>3. ASSUME NEW c \in Calls, NEW u \in Updates, Ask(c, u)
        PROVE  pc'[c] = "closing" /\ job'[c].new.creds # cfg.creds
    <2>1. PICK at \in {"closing", "hub", "workers", "monitor", "scheduler"}, i \in Jobs : Taken(c, at, i, u)
      BY <1>3, <1>a, AskTakes
    <2>2. at = "closing" /\ i.changed /\ Goto(c, at, i) /\ i.new = Updated(u) /\ i.changed = SocketChanged(u)
      BY <1>a, <2>1, LandsGoes DEF Taken
    <2>3. pc'[c] = at /\ job'[c] = i
      BY <1>a, <2>2, GotoSets DEF RequestsOK, Places
    <2> QED BY <2>2, <2>3 DEF SocketChanged
  <1>4. ASSUME NEW c \in Calls \cup {Main}, CallStep(c) \/ SessionFails(c) PROVE FALSE
    <2>1. c \in All
      BY DEF All
    <2>2. CASE Session(c)
      <3>1. job[c].made \in Clients
        BY <1>a, <2>1, AskAssumption DEF RequestsOK, Jobs
      <3>2. task' = [task EXCEPT ![job[c].made] = "retry"]
        BY <2>2 DEF Session, StartBackground
      <3> QED BY <1>a, <3>1, <3>2 DEF Alive, ClientsOK
    <2>3. CASE ~Session(c)
      BY <1>4, <1>a, <2>3 DEF CallStep, SessionClosed, HubClosed, SupervisorStopped, ToMonitor, MonitorStopped, SchedulerShut, Token, SessionFails,
                       clientVars
    <2> QED BY <2>2, <2>3
  <1>5. ASSUME NEW h \in Clients, Client(h) PROVE FALSE
    <2>1. Alone(h)
      BY <1>5, <1>a, ClientAlone DEF Client
    <2> QED BY <2>1 DEF Alone, Alive
  <1> QED BY <1>1, <1>2, <1>3, <1>4, <1>5 DEF Next

\* with one request at a time the hub changes only when BLE is turned off or on
LEMMA HubStays == ASSUME IInv, [Next]_vars, Calm', hub' # hub PROVE cfg'.ble # cfg.ble
  <1>a. /\ RequestsOK /\ TransportsOK /\ supervisor \in BOOLEAN /\ WorkersOK /\ cfg.ble \in BOOLEAN
        /\ (cfg.ble <=> hub # 0)
    BY DEF IInv, HaltedOK, TransportsOK, Sound, Configs
  <1>b. ASSUME NEW c \in Calls, NEW at, NEW i \in Jobs, Lands(c, at, i), i.new.ble \in BOOLEAN,
               i.hub = (IF i.new.ble THEN hub ELSE 0)
        PROVE  cfg'.ble # cfg.ble
    <2>1. Swap(c, i)
      BY <1>b DEF Lands, transports
    <2>2. cfg' = i.new /\ hub' = IF i.new.ble /\ i.hub = 0 THEN i.made ELSE i.hub
      BY <2>1 DEF Swap, Build
    <2> QED BY <1>a, <1>b, <2>2
  <1>1. CASE Start \/ Shutdown \/ ShutdownEnds \/ Commanded \/ Obey \/ UNCHANGED vars
    BY <1>1, <1>a DEF Start, Shutdown, ShutdownEnds, Commanded, Command, Obey, vars, transports
  <1>2. ASSUME NEW c \in Calls, NEW u \in Updates, Ask(c, u) PROVE cfg'.ble # cfg.ble
    <2>1. PICK at \in {"closing", "hub", "workers", "monitor", "scheduler"}, i \in Jobs : Taken(c, at, i, u)
      BY <1>2, <1>a, AskTakes
    <2>2. Lands(c, at, i) /\ i.new = Updated(u) /\ (at # "closing" => i.hub = IF i.new.ble THEN hub ELSE 0)
      BY <2>1 DEF Taken
    <2>3. at # "closing"
      BY <1>a, <2>2 DEF Lands, transports
    <2>4. i.new.ble \in BOOLEAN
      BY <1>a, <2>2, UpdatedSound DEF TransportsOK, Sound, Configs
    <2> QED BY <1>b, <2>2, <2>3, <2>4
  <1>3. ASSUME NEW c \in Calls, Waited(c) PROVE cfg'.ble # cfg.ble
    <2>1. PICK at \in {"hub", "workers", "monitor", "scheduler"}, i \in Jobs : Resumed(c, at, i)
      BY <1>3, <1>a, WaitedResumes
    <2>2. Before(c) /\ Calm
      BY <1>3 DEF Waited, SessionClosed, HubClosed, SupervisorStopped, ToMonitor, MonitorStopped, Before, Calm
    <2>3. Spares(pc[c], job[c]) /\ Sound(job[c].new)
      BY <1>a, <2>2 DEF WorkersOK, TransportsOK, Brings
    <2>4. Lands(c, at, i) /\ i.new = job[c].new /\ i.hub = IF i.new.ble THEN hub ELSE 0
      BY <2>1, <2>3 DEF Resumed, Spares
    <2>5. i.new.ble \in BOOLEAN
      BY <2>3, <2>4 DEF Sound, Configs
    <2> QED BY <1>b, <2>4, <2>5
  <1>4. ASSUME NEW c \in Calls \cup {Main}, CallStep(c) \/ SessionFails(c), ~Waited(c) PROVE FALSE
    BY <1>4, <1>a DEF CallStep, Waited, SchedulerShut, Token, Session, SessionFails, transports
  <1>5. ASSUME NEW h \in Clients, Client(h) PROVE FALSE
    BY <1>5, <1>a DEF Client, transports
  <1>6. Waited(Main) => FALSE
    BY <1>a DEF Waited, SessionClosed, HubClosed, SupervisorStopped, ToMonitor, MonitorStopped, RequestsOK, Busy
  <1> QED BY <1>1, <1>2, <1>3, <1>4, <1>5, <1>6 DEF Next

-----------------------------------------------------------------------------
(* Theorems *)

LEMMA ToldBounded == Spec => [](told \in 0 .. MaxCommands)
  <1> DEFINE Within == told \in 0 .. MaxCommands
  <1>1. Init => Within
    BY AskAssumption DEF Init
  <1>2. Within /\ [Next]_vars => Within'
    <2> SUFFICES ASSUME told \in 0 .. MaxCommands, [Next]_vars PROVE told' \in 0 .. MaxCommands
      OBVIOUS
    <2>0. MaxCommands \in Nat
      BY AskAssumption
    <2>1. told' = told \/ (told' = told + 1 /\ told < MaxCommands)
      BY DEF Next, Start, Shutdown, ShutdownEnds, Commanded, Command, Obey, Ask, CallStep, SessionClosed, HubClosed,
             SupervisorStopped, ToMonitor, MonitorStopped, SchedulerShut, Token, Session, SessionFails, Client, callVars, vars
    <2> QED BY <2>0, <2>1
  <1> HIDE DEF Within
  <1>3. Spec => []Within
    BY <1>1, <1>2, PTL DEF Spec
  <1> QED BY <1>3 DEF Within

(* Every variable has its type, and each backend and client in use was made  *)
(* (runtime.py:60-98).                                                       *)
THEOREM TypeCorrect == Spec => []TypeOK
  <1>1. IInv /\ told \in 0 .. MaxCommands => TypeOK
    <2> SUFFICES ASSUME IInv, told \in 0 .. MaxCommands PROVE TypeOK
      OBVIOUS
    <2>1. ClientTypeOK
      BY DEF IInv, ClientsOK, ClientTypeOK, Tasks
    <2>2. /\ life \in {"new", "starting", "up", "closing", "down"} /\ lapped \in BOOLEAN /\ asks \in 0 .. MaxAsks
          /\ pc \in [Calls \cup {Main} -> {"idle", "closing", "hub", "workers", "monitor", "scheduler", "token", "url"}]
      BY DEF IInv, RequestsOK, All, Places
    <2>3. /\ cfg \in Configs /\ {backend, hub, sched} \subseteq 0 .. MaxAsks + 1
          /\ (backend # 0 => of[backend] # None)
          /\ of \in [Backends -> Creds \cup {None}] /\ client \in [Backends -> 0 .. MaxAsks + 1]
      BY DEF IInv, TransportsOK, SchedulersOK, Sound, Numbers, Accounts
    <2>4. open \subseteq 1 .. MaxAsks + 1
      <3>1. open \subseteq Numbers \ {0}
        BY DEF IInv, RequestsOK, SchedulersOK, OneScheduler
      <3> QED BY <3>1, Bounds, AskAssumption
    <2>5. supervisor \in BOOLEAN /\ monitor \in Settings /\ failed \in BOOLEAN
      BY DEF IInv, HaltedOK
    <2>6. cmd \in Commands \cup {None}
      BY DEF IInv, CommandOK
    <2>7. \A b \in Backends : client[b] # 0 => task[client[b]] # "new"
      BY DEF IInv, StartedOK
    <2> QED BY <2>1, <2>2, <2>3, <2>4, <2>5, <2>6, <2>7 DEF TypeOK
  <1> QED BY <1>1, Invariance, ToldBounded, PTL

(* As long as requests do not overlap, who may hold a connection is the      *)
(* client of the current backend, for the current credentials: the old       *)
(* session is closed before the new one is built (runtime.py:256-260).       *)
THEOREM OneSessionAtATime == Spec => []OneSession
  <1>1. IInv => OneSession
    BY DEF IInv, SessionOK, TransportsOK, OneSession
  <1> QED BY <1>1, Invariance, PTL

(* Whatever overlaps, the scheduler that runs is the one of the service: a   *)
(* request shuts down the one that it replaces (runtime.py:276-286).         *)
THEOREM SchedulersAreShut == Spec => []OneScheduler
  <1>1. IInv => OneScheduler
    BY DEF IInv, SchedulersOK
  <1> QED BY <1>1, Invariance, PTL

(* Once aclose() has returned no worker runs, no session is alive and no     *)
(* WebSocket is open (runtime.py:171-189).                                   *)
THEOREM ShutdownIsFinal == Spec => []ClosedIsSilent
  <1>1. IInv => ClosedIsSilent
    BY DEF IInv, SessionOK, HaltedOK, ClientsOK, ClosedIsSilent, Nobody, Alive
  <1> QED BY <1>1, Invariance, PTL

(* With no request under way, and none that raised last, the workers are     *)
(* those of the configuration (runtime.py:268-272, 292).                     *)
THEOREM WorkersFollow == Spec => []WorkersMatch
  <1>1. IInv => WorkersMatch
    BY DEF IInv, WorkersOK, WorkersMatch
  <1> QED BY <1>1, Invariance, PTL

(* Whatever overlaps, a command is sent to no session but that of the        *)
(* account it was taken on under (multi_backend.py:135-160).                 *)
THEOREM CommandsKeepAccount == Spec => []AccountKept
  <1>1. IInv => AccountKept
    BY DEF IInv, CommandOK, AccountKept
  <1> QED BY <1>1, Invariance, PTL

(* A command is answered when each part it was given to has had it           *)
(* (multi_backend.py:145-165).                                               *)
THEOREM PartsServed == Spec => EachPartServed
  <1>1. ASSUME IInv, [Next]_vars, cmd # None, cmd' = None, cmd.ask = {} PROVE cmd.given = cmd.had
    <2>1. cmd \in Commands /\ cmd.given = cmd.todo \cup cmd.had
      BY <1>1 DEF IInv, CommandOK
    <2>2. CommandStep(backend)
      BY <1>1 DEF Next, Start, Shutdown, ShutdownEnds, Commanded, Command, Obey, Ask, CallStep, SessionClosed,
                  HubClosed, SupervisorStopped, ToMonitor, MonitorStopped, SchedulerShut, Token, Session, SessionFails, Client, vars
    <2>3. ASSUME NEW p \in Parts, Deliver(p, backend) PROVE FALSE
      <3>1. cmd' \in Commands
        BY <1>1, <2>1, <2>3, DeliverOK DEF IInv
      <3> QED BY <1>1, <3>1, CommandAssumption
    <2>4. Reply
      BY <1>1, <2>2, <2>3 DEF CommandStep, Index
    <2> QED BY <2>1, <2>4 DEF Reply
  <1>2. IInv /\ [Next]_vars => [cmd # None /\ cmd' = None /\ cmd.ask = {} => cmd.given = cmd.had]_vars
    BY <1>1
  <1> QED BY <1>2, Invariance, PTL DEF Spec, EachPartServed

(* Live links are kept: the hub changes only with BLE turned on or off, and  *)
(* a session ends only for other credentials or with the service             *)
(* (runtime.py:245-249).                                                     *)
THEOREM LinksAreKept == Spec => LinksKept
  <1>1. IInv /\ [Next]_vars =>
          [Calm' =>
             /\ hub' # hub => cfg'.ble # cfg.ble
             /\ \A k \in Clients : Alive(k) /\ ~Alive(k)' =>
                  life' = "closing" \/ \E c \in Calls : pc'[c] = "closing" /\ job'[c].new.creds # cfg.creds]_vars
    BY HubStays, AliveEnds
  <1> QED BY <1>1, Invariance, PTL DEF Spec, LinksKept
=============================================================================
