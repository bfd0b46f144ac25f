--------------------------- MODULE ServiceRuntime ---------------------------
(***************************************************************************)
(* ServiceRuntime (runtime.py) with the Socket backends it makes           *)
(* (socket_backend.py, transports.py) and the /config routes               *)
(* (routes/settings.py): start(), requests that change the configuration,  *)
(* several at once, and aclose().                                          *)
(*                                                                         *)
(* apply_config is cut at its awaits: the close of the old session, of the *)
(* hub, of each worker, of the previous scheduler, the two requests to the *)
(* cloud.  An await with nothing to wait for is none, and the one that     *)
(* reads the toys for the OpenAPI enums is left out: a request changes     *)
(* nothing after it, and start() has no company.  Backends, hubs,          *)
(* schedulers and Socket clients have the number of the request that makes *)
(* them, 1 is what start() makes, 0 is none.  The credentials stand for    *)
(* _SOCKET_FIELDS, the monitor's setting (0: off) for the scan's fields.   *)
(* A request that commands a toy keeps the backend it finds.  Tunnel, gate *)
(* and the scheduler's slots are in modules of their own.                  *)
(***************************************************************************)
EXTENDS CompositeBackend

CONSTANTS
  Calls,         \* numbers of the requests under way at once
  Main,          \* the lifespan task
  Creds,         \* credentials of the Socket API
  Updates,       \* what is asked for
  MaxAsks,       \* requests that change the configuration
  MaxCommands    \* requests that command a toy

ASSUME AskAssumption ==
  /\ Calls \cup {Main, MaxAsks, MaxCommands} \subseteq Nat /\ Main \notin Calls
  /\ Backends = 1 .. MaxAsks + 1 /\ Clients = Backends /\ MaxLosses \in Nat
  /\ None \notin Creds

VARIABLES
  life,          \* new, starting, up, closing, down
  cfg,           \* self.cfg
  backend, hub, sched, \* self.socket_backend, ble_hub, scheduler
  open,          \* the schedulers that are not shut down
  supervisor, monitor, \* the workers: running; the setting it was started with
  pc, job,       \* what a request waits for, its local variables
  asks, told,    \* count the requests
  lapped, failed \* history: requests have overlapped; the last one has raised

callVars    == <<pc, job, asks, told, lapped, failed>>
workers     == <<supervisor, monitor>>
transports  == <<cfg, backend, hub, of>>
schedulers  == <<sched, open>>
vars == <<clientVars, life, transports, client, schedulers, workers, callVars, cmd>>

Settings == 0 .. 2
Configs  == [lan : BOOLEAN, ble : BOOLEAN, auto : BOOLEAN, monitor : Settings,
             socket : BOOLEAN, creds : Creds \cup {None}]
Commands == [local : BOOLEAN, sock : {0} \cup Backends, account : Creds \cup {None}, to : Creds \cup {None},
             ask : SUBSET Parts, todo : SUBSET Parts, given : SUBSET Parts, had : SUBSET Parts]
ASSUME CommandAssumption == None \notin Commands

NoWork   == [new |-> None, changed |-> FALSE, stops |-> FALSE, posts |-> FALSE,
             sock |-> 0, hub |-> 0, waits |-> 0, made |-> 1]
Idle(c)  == pc[c] = "idle"
Calm     == ~lapped

-----------------------------------------------------------------------------
(* The routes, and the configuration they ask for *)

SetLanIp          == [lan |-> TRUE]
SetSocket(c)      == [creds |-> c, socket |-> TRUE]
SetBleOptions(a, m) == [auto |-> a, monitor |-> m]
SetTransports(b, s) == [ble |-> b, socket |-> s]

ASSUME UpdateAssumption ==
  Updates \subseteq {SetLanIp} \cup {SetSocket(c) : c \in Creds}
              \cup {SetBleOptions(a, m) : a \in BOOLEAN, m \in Settings}
              \cup {SetTransports(b, s) : b \in BOOLEAN, s \in BOOLEAN}

\* effective_config: no Socket without credentials.
Effective(f) == [f EXCEPT !.socket = @ /\ f.creds # None]
Updated(u)   == Effective([f \in DOMAIN cfg |-> IF f \in DOMAIN u THEN u[f] ELSE cfg[f]])

Init ==
  /\ ClientInit
  /\ life = "new"
  /\ cfg \in {Effective(f) : f \in [lan : {FALSE}, ble : {TRUE}, auto : {TRUE},
                monitor : {1}, socket : BOOLEAN, creds : Creds \cup {None}]}
  /\ backend = (IF cfg.socket THEN 1 ELSE 0) /\ hub = 1
  /\ of = [b \in Backends |-> IF b = backend THEN cfg.creds ELSE None]
  /\ client = [b \in Backends |-> 0]
  /\ sched = 0 /\ open = {} /\ supervisor = FALSE /\ monitor = 0
  /\ pc = [c \in Calls \cup {Main} |-> "idle"] /\ job = [c \in Calls \cup {Main} |-> NoWork]
  /\ asks = 0 /\ told = 0 /\ lapped = FALSE /\ failed = FALSE /\ cmd = None

-----------------------------------------------------------------------------
(* The parts of a request *)

Goto(c, at, j) == pc' = [pc EXCEPT ![c] = at] /\ job' = [job EXCEPT ![c] = j]

\* A monitor scans with the setting it was started with, until it is stopped.
StartMonitor(setting) == monitor' = setting

\* _start_ble_workers: a monitor that runs is left alone.
StartWorkers ==
  /\ supervisor' = (supervisor \/ (cfg.ble /\ cfg.auto))
  /\ IF cfg.ble /\ monitor = 0 THEN StartMonitor(cfg.monitor) ELSE UNCHANGED monitor

\* The request has its answer, or has raised.
Answer(c, bad) == Goto(c, "idle", NoWork) /\ failed' = bad

\* connect() of a backend: once it has a client there is nothing to do.
Connect(c, j) ==
  IF backend # 0 /\ (j.changed \/ j.sock = 0) /\ client[backend] = 0
  THEN Goto(c, "token", [j EXCEPT !.sock = backend]) /\ UNCHANGED <<workers, failed>>
  ELSE StartWorkers /\ Answer(c, FALSE)

\* build_transports, with what is reused, for the new configuration.
BuildAnew(kept, new, made)  == IF new THEN made ELSE kept       \* fault: nothing is reused
Build(kept, new, made)      == IF new /\ kept = 0 THEN made ELSE kept

\* The swap, without an await, and the start of the previous scheduler's shutdown.
SucceedLate(c, j) ==                  \* fault: the previous scheduler is not shut down
  /\ sched' = j.made /\ open' = open \cup {sched'}
Succeed(c, j) ==
  /\ sched' = j.made /\ open' = (open \ {sched}) \cup {sched'}

Swap(c, j) ==
  /\ cfg' = j.new
  /\ backend' = Build(j.sock, j.new.socket, j.made)
  /\ of' = [b \in Backends |-> IF b = backend' /\ of[b] = None THEN j.new.creds ELSE of[b]]
  /\ hub' = Build(j.hub, j.new.ble, j.made)
  /\ Succeed(c, j)
  /\ Goto(c, "scheduler", j)

\* _stop_ble_workers: the supervisor, then the monitor, is told to stop and awaited.
ToMonitor(c, j) ==
  IF monitor # 0
  THEN monitor' = 0 /\ Goto(c, "monitor", j) /\ UNCHANGED <<transports, schedulers>>
  ELSE Swap(c, j) /\ UNCHANGED monitor

ToWorkers(c, j) ==
  \/ j.stops /\ supervisor /\ supervisor' = FALSE
     /\ Goto(c, "workers", j) /\ UNCHANGED <<monitor, transports, schedulers>>
  \/ j.stops /\ ~supervisor /\ ToMonitor(c, j) /\ UNCHANGED supervisor
  \/ ~j.stops /\ Swap(c, j) /\ UNCHANGED workers

ToHub(c, j) ==
  IF ~j.new.ble /\ hub # 0
  THEN Goto(c, "hub", [j EXCEPT !.hub = 0]) /\ UNCHANGED <<transports, schedulers, workers>>
  ELSE ToWorkers(c, [j EXCEPT !.hub = hub])

-----------------------------------------------------------------------------
(* apply_config *)

ChangedNever(u)  == FALSE             \* fault: the old session is kept for new credentials
SocketChanged(u) == Updated(u).creds # cfg.creds

StopsKept(u) == ~Updated(u).ble \/ ~Updated(u).auto    \* fault: the monitor keeps its settings
Stops(u)     == Updated(u).monitor # cfg.monitor \/ Updated(u).ble # cfg.ble
                \/ ~Updated(u).ble \/ ~Updated(u).auto

\* A request is taken on under the first free number; the old session is closed when its settings have changed.
Ask(c, u) ==
  LET j == [new |-> Updated(u), changed |-> SocketChanged(u), stops |-> Stops(u),
            posts |-> "creds" \in DOMAIN u, sock |-> backend, hub |-> 0,
            waits |-> IF backend = 0 THEN 0 ELSE client[backend], made |-> asks + 2]
  IN
  /\ life = "up" /\ Idle(c) /\ (\A d \in Calls : d < c => ~Idle(d)) /\ asks < MaxAsks
  /\ asks' = asks + 1
  /\ lapped' = (lapped \/ \E d \in Calls : ~Idle(d))
  /\ IF j.changed /\ j.waits # 0
     THEN /\ Close(j.waits) /\ Goto(c, "closing", j)
          /\ UNCHANGED <<transports, schedulers, workers>>
     ELSE /\ ToHub(c, [j EXCEPT !.sock = IF j.changed THEN 0 ELSE @])
          /\ UNCHANGED <<task, stop, ws, io, lan>>
  /\ UNCHANGED <<losses, life, client, told, failed, cmd>>

\* aclose() of a backend has waited for the task of the client it found.
SessionClosed(c) ==
  /\ pc[c] = "closing" /\ task[job[c].waits] = "over"
  /\ client' = [client EXCEPT ![job[c].sock] = 0]
  /\ ToHub(c, [job[c] EXCEPT !.sock = 0])
  /\ UNCHANGED <<clientVars, life, asks, told, lapped, failed, cmd>>

HubClosed(c) ==
  /\ pc[c] = "hub"
  /\ ToWorkers(c, job[c])
  /\ UNCHANGED <<clientVars, life, client, asks, told, lapped, failed, cmd>>

SupervisorStopped(c) ==
  /\ pc[c] = "workers"
  /\ ToMonitor(c, job[c])
  /\ UNCHANGED <<clientVars, life, client, supervisor, asks, told, lapped, failed, cmd>>

MonitorStopped(c) ==
  /\ pc[c] = "monitor"
  /\ Swap(c, job[c])
  /\ UNCHANGED <<clientVars, life, client, workers, asks, told, lapped, failed, cmd>>

SchedulerShut(c) ==
  /\ pc[c] = "scheduler"
  /\ Connect(c, job[c])
  /\ UNCHANGED <<clientVars, life, transports, client, schedulers, asks, told, lapped, cmd>>

\* get_token has its answer, get_socket_url is called.
Token(c) ==
  /\ pc[c] = "token"
  /\ Goto(c, "url", job[c])
  /\ UNCHANGED <<clientVars, life, transports, client, schedulers, workers,
                 asks, told, lapped, failed, cmd>>

\* Token and URL are there: a client is made and started, the rest of the request follows.
Session(c) ==
  LET k == job[c].made IN
  /\ pc[c] = "url"
  /\ StartBackground(k) /\ client' = [client EXCEPT ![job[c].sock] = k]
  /\ StartWorkers
  /\ life' = IF c = Main THEN "up" ELSE life
  /\ Answer(c, FALSE)
  /\ UNCHANGED <<stop, ws, io, lan, losses, transports, schedulers, asks, told, lapped, cmd>>

\* The cloud refuses or cannot be reached: start() goes on, a request raises.
SessionFails(c) ==
  /\ pc[c] \in {"token", "url"} /\ Loss
  /\ IF c = Main THEN StartWorkers /\ life' = "up" ELSE UNCHANGED <<workers, life>>
  /\ Answer(c, c # Main)
  /\ UNCHANGED <<task, stop, ws, io, lan, transports, client, schedulers, asks, told, lapped, cmd>>

-----------------------------------------------------------------------------
(* start() and aclose(): requests are taken on after the one and are over before the other *)

Start ==
  /\ life = "new"
  /\ sched' = 1 /\ open' = {1}
  /\ IF backend # 0
     THEN /\ Goto(Main, "token", [NoWork EXCEPT !.sock = backend])
          /\ life' = "starting" /\ UNCHANGED workers
     ELSE StartWorkers /\ life' = "up" /\ UNCHANGED <<pc, job>>
  /\ UNCHANGED <<clientVars, transports, client, asks, told, lapped, failed, cmd>>

HaltWorkersNot == monitor' = monitor /\ supervisor' = FALSE      \* fault: the monitor runs on
HaltWorkers    == monitor' = 0 /\ supervisor' = FALSE

\* What is closed is what the composite backend is made of: a disabled Socket is not.
Shutdown ==
  /\ life = "up" /\ cmd = None /\ \A c \in Calls : Idle(c)
  /\ HaltWorkers
  /\ sched' = 0 /\ open' = open \ {sched}
  /\ IF cfg.socket /\ backend # 0 /\ client[backend] # 0
     THEN Close(client[backend]) /\ life' = "closing"
     ELSE life' = "down" /\ UNCHANGED <<task, stop, ws, io, lan>>
  /\ UNCHANGED <<losses, transports, client, callVars, cmd>>

ShutdownEnds ==
  /\ life = "closing" /\ task[client[backend]] = "over"
  /\ life' = "down" /\ client' = [client EXCEPT ![backend] = 0]
  /\ UNCHANGED <<clientVars, transports, schedulers, workers, callVars, cmd>>

-----------------------------------------------------------------------------
(* Commands *)

On == {p \in Parts : CASE p = "lan" -> cfg.lan [] p = "ble" -> cfg.ble [] p = "socket" -> cfg.socket}

\* A request commands one toy, or all of them.
Command(given) ==
  /\ life = "up" /\ cmd = None /\ told < MaxCommands
  /\ told' = told + 1
  /\ cmd' = given
  /\ UNCHANGED <<clientVars, life, transports, client, schedulers, workers,
                 pc, job, asks, lapped, failed>>

Commanded ==
  \E wide \in BOOLEAN :
    \/ Command(FunctionRequest(On, backend, cfg.creds, wide))
    \/ Command(Stop(On, backend, cfg.creds, wide))
    \/ Command(PatternRequest(On, backend, cfg.creds, wide))
    \/ Command(PresetRequest(On, backend, cfg.creds, wide))

Obey ==
  /\ CommandStep(backend)
  /\ UNCHANGED <<clientVars, life, cfg, backend, hub, schedulers, workers, callVars>>

-----------------------------------------------------------------------------
CallStep(c) ==
  \/ SessionClosed(c) \/ HubClosed(c) \/ SupervisorStopped(c) \/ MonitorStopped(c)
  \/ SchedulerShut(c) \/ Token(c) \/ Session(c)

Client(k) == ClientStep(k) /\ UNCHANGED <<life, transports, client, schedulers, workers, callVars, cmd>>

Next ==
  \/ Start \/ Shutdown \/ ShutdownEnds \/ Commanded \/ Obey
  \/ \E c \in Calls, u \in Updates : Ask(c, u)
  \/ \E c \in Calls \cup {Main} : CallStep(c) \/ SessionFails(c)
  \/ \E k \in Clients : Client(k)

Spec == Init /\ [][Next]_vars

\* The loop runs what is ready; closing ends; the cloud answers; see ClientFair.
Fairness ==
  /\ WF_vars(Start) /\ WF_vars(ShutdownEnds) /\ WF_vars(Obey)
  /\ \A c \in Calls \cup {Main} : WF_vars(CallStep(c))
  /\ \A k \in Clients : WF_vars(ClientFair(k) /\ Client(k))
FairSpec == Spec /\ Fairness

-----------------------------------------------------------------------------
(* Properties *)

\* Types, and every backend and client in use is one that was made (runtime.py:60-98).
TypeOK ==
  /\ ClientTypeOK
  /\ life \in {"new", "starting", "up", "closing", "down"}
  /\ cfg \in Configs
  /\ {backend, hub, sched} \subseteq 0 .. MaxAsks + 1 /\ (backend # 0 => of[backend] # None)
  /\ of \in [Backends -> Creds \cup {None}] /\ client \in [Backends -> 0 .. MaxAsks + 1]
  /\ \A b \in Backends : client[b] # 0 => task[client[b]] # "new"
  /\ open \subseteq 1 .. MaxAsks + 1 /\ supervisor \in BOOLEAN /\ monitor \in Settings
  /\ cmd \in Commands \cup {None}
  /\ asks \in 0 .. MaxAsks /\ told \in 0 .. MaxCommands /\ lapped \in BOOLEAN /\ failed \in BOOLEAN
  /\ pc \in [Calls \cup {Main} -> {"idle", "closing", "hub", "workers", "monitor", "scheduler", "token", "url"}]

\* As long as requests do not overlap, the only client whose task may hold a connection is
\* that of the current backend, made for the current credentials (runtime.py:256-260: the
\* old session is closed before the new one is built).
OneSession ==
  Calm => \A k \in Clients :
            Alive(k) => backend # 0 /\ client[backend] = k /\ of[backend] = cfg.creds

\* Each scheduler is shut down by the request that replaces it, also when requests overlap
\* (runtime.py:276-286: it is read after the last await before the swap).
OneScheduler == open = IF life \in {"new", "closing", "down"} THEN {} ELSE {sched}

\* Once aclose() has returned nothing runs in the background, when requests did not
\* overlap and the Socket was not disabled with a session open (runtime.py:171-189).
ClosedIsSilent ==
  life = "down" /\ Calm /\ (cfg.socket \/ backend = 0)
    => ~supervisor /\ monitor = 0 /\ \A k \in Clients : ~Alive(k) /\ ws[k] = "none"

\* With no request under way and none that raised last, the workers are those of the
\* configuration, the monitor with its current settings (runtime.py:268-272, 292).
WorkersMatch ==
  life = "up" /\ Calm /\ ~failed /\ (\A c \in Calls : Idle(c))
    => /\ supervisor = (cfg.ble /\ cfg.auto)
       /\ monitor = IF cfg.ble THEN cfg.monitor ELSE 0

\* Live links are kept: the hub is replaced only with BLE turned off or on, a session is
\* closed only for other credentials or at the end (runtime.py:245-249).
LinksKept ==
  [][Calm' =>
       /\ hub' # hub => cfg'.ble # cfg.ble
       /\ \A k \in Clients : Alive(k) /\ ~Alive(k)' =>
            life' = "closing" \/ \E c \in Calls : pc'[c] = "closing" /\ job'[c].new.creds # cfg.creds]_vars

\* Whatever is lost on the way, a session that was opened is connected again for good, also
\* when requests overlap (client.py:163-194, run by the backend with auto_reconnect).
Reconnects ==
  <>[](life = "up" /\ backend # 0 /\ client[backend] # 0 => io[client[backend]])

\* Every request is answered, of those that change the configuration and of those that
\* command toys, whatever the requests that overlap with it wait for and whatever happens to
\* the session (runtime.py:244-295, socket_backend.py:203-302, multi_backend.py:145-160).
RequestsEnd == (\A c \in Calls : []<>Idle(c)) /\ []<>(cmd = None)

\* A command that was taken on under some credentials is never sent to the session of
\* others, although the service may have been given them while its toys were looked up
\* (multi_backend.py:135-160, transports.py:73-83).
AccountKept == cmd # None => cmd.to \in {None, cmd.account}

\* A part that fails keeps the command from no other part: when the answer is given each of
\* them has had it (multi_backend.py:145-165, 178-192).
EachPartServed ==
  [][cmd # None /\ cmd' = None /\ cmd.ask = {} => cmd.given = cmd.had]_vars

-----------------------------------------------------------------------------
(* What the repository says and the code does not do *)

\* "opens the Socket.IO session" (routes/settings.py:75): a request that posted credentials
\* and was answered leaves a backend that has a client, when requests do not overlap.
PostedOpens ==
  [][\A c \in Calls : Calm /\ job[c].posts /\ ~Idle(c) /\ Idle(c)' /\ ~failed'
       => client'[backend'] # 0]_vars

\* "Lifespan shutdown: stop workers, cancel sessions, drop links." (runtime.py:172)
LinksDropped == life = "down" /\ Calm => \A k \in Clients : ~Alive(k)

\* What OneSession says, for requests that overlap, once all are answered.
OneSessionEver ==
  (\A c \in Calls : Idle(c)) => \A k \in Clients : Alive(k) => backend # 0 /\ client[backend] = k
=============================================================================
