------------------------------ MODULE StateStream ------------------------------
(***************************************************************************)
(* The state stream `/ws` (routes/events.py) with the table of viewers     *)
(* (presence.py), the toy-list cache (toy_cache.py) and the wake-ups of    *)
(* the runtime (runtime.py).                                               *)
(*                                                                         *)
(* A step is the code between two awaits that suspend: the close of a      *)
(* replaced socket, a sent frame, the cache's lock, get_toys, the wait for *)
(* a change.  The toy list is a version number, 0 the empty list a failed  *)
(* read leaves; of the rest of /state only the table of viewers is kept.   *)
(* The encoding of frames, echo relay and labels are left out.  What a     *)
(* step will not look at again is cleared.                                 *)
(***************************************************************************)
EXTENDS Integers, Sequences, FiniteSetsExt, AsyncLock

CONSTANTS
  Viewers,       \* sockets that open /ws, numbered as they are accepted
  Ids, Id(_),    \* client ids, and the id a socket gives: a tab keeps its id
  MaxToys,       \* changes of the toy list
  MaxOdd,        \* refresh messages, failed reads and replaced caches, together
  Heartbeat,     \* _HEARTBEAT_SEC in intervals
  None

ASSUME BoundAssumption == MaxToys \in Nat \ {0} /\ MaxOdd \in Nat /\ Heartbeat \in Nat \ {0}
ASSUME IdAssumption == (\A v \in Viewers : Id(v) \in Ids) /\ Viewers \subseteq Nat /\ None \notin Viewers

VARIABLES
  toys,          \* the toy list of the backend
  caches,        \* one ToyCache per configuration: value, whether within the ttl, lock queue
  cur,           \* runtime.toys
  fails, asks,   \* reads that raised or timed out, refresh messages
  rows,          \* _clients: who is registered under an id
  pc, open,      \* per socket: where its handler is, whether the client is there
  force, closed, \* the events its reader sets
  fresh,         \* wanted_fresh
  gen,           \* the cache it reads
  got,           \* the toy list it was handed
  snap, last,    \* the state it built, and the fingerprint it has sent
  woken, idle,   \* the event it waits for, idle_for in intervals
  floor          \* the toy list when it took up a refresh; 0 once a read has failed

cacheVars == <<toys, caches, cur, fails>>
linkVars  == <<rows, open, closed>>
workVars  == <<fresh, gen, got, snap, last, floor>>
vars == <<cacheVars, linkVars, workVars, asks, pc, force, woken, idle>>

Gens  == 0 .. MaxOdd
MoreOdd == fails + asks + cur < MaxOdd
Empty == 0
NoCache == [value |-> None, young |-> FALSE, queue |-> <<>>]
Caches == [value : 0 .. MaxToys \cup {None}, young : BOOLEAN, queue : Seq(Viewers)]
States == [toys : 0 .. MaxToys, ids : SUBSET Ids]

Places == {"new", "replacing", "hello", "loop", "queue", "ask", "answer", "send", "beat",
           "wait", "closing", "ended", "lost"}

Init ==
  /\ toys = 1 /\ cur = 0 /\ fails = 0 /\ asks = 0
  /\ caches = [g \in Gens |-> NoCache]
  /\ rows   = [i \in Ids |-> None]
  /\ pc     = [v \in Viewers |-> "new"]
  /\ open   = [v \in Viewers |-> TRUE]
  /\ force  = [v \in Viewers |-> FALSE]
  /\ closed = [v \in Viewers |-> FALSE]
  /\ fresh  = [v \in Viewers |-> FALSE]
  /\ gen    = [v \in Viewers |-> 0]
  /\ got    = [v \in Viewers |-> Empty]
  /\ snap   = [v \in Viewers |-> None]
  /\ last   = [v \in Viewers |-> None]
  /\ woken  = [v \in Viewers |-> FALSE]
  /\ idle   = [v \in Viewers |-> 0]
  /\ floor  = [v \in Viewers |-> 0]

Waiting   == {v \in Viewers : pc[v] = "wait"}
Listed    == {i \in Ids : rows[i] # None}
BumpNone  == woken                               \* fault: nobody is woken
\* bump(): the event is replaced, so it wakes those that wait and nobody else.
Bump      == [v \in Viewers |-> woken[v] \/ v \in Waiting]

-----------------------------------------------------------------------------
(* Connecting: PresenceHub.connect, then the hello frame *)

Register(v) ==
  /\ rows' = [rows EXCEPT ![Id(v)] = v]
  /\ woken' = Bump
  /\ pc' = [pc EXCEPT ![v] = "hello"]

\* A row of another socket under this id: that socket is closed before the row is taken.
Connect(v) ==
  LET p == rows[Id(v)] IN
  /\ pc[v] = "new" /\ \A w \in Viewers : w < v => pc[w] # "new"
  /\ \/ p = None /\ Register(v) /\ UNCHANGED open
     \/ p # None /\ pc' = [pc EXCEPT ![v] = "replacing"]
        /\ open' = [open EXCEPT ![p] = FALSE] /\ UNCHANGED <<rows, woken>>
  /\ UNCHANGED <<cacheVars, closed, workVars, asks, force, idle>>

Replace(v) ==
  /\ pc[v] = "replacing" /\ Register(v)
  /\ UNCHANGED <<cacheVars, open, closed, workVars, asks, force, idle>>

\* The hello frame is sent before the `try`: when it raises, no clean-up runs.
Hello(v) ==
  /\ pc[v] = "hello"
  /\ \/ pc' = [pc EXCEPT ![v] = "loop"]
     \/ ~open[v] /\ pc' = [pc EXCEPT ![v] = "lost"]
  /\ UNCHANGED <<cacheVars, linkVars, workVars, asks, force, woken, idle>>

-----------------------------------------------------------------------------
(* The reader of a socket: _read_commands *)

Reading(v) == pc[v] \notin {"new", "replacing", "closing", "ended", "lost"} /\ ~closed[v]

Refresh(v) ==
  /\ Reading(v) /\ open[v] /\ MoreOdd
  /\ asks' = asks + 1
  /\ force' = [force EXCEPT ![v] = TRUE]
  /\ UNCHANGED <<cacheVars, linkVars, workVars, pc, woken, idle>>

ReadEnds(v) ==
  /\ Reading(v) /\ ~open[v]
  /\ closed' = [closed EXCEPT ![v] = TRUE]
  /\ UNCHANGED <<cacheVars, rows, open, workVars, asks, pc, force, woken, idle>>

Leave(v) ==
  /\ open[v] /\ pc[v] \notin {"new", "closing", "ended"}
  /\ open' = [open EXCEPT ![v] = FALSE]
  /\ UNCHANGED <<cacheVars, rows, closed, workVars, asks, pc, force, woken, idle>>

-----------------------------------------------------------------------------
(* The writer: ToyCache.get inside build_state, then a frame and the wait *)

YoungForEver(c) == c.value # None                \* fault: the ttl is forgotten
IsYoung(c)      == c.value # None /\ c.young     \* _fresh()
SameFrame(v, s) == last[v] = s /\ ~fresh'[v]

\* The state is built around the toy list that was handed over, at once and atomically.
Built(v, list) ==
  LET s == [toys |-> list, ids |-> Listed] IN
  /\ got' = [got EXCEPT ![v] = Empty] /\ gen' = [gen EXCEPT ![v] = 0]
  /\ \/ ~SameFrame(v, s)
        /\ pc' = [pc EXCEPT ![v] = "send"] /\ snap' = [snap EXCEPT ![v] = s]
     \/ SameFrame(v, s)
        /\ pc' = [pc EXCEPT ![v] = IF idle[v] >= Heartbeat THEN "beat" ELSE "wait"]
        /\ UNCHANGED snap

ServedAny(c, forced) == IsYoung(c)               \* fault: a refresh is served from the cache
Served(c, forced)    == IsYoung(c) /\ ~forced

TakeUpCleared(v) ==                              \* fault: cleared before it is looked at
  /\ fresh' = [fresh EXCEPT ![v] = FALSE]
  /\ force' = [force EXCEPT ![v] = FALSE] /\ UNCHANGED floor
\* The top of the loop: the refresh is taken up and cleared before anything is read.
TakeUp(v) ==
  /\ fresh' = [fresh EXCEPT ![v] = force[v]]
  /\ force' = [force EXCEPT ![v] = FALSE]
  /\ floor' = [floor EXCEPT ![v] = IF force[v] THEN toys ELSE 0]

Build(v) ==
  LET c == caches[cur] IN
  /\ pc[v] = "loop" /\ ~closed[v]
  /\ TakeUp(v)
  /\ \/ Served(c, force[v]) /\ Built(v, c.value) /\ UNCHANGED caches
     \/ /\ ~Served(c, force[v])
        /\ gen' = [gen EXCEPT ![v] = cur]
        /\ caches' = [caches EXCEPT ![cur].queue = Append(@, v)]
        /\ pc' = [pc EXCEPT ![v] = "queue"]
        /\ UNCHANGED <<got, snap>>
  /\ UNCHANGED <<toys, cur, fails, linkVars, last, asks, woken, idle>>

HoldsAny(v) == TRUE                              \* fault: get() without the lock
Holds(v)    == HeldBy(caches[gen[v]].queue, v)

LeftBehind(v, c) == c                            \* fault: the lock is not released
\* The lock is released; nobody will look at a replaced cache that nobody waits for.
Left(v, c) == IF gen[v] # cur /\ Len(c.queue) = 1 THEN NoCache
              ELSE [c EXCEPT !.queue = Tail(@)]

\* Under the lock, the second look; then get_toys is called, or the list handed over.
Enter(v) ==
  LET c == caches[gen[v]] IN
  /\ pc[v] = "queue" /\ Holds(v)
  /\ \/ Served(c, fresh[v])
        /\ fresh' = fresh /\ Built(v, c.value)
        /\ caches' = [caches EXCEPT ![gen[v]] = Left(v, @)]
     \/ ~Served(c, fresh[v])
        /\ pc' = [pc EXCEPT ![v] = "ask"]
        /\ UNCHANGED <<caches, fresh, gen, got, snap>>
  /\ UNCHANGED <<toys, cur, fails, linkVars, last, floor, asks, force, woken, idle>>

\* The backend reads its toys at some moment of the call.
Asked(v) ==
  /\ pc[v] = "ask"
  /\ pc' = [pc EXCEPT ![v] = "answer"]
  /\ got' = [got EXCEPT ![v] = toys]
  /\ UNCHANGED <<cacheVars, linkVars, fresh, gen, snap, last, floor, asks, force, woken, idle>>

\* The answer is kept and handed over, and the lock released.
Keep(v, list) ==
  /\ caches' = [caches EXCEPT ![gen[v]] = Left(v, [@ EXCEPT !.value = list, !.young = TRUE])]
  /\ fresh' = fresh /\ Built(v, list)

Answer(v) ==
  /\ pc[v] = "answer"
  /\ Keep(v, got[v])
  /\ UNCHANGED <<toys, cur, fails, linkVars, last, floor, asks, force, woken, idle>>

\* get_toys raises or times out: the last list, or an empty one, is as young as an answer.
AskFails(v) ==
  LET c == caches[gen[v]] IN
  /\ pc[v] \in {"ask", "answer"} /\ MoreOdd
  /\ fails' = fails + 1
  /\ Keep(v, IF c.value = None THEN Empty ELSE c.value)
  /\ floor' = [floor EXCEPT ![v] = 0]
  /\ UNCHANGED <<toys, cur, linkVars, last, asks, force, woken, idle>>

\* A frame is sent: the state (send) or a heartbeat (beat); then the wait begins.
Send(v) ==
  /\ pc[v] \in {"send", "beat"}
  /\ pc' = [pc EXCEPT ![v] = "wait"]
  /\ idle' = [idle EXCEPT ![v] = 0]
  /\ last' = [last EXCEPT ![v] = IF pc[v] = "send" THEN snap[v] ELSE @]
  /\ snap' = [snap EXCEPT ![v] = None]
  /\ fresh' = [fresh EXCEPT ![v] = FALSE] /\ floor' = [floor EXCEPT ![v] = 0]
  /\ UNCHANGED <<cacheVars, linkVars, gen, got, asks, force, woken>>

SendFails(v) ==
  /\ pc[v] \in {"send", "beat"} /\ ~open[v]
  /\ pc' = [pc EXCEPT ![v] = "closing"]
  /\ UNCHANGED <<cacheVars, linkVars, workVars, asks, force, woken, idle>>

IdledNot(i, changed) == 0                        \* fault: a silent interval is not counted
Idled(i, changed)    == IF changed THEN 0 ELSE Min({i + 1, Heartbeat})

Wake(v) ==
  /\ pc[v] = "wait" /\ woken[v]
  /\ pc' = [pc EXCEPT ![v] = "loop"]
  /\ idle' = [idle EXCEPT ![v] = Idled(@, TRUE)]
  /\ woken' = [woken EXCEPT ![v] = FALSE]
  /\ UNCHANGED <<cacheVars, linkVars, workVars, asks, force>>

Timeout(v) ==
  /\ pc[v] = "wait" /\ ~woken[v]
  /\ pc' = [pc EXCEPT ![v] = "loop"]
  /\ idle' = [idle EXCEPT ![v] = Idled(@, FALSE)]
  /\ UNCHANGED <<cacheVars, linkVars, workVars, asks, force, woken>>

LoopEnds(v) ==
  /\ pc[v] = "loop" /\ closed[v]
  /\ pc' = [pc EXCEPT ![v] = "closing"]
  /\ UNCHANGED <<cacheVars, linkVars, workVars, asks, force, woken, idle>>

DisconnectNone(v) == rows                           \* fault: the row stays
DisconnectAny(v) == [rows EXCEPT ![Id(v)] = None]   \* fault: whoever is listed leaves
Disconnect(v)    == [rows EXCEPT ![Id(v)] = IF @ = v THEN None ELSE @]

\* The `finally` of the handler.
Finish(v) ==
  /\ pc[v] = "closing"
  /\ pc' = [pc EXCEPT ![v] = "ended"]
  /\ open' = [open EXCEPT ![v] = FALSE]
  /\ rows' = Disconnect(v)
  /\ woken' = IF rows' = rows THEN woken ELSE Bump
  /\ fresh' = [fresh EXCEPT ![v] = FALSE] /\ force' = [force EXCEPT ![v] = FALSE]
  /\ snap' = [snap EXCEPT ![v] = None] /\ last' = [last EXCEPT ![v] = None]
  /\ floor' = [floor EXCEPT ![v] = 0] /\ idle' = [idle EXCEPT ![v] = 0]
  /\ UNCHANGED <<cacheVars, closed, gen, got, asks>>

-----------------------------------------------------------------------------
(* The rest of the service *)

\* The backend's toys change; the BLE routes invalidate the cache, a LAN app tells nobody.
ToysChange ==
  /\ toys < MaxToys /\ toys' = toys + 1
  /\ \/ caches' = [caches EXCEPT ![cur] = [NoCache EXCEPT !.queue = caches[cur].queue]]
     \/ UNCHANGED caches
  /\ UNCHANGED <<cur, fails, linkVars, workVars, asks, pc, force, woken, idle>>

Ages(g) ==
  /\ caches[g].young
  /\ caches' = [caches EXCEPT ![g].young = FALSE]
  /\ UNCHANGED <<toys, cur, fails, linkVars, workVars, asks, pc, force, woken, idle>>

\* Any of the callers of bump(), whether or not /state is different: commands, links, the
\* presence messages and the activity of viewers.
Bumped ==
  /\ woken' = Bump /\ woken' # woken
  /\ UNCHANGED <<cacheVars, linkVars, workVars, asks, pc, force, idle>>

\* apply_config puts a new cache in place and bumps once its awaits are over.
Swap ==
  /\ MoreOdd /\ cur' = cur + 1
  /\ caches' = IF caches[cur].queue = <<>> THEN [caches EXCEPT ![cur] = NoCache] ELSE caches
  /\ UNCHANGED <<toys, fails, linkVars, workVars, asks, pc, force, woken, idle>>

Handler(v) ==
  \/ Replace(v) \/ Hello(v) \/ ReadEnds(v) \/ Build(v) \/ Enter(v) \/ Asked(v) \/ Answer(v)
  \/ Send(v) \/ Wake(v) \/ Timeout(v) \/ LoopEnds(v) \/ Finish(v)

Next ==
  \/ ToysChange \/ Bumped \/ Swap \/ \E g \in Gens : Ages(g)
  \/ \E v \in Viewers : \/ Handler(v) \/ Connect(v) \/ Refresh(v) \/ Leave(v)
                        \/ AskFails(v) \/ SendFails(v)

Spec == Init /\ [][Next]_vars

\* The loop runs what is ready and time passes; reads end within their timeout.
FairSpec ==
  /\ Spec
  /\ WF_vars(\E g \in Gens : Ages(g))
  /\ \A v \in Viewers : WF_vars(Handler(v)) /\ WF_vars(ReadEnds(v))

-----------------------------------------------------------------------------
(* Properties *)

\* Every variable has its type (presence.py:45-69, toy_cache.py:22-28).
TypeOK ==
  /\ toys \in 1 .. MaxToys /\ cur \in Gens /\ fails \in Gens /\ asks \in Gens
  /\ caches \in [Gens -> Caches] /\ \A g \in Gens : IsInjective(caches[g].queue)
  /\ rows \in [Ids -> Viewers \cup {None}] /\ open \in [Viewers -> BOOLEAN]
  /\ pc \in [Viewers -> Places]
  /\ force \in [Viewers -> BOOLEAN] /\ closed \in [Viewers -> BOOLEAN]
  /\ fresh \in [Viewers -> BOOLEAN] /\ woken \in [Viewers -> BOOLEAN]
  /\ gen \in [Viewers -> Gens] /\ got \in [Viewers -> 0 .. MaxToys]
  /\ snap \in [Viewers -> States \cup {None}] /\ last \in [Viewers -> States \cup {None}]
  /\ idle \in [Viewers -> 0 .. Heartbeat] /\ floor \in [Viewers -> 0 .. MaxToys]

\* A frame that answers a refresh shows a toy list no older than the moment the refresh was
\* taken up, however many readers the cache serves meanwhile; only a failed read excuses it
\* (events.py:182-189, toy_cache.py:54-71).
RefreshIsFresh ==
  \A v \in Viewers : pc[v] = "send" /\ fresh[v] => snap[v].toys >= floor[v]

\* As long as one cache serves, a viewer is never shown an older toy list than before,
\* except the empty one that a failed read leaves after an invalidation (toy_cache.py:57-71).
NeverBack ==
  [][\A v \in Viewers : cur = 0 /\ None \notin {last[v], last'[v]} =>
       last'[v].toys >= last[v].toys \/ last'[v].toys = Empty]_vars

\* A row changes only when its own socket is done or another one registers: the handler of a
\* replaced socket, which ends later, takes nobody's row (presence.py:106-121).
RowIsOwn ==
  [][\A i \in Ids : rows'[i] # rows[i] =>
       \/ rows'[i] # None /\ pc'[rows'[i]] = "hello" /\ pc[rows'[i]] # "hello"
       \/ rows'[i] = None /\ pc[rows[i]] = "closing"]_vars

Watching(v) == open[v] /\ pc[v] \notin {"new", "replacing", "hello", "lost", "ended"}

\* A viewer that stays connected is finally shown the last state, although a change between
\* building a state and waiting wakes nobody (events.py:186-197, runtime.py:102-115).
Settles ==
  \A v \in Viewers : <>[]Watching(v) => <>[](last[v] = [toys |-> toys, ids |-> Listed])

\* A refresh is never lost: it is answered by a frame of its own (events.py:97, 182-191).
RefreshAnswered ==
  \A v \in Viewers : force[v] ~> (pc[v] = "send" /\ fresh[v]) \/ ~open[v]

\* The row of a client that has gone disappears, although nothing wakes its handler, unless
\* the hello frame had failed (events.py:181, 202-208).
GoneLeaves ==
  \A v \in Viewers : ~open[v] ~> rows[Id(v)] # v \/ pc[v] = "lost"

\* A connected viewer keeps receiving frames, or keeps being woken (events.py:192-197).
BeatsOrWakes ==
  \A v \in Viewers : <>[]Watching(v) =>
    []<><<Send(v)>>_vars \/ []<><<woken'[v] /\ ~woken[v]>>_vars

\* Known not to hold: an idle stream has a heartbeat (events.py:37, 192-194).
Beats == \A v \in Viewers : <>[]Watching(v) => []<><<Send(v)>>_vars

\* Known not to hold: the table lists open sockets only (presence.py:65).
ListedIsOpen == \A i \in Ids : rows[i] # None => pc[rows[i]] \notin {"ended", "lost"}

\* Known not to hold: a registered socket stays listed while it is open (presence.py:65).
WatchingIsListed == \A v \in Viewers : Watching(v) /\ ~closed[v] => rows[Id(v)] # None
=============================================================================
