------------------------------ MODULE PlaySessions ------------------------------
(***************************************************************************)
(* Preset, pattern and function_loop sessions: the preset, pattern and     *)
(* stop handlers of routes/commands.py over the session half of            *)
(* scheduler.py.                                                           *)
(*                                                                         *)
(* A step is the code between two awaits that suspend (a backend call,     *)
(* `await task` after a cancel, the sleep of a waiter); `_state_lock` is   *)
(* never held across one.  A request opens at most one session and starts  *)
(* at most one waiter (_run_session_until), so the request names both.     *)
(* Presets have one name here and patterns one signature.                  *)
(* The motor slots are ControlScheduler's: cancelling them only delays the *)
(* backend call that follows, and a call lands after any delay here.       *)
(***************************************************************************)
EXTENDS Integers

CONSTANTS
  Toys,          \* toy ids
  AllToys,       \* toy_id None: every toy
  Reqs,          \* HTTP requests, numbered as they arrive
  Jobs,          \* what a request may ask
  SessionMax,    \* session_max_sec
  MaxNow,        \* where the clock stops
  MaxFail,       \* how many backend calls may raise
  None

Never   == 0                              \* the toy does not play
Forever == 2 * (MaxNow + SessionMax) + 1  \* time=0: until it is stopped
PlayOps == {"preset", "pattern", "loop"}
StopOps == {"stopToy", "stopAll"}
Job == [op : PlayOps \cup StopOps \cup {"shutdown"}, toy : Toys \cup {AllToys}, time : Nat]

ASSUME BoundAssumption == SessionMax \in Nat \ {0} /\ MaxNow \in Nat /\ MaxFail \in Nat
ASSUME ReqAssumption == Reqs \subseteq Nat
ASSUME JobAssumption == Jobs \subseteq Job /\ None \notin Reqs /\ None \notin Jobs /\ AllToys \notin Toys

VARIABLES
  now,           \* time.monotonic()
  closed,        \* _closed
  row, ends,     \* _meta: "new", "open" or "gone", and ends_mono
  waiter,        \* _session_tasks: the waiter registered for a session
  wpc, of, wakes, \* per waiter: where it is, its session, the end it sleeps until
  until,         \* when the toy stops by itself
  fails,         \* backend calls that have raised
  job, pc,       \* per request: what it asks, where it is
  cur,           \* the session it extends
  todo, waits,   \* sessions left to cancel, waiters it awaits
  met            \* history: the requests under way with it at some moment

waiterVars == <<wpc, of, wakes>>
reqVars    == <<job, pc, cur, todo, waits, met>>
bookVars   == <<closed, row, ends, waiter>>
vars == <<now, bookVars, waiterVars, until, fails, reqVars>>

Init ==
  /\ now = 0 /\ closed = FALSE /\ fails = 0
  /\ row    = [s \in Reqs |-> "new"]
  /\ ends   = [s \in Reqs |-> 0]
  /\ waiter = [s \in Reqs |-> None]
  /\ wpc    = [w \in Reqs |-> "none"]
  /\ of     = [w \in Reqs |-> w]
  /\ wakes  = [w \in Reqs |-> 0]
  /\ until  = [t \in Toys |-> Never]
  /\ job    = [r \in Reqs |-> None]
  /\ pc     = [r \in Reqs |-> "idle"]
  /\ cur    = [r \in Reqs |-> None]
  /\ todo   = [r \in Reqs |-> {}]
  /\ waits  = [r \in Reqs |-> {}]
  /\ met    = [r \in Reqs |-> {}]

InFlight(r)  == pc[r] \notin {"idle", "done", "failed"}
Open(s)      == row[s] = "open"
Ended(ws)    == \A w \in ws : wpc[w] = "done"
Live(w)      == wpc[w] \in {"ready", "sleeping", "cancelled", "dropped"}
Targets(j)   == IF j.toy = AllToys THEN Toys ELSE {j.toy}
EffectiveLeft(j) == j.time - SessionMax           \* fault: time left is mistaken for time asked
Effective(j) == IF j.time = 0 THEN SessionMax ELSE j.time

\* task.cancel(): one that has not run yet never reaches its try block.
CancelledOf(ws) ==
  [w \in Reqs |-> IF w \in ws /\ wpc[w] = "ready" THEN "dropped"
                  ELSE IF w \in ws /\ wpc[w] = "sleeping" THEN "cancelled" ELSE wpc[w]]

-----------------------------------------------------------------------------
(* Taking sessions away *)

Everywhere(j) == j.op = "stopAll" \/ (j.op # "stopToy" /\ j.toy = AllToys)

\* The ids cancel_all_sessions or cancel_sessions_for_toy lists.
Listed(j) == {s \in Reqs : IF Everywhere(j) THEN waiter[s] # None
                           ELSE Open(s) /\ job[s].toy = j.toy}

ForgetNothing(gone) == row                       \* fault: the row of a cancelled session stays
Forget(gone) == [s \in Reqs |-> IF s \in gone /\ Open(s) THEN "gone" ELSE row[s]]

\* Whose rows go: those of one toy as the loop passes them, all of them at its end.
GoneWaited(j, free, last, end) ==                \* fault: a row whose task was popped is passed over
  IF ~Everywhere(j) THEN last ELSE IF end THEN Reqs ELSE {}
Gone(j, free, last, end) ==
  IF ~Everywhere(j) THEN last \cup free ELSE IF end THEN Reqs ELSE {}

\* The loop over the ids, up to its next `await task` or to the call that follows it.
Clear(r, j, ids, last) ==
  LET left == {s \in ids : waiter[s] # None}
  IN  /\ row' = Forget(Gone(j, ids \ left, last, left = {}))
      /\ IF left = {}
         THEN /\ pc' = [pc EXCEPT ![r] = "send"]
              /\ waits' = [waits EXCEPT ![r] = {}] /\ todo' = [todo EXCEPT ![r] = {}]
              /\ UNCHANGED <<waiter, wpc>>
         ELSE \E s \in left :
                /\ waiter' = [waiter EXCEPT ![s] = None]
                /\ wpc'    = CancelledOf({waiter[s]})
                /\ waits'  = [waits EXCEPT ![r] = {waiter[s]}]
                /\ todo'   = [todo EXCEPT ![r] = left \ {s}]
                /\ pc'     = [pc EXCEPT ![r] = "clear"]

ClearNext(r) ==
  /\ pc[r] = "clear" /\ Ended(waits[r])
  /\ Clear(r, job[r], todo[r], {of[w] : w \in waits[r]})
  /\ UNCHANGED <<now, closed, ends, of, wakes, until, fails, job, cur, met>>

-----------------------------------------------------------------------------
(* Requests *)

\* find_matching_preset_session and find_matching_pattern_session
Matching(j) == {s \in Reqs : /\ Open(s) /\ j.op \in {"preset", "pattern"}
                             /\ job[s].op = j.op /\ job[s].toy = j.toy
                             /\ waiter[s] # None /\ Live(waiter[s])}

Arrive(r, j) ==
  /\ pc[r] = "idle" /\ \A q \in Reqs : q < r => pc[q] # "idle"
  /\ job' = [job EXCEPT ![r] = j]
  /\ met' = [q \in Reqs |-> IF q = r THEN {o \in Reqs : InFlight(o)}
                            ELSE IF InFlight(q) THEN met[q] \cup {r} ELSE met[q]]

\* get_scheduler answers 503 once the scheduler is closed.
Refuse(r) ==
  /\ closed
  /\ \E j \in Jobs : j.op # "shutdown" /\ Arrive(r, j)
  /\ pc' = [pc EXCEPT ![r] = "failed"]
  /\ UNCHANGED <<now, bookVars, waiterVars, until, fails, cur, todo, waits>>

Extend(r) ==
  /\ ~closed
  /\ \E j \in Jobs : /\ Arrive(r, j)
                     /\ \E s \in Matching(j) : cur' = [cur EXCEPT ![r] = s]
  /\ pc' = [pc EXCEPT ![r] = "resend"]
  /\ UNCHANGED <<now, bookVars, waiterVars, until, fails, todo, waits>>

Takes(r, op) ==
  /\ ~closed
  /\ \E j \in Jobs : /\ j.op = op /\ Matching(j) = {}
                     /\ Arrive(r, j) /\ Clear(r, j, Listed(j), {})
  /\ UNCHANGED <<now, closed, ends, of, wakes, until, fails, cur>>

\* What each handler does first, with no session to extend.
PresetCommand(r)  == Takes(r, "preset")
PatternCommand(r) == Takes(r, "pattern")
FunctionLoop(r)   == Takes(r, "loop")
StopAll(r)        == Takes(r, "stopAll")
StopToy(r)        == Takes(r, "stopToy")

\* The backend call: the toy obeys before the answer is read.
Lands(r) ==
  LET j == job[r]
      t == IF pc[r] = "resend" THEN Effective(j) ELSE j.time
      e == IF j.op \in StopOps THEN Never ELSE IF t = 0 THEN Forever ELSE now + t
      ts == IF j.op = "stopAll" THEN Toys ELSE Targets(j)
  IN  /\ pc[r] \in {"send", "resend"}
      /\ until' = [x \in Toys |-> IF x \in ts THEN e ELSE until[x]]
      /\ pc' = [pc EXCEPT ![r] = IF @ = "send" THEN "sent" ELSE "resent"]
      /\ UNCHANGED <<now, bookVars, waiterVars, fails, job, cur, todo, waits, met>>

Fails(r) ==
  /\ pc[r] \in {"send", "resend"} /\ fails < MaxFail
  /\ fails' = fails + 1
  /\ pc' = [pc EXCEPT ![r] = "failed"]
  /\ UNCHANGED <<now, bookVars, waiterVars, until, job, cur, todo, waits, met>>

Stopped(r) ==
  /\ pc[r] = "sent" /\ job[r].op \in StopOps
  /\ pc' = [pc EXCEPT ![r] = "done"]
  /\ UNCHANGED <<now, bookVars, waiterVars, until, fails, job, cur, todo, waits, met>>

Watch(w, s) == wpc' = [CancelledOf({waiter[s]} \ {None}) EXCEPT ![w] = "ready"]
               /\ of' = [of EXCEPT ![w] = s] /\ waiter' = [waiter EXCEPT ![s] = w]

TrackAny(r)  == TRUE                             \* fault: _closed is not looked at again
TrackOpen(r) == ~closed

\* track_session; once the scheduler is closed the answer has no session.
Track(r) ==
  /\ pc[r] = "sent" /\ job[r].op \in PlayOps
  /\ pc' = [pc EXCEPT ![r] = "done"]
  /\ IF TrackOpen(r)
     THEN /\ row'  = [row EXCEPT ![r] = "open"]
          /\ ends' = [ends EXCEPT ![r] = now + Effective(job[r])]
          /\ Watch(r, r)
     ELSE UNCHANGED <<row, ends, waiter, wpc, of>>
  /\ UNCHANGED <<now, closed, wakes, until, fails, job, cur, todo, waits, met>>

Later(x, y) == IF x < y THEN y ELSE x

\* extend_session after the backend call: the meta it read may be gone by now.
RenewedCancels(r, s) ==                          \* fault: the old waiter stays registered
  /\ wpc' = CancelledOf({waiter[s]} \ {None}) /\ UNCHANGED <<of, waiter>>
Renewed(r, s) == Watch(r, s)

Resent(r) ==
  LET s == cur[r] IN
  /\ pc[r] = "resent"
  /\ ends' = [ends EXCEPT ![s] = IF Open(s) THEN Later(@, now + Effective(job[r])) ELSE @]
  /\ Renewed(r, s)
  /\ waits' = [waits EXCEPT ![r] = {waiter[s]} \ {None}]
  /\ pc' = [pc EXCEPT ![r] = "replacing"]
  /\ UNCHANGED <<now, closed, row, wakes, until, fails, job, cur, todo, met>>

Replaced(r) ==
  /\ pc[r] = "replacing" /\ Ended(waits[r])
  /\ pc' = [pc EXCEPT ![r] = "done"] /\ waits' = [waits EXCEPT ![r] = {}]
  /\ UNCHANGED <<now, bookVars, waiterVars, until, fails, job, cur, todo, met>>

Registered == {waiter[s] : s \in Reqs} \ {None}

Shutdown(r) ==
  /\ ~closed
  /\ \E j \in Jobs : j.op = "shutdown" /\ Arrive(r, j)
  /\ closed' = TRUE
  /\ wpc' = CancelledOf(Registered)
  /\ waits' = [waits EXCEPT ![r] = Registered]
  /\ pc' = [pc EXCEPT ![r] = "gather"]
  /\ UNCHANGED <<now, row, ends, waiter, of, wakes, until, fails, cur, todo>>

ShutDown(r) ==
  /\ pc[r] = "gather" /\ Ended(waits[r])
  /\ row' = Forget(Reqs)
  /\ waiter' = [s \in Reqs |-> None]
  /\ waits' = [waits EXCEPT ![r] = {}]
  /\ pc' = [pc EXCEPT ![r] = "done"]
  /\ UNCHANGED <<now, closed, ends, waiterVars, until, fails, job, cur, todo, met>>

-----------------------------------------------------------------------------
(* Waiters: _run_session_until *)

SleepOver(w) == wpc[w] = "ready" \/ (wpc[w] = "sleeping" /\ wakes[w] <= now)

Over(w) == ~Open(of[w]) \/ ends[of[w]] <= now

FinishAny(w) ==                                  \* fault: it does not look who is registered
  /\ wpc' = [wpc EXCEPT ![w] = "done"]
  /\ waiter' = [waiter EXCEPT ![of[w]] = None] /\ row' = Forget({of[w]})
Finish(w) ==
  /\ wpc' = [wpc EXCEPT ![w] = "done"]
  /\ IF waiter[of[w]] = w
     THEN /\ waiter' = [waiter EXCEPT ![of[w]] = None]
          /\ row' = Forget({of[w]})
     ELSE UNCHANGED <<waiter, row>>

Sleep(w) ==
  /\ SleepOver(w) /\ ~Over(w)
  /\ wpc' = [wpc EXCEPT ![w] = "sleeping"]
  /\ wakes' = [wakes EXCEPT ![w] = ends[of[w]]]
  /\ UNCHANGED <<now, bookVars, of, until, fails, reqVars>>

Expire(w) ==
  /\ SleepOver(w) /\ Over(w)
  /\ Finish(w)
  /\ UNCHANGED <<now, closed, ends, of, wakes, until, fails, reqVars>>

Cancelled(w) ==
  /\ \/ wpc[w] = "cancelled" /\ Finish(w)
     \/ wpc[w] = "dropped" /\ wpc' = [wpc EXCEPT ![w] = "done"] /\ UNCHANGED <<waiter, row>>
  /\ UNCHANGED <<now, closed, ends, of, wakes, until, fails, reqVars>>

Tick == now < MaxNow /\ now' = now + 1
        /\ UNCHANGED <<bookVars, waiterVars, until, fails, reqVars>>

Next ==
  \/ Tick
  \/ \E r \in Reqs :
       \/ Refuse(r) \/ Extend(r) \/ PresetCommand(r) \/ PatternCommand(r) \/ FunctionLoop(r)
       \/ StopAll(r) \/ StopToy(r) \/ ClearNext(r) \/ Lands(r) \/ Fails(r)
       \/ Stopped(r) \/ Track(r) \/ Resent(r) \/ Replaced(r) \/ Shutdown(r) \/ ShutDown(r)
       \/ Sleep(r) \/ Expire(r) \/ Cancelled(r)

Spec == Init /\ [][Next]_vars

-----------------------------------------------------------------------------
(* Properties *)

\* Every variable has its type (scheduler.py:21-31).
TypeOK ==
  /\ now \in 0 .. MaxNow /\ closed \in BOOLEAN /\ fails \in 0 .. MaxFail
  /\ row \in [Reqs -> {"new", "open", "gone"}]
  /\ ends \in [Reqs -> Nat] /\ wakes \in [Reqs -> Nat] /\ until \in [Toys -> Nat]
  /\ waiter \in [Reqs -> Reqs \cup {None}] /\ of \in [Reqs -> Reqs]
  /\ wpc \in [Reqs -> {"none", "ready", "sleeping", "cancelled", "dropped", "done"}]
  /\ job \in [Reqs -> Jobs \cup {None}] /\ cur \in [Reqs -> Reqs \cup {None}]
  /\ pc \in [Reqs -> {"idle", "clear", "send", "sent", "resend", "resent", "replacing",
                      "gather", "done", "failed"}]
  /\ todo \in [Reqs -> SUBSET Reqs] /\ waits \in [Reqs -> SUBSET Reqs]
  /\ met \in [Reqs -> SUBSET Reqs]

Taking(r) == pc[r] \in {"clear", "gather"}

\* A row of GET /tasks always has a live waiter that will end it, unless somebody is
\* taking sessions away: no interleaving of extensions, stops and expiries strands a
\* row, which would be shown, and extended, for ever (scheduler.py:141-162, 256-268).
RowWatched ==
  \A s \in Reqs : Open(s) =>
    \/ waiter[s] # None /\ of[waiter[s]] = s /\ Live(waiter[s])
    \/ \E r \in Reqs : Taking(r)

Answered(r) == pc[r] = "sent" /\ pc'[r] = "done"
Covers(j, s) == j.op = "stopAll" \/ job[s].toy = j.toy

\* What a stop leaves to the requests that were under way with it, extensions, plays and
\* other stops among them, and to nobody else: the rows it covers that are still in the
\* table were opened by one of them, a toy of its that plays obeys one of them, and after
\* stop_all a waiter that is not cancelled was started by one of them.  stop_toy covers
\* the sessions of that toy only, those of all toys stay (scheduler.py:91-139, 581-589).
StopTakes ==
  [][\A r \in Reqs : Answered(r) /\ job[r].op \in StopOps =>
       /\ \A s \in Reqs : row'[s] = "open" /\ Covers(job[r], s) => s \in met[r]
       /\ \A t \in (IF job[r].op = "stopAll" THEN Toys ELSE Targets(job[r])) :
            until'[t] # Never =>
              \E q \in met[r] : job[q].op \in PlayOps /\ t \in Targets(job[q])
       /\ \A w \in Reqs : job[r].op = "stopAll" /\ wpc'[w] \in {"ready", "sleeping"} =>
            w \in met[r]]_vars

Book == INSTANCE SessionBook WITH
  Sessions <- Reqs, Clients <- Reqs, end <- ends, state <- row, shut <- closed,
  takers <- {r \in Reqs : Taking(r)}

\* The table implements SessionBook: a session opens once and never after the shutdown,
\* its end only moves away, and it goes before that end only while somebody takes
\* sessions away; in particular a waiter that was replaced, or that slept until an older
\* end, never removes the row (scheduler.py:141-162, 256-268).
TableIsBook == Book!Spec

\* Known not to hold: an extension that met no other request extends a session that is in
\* the table (docs/tutorials/fastapi-lan-rest.en.md:101).
ExtendedIsListed ==
  [][\A r \in Reqs : pc[r] = "resent" /\ pc'[r] # "resent" /\ met[r] = {} => Open(cur[r])]_vars

\* Known not to hold: a row in the table is not of a toy that was silenced, once every
\* request was answered (routes/commands.py:58-113).
ListedIsPlaying ==
  \A s \in Reqs : (\A r \in Reqs : ~InFlight(r)) /\ Open(s) =>
    \E t \in Targets(job[s]) : until[t] # Never

\* Known not to hold: a toy that plays has a session, once every request was answered.
PlayingIsListed ==
  \A t \in Toys : (\A r \in Reqs : ~InFlight(r)) /\ until[t] > now =>
    \E s \in Reqs : Open(s) /\ t \in Targets(job[s])
=============================================================================
