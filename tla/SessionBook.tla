------------------------------ MODULE SessionBook ------------------------------
(***************************************************************************)
(* What GET /tasks promises of a preset or pattern session: it is opened   *)
(* once, its end only moves away, and it is gone only when that end has    *)
(* passed, unless somebody is taking sessions away (a stop, a command that *)
(* replaces them, a shutdown).  Nothing opens after the shutdown.          *)
(***************************************************************************)
EXTENDS Integers

CONSTANTS Sessions, Clients
VARIABLES
  now,      \* the clock
  end,      \* the end of a session that was opened
  state,    \* "new", "open" or "gone"
  takers,   \* clients that are taking sessions away
  shut      \* the scheduler is closed

bookVars == <<now, end, state, takers, shut>>

Init ==
  /\ now = 0 /\ takers = {} /\ shut = FALSE
  /\ end   = [s \in Sessions |-> 0]
  /\ state = [s \in Sessions |-> "new"]

Tick == now' = now + 1 /\ UNCHANGED <<end, state, takers, shut>>

Open(s) ==
  /\ ~shut /\ state[s] = "new"
  /\ state' = [state EXCEPT ![s] = "open"]
  /\ end'[s] > now /\ end' = [end EXCEPT ![s] = end'[s]]
  /\ UNCHANGED <<now, takers, shut>>

\* The end of an open session moves; a late extension of one that is gone shows nowhere.
Renew(s) ==
  /\ state[s] = "open" /\ end'[s] >= end[s]
  /\ end' = [end EXCEPT ![s] = end'[s]]
  /\ UNCHANGED <<now, state, takers, shut>>

Expire(s) ==
  /\ state[s] = "open" /\ end[s] <= now
  /\ state' = [state EXCEPT ![s] = "gone"]
  /\ UNCHANGED <<now, end, takers, shut>>

\* Clients come and go; the sessions that go meanwhile are those they take.
Take ==
  /\ \E S \in SUBSET {s \in Sessions : state[s] = "open"} :
       /\ state' = [s \in Sessions |-> IF s \in S THEN "gone" ELSE state[s]]
       /\ S # {} => takers \cup takers' # {}
  /\ takers' \subseteq Clients
  /\ shut => shut'
  /\ UNCHANGED <<now, end>>

Next == Tick \/ Take \/ \E s \in Sessions : Open(s) \/ Renew(s) \/ Expire(s)
Spec == Init /\ [][Next]_bookVars
=============================================================================
