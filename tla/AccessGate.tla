------------------------------ MODULE AccessGate ------------------------------
(***************************************************************************)
(* The access gate (access_gate.py): the host allows a visitor of the      *)
(* tunnel, or the visitor enters the code the host reads out.              *)
(*                                                                         *)
(* The gate's operations never await, so a request is served in one step,  *)
(* and its way to the service only delays it; what interleaves are the     *)
(* answers on their way to the visitors' pages (the script of _AUTH_PAGE), *)
(* the host, and the clock.  Times are kept as the half minutes left, so   *)
(* that the system can run for ever; a code and a session, which last much *)
(* longer, end at some moment.  What tells visitors from the LAN, cookies' *)
(* signatures and wording are left out.                                    *)
(***************************************************************************)
EXTENDS Integers, FiniteSets, FiniteSetsExt

CONSTANTS
  Visitors,      \* browser tabs outside
  Awake,         \* those whose browser is never suspended: they poll every 1.5 s
  Browser(_),    \* the browser of a tab: its fingerprint (address, user agent), its cookies
  Ids,           \* request ids; one is free again when nobody mentions it
  ApprovalTtl, GrantTtl, Keep, \* half minutes: of a request, of a grant, before a row is dropped
  MaxFailures,   \* MAX_VERIFY_FAILURES
  MaxOdd,        \* codes entered, rotations, reloads, retries and lost answers, together
  None

ASSUME TtlAssumption == {ApprovalTtl, GrantTtl, Keep, MaxFailures} \subseteq Nat \ {0}
ASSUME VisitorAssumption == Awake \subseteq Visitors /\ MaxOdd \in Nat /\ None \notin Ids

VARIABLES
  code,          \* _pending: whether there is one, whether it is in time, its failures
  rows,          \* _approvals
  pane, req,     \* per page: what it shows, its request id
  polled,        \* how often the page has polled in this half minute
  net,           \* per page: two answers on their way, one to a browser that may sleep
  cookie,        \* per browser: whether it holds a valid session
  lost, odd,     \* whether an answer was lost, all that counts for MaxOdd
  claimed,       \* history: requests that were turned into a session
  uses, wrong    \* history: sessions the last code made, wrong entries under it

gateVars == <<code, rows>>
pageVars == <<pane, req, polled>>
history  == <<claimed, uses, wrong>>
vars == <<gateVars, pageVars, net, cookie, lost, odd, history>>

Slots  == {1, 2}
Browsers == {Browser(v) : v \in Visitors}
NoRow  == [status |-> "none", print |-> None, left |-> 0, keep |-> 0]
NoCode == [there |-> FALSE, live |-> FALSE, failures |-> 0]
Msg(op, arg, answer) == [op |-> op, arg |-> arg, answer |-> answer]
Answers == {"pending", "denied", "expired", "approved", "refused"}

Init ==
  /\ code = NoCode
  /\ rows = [i \in Ids |-> NoRow]
  /\ pane = [v \in Visitors |-> "away"]
  /\ req = [v \in Visitors |-> None]
  /\ net = [v \in Visitors |-> [s \in Slots |-> None]]
  /\ polled = [v \in Visitors |-> 0]
  /\ cookie = [b \in Browsers |-> FALSE]
  /\ lost = FALSE /\ odd = 0 /\ claimed = {} /\ uses = 0 /\ wrong = 0

-----------------------------------------------------------------------------
(* The gate *)

CodeLive   == code.there /\ code.live
Waits(row) == row.status = "pending" /\ row.left > 0

\* _purge_approvals: overdue requests expire; what was decided, or expired, Keep ago goes.
GoneSoon(row) == row.status # "pending" \/ row.left <= -Keep   \* fault: whatever the age
Gone(row) ==
  \/ row.status \in {"approved", "denied"} /\ row.keep = 0
  \/ row.status \in {"pending", "expired"} /\ row.left <= -Keep
PurgedDecided(row) ==                \* fault: a request never expires
  IF row.status # "pending" /\ Gone(row) THEN NoRow ELSE row
Purged(row) == IF Gone(row) THEN NoRow
               ELSE IF row.status = "pending" /\ row.left <= 0 THEN [row EXCEPT !.status = "expired"]
               ELSE row
Kept == [i \in Ids |-> Purged(rows[i])]

InNet   == {i \in Ids : \E v \in Visitors, s \in Slots : net[v][s] # None /\ net[v][s].arg = i}
FreeIds == {i \in Ids : Kept[i] = NoRow} \ (InNet \cup {req[v] : v \in Visitors})

Odd == odd < MaxOdd /\ odd' = odd + 1

\* issue_challenge
NewCode(rotate) ==
  IF rotate \/ ~CodeLive
  THEN /\ code' = [there |-> TRUE, live |-> TRUE, failures |-> 0]
       /\ uses' = 0 /\ wrong' = 0
  ELSE UNCHANGED <<code, uses, wrong>>

Answer(v, op, arg, answer) ==
  \E s \in Slots : /\ net[v][s] = None /\ \A r \in Slots : r < s => net[v][r] # None
                   /\ s = 1 \/ v \in Awake
                   /\ net' = [net EXCEPT ![v][s] = Msg(op, arg, answer)]

SamePrintNone(row, v) == FALSE                        \* fault: every page asks anew
SamePrint(row, v)    == Waits(row) /\ row.print = Browser(v)

\* A request without a session, and GET /auth: there is a code to be read out.
FirstContact == NewCode(FALSE)

\* POST /auth/request: the page's own request, one of the same fingerprint, or a new one.
Ask(v, prior, load) ==
  LET own  == {i \in Ids : i = prior /\ Waits(Kept[i])}
      same == IF own # {} THEN own ELSE {i \in Ids : SamePrint(Kept[i], v)}
  IN  \/ /\ same # {}
         /\ \E i \in same : Answer(v, "ask", i, "pending")
         /\ IF load THEN FirstContact ELSE UNCHANGED <<code, uses, wrong>>
         /\ rows' = Kept /\ UNCHANGED claimed
      \/ /\ same = {} /\ NewCode(FALSE)
         /\ FreeIds # {}
         /\ LET i == CHOOSE i \in FreeIds : TRUE IN
              /\ rows' = [Kept EXCEPT ![i] = [status |-> "pending", print |-> Browser(v),
                                              left |-> ApprovalTtl, keep |-> 0]]
              /\ claimed' = claimed \ {i}
              /\ Answer(v, "ask", i, "pending")

ClaimedKeep(i) == [Kept EXCEPT ![i].keep = Keep]      \* fault: the row is not dropped
Claimed(i)     == [Kept EXCEPT ![i] = NoRow]

\* A request nobody knows has expired.
ApprovalStatus(i) == IF Kept[i].status = "none" THEN "expired" ELSE Kept[i].status

\* GET /auth/request/{id}: an approved one is claimed; no second poll comes in between.
Poll(v, i) ==
  /\ Answer(v, "poll", None, ApprovalStatus(i))
  /\ IF Kept[i].status = "approved"
     THEN rows' = Claimed(i) /\ claimed' = claimed \cup {i}
     ELSE rows' = Kept /\ UNCHANGED claimed
  /\ UNCHANGED <<code, uses, wrong>>

FailedLate(c) == IF c.failures >= MaxFailures THEN NoCode ELSE [c EXCEPT !.failures = @ + 1]  \* fault
FailedNot(c) == c                                     \* fault: failures are not counted
Failed(c)    == IF c.failures + 1 >= MaxFailures THEN NoCode ELSE [c EXCEPT !.failures = @ + 1]

Verify(v, right) ==
  \/ /\ ~CodeLive
     /\ Answer(v, "verify", None, "refused") /\ UNCHANGED <<gateVars, history>>
  \/ /\ CodeLive /\ ~right
     /\ code' = Failed(code)
     /\ wrong' = Min({wrong + 1, MaxFailures})
     /\ Answer(v, "verify", None, "refused") /\ UNCHANGED <<rows, claimed, uses>>
  \/ /\ CodeLive /\ right
     /\ code' = NoCode
     /\ rows' = [i \in Ids |-> IF rows[i].status = "pending" THEN NoRow ELSE rows[i]]
     /\ uses' = uses + 1
     /\ Answer(v, "verify", None, "approved") /\ UNCHANGED <<claimed, wrong>>

-----------------------------------------------------------------------------
(* The host and the clock *)

MayDecideAny(row) == row.status # "none"              \* fault: whatever was decided before
MayDecide(row)    == Waits(row)

Approve(i) ==
  /\ MayDecide(Kept[i])
  /\ rows' = [Kept EXCEPT ![i].status = "approved", ![i].keep = Keep,
                          ![i].left = Min({GrantTtl, ApprovalTtl})]
  /\ UNCHANGED <<code, pageVars, net, cookie, lost, odd, history>>

Deny(i) ==
  /\ MayDecide(Kept[i])
  /\ rows' = [Kept EXCEPT ![i].status = "denied", ![i].keep = Keep, ![i].left = Keep]
  /\ UNCHANGED <<code, pageVars, net, cookie, lost, odd, history>>

\* The panel's snapshot: status(), pending_approvals().
Look ==
  /\ Kept # rows /\ rows' = Kept
  /\ UNCHANGED <<code, pageVars, net, cookie, lost, odd, history>>

Rotate ==
  /\ Odd
  /\ NewCode(TRUE)
  /\ UNCHANGED <<rows, pageVars, net, cookie, lost, claimed>>

Polling(v) == pane[v] = "waiting"
InTime(v)  == /\ Polling(v) => polled[v] > 0
              /\ \A s \in Slots : net[v][s] = None

\* Half a minute.  A page that is awake has polled in it and has been answered.
Tick ==
  /\ \A v \in Awake : InTime(v)
  /\ rows' = [i \in Ids |-> IF rows[i] = NoRow THEN NoRow ELSE
               [rows[i] EXCEPT !.left = Max({@ - 1, -Keep}), !.keep = Max({@ - 1, 0})]]
  /\ code' \in {code, [code EXCEPT !.live = FALSE]}
  /\ polled' = [v \in Visitors |-> 0]
  /\ UNCHANGED <<pane, req, net, cookie, lost, odd, history>>

-----------------------------------------------------------------------------
(* The pages *)

\* A load, or a reload, of the page: it asks at once.
Open(v) ==
  /\ pane[v] = "away" /\ ~cookie[Browser(v)]
  /\ pane' = [pane EXCEPT ![v] = "asking"] /\ Ask(v, req[v], TRUE)
  /\ UNCHANGED <<req, polled, cookie, lost, odd>>

\* The tab is closed, or reloaded: what was on its way is not looked at.
Close(v) ==
  /\ Odd
  /\ pane[v] \notin {"away", "in"}
  /\ pane' = [pane EXCEPT ![v] = "away"]
  /\ net' = [net EXCEPT ![v] = [s \in Slots |-> None]]
  /\ UNCHANGED <<gateVars, req, polled, cookie, lost, history>>

PollOnce(v) ==
  /\ Polling(v) /\ polled[v] < IF v \in Awake THEN 2 ELSE 1
  /\ polled' = [polled EXCEPT ![v] = @ + 1] /\ Poll(v, req[v])
  /\ UNCHANGED <<pane, req, cookie, lost, odd>>

Retry(v) ==
  /\ Odd
  /\ \/ pane[v] \in {"denied", "expired"}
     \/ pane[v] = "asking" /\ \A s \in Slots : net[v][s] = None     \* unanswered
  /\ pane' = [pane EXCEPT ![v] = "asking"] /\ Ask(v, None, FALSE)
  /\ UNCHANGED <<req, polled, cookie, lost>>

EnterCode(v) ==
  /\ Odd
  /\ pane[v] \in {"waiting", "denied", "expired"}
  /\ \E right \in BOOLEAN : Verify(v, right)
  /\ UNCHANGED <<pageVars, cookie, lost>>

Shown(v, m) ==
  CASE m.answer = "approved" -> "in"
    [] m.op = "ask"          -> "waiting"
    [] m.answer \in {"denied", "expired"} -> m.answer
    [] OTHER                 -> pane[v]

\* An answer arrives; with a session the page goes on to the panel.
Hear(v, s) ==
  LET m == net[v][s]  next == Shown(v, m) IN
  /\ m # None
  /\ pane' = [pane EXCEPT ![v] = next]
  /\ cookie' = [cookie EXCEPT ![Browser(v)] = @ \/ next = "in"]
  /\ net' = IF next = "in" THEN [net EXCEPT ![v] = [r \in Slots |-> None]]
            ELSE [net EXCEPT ![v][s] = None]
  /\ req' = [req EXCEPT ![v] = IF m.op = "ask" THEN m.arg
                               ELSE IF m.answer \in {"pending", "refused"} THEN @ ELSE None]
  /\ UNCHANGED <<gateVars, polled, lost, odd, history>>

Lose(v, s) ==
  /\ net[v][s] # None /\ Odd
  /\ lost' = TRUE
  /\ net' = [net EXCEPT ![v][s] = None]
  /\ UNCHANGED <<gateVars, pageVars, cookie, history>>

\* The session ends: a week is over, or the service was restarted.
Lapse(b) ==
  /\ cookie[b]
  /\ cookie' = [cookie EXCEPT ![b] = FALSE]
  /\ pane' = [v \in Visitors |-> IF Browser(v) = b /\ pane[v] = "in" THEN "away" ELSE pane[v]]
  /\ UNCHANGED <<gateVars, req, polled, net, lost, odd, history>>

Next ==
  \/ Look \/ Rotate \/ Tick
  \/ \E b \in Browsers : Lapse(b)
  \/ \E i \in Ids : Approve(i) \/ Deny(i)
  \/ \E v \in Visitors : \/ Open(v) \/ Close(v) \/ PollOnce(v) \/ Retry(v)
                         \/ EnterCode(v)
                         \/ \E s \in Slots : Hear(v, s) \/ Lose(v, s)

Spec == Init /\ [][Next]_vars

\* Time passes, requests and answers arrive, and a page that is awake polls.
FairSpec ==
  /\ Spec /\ WF_vars(Tick)
  /\ \A v \in Visitors, s \in Slots : WF_vars(Hear(v, s))
  /\ \A v \in Awake : WF_vars(polled[v] = 0 /\ PollOnce(v))

-----------------------------------------------------------------------------
(* Properties *)

Rows == [status : {"none", "pending", "approved", "denied", "expired"},
         print : Browsers \cup {None}, left : -Keep .. Max({ApprovalTtl, Keep}),
         keep : 0 .. Keep]

Messages == [op : {"ask", "poll", "verify"}, arg : Ids \cup {None}, answer : Answers]

\* Every variable has its type (access_gate.py:144-181).
TypeOK ==
  /\ code \in [there : BOOLEAN, live : BOOLEAN, failures : 0 .. MaxFailures - 1]
  /\ rows \in [Ids -> Rows]
  /\ pane \in [Visitors -> {"away", "asking", "waiting", "denied", "expired", "in"}]
  /\ req \in [Visitors -> Ids \cup {None}]
  /\ net \in [Visitors -> [Slots -> Messages \cup {None}]]
  /\ polled \in [Visitors -> 0 .. 2] /\ cookie \in [Browsers -> BOOLEAN]
  /\ lost \in BOOLEAN /\ odd \in 0 .. MaxOdd /\ claimed \subseteq Ids
  /\ uses \in Nat /\ wrong \in 0 .. MaxFailures

\* The host is asked once for a visitor, however often its pages ask and reload
\* (access_gate.py:323-334).
AskedOnce ==
  \A i, j \in Ids : Waits(rows[i]) /\ Waits(rows[j]) /\ rows[i].print = rows[j].print => i = j

\* An approval makes one session, whatever the number of polls on their way
\* (access_gate.py:387-398, 954-969).
GrantOnce ==
  [][\A v \in Visitors, s \in Slots :
       net[v][s] = None /\ net'[v][s] # None /\ net'[v][s].op = "poll" /\ net'[v][s].answer = "approved"
       => req[v] \notin claimed /\ rows[req[v]].status = "approved"]_vars

\* What was decided, or has expired, is not decided again (access_gate.py:400-427).
DecisionStands ==
  [][\A i \in Ids : Kept[i].status \in {"approved", "denied", "expired"} =>
       rows'[i].status \in {rows[i].status, Kept[i].status, "none"}]_vars

\* A code opens one session, and none after MaxFailures wrong entries
\* (access_gate.py:280-302).
CodeOnce == CodeLive => uses = 0 /\ wrong < MaxFailures

\* A page that is awake does not wait for ever (access_gate.py:474-490, 729-741).
WaitingEnds == \A v \in Awake : pane[v] = "waiting" ~> pane[v] # "waiting"

\* A page that is awake and waits gets what the host allows: its grant is not dropped
\* before the page has claimed it (access_gate.py:406-410, 479-490, 1.5 s polls at 746).
GrantWaits ==
  [][\A v \in Awake, i \in Ids :
       pane[v] = "waiting" /\ req[v] = i /\ rows[i].status = "approved"
         => rows'[i].status # "none" \/ i \in claimed']_vars

\* Known not to hold: an approved grant is kept for GrantTtl (access_gate.py:409).
GrantKept ==
  [][\A i \in Ids : rows[i].status = "approved" /\ rows'[i].status = "none" =>
       i \in claimed' \/ rows[i].left <= 0]_vars

\* Known not to hold: a poll for a grant its browser has claimed is answered "approved"
\* (access_gate.py:958).
PollSucceeds ==
  [][\A v \in Visitors :
       (/\ req[v] \in claimed /\ rows[req[v]] = NoRow /\ cookie[Browser(v)]
        /\ polled'[v] = polled[v] + 1)
         => \E s \in Slots : net'[v][s] # None /\ net'[v][s].answer = "approved"]_vars
=============================================================================
