------------------------- MODULE PlaySessions_proof -------------------------
(***************************************************************************)
(* Theorems about PlaySessions, for every set of toys, requests and jobs   *)
(* and every bound: the table of sessions is never left with a row nobody  *)
(* will end, and it implements SessionBook.                                *)
(***************************************************************************)
EXTENDS PlaySessions, TLAPS

-----------------------------------------------------------------------------
(* The inductive invariant *)

Gathers  == \E r \in Reqs : pc[r] = "gather"
Bound(w) == pc[w] \in {"replacing", "done"}

\* a request that has not finished has opened no session; one under way has a job
Fresh ==
  \A r \in Reqs : /\ pc[r] # "done" => row[r] = "new"
                  /\ pc[r] \in {"clear", "send", "sent", "resend", "resent"} => job[r] \in Jobs
                  /\ pc[r] \in {"resend", "resent"} => cur[r] \in Reqs

\* a waiter is registered under its own session, by a request that is past that point
Keyed == \A s \in Reqs : waiter[s] # None => of[waiter[s]] = s /\ Bound(waiter[s])

\* what a request awaits was registered once
Awaited == \A r \in Reqs : \A w \in waits[r] : Bound(w)

\* a registered waiter is about to run or asleep, unless the scheduler is being shut down
Driven == \A s \in Reqs : waiter[s] # None =>
            wpc[waiter[s]] \in {"ready", "sleeping"} \/ Gathers

\* a row without a waiter is in the hands of a request that will remove it
Removing(r, s) == pc[r] = "clear" /\ (Everywhere(job[r]) \/ \E w \in waits[r] : of[w] = s)
InHand == \A s \in Reqs : Open(s) /\ waiter[s] = None =>
            Gathers \/ \E r \in Reqs : Removing(r, s)

IInv == TypeOK /\ Fresh /\ Keyed /\ Awaited /\ Driven /\ InHand

-----------------------------------------------------------------------------
(* The operators *)

Places == {"none", "ready", "sleeping", "cancelled", "dropped", "done"}

(* task.cancel() changes nobody but the waiters it is called for. *)
LEMMA CancelledOfFacts ==
  ASSUME TypeOK, NEW ws
  PROVE  /\ CancelledOf(ws) \in [Reqs -> Places]
         /\ \A w \in Reqs : w \notin ws => CancelledOf(ws)[w] = wpc[w]
  BY DEF CancelledOf, TypeOK, Places

(* Removing rows opens none and leaves those of other sessions. *)
LEMMA ForgetFacts ==
  ASSUME TypeOK, NEW gone
  PROVE  /\ Forget(gone) \in [Reqs -> {"new", "open", "gone"}]
         /\ \A s \in Reqs : Forget(gone)[s] = IF s \in gone /\ Open(s) THEN "gone" ELSE row[s]
  BY DEF Forget, TypeOK, Open

(* The duration of a job in the table is at least one. *)
LEMMA EffectiveFacts ==
  ASSUME NEW j \in Jobs
  PROVE  Effective(j) \in Nat /\ Effective(j) > 0
  BY JobAssumption, BoundAssumption DEF Effective, Job

(* What one turn of the loop over the sessions does. *)
LEMMA ClearFacts ==
  ASSUME IInv, NEW r \in Reqs, NEW j \in Jobs, NEW ids, NEW last,
         Clear(r, j, ids, last), ids \subseteq Reqs, last \subseteq Reqs, pc[r] \in {"idle", "clear"}
  PROVE  /\ row' \in [Reqs -> {"new", "open", "gone"}] /\ waiter' \in [Reqs -> Reqs \cup {None}]
         /\ wpc' \in [Reqs -> Places] /\ waits' \in [Reqs -> SUBSET Reqs]
         /\ todo' \in [Reqs -> SUBSET Reqs]
         /\ pc'[r] \in {"clear", "send"} /\ pc' = [pc EXCEPT ![r] = pc'[r]]
         /\ \A q \in Reqs : q # r => waits'[q] = waits[q]
         /\ \A w \in waits'[r] : w \in Reqs /\ Bound(w) /\ w # r
         /\ \A s \in Reqs : row'[s] # row[s] => row[s] = "open" /\ row'[s] = "gone"
         /\ \A s \in Reqs : waiter'[s] # None => waiter'[s] = waiter[s] /\ wpc'[waiter[s]] = wpc[waiter[s]]
         /\ \A s \in Reqs : waiter[s] # None /\ waiter'[s] = None =>
                              pc'[r] = "clear" /\ waits'[r] = {waiter[s]}
         /\ pc'[r] = "send" => /\ waiter' = waiter
                               /\ \A s \in Reqs : Everywhere(j) \/ s \in last => row'[s] # "open"
         /\ pc'[r] = "clear" /\ ~Everywhere(j) => \A s \in last : row'[s] # "open"
         /\ pc'[r] = "send" => /\ \A s \in ids : waiter[s] = None
                               /\ \A s \in Reqs : row'[s] # row[s] => Everywhere(j) \/ s \in last \cup ids
  <1> DEFINE left == {s \in ids : waiter[s] # None}
             gone == IF ~Everywhere(j) THEN last \cup (ids \ left)
                     ELSE IF left = {} THEN Reqs ELSE {}
  <1>1. /\ row' = Forget(gone) /\ row' \in [Reqs -> {"new", "open", "gone"}]
        /\ \A s \in Reqs : row'[s] = IF s \in gone /\ Open(s) THEN "gone" ELSE row[s]
    BY ForgetFacts DEF Clear, Gone, IInv
  <1>2. CASE left = {}
    <2>1. /\ pc' = [pc EXCEPT ![r] = "send"] /\ waiter' = waiter /\ wpc' = wpc
          /\ waits' = [waits EXCEPT ![r] = {}] /\ todo' = [todo EXCEPT ![r] = {}]
      BY <1>2 DEF Clear
    <2>2. \A s \in ids : waiter[s] = None
      BY <1>2
    <2>3. QED
      BY <1>1, <1>2, <2>1, <2>2 DEF IInv, TypeOK, Open, Places
  <1>3. CASE left # {}
    <2>1. PICK s \in left :
            /\ waiter' = [waiter EXCEPT ![s] = None] /\ wpc' = CancelledOf({waiter[s]})
            /\ waits' = [waits EXCEPT ![r] = {waiter[s]}]
            /\ todo' = [todo EXCEPT ![r] = left \ {s}] /\ pc' = [pc EXCEPT ![r] = "clear"]
      BY <1>3 DEF Clear
    <2>2. s \in Reqs /\ waiter[s] \in Reqs /\ of[waiter[s]] = s /\ Bound(waiter[s]) /\ waiter[s] # r
      BY <2>1 DEF IInv, TypeOK, Keyed, Bound
    <2>3. /\ wpc' \in [Reqs -> Places]
          /\ \A w \in Reqs : w # waiter[s] => wpc'[w] = wpc[w]
      BY <2>1, CancelledOfFacts DEF IInv
    <2>4. \A q \in Reqs : q # s /\ waiter[q] # None => waiter[q] \in Reqs /\ waiter[q] # waiter[s]
      BY <2>2 DEF IInv, TypeOK, Keyed
    <2>5. /\ waiter' \in [Reqs -> Reqs \cup {None}] /\ waits' \in [Reqs -> SUBSET Reqs]
          /\ todo' \in [Reqs -> SUBSET Reqs] /\ pc'[r] = "clear"
      BY <2>1, <2>2 DEF IInv, TypeOK
    <2>6. \A q \in Reqs : waiter'[q] # None =>
             waiter'[q] = waiter[q] /\ wpc'[waiter[q]] = wpc[waiter[q]]
      BY <2>1, <2>2, <2>3, <2>4 DEF IInv, TypeOK
    <2>7. /\ \A q \in Reqs : q # r => waits'[q] = waits[q]
          /\ waits'[r] = {waiter[s]}
          /\ \A q \in Reqs : waiter[q] # None /\ waiter'[q] = None => q = s
      BY <2>1 DEF IInv, TypeOK
    <2>8. \A q \in Reqs : row'[q] # row[q] => row[q] = "open" /\ row'[q] = "gone"
      BY <1>1 DEF Open
    <2>9. ~Everywhere(j) => \A q \in last : row'[q] # "open"
      BY <1>1 DEF Open
    <2>10. pc' = [pc EXCEPT ![r] = pc'[r]]
      BY <2>1, <2>5
    <2>11. \A w \in waits'[r] : w \in Reqs /\ Bound(w) /\ w # r
      BY <2>2, <2>7
    <2>12. \A q \in Reqs : waiter[q] # None /\ waiter'[q] = None =>
                            pc'[r] = "clear" /\ waits'[r] = {waiter[q]}
      BY <2>5, <2>7
    <2>13. QED
      BY <1>1, <2>3, <2>5, <2>6, <2>7, <2>8, <2>9, <2>10, <2>11, <2>12
  <1>4. QED
    BY <1>2, <1>3

-----------------------------------------------------------------------------
(* The invariant is inductive *)

(* What a request that arrives changes. *)
LEMMA ArriveFacts ==
  ASSUME TypeOK, NEW r \in Reqs, NEW j \in Jobs, Arrive(r, j)
  PROVE  /\ pc[r] = "idle" /\ job' = [job EXCEPT ![r] = j]
         /\ job' \in [Reqs -> Jobs \cup {None}] /\ met' \in [Reqs -> SUBSET Reqs]
  BY DEF Arrive, TypeOK

\* the five handlers
Handler(r) == PresetCommand(r) \/ PatternCommand(r) \/ FunctionLoop(r) \/ StopAll(r) \/ StopToy(r)

(* Each of them takes sessions away and asks for its own. *)
LEMMA HandlerFacts ==
  ASSUME NEW r \in Reqs, Handler(r)
  PROVE  /\ ~closed /\ \E j \in Jobs : Arrive(r, j) /\ Clear(r, j, Listed(j), {})
         /\ UNCHANGED <<now, closed, ends, of, wakes, until, fails, cur>>
  BY DEF Handler, PresetCommand, PatternCommand, FunctionLoop, StopAll, StopToy, Takes

(* Either one starts with a handler or goes on with it, a turn of the loop is taken. *)
LEMMA Turn ==
  ASSUME IInv, NEW r \in Reqs, Handler(r) \/ ClearNext(r)
  PROVE  \E j \in Jobs, ids \in SUBSET Reqs, last \in SUBSET Reqs :
           /\ Clear(r, j, ids, last) /\ job'[r] = j /\ pc[r] \in {"idle", "clear"}
           /\ pc[r] = "clear" => \A w \in waits[r] : of[w] \in last
           /\ pc[r] = "idle" => last = {} /\ (Everywhere(j) => \A s \in Reqs : waiter[s] # None => s \in ids)
  <1>0. TypeOK
    BY DEF IInv
  <1>1. CASE Handler(r)
    <2>1. PICK j \in Jobs : Arrive(r, j) /\ Clear(r, j, Listed(j), {})
      BY <1>1, HandlerFacts
    <2>2. PICK ids \in SUBSET Reqs : ids = Listed(j)
      BY DEF Listed
    <2>3. Clear(r, j, ids, {})
      BY <2>1, <2>2 DEF Clear, Forget, CancelledOf
    <2>4. pc[r] = "idle" /\ job'[r] = j
      BY <1>0, <2>1, ArriveFacts DEF TypeOK
    <2>5. Everywhere(j) => \A s \in Reqs : waiter[s] # None => s \in ids
      BY <2>2 DEF Listed
    <2>6. QED
      BY <2>3, <2>4, <2>5
  <1>2. CASE ClearNext(r)
    <2>1. PICK j \in Jobs : j = job[r]
      BY <1>2 DEF ClearNext, IInv, Fresh
    <2>2. PICK ids \in SUBSET Reqs : ids = todo[r]
      BY <1>0 DEF TypeOK
    <2>3. PICK last \in SUBSET Reqs : last = {of[w] : w \in waits[r]}
      <3>1. \A w \in waits[r] : of[w] \in Reqs
        BY <1>0 DEF TypeOK
      <3>2. {of[w] : w \in waits[r]} \in SUBSET Reqs
        BY <3>1
      <3>3. QED
        BY <3>2
    <2>4. Clear(r, j, ids, last)
      BY <1>2, <2>1, <2>2, <2>3 DEF ClearNext, Clear, Forget, CancelledOf
    <2>5. pc[r] = "clear" /\ job'[r] = j
      BY <1>2, <2>1 DEF ClearNext
    <2>6. QED
      BY <2>3, <2>4, <2>5
  <1>3. QED
    BY <1>1, <1>2

(* What a turn of the loop changes, in terms of the request. *)
LEMMA TurnFacts ==
  ASSUME IInv, NEW r \in Reqs, Handler(r) \/ ClearNext(r)
  PROVE  /\ pc[r] \in {"idle", "clear"} /\ pc'[r] \in {"clear", "send"} /\ job'[r] \in Jobs
         /\ \A q \in Reqs : q # r => pc'[q] = pc[q] /\ job'[q] = job[q] /\ waits'[q] = waits[q]
         /\ UNCHANGED <<now, closed, ends, of, cur>>
         /\ \A w \in waits'[r] : w \in Reqs /\ Bound(w) /\ w # r
         /\ \A s \in Reqs : row'[s] # row[s] => row[s] = "open" /\ row'[s] = "gone"
         /\ \A s \in Reqs : waiter'[s] # None => waiter'[s] = waiter[s] /\ wpc'[waiter[s]] = wpc[waiter[s]]
         /\ \A s \in Reqs : waiter[s] # None /\ waiter'[s] = None =>
                              pc'[r] = "clear" /\ waits'[r] = {waiter[s]}
         /\ \A s \in Reqs : Removing(r, s) =>
                              row'[s] # "open" \/ (pc'[r] = "clear" /\ Everywhere(job'[r]))
         /\ row' \in [Reqs -> {"new", "open", "gone"}]
         /\ pc[r] = "idle" /\ pc'[r] = "send" => \A s \in Reqs : row'[s] # row[s] => waiter[s] = None
  <1>0. TypeOK
    BY DEF IInv
  <1>1. PICK j \in Jobs, ids \in SUBSET Reqs, last \in SUBSET Reqs :
          /\ Clear(r, j, ids, last) /\ job'[r] = j /\ pc[r] \in {"idle", "clear"}
          /\ pc[r] = "clear" => \A w \in waits[r] : of[w] \in last
          /\ pc[r] = "idle" => last = {} /\ (Everywhere(j) => \A s \in Reqs : waiter[s] # None => s \in ids)
    BY Turn
  <1>2. /\ pc'[r] \in {"clear", "send"} /\ pc' = [pc EXCEPT ![r] = pc'[r]]
        /\ row' \in [Reqs -> {"new", "open", "gone"}]
        /\ \A q \in Reqs : q # r => waits'[q] = waits[q]
        /\ \A w \in waits'[r] : w \in Reqs /\ Bound(w) /\ w # r
        /\ \A s \in Reqs : row'[s] # row[s] => row[s] = "open" /\ row'[s] = "gone"
        /\ \A s \in Reqs : waiter'[s] # None => waiter'[s] = waiter[s] /\ wpc'[waiter[s]] = wpc[waiter[s]]
        /\ \A s \in Reqs : waiter[s] # None /\ waiter'[s] = None =>
                             pc'[r] = "clear" /\ waits'[r] = {waiter[s]}
    BY <1>1, ClearFacts
  <1>3. /\ pc'[r] = "send" => /\ waiter' = waiter
                              /\ \A s \in Reqs : Everywhere(j) \/ s \in last => row'[s] # "open"
        /\ pc'[r] = "clear" /\ ~Everywhere(j) => \A s \in last : row'[s] # "open"
    BY <1>1, ClearFacts
  <1>4. \A q \in Reqs : q # r => pc'[q] = pc[q]
    <2>1. PICK at \in {"clear", "send"} : pc' = [pc EXCEPT ![r] = at]
      BY <1>2
    <2>2. QED
      BY <1>0, <2>1 DEF TypeOK
  <1>5. /\ \A q \in Reqs : q # r => job'[q] = job[q]
        /\ pc[r] = "clear" => job'[r] = job[r]
        /\ UNCHANGED <<now, closed, ends, of, cur>>
    <2>1. CASE Handler(r)
      <3>1. PICK k \in Jobs : Arrive(r, k)
        BY <2>1, HandlerFacts
      <3>2. QED
        BY <1>0, <2>1, <3>1, ArriveFacts, HandlerFacts DEF TypeOK
    <2>2. CASE ClearNext(r)
      BY <2>2 DEF ClearNext
    <2>3. QED
      BY <2>1, <2>2
  <1>6. ASSUME NEW s \in Reqs, Removing(r, s)
        PROVE  row'[s] # "open" \/ (pc'[r] = "clear" /\ Everywhere(job'[r]))
    <2>1. pc[r] = "clear" /\ (Everywhere(j) \/ s \in last)
      BY <1>1, <1>5, <1>6 DEF Removing, Everywhere
    <2>2. Everywhere(j) <=> Everywhere(job'[r])
      BY <1>1 DEF Everywhere
    <2>3. QED
      BY <1>2, <1>3, <2>1, <2>2
  <1>7. pc'[r] = "send" => /\ \A s \in ids : waiter[s] = None
                           /\ \A s \in Reqs : row'[s] # row[s] => Everywhere(j) \/ s \in last \cup ids
    BY <1>1, ClearFacts
  <1>8. ASSUME pc[r] = "idle", pc'[r] = "send", NEW s \in Reqs, row'[s] # row[s]
        PROVE  waiter[s] = None
    BY <1>1, <1>7, <1>8
  <1>9. QED
    BY <1>1, <1>2, <1>3, <1>4, <1>5, <1>6, <1>8

(* Types are kept, by every action. *)
LEMMA TypeStep ==
  ASSUME IInv, [Next]_vars
  PROVE  TypeOK'
  <1>0. TypeOK
    BY DEF IInv
  <1>1. CASE UNCHANGED vars
    BY <1>1 DEF IInv, TypeOK, vars, bookVars, waiterVars, reqVars
  <1>2. CASE Tick
    BY <1>2, BoundAssumption DEF IInv, Tick, TypeOK, bookVars, waiterVars, reqVars
  <1>3. ASSUME NEW r \in Reqs, Refuse(r) \/ Extend(r)
        PROVE  TypeOK'
    <2>1. PICK j \in Jobs : Arrive(r, j)
      BY <1>3 DEF Refuse, Extend
    <2>2. job' \in [Reqs -> Jobs \cup {None}] /\ met' \in [Reqs -> SUBSET Reqs]
      BY <1>0, <2>1, ArriveFacts
    <2>3. pc' \in [Reqs -> {"idle", "clear", "send", "sent", "resend", "resent", "replacing",
                             "gather", "done", "failed"}] /\ cur' \in [Reqs -> Reqs \cup {None}]
      BY <1>3 DEF IInv, Refuse, Extend, Matching, TypeOK
    <2>4. QED
      BY <1>3, <2>2, <2>3 DEF IInv, Refuse, Extend, TypeOK, bookVars, waiterVars
  <1>4. ASSUME NEW r \in Reqs, Handler(r) \/ ClearNext(r)
        PROVE  TypeOK'
    <2>1. PICK j \in Jobs, ids \in SUBSET Reqs, last \in SUBSET Reqs :
            Clear(r, j, ids, last) /\ pc[r] \in {"idle", "clear"}
      BY <1>4, Turn
    <2>2. /\ row' \in [Reqs -> {"new", "open", "gone"}] /\ waiter' \in [Reqs -> Reqs \cup {None}]
          /\ wpc' \in [Reqs -> Places] /\ waits' \in [Reqs -> SUBSET Reqs]
          /\ todo' \in [Reqs -> SUBSET Reqs]
          /\ pc'[r] \in {"clear", "send"} /\ pc' = [pc EXCEPT ![r] = pc'[r]]
      BY <2>1, ClearFacts
    <2>3. job' \in [Reqs -> Jobs \cup {None}] /\ met' \in [Reqs -> SUBSET Reqs]
      <3>1. CASE Handler(r)
        BY <1>0, <3>1, HandlerFacts, ArriveFacts
      <3>2. CASE ClearNext(r)
        BY <1>0, <3>2 DEF ClearNext, TypeOK
      <3>3. QED
        BY <1>4, <3>1, <3>2
    <2>4. UNCHANGED <<now, closed, ends, of, wakes, until, fails, cur>>
      BY <1>4, HandlerFacts DEF ClearNext
    <2>5. pc' \in [Reqs -> {"idle", "clear", "send", "sent", "resend", "resent", "replacing",
                             "gather", "done", "failed"}]
      <3>1. PICK at \in {"clear", "send"} : pc' = [pc EXCEPT ![r] = at]
        BY <2>2
      <3>2. QED
        BY <1>0, <3>1 DEF TypeOK
    <2>6. QED
      BY <1>0, <2>2, <2>3, <2>4, <2>5 DEF TypeOK, Places
  <1>5. ASSUME NEW r \in Reqs, Lands(r)
        PROVE  TypeOK'
    <2>1. job[r] \in Jobs /\ job[r].time \in Nat /\ Effective(job[r]) \in Nat /\ Forever \in Nat
      BY <1>5, BoundAssumption, JobAssumption, EffectiveFacts DEF IInv, Lands, Fresh, Job, Forever
    <2>2. until' \in [Toys -> Nat]
      BY <1>5, <2>1 DEF IInv, Lands, TypeOK, Never
    <2>3. QED
      BY <1>5, <2>2 DEF IInv, Lands, TypeOK, bookVars, waiterVars
  <1>6. ASSUME NEW r \in Reqs, Fails(r) \/ Stopped(r) \/ Replaced(r)
        PROVE  TypeOK'
    BY <1>6, BoundAssumption DEF IInv, Fails, Stopped, Replaced, TypeOK, bookVars, waiterVars
  <1>7. ASSUME NEW r \in Reqs, Track(r)
        PROVE  TypeOK'
    <2>1. job[r] \in Jobs /\ now + Effective(job[r]) \in Nat
      BY <1>7, EffectiveFacts DEF IInv, Track, Fresh, TypeOK
    <2>2. wpc' \in [Reqs -> Places] /\ of' \in [Reqs -> Reqs] /\ waiter' \in [Reqs -> Reqs \cup {None}]
      <3>1. CASE Watch(r, r)
        <4>1. CancelledOf({waiter[r]} \ {None}) \in [Reqs -> Places]
          BY CancelledOfFacts DEF IInv
        <4>2. wpc' \in [Reqs -> Places]
          BY <3>1, <4>1 DEF Watch, Places
        <4>3. QED
          BY <3>1, <4>2 DEF IInv, Watch, TypeOK
      <3>2. CASE UNCHANGED <<waiter, wpc, of>>
        BY <3>2 DEF IInv, TypeOK, Places
      <3>3. QED
        BY <1>7, <3>1, <3>2 DEF Track
    <2>3. row' \in [Reqs -> {"new", "open", "gone"}] /\ ends' \in [Reqs -> Nat]
      BY <1>7, <2>1 DEF IInv, Track, TypeOK
    <2>4. pc' \in [Reqs -> {"idle", "clear", "send", "sent", "resend", "resent", "replacing",
                             "gather", "done", "failed"}]
      BY <1>7 DEF IInv, Track, TypeOK
    <2>5. QED
      BY <1>7, <2>2, <2>3, <2>4 DEF IInv, Track, TypeOK, Places
  <1>8. ASSUME NEW r \in Reqs, Resent(r)
        PROVE  TypeOK'
    <2>1. job[r] \in Jobs /\ cur[r] \in Reqs /\ now + Effective(job[r]) \in Nat
      BY <1>8, EffectiveFacts DEF IInv, Resent, Fresh, TypeOK
    <2>2. wpc' \in [Reqs -> Places] /\ of' \in [Reqs -> Reqs] /\ waiter' \in [Reqs -> Reqs \cup {None}]
      BY <1>8, <2>1, CancelledOfFacts DEF IInv, Resent, Renewed, Watch, TypeOK, Places
    <2>3. ends' \in [Reqs -> Nat] /\ waits' \in [Reqs -> SUBSET Reqs]
      BY <1>8, <2>1 DEF IInv, Resent, Later, TypeOK
    <2>4. QED
      BY <1>8, <2>1, <2>2, <2>3 DEF IInv, Resent, TypeOK, Places
  <1>9. ASSUME NEW r \in Reqs, Shutdown(r)
         PROVE  TypeOK'
    <2>1. PICK j \in Jobs : Arrive(r, j)
      BY <1>9 DEF Shutdown
    <2>2. job' \in [Reqs -> Jobs \cup {None}] /\ met' \in [Reqs -> SUBSET Reqs]
      BY <1>0, <2>1, ArriveFacts
    <2>3. wpc' \in [Reqs -> Places] /\ waits' \in [Reqs -> SUBSET Reqs]
      BY <1>9, CancelledOfFacts DEF IInv, Shutdown, Registered, TypeOK
    <2>4. QED
      BY <1>9, <2>2, <2>3 DEF IInv, Shutdown, TypeOK, Places
  <1>10. ASSUME NEW r \in Reqs, ShutDown(r)
         PROVE  TypeOK'
    <2>1. row' \in [Reqs -> {"new", "open", "gone"}]
      BY <1>0, <1>10, ForgetFacts DEF ShutDown
    <2>2. QED
      BY <1>10, <2>1 DEF IInv, ShutDown, TypeOK, waiterVars
  <1>11. ASSUME NEW w \in Reqs, Sleep(w) \/ Expire(w) \/ Cancelled(w)
         PROVE  TypeOK'
    <2>1. CASE Sleep(w)
      BY <2>1 DEF IInv, Sleep, TypeOK, bookVars, reqVars
    <2>2. CASE Expire(w) \/ Cancelled(w)
      <3>1. row' \in [Reqs -> {"new", "open", "gone"}]
        BY <2>2, ForgetFacts DEF IInv, Expire, Cancelled, Finish, TypeOK
      <3>2. waiter' \in [Reqs -> Reqs \cup {None}] /\ wpc' \in [Reqs -> Places]
        BY <2>2 DEF IInv, Expire, Cancelled, Finish, TypeOK, Places
      <3>3. QED
        BY <2>2, <3>1, <3>2 DEF IInv, Expire, Cancelled, TypeOK, Places, reqVars
    <2>3. QED
      BY <1>11, <2>1, <2>2
  <1>12. QED
    BY <1>1, <1>2, <1>3, <1>4, <1>5, <1>6, <1>7, <1>8, <1>9, <1>10, <1>11 DEF Next, Handler

(* What a request awaits, and what it has registered, stays past that point. *)
LEMMA BoundStep ==
  ASSUME IInv, [Next]_vars
  PROVE  \A w \in Reqs : Bound(w) => Bound(w)'
  <1>0. TypeOK
    BY DEF IInv
  <1>1. ASSUME NEW r \in Reqs, Handler(r) \/ ClearNext(r)
        PROVE  \A w \in Reqs : Bound(w) => Bound(w)'
    BY <1>1, TurnFacts DEF Bound
  <1>2. ASSUME NEW r \in Reqs, Refuse(r) \/ Extend(r) \/ Shutdown(r)
        PROVE  \A w \in Reqs : Bound(w) => Bound(w)'
    BY <1>0, <1>2 DEF Bound, Refuse, Extend, Shutdown, Arrive, TypeOK
  <1>3. ASSUME NEW r \in Reqs, \/ Lands(r) \/ Fails(r) \/ Stopped(r) \/ Track(r) \/ Resent(r)
                               \/ Replaced(r) \/ ShutDown(r)
        PROVE  \A w \in Reqs : Bound(w) => Bound(w)'
    BY <1>0, <1>3 DEF Bound, Lands, Fails, Stopped, Track, Resent, Replaced, ShutDown, TypeOK
  <1>4. ASSUME NEW w \in Reqs, Sleep(w) \/ Expire(w) \/ Cancelled(w)
        PROVE  pc' = pc
    BY <1>4 DEF Sleep, Expire, Cancelled, reqVars
  <1>5. CASE Tick \/ UNCHANGED vars
    BY <1>5 DEF Tick, vars, reqVars, Bound
  <1>6. QED
    BY <1>1, <1>2, <1>3, <1>4, <1>5 DEF Next, Handler, Bound

\* the steps at which nothing that the invariant is about changes
Plain(r) == Refuse(r) \/ Extend(r) \/ Lands(r) \/ Fails(r) \/ Stopped(r) \/ Replaced(r)

(* They keep the invariant. *)
LEMMA PlainStep ==
  ASSUME IInv, NEW r \in Reqs, Plain(r), TypeOK', \A w \in Reqs : Bound(w) => Bound(w)'
  PROVE  IInv'
  <1>0. TypeOK
    BY DEF IInv
  <1>1. /\ UNCHANGED <<row, waiter, of, wpc, closed, ends, now>>
        /\ \A q \in Reqs : q # r => pc'[q] = pc[q] /\ job'[q] = job[q] /\ cur'[q] = cur[q] /\ waits'[q] = waits[q]
        /\ waits'[r] \subseteq waits[r]
        /\ pc[r] \notin {"clear", "gather", "done"}
        /\ pc'[r] \notin {"clear", "gather"}
    BY <1>0 DEF Plain, Refuse, Extend, Lands, Fails, Stopped, Replaced, Arrive, bookVars, waiterVars, TypeOK
  <1>2. /\ pc'[r] \in {"clear", "send", "sent", "resend", "resent"} => job'[r] \in Jobs
        /\ pc'[r] \in {"resend", "resent"} => cur'[r] \in Reqs
    BY <1>0 DEF IInv, Plain, Refuse, Extend, Lands, Fails, Stopped, Replaced, Arrive, Matching, Fresh, TypeOK
  <1>3. Gathers' <=> Gathers
    BY <1>1 DEF Gathers
  <1>4. Fresh'
    BY <1>1, <1>2 DEF IInv, Fresh
  <1>5. Keyed'
    BY <1>0, <1>1 DEF IInv, Keyed, TypeOK
  <1>6. Awaited'
    BY <1>0, <1>1 DEF IInv, Awaited, TypeOK
  <1>7. Driven'
    BY <1>1, <1>3 DEF IInv, Driven
  <1>8. InHand'
    BY <1>1, <1>3 DEF IInv, InHand, Open, Removing, Everywhere
  <1>9. QED
    BY <1>4, <1>5, <1>6, <1>7, <1>8 DEF IInv

(* A turn of the loop keeps the invariant: the row whose waiter it takes is in its hands. *)
LEMMA TurnStep ==
  ASSUME IInv, NEW r \in Reqs, Handler(r) \/ ClearNext(r), TypeOK', \A w \in Reqs : Bound(w) => Bound(w)'
  PROVE  IInv'
  <1>0. TypeOK
    BY DEF IInv
  <1>1. /\ pc[r] \in {"idle", "clear"} /\ pc'[r] \in {"clear", "send"} /\ job'[r] \in Jobs
        /\ \A q \in Reqs : q # r => pc'[q] = pc[q] /\ job'[q] = job[q] /\ waits'[q] = waits[q]
        /\ UNCHANGED <<of, cur>>
        /\ \A w \in waits'[r] : w \in Reqs /\ Bound(w) /\ w # r
        /\ \A s \in Reqs : row'[s] # row[s] => row[s] = "open" /\ row'[s] = "gone"
        /\ \A s \in Reqs : waiter'[s] # None => waiter'[s] = waiter[s] /\ wpc'[waiter[s]] = wpc[waiter[s]]
    BY TurnFacts
  <1>2. Gathers' <=> Gathers
    BY <1>1 DEF Gathers
  <1>3. Fresh'
    BY <1>1 DEF IInv, Fresh
  <1>4. Keyed'
    BY <1>0, <1>1 DEF IInv, Keyed, TypeOK
  <1>5. Awaited'
    BY <1>0, <1>1 DEF IInv, Awaited, TypeOK
  <1>6. Driven'
    BY <1>1, <1>2 DEF IInv, Driven
  <1>7. ASSUME NEW s \in Reqs, row'[s] = "open", waiter'[s] = None
        PROVE  Gathers' \/ \E q \in Reqs : Removing(q, s)'
    <2>1. row[s] = "open"
      BY <1>1, <1>7
    <2>2. CASE waiter[s] # None
      <3>1. pc'[r] = "clear" /\ waits'[r] = {waiter[s]}
        BY <1>7, <2>2, TurnFacts
      <3>2. of'[waiter[s]] = s
        BY <1>1, <2>2 DEF IInv, Keyed
      <3>3. QED
        BY <3>1, <3>2 DEF Removing
    <2>3. CASE waiter[s] = None
      <3>1. Gathers \/ \E q \in Reqs : Removing(q, s)
        BY <2>1, <2>3 DEF IInv, InHand, Open
      <3>2. ASSUME NEW q \in Reqs, Removing(q, s), q # r
            PROVE  Removing(q, s)'
        BY <1>1, <3>2 DEF Removing, Everywhere
      <3>3. ASSUME Removing(r, s)
            PROVE  Removing(r, s)'
        <4>1. pc'[r] = "clear" /\ Everywhere(job'[r])
          BY <1>7, <3>3, TurnFacts
        <4>2. QED
          BY <4>1 DEF Removing, Everywhere
      <3>4. QED
        BY <1>2, <3>1, <3>2, <3>3
    <2>4. QED
      BY <2>2, <2>3
  <1>8. InHand'
    BY <1>7 DEF InHand, Open
  <1>9. QED
    BY <1>3, <1>4, <1>5, <1>6, <1>8 DEF IInv

(* A new waiter takes the place of the one it cancels. *)
LEMMA WatchFacts ==
  ASSUME IInv, NEW r \in Reqs, NEW s \in Reqs, ~Bound(r), Watch(r, s), Bound(r)',
         \A w \in Reqs : Bound(w) => Bound(w)', Gathers => Gathers'
  PROVE  /\ Keyed' /\ Driven'
         /\ \A w \in Reqs : w # r => of'[w] = of[w]
         /\ \A q \in Reqs : q # s => waiter'[q] = waiter[q]
         /\ waiter'[s] = r /\ r # None
  <1>0. TypeOK /\ r # None
    BY JobAssumption DEF IInv
  <1>1. /\ \A w \in Reqs : w # r => of'[w] = of[w]
        /\ of'[r] = s /\ wpc'[r] = "ready" /\ waiter'[s] = r
        /\ \A q \in Reqs : q # s => waiter'[q] = waiter[q]
    BY <1>0, CancelledOfFacts DEF Watch, TypeOK
  <1>2. \A w \in Reqs : w # r /\ w # waiter[s] => wpc'[w] = wpc[w]
    BY <1>0, CancelledOfFacts DEF Watch, TypeOK
  <1>3. \A q \in Reqs : q # s /\ waiter[q] # None =>
           waiter[q] \in Reqs /\ waiter[q] # r /\ waiter[q] # waiter[s]
    BY <1>0 DEF IInv, TypeOK, Keyed
  <1>4. Keyed'
    BY <1>0, <1>1, <1>3 DEF IInv, Keyed
  <1>5. Driven'
    BY <1>0, <1>1, <1>2, <1>3 DEF IInv, Driven
  <1>6. QED
    BY <1>0, <1>1, <1>4, <1>5

(* track_session() keeps the invariant: the row that opens has its waiter. *)
LEMMA TrackStep ==
  ASSUME IInv, NEW r \in Reqs, Track(r), TypeOK', \A w \in Reqs : Bound(w) => Bound(w)'
  PROVE  IInv'
  <1>0. TypeOK
    BY DEF IInv
  <1>1. /\ pc[r] = "sent" /\ pc'[r] = "done" /\ UNCHANGED <<job, cur, waits>>
        /\ \A q \in Reqs : q # r => pc'[q] = pc[q] /\ row'[q] = row[q]
        /\ ~Bound(r) /\ Bound(r)'
    BY <1>0 DEF Track, TypeOK, Bound
  <1>2. Gathers' <=> Gathers
    BY <1>1 DEF Gathers
  <1>3. Fresh'
    BY <1>1 DEF IInv, Fresh
  <1>4. Awaited'
    BY <1>0, <1>1 DEF IInv, Awaited, TypeOK
  <1>5. CASE Watch(r, r)
    <2>1. /\ Keyed' /\ Driven' /\ waiter'[r] # None
          /\ \A w \in Reqs : w # r => of'[w] = of[w]
          /\ \A q \in Reqs : q # r => waiter'[q] = waiter[q]
      BY <1>1, <1>2, <1>5, WatchFacts
    <2>2. \A q \in Reqs : q # r => \A w \in waits[q] : w # r
      BY <1>1 DEF IInv, Awaited
    <2>3. ASSUME NEW s \in Reqs, row'[s] = "open", waiter'[s] = None
          PROVE  Gathers' \/ \E q \in Reqs : Removing(q, s)'
      <3>1. s # r /\ (Gathers \/ \E q \in Reqs : Removing(q, s))
        BY <1>1, <2>1, <2>3 DEF IInv, InHand, Open
      <3>2. ASSUME NEW q \in Reqs, Removing(q, s)
            PROVE  Removing(q, s)'
        BY <1>0, <1>1, <2>1, <2>2, <3>2 DEF Removing, Everywhere, TypeOK
      <3>3. QED
        BY <1>2, <3>1, <3>2
    <2>4. InHand'
      BY <2>3 DEF InHand, Open
    <2>5. QED
      BY <1>3, <1>4, <2>1, <2>4 DEF IInv
  <1>6. CASE UNCHANGED <<row, waiter, wpc, of>>
    <2>1. Keyed' /\ Driven'
      BY <1>0, <1>2, <1>6 DEF IInv, Keyed, Driven, TypeOK
    <2>2. InHand'
      BY <1>1, <1>2, <1>6 DEF IInv, InHand, Open, Removing, Everywhere
    <2>3. QED
      BY <1>3, <1>4, <2>1, <2>2 DEF IInv
  <1>7. QED
    BY <1>5, <1>6 DEF Track

(* extend_session() keeps it: the new waiter is registered where the old one was. *)
LEMMA ResentStep ==
  ASSUME IInv, NEW r \in Reqs, Resent(r), TypeOK', \A w \in Reqs : Bound(w) => Bound(w)'
  PROVE  IInv'
  <1>0. TypeOK
    BY DEF IInv
  <1>1. /\ pc[r] = "resent" /\ pc'[r] = "replacing" /\ UNCHANGED <<row, job, cur>>
        /\ \A q \in Reqs : q # r => pc'[q] = pc[q] /\ waits'[q] = waits[q]
        /\ ~Bound(r) /\ Bound(r)'
    BY <1>0 DEF Resent, TypeOK, Bound
  <1>2. PICK s \in Reqs : s = cur[r]
    BY <1>1 DEF IInv, Fresh
  <1>3. Watch(r, s) /\ waits'[r] = {waiter[s]} \ {None}
    BY <1>0, <1>2 DEF Resent, Renewed, Watch, CancelledOf, TypeOK
  <1>4. Gathers' <=> Gathers
    BY <1>1 DEF Gathers
  <1>5. /\ Keyed' /\ Driven' /\ waiter'[s] # None
        /\ \A w \in Reqs : w # r => of'[w] = of[w]
        /\ \A q \in Reqs : q # s => waiter'[q] = waiter[q]
    BY <1>1, <1>3, <1>4, WatchFacts
  <1>6. Fresh'
    BY <1>1 DEF IInv, Fresh
  <1>7. Awaited'
    <2>1. \A w \in waits'[r] : w \in Reqs /\ Bound(w)
      BY <1>0, <1>3 DEF IInv, Keyed, TypeOK
    <2>2. QED
      BY <1>0, <1>1, <2>1 DEF IInv, Awaited, TypeOK
  <1>8. \A q \in Reqs : \A w \in waits[q] : w # r
    BY <1>1 DEF IInv, Awaited
  <1>9. ASSUME NEW t \in Reqs, row'[t] = "open", waiter'[t] = None
        PROVE  Gathers' \/ \E q \in Reqs : Removing(q, t)'
    <2>1. Gathers \/ \E q \in Reqs : Removing(q, t)
      BY <1>1, <1>5, <1>9 DEF IInv, InHand, Open
    <2>2. ASSUME NEW q \in Reqs, Removing(q, t)
          PROVE  Removing(q, t)'
      BY <1>0, <1>1, <1>5, <1>8, <2>2 DEF Removing, Everywhere, TypeOK
    <2>3. QED
      BY <1>4, <2>1, <2>2
  <1>10. InHand'
    BY <1>9 DEF InHand, Open
  <1>11. QED
    BY <1>5, <1>6, <1>7, <1>10 DEF IInv

(* shutdown(): whatever is left is cancelled and forgotten. *)
LEMMA ShutdownStep ==
  ASSUME IInv, NEW r \in Reqs, Shutdown(r) \/ ShutDown(r), TypeOK',
         \A w \in Reqs : Bound(w) => Bound(w)'
  PROVE  IInv'
  <1>0. TypeOK
    BY DEF IInv
  <1>1. CASE Shutdown(r)
    <2>1. /\ pc[r] = "idle" /\ pc'[r] = "gather" /\ UNCHANGED <<row, waiter, of, cur>>
          /\ \A q \in Reqs : q # r => pc'[q] = pc[q] /\ job'[q] = job[q] /\ waits'[q] = waits[q]
          /\ \A w \in waits'[r] : w \in Reqs /\ Bound(w)
      BY <1>0, <1>1 DEF Shutdown, Arrive, Registered, IInv, Keyed, TypeOK
    <2>2. Gathers'
      BY <2>1 DEF Gathers
    <2>3. Fresh'
      BY <2>1 DEF IInv, Fresh
    <2>4. Keyed'
      BY <1>0, <2>1 DEF IInv, Keyed, TypeOK
    <2>5. Awaited'
      BY <1>0, <2>1 DEF IInv, Awaited, TypeOK
    <2>6. QED
      BY <2>2, <2>3, <2>4, <2>5 DEF IInv, Driven, InHand
  <1>2. CASE ShutDown(r)
    <2>1. /\ pc[r] = "gather" /\ pc'[r] = "done" /\ UNCHANGED <<of, cur, job>>
          /\ \A q \in Reqs : q # r => pc'[q] = pc[q] /\ waits'[q] = waits[q]
          /\ waits'[r] = {} /\ \A s \in Reqs : waiter'[s] = None
      BY <1>0, <1>2 DEF ShutDown, TypeOK, waiterVars
    <2>2. \A s \in Reqs : row'[s] = IF Open(s) THEN "gone" ELSE row[s]
      BY <1>0, <1>2, ForgetFacts DEF ShutDown
    <2>3. Fresh'
      BY <2>1, <2>2 DEF IInv, Fresh, Open
    <2>4. Keyed' /\ Driven'
      BY <2>1 DEF Keyed, Driven
    <2>5. Awaited'
      BY <1>0, <2>1 DEF IInv, Awaited, TypeOK
    <2>6. InHand'
      BY <2>2 DEF InHand, Open
    <2>7. QED
      BY <2>3, <2>4, <2>5, <2>6 DEF IInv
  <1>3. QED
    BY <1>1, <1>2

(* What a waiter that ends does to the table. *)
LEMMA FinishFacts ==
  ASSUME TypeOK, NEW w \in Reqs, Finish(w)
  PROVE  /\ \A v \in Reqs : v # w => wpc'[v] = wpc[v]
         /\ \/ /\ waiter[of[w]] = w
               /\ \A s \in Reqs : s # of[w] => waiter'[s] = waiter[s] /\ row'[s] = row[s]
               /\ waiter'[of[w]] = None
               /\ row'[of[w]] = IF Open(of[w]) THEN "gone" ELSE row[of[w]]
            \/ waiter[of[w]] # w /\ UNCHANGED <<waiter, row>>
  <1>1. CASE waiter[of[w]] = w
    <2>1. row' = [s \in Reqs |-> IF s \in {of[w]} /\ Open(s) THEN "gone" ELSE row[s]]
      BY <1>1 DEF Finish, Forget
    <2>2. QED
      BY <1>1, <2>1 DEF Finish, TypeOK
  <1>2. CASE waiter[of[w]] # w
    BY <1>2 DEF Finish, TypeOK
  <1>3. QED
    BY <1>1, <1>2

(* A waiter that sleeps, ends or is cancelled keeps it: it removes only its own row. *)
LEMMA WaiterStep ==
  ASSUME IInv, NEW w \in Reqs, Sleep(w) \/ Expire(w) \/ Cancelled(w), TypeOK'
  PROVE  IInv'
  <1>0. TypeOK
    BY DEF IInv
  <1>1. UNCHANGED <<pc, job, cur, waits, of>>
    BY DEF Sleep, Expire, Cancelled, reqVars
  <1>2. Gathers' <=> Gathers
    BY <1>1 DEF Gathers
  <1>3. Awaited'
    BY <1>1 DEF IInv, Awaited, Bound
  <1>4. ASSUME UNCHANGED <<row, waiter>>
        PROVE  Fresh' /\ Keyed' /\ InHand'
    <2>1. Fresh'
      BY <1>1, <1>4 DEF IInv, Fresh
    <2>2. Keyed'
      BY <1>1, <1>4 DEF IInv, Keyed, Bound
    <2>3. InHand'
      BY <1>1, <1>2, <1>4 DEF IInv, InHand, Open, Removing, Everywhere
    <2>4. QED
      BY <2>1, <2>2, <2>3
  <1>5. CASE Sleep(w)
    <2>1. UNCHANGED <<row, waiter>> /\ wpc' = [wpc EXCEPT ![w] = "sleeping"]
      BY <1>5 DEF Sleep, bookVars
    <2>2. Driven'
      BY <1>0, <1>2, <2>1 DEF IInv, Driven, TypeOK
    <2>3. QED
      BY <1>3, <1>4, <2>1, <2>2 DEF IInv
  <1>6. CASE Finish(w)
    <2>1. CASE waiter[of[w]] = w
      <3>1. /\ \A s \in Reqs : s # of[w] => waiter'[s] = waiter[s] /\ row'[s] = row[s]
            /\ waiter'[of[w]] = None /\ of[w] \in Reqs
            /\ row'[of[w]] = IF Open(of[w]) THEN "gone" ELSE row[of[w]]
            /\ \A v \in Reqs : v # w => wpc'[v] = wpc[v]
        BY <1>0, <1>6, <2>1, FinishFacts DEF TypeOK
      <3>2. Fresh'
        BY <1>1, <3>1 DEF IInv, Fresh, Open
      <3>3. Keyed'
        BY <1>1, <3>1 DEF IInv, Keyed, Bound
      <3>4. \A s \in Reqs : s # of[w] /\ waiter[s] # None => waiter[s] \in Reqs /\ waiter[s] # w
        BY <1>0 DEF IInv, Keyed, TypeOK
      <3>5. Driven'
        BY <1>2, <3>1, <3>4 DEF IInv, Driven
      <3>6. InHand'
        BY <1>1, <1>2, <3>1 DEF IInv, InHand, Open, Removing, Everywhere
      <3>7. QED
        BY <1>3, <3>2, <3>3, <3>5, <3>6 DEF IInv
    <2>2. CASE waiter[of[w]] # w
      <3>1. UNCHANGED <<waiter, row>> /\ \A v \in Reqs : v # w => wpc'[v] = wpc[v]
        BY <1>0, <1>6, <2>2, FinishFacts
      <3>2. \A s \in Reqs : waiter[s] # None => waiter[s] \in Reqs /\ waiter[s] # w
        BY <1>0, <2>2 DEF IInv, Keyed, TypeOK
      <3>3. Driven'
        BY <1>2, <3>1, <3>2 DEF IInv, Driven
      <3>4. QED
        BY <1>3, <1>4, <3>1, <3>3 DEF IInv
    <2>3. QED
      BY <2>1, <2>2
  <1>7. CASE wpc[w] = "dropped" /\ wpc' = [wpc EXCEPT ![w] = "done"] /\ UNCHANGED <<waiter, row>>
    <2>1. Driven'
      BY <1>0, <1>2, <1>7 DEF IInv, Driven, TypeOK
    <2>2. QED
      BY <1>3, <1>4, <1>7, <2>1 DEF IInv
  <1>8. QED
    BY <1>5, <1>6, <1>7 DEF Expire, Cancelled

(* Every step keeps the invariant. *)
LEMMA Inductive == IInv /\ [Next]_vars => IInv'
  <1> SUFFICES ASSUME IInv, [Next]_vars
               PROVE  IInv'
    OBVIOUS
  <1>1. TypeOK' /\ \A w \in Reqs : Bound(w) => Bound(w)'
    BY TypeStep, BoundStep
  <1>2. ASSUME NEW r \in Reqs, Plain(r)
        PROVE  IInv'
    BY <1>1, <1>2, PlainStep
  <1>3. ASSUME NEW r \in Reqs, Handler(r) \/ ClearNext(r)
        PROVE  IInv'
    BY <1>1, <1>3, TurnStep
  <1>4. ASSUME NEW r \in Reqs, Track(r)
        PROVE  IInv'
    BY <1>1, <1>4, TrackStep
  <1>5. ASSUME NEW r \in Reqs, Resent(r)
        PROVE  IInv'
    BY <1>1, <1>5, ResentStep
  <1>6. ASSUME NEW r \in Reqs, Shutdown(r) \/ ShutDown(r)
        PROVE  IInv'
    BY <1>1, <1>6, ShutdownStep
  <1>7. ASSUME NEW w \in Reqs, Sleep(w) \/ Expire(w) \/ Cancelled(w)
        PROVE  IInv'
    BY <1>1, <1>7, WaiterStep
  <1>8. CASE Tick \/ UNCHANGED vars
    <2>1. UNCHANGED <<row, waiter, wpc, of, pc, job, cur, waits>>
      BY <1>8 DEF Tick, vars, bookVars, waiterVars, reqVars
    <2>2. QED
      BY <1>1, <2>1 DEF IInv, Fresh, Keyed, Awaited, Driven, InHand, Open, Gathers, Removing, Everywhere, Bound
  <1>9. QED
    BY <1>2, <1>3, <1>4, <1>5, <1>6, <1>7, <1>8 DEF Next, Handler, Plain

(* The invariant holds at the start. *)
LEMMA Initially == Init => IInv
  <1> SUFFICES ASSUME Init
               PROVE  IInv
    OBVIOUS
  <1>1. TypeOK
    <2>1. /\ now \in 0 .. MaxNow /\ fails \in 0 .. MaxFail
          /\ ends \in [Reqs -> Nat] /\ wakes \in [Reqs -> Nat] /\ until \in [Toys -> Nat]
      BY BoundAssumption DEF Init, Never
    <2>2. /\ row \in [Reqs -> {"new", "open", "gone"}]
          /\ waiter \in [Reqs -> Reqs \cup {None}] /\ of \in [Reqs -> Reqs]
          /\ wpc \in [Reqs -> {"none", "ready", "sleeping", "cancelled", "dropped", "done"}]
          /\ job \in [Reqs -> Jobs \cup {None}] /\ cur \in [Reqs -> Reqs \cup {None}]
      BY DEF Init
    <2>3. /\ todo \in [Reqs -> SUBSET Reqs] /\ waits \in [Reqs -> SUBSET Reqs]
          /\ closed \in BOOLEAN /\ met \in [Reqs -> SUBSET Reqs]
          /\ pc \in [Reqs -> {"idle", "clear", "send", "sent", "resend", "resent", "replacing",
                               "gather", "done", "failed"}]
      BY DEF Init
    <2>4. QED
      BY <2>1, <2>2, <2>3 DEF TypeOK
  <1>2. Fresh /\ Keyed /\ Awaited /\ Driven /\ InHand
    BY DEF Init, Fresh, Keyed, Awaited, Driven, InHand, Open
  <1>3. QED
    BY <1>1, <1>2 DEF IInv

(* IInv holds in every state. *)
THEOREM Invariance == Spec => []IInv
  <1>1. QED
    BY Initially, Inductive, PTL DEF Spec

-----------------------------------------------------------------------------
(* The theorems *)

(* Every variable keeps its type. *)
THEOREM TypeCorrect == Spec => []TypeOK
  <1>1. IInv => TypeOK
    BY DEF IInv
  <1>2. QED
    BY <1>1, Invariance, PTL

(* RowWatched: no interleaving of requests and waiters strands a row of GET /tasks, with
   any number of toys, requests and jobs (scheduler.py:141-162, 256-268). *)
THEOREM RowsAreWatched == Spec => []RowWatched
  <1>1. IInv => RowWatched
    <2> SUFFICES ASSUME IInv, NEW s \in Reqs, Open(s), ~\E r \in Reqs : Taking(r)
                 PROVE  waiter[s] # None /\ of[waiter[s]] = s /\ Live(waiter[s])
      BY DEF RowWatched
    <2>1. ~Gathers /\ \A r \in Reqs : ~Removing(r, s)
      BY DEF Gathers, Removing, Taking
    <2>2. waiter[s] # None
      BY <2>1 DEF IInv, InHand
    <2>3. QED
      BY <2>1, <2>2 DEF IInv, Keyed, Driven, Live
  <1>2. QED
    BY <1>1, Invariance, PTL

(* A step that only removes rows, while somebody takes sessions away, is a step of the book. *)
LEMMA TakenFromBook ==
  ASSUME IInv, row' \in [Reqs -> {"new", "open", "gone"}], UNCHANGED <<now, ends>>, closed => closed',
         \A s \in Reqs : row'[s] # row[s] => row[s] = "open" /\ row'[s] = "gone",
         (\E s \in Reqs : row'[s] # row[s]) => \E r \in Reqs : Taking(r) \/ Taking(r)'
  PROVE  Book!Take
  <1> DEFINE S == {s \in Reqs : row'[s] # row[s]}
  <1>1. row' = [s \in Reqs |-> IF s \in S THEN "gone" ELSE row[s]]
    BY DEF IInv, TypeOK
  <1>2. S \in SUBSET {s \in Reqs : row[s] = "open"}
    OBVIOUS
  <1>3. S # {} => {r \in Reqs : Taking(r)} \cup {r \in Reqs : Taking(r)'} # {}
    OBVIOUS
  <1>4. QED
    BY <1>1, <1>2, <1>3 DEF Book!Take

(* Every step is a step of the book, or changes nothing in it. *)
LEMMA BookStep ==
  ASSUME IInv, [Next]_vars
  PROVE  [Book!Next]_(Book!bookVars)
  <1>0. TypeOK
    BY DEF IInv
  <1>1. ASSUME NEW r \in Reqs, Plain(r)
        PROVE  UNCHANGED Book!bookVars
    <2>1. UNCHANGED <<now, ends, row, closed>>
      BY <1>1 DEF Plain, Refuse, Extend, Lands, Fails, Stopped, Replaced, bookVars
    <2>2. \A q \in Reqs : Taking(q)' <=> Taking(q)
      BY <1>0, <1>1 DEF Plain, Refuse, Extend, Lands, Fails, Stopped, Replaced, Arrive, Taking, TypeOK
    <2>3. QED
      BY <2>1, <2>2 DEF Book!bookVars
  <1>2. ASSUME NEW r \in Reqs, Handler(r) \/ ClearNext(r)
        PROVE  Book!Take
    <2>1. ASSUME NEW s \in Reqs, row'[s] # row[s]
          PROVE  \E q \in Reqs : Taking(q) \/ Taking(q)'
      <3>1. CASE pc[r] = "clear" \/ pc'[r] = "clear"
        BY <3>1 DEF Taking
      <3>2. CASE pc[r] = "idle" /\ pc'[r] = "send"
        <4>1. Open(s) /\ waiter[s] = None
          BY <1>2, <2>1, <3>2, TurnFacts DEF Open
        <4>2. QED
          BY <4>1 DEF IInv, InHand, Gathers, Removing, Taking
      <3>3. QED
        BY <1>2, <3>1, <3>2, TurnFacts
    <2>2. /\ row' \in [Reqs -> {"new", "open", "gone"}] /\ UNCHANGED <<now, ends, closed>>
          /\ \A s \in Reqs : row'[s] # row[s] => row[s] = "open" /\ row'[s] = "gone"
      BY <1>2, TurnFacts
    <2>3. QED
      BY <2>1, <2>2, TakenFromBook
  <1>3. ASSUME NEW r \in Reqs, Track(r)
        PROVE  Book!Open(r) \/ UNCHANGED Book!bookVars
    <2>1. /\ \A q \in Reqs : Taking(q)' <=> Taking(q)
          /\ UNCHANGED <<now, closed>> /\ row[r] = "new" /\ job[r] \in Jobs
      BY <1>0, <1>3 DEF Track, Taking, IInv, Fresh, TypeOK
    <2>2. CASE ~closed
      <3>1. row' = [row EXCEPT ![r] = "open"] /\ ends' = [ends EXCEPT ![r] = now + Effective(job[r])]
        BY <1>3, <2>2 DEF Track, TrackOpen
      <3>2. ends'[r] = now + Effective(job[r]) /\ ends'[r] > now
        BY <1>0, <2>1, <3>1, EffectiveFacts DEF TypeOK
      <3>3. QED
        BY <2>1, <2>2, <3>1, <3>2 DEF Book!Open
    <2>3. CASE closed
      BY <1>3, <2>1, <2>3 DEF Track, TrackOpen, Book!bookVars
    <2>4. QED
      BY <2>2, <2>3
  <1>4. ASSUME NEW r \in Reqs, Resent(r)
        PROVE  \/ \E s \in Reqs : Book!Renew(s)
               \/ UNCHANGED Book!bookVars
    <2>1. /\ \A q \in Reqs : Taking(q)' <=> Taking(q)
          /\ UNCHANGED <<now, closed, row>>
          /\ job[r] \in Jobs
      BY <1>0, <1>4 DEF Resent, Taking, IInv, Fresh, TypeOK
    <2>2. PICK s \in Reqs : s = cur[r]
      BY <1>4 DEF Resent, IInv, Fresh
    <2>3. /\ ends' = [ends EXCEPT ![s] = ends'[s]]
          /\ Open(s) => ends'[s] >= ends[s]
          /\ ~Open(s) => ends'[s] = ends[s]
      BY <1>0, <1>4, <2>1, <2>2, EffectiveFacts DEF Resent, Later, TypeOK
    <2>4. CASE Open(s)
      BY <2>1, <2>3, <2>4 DEF Book!Renew, Open
    <2>5. CASE ~Open(s)
      BY <1>0, <2>1, <2>3, <2>5 DEF Book!bookVars, TypeOK
    <2>6. QED
      BY <2>4, <2>5
  <1>5. ASSUME NEW r \in Reqs, Shutdown(r) \/ ShutDown(r)
        PROVE  Book!Take
    <2>1. \E q \in Reqs : Taking(q) \/ Taking(q)'
      BY <1>0, <1>5 DEF Shutdown, ShutDown, Taking, TypeOK
    <2>2. /\ row' \in [Reqs -> {"new", "open", "gone"}] /\ UNCHANGED <<now, ends>> /\ (closed => closed')
          /\ \A s \in Reqs : row'[s] # row[s] => row[s] = "open" /\ row'[s] = "gone"
      BY <1>0, <1>5, ForgetFacts DEF Shutdown, ShutDown, Open, TypeOK
    <2>3. QED
      BY <2>1, <2>2, TakenFromBook
  <1>6. ASSUME NEW w \in Reqs, Sleep(w) \/ Expire(w) \/ Cancelled(w)
        PROVE  Book!Next \/ UNCHANGED Book!bookVars
    <2>1. UNCHANGED <<now, ends, closed, pc>> /\ of[w] \in Reqs
      BY <1>0, <1>6 DEF Sleep, Expire, Cancelled, bookVars, reqVars, TypeOK
    <2>2. \A q \in Reqs : Taking(q)' <=> Taking(q)
      BY <2>1 DEF Taking
    <2>3. CASE UNCHANGED row
      BY <2>1, <2>2, <2>3 DEF Book!bookVars
    <2>4. CASE Finish(w) /\ row' # row
      <3>1. /\ waiter[of[w]] = w /\ Open(of[w])
            /\ row' = [row EXCEPT ![of[w]] = "gone"]
        BY <1>0, <2>1, <2>4 DEF Finish, Forget, TypeOK, Open
      <3>2. CASE Expire(w)
        <4>1. ends[of[w]] <= now
          BY <3>1, <3>2 DEF Expire, Over
        <4>2. PICK s \in Reqs : s = of[w]
          BY <2>1
        <4>3. Book!Expire(s)
          BY <2>1, <2>2, <3>1, <4>1, <4>2 DEF Book!Expire, Open
        <4>4. QED
          BY <4>3 DEF Book!Next
      <3>3. CASE wpc[w] = "cancelled"
        <4>1. Gathers
          BY <2>1, <3>1, <3>3, JobAssumption DEF IInv, Driven
        <4>2. \E q \in Reqs : Taking(q)
          BY <4>1 DEF Gathers, Taking
        <4>3. row' \in [Reqs -> {"new", "open", "gone"}]
          BY <1>0, <3>1 DEF TypeOK
        <4>4. \A s \in Reqs : row'[s] # row[s] => row[s] = "open" /\ row'[s] = "gone"
          BY <1>0, <2>1, <3>1 DEF Open, TypeOK
        <4>5. QED
          BY <2>1, <4>2, <4>3, <4>4, TakenFromBook DEF Book!Next
      <3>4. QED
        BY <1>6, <2>4, <3>2, <3>3 DEF Sleep, Cancelled, bookVars
    <2>5. QED
      BY <1>6, <2>3, <2>4 DEF Sleep, Expire, Cancelled, bookVars
  <1>7. CASE Tick
    BY <1>7 DEF Tick, bookVars, reqVars, Taking, Book!Next, Book!Tick
  <1>8. CASE UNCHANGED vars
    BY <1>8 DEF vars, bookVars, reqVars, Taking, Book!bookVars
  <1>9. QED
    BY <1>1, <1>2, <1>3, <1>4, <1>5, <1>6, <1>7, <1>8 DEF Next, Handler, Plain, Book!Next

(* The table of sessions implements SessionBook: whatever the requests and however their
   steps interleave, a session opens once and never after the shutdown, its end only moves
   away, and it goes earlier only while somebody takes sessions away. *)
THEOREM TableImplementsBook == Spec => TableIsBook
  <1>1. Init => Book!Init
    BY DEF Init, Book!Init, Taking
  <1>2. QED
    BY <1>1, BookStep, Invariance, PTL DEF Spec, TableIsBook, Book!Spec
=============================================================================
