----------------------- MODULE CloudflaredTunnel_proof ------------------------
(***************************************************************************)
(* Theorems about CloudflaredTunnel, for any number of start() and stop()  *)
(* requests, processes and exits: as long as no start() overtakes a stop() *)
(* there is one process, and none is left after the last stop().           *)
(***************************************************************************)
EXTENDS CloudflaredTunnel, FiniteSetTheorems, TLAPS

-----------------------------------------------------------------------------
(* The inductive invariant *)

\* the call that is still to come has no worker, and _task points to one that was made
Started ==
  /\ \A c \in Calls : pc[c] = "idle" => wpc[c] = "none"
  /\ task # None => wpc[task] # "none"

Live(w) == wpc[w] \notin {"none", "done"}
Pending(c) == pc[c] \in {"kill", "join"}

\* while a stop is under way nothing is wanted, and who is cancelled is awaited
Stopping ==
  /\ \A c \in Calls : Pending(c) => ~desired
  /\ \A w \in Calls : cancelled[w] => \E c \in Calls : joins[c] = w

\* there is one worker at a time, and a stop that is not over yet knows it
OneWorker ==
  /\ \A v, w \in Calls : Live(v) /\ Live(w) => v = w
  /\ \A w \in Calls : Live(w) => task = w \/ \E c \in Calls : joins[c] = w
  /\ \A w \in Calls : Live(w) /\ task = w =>
       IF desired THEN ~stopping ELSE \E c \in Calls : pc[c] = "kill"

\* a process that is up is the one of _proc, and the worker reads from it
Owned ==
  /\ \A p \in Processes : alive[p] = "up" => proc = p /\ \E w \in Calls : wpc[w] = "read" /\ mine[w] = p
  /\ \A w \in Calls : wpc[w] = "read" /\ desired => proc = mine[w]
  /\ \A w \in Calls : wpc[w] = "kill" => ~desired

\* the link that is shown is the one of the reading worker, or about to be removed
Shown == url => IF desired THEN \E w \in Calls : wpc[w] = "read"
                           ELSE \E c \in Calls : Pending(c)

Calm == ~crossed => Stopping /\ OneWorker /\ Owned /\ Shown
IInv == TypeOK /\ Started /\ Calm

-----------------------------------------------------------------------------
(* Types *)

Pcs  == {"idle", "kill", "join", "done"}
Wpcs == {"none", "new", "spawn", "read", "kill", "delay", "done"}

LEMMA TypeInit == Init => TypeOK /\ Started
  <1> SUFFICES ASSUME Init PROVE TypeOK /\ Started
    OBVIOUS
  <1>1. /\ victim \in [Actors -> Processes \cup {None}] /\ \A a \in Actors : victim[a] = None
        /\ \A c \in Calls : <<"call", c>> \in Actors /\ <<"work", c>> \in Actors
    BY DEF Init, Actors
  <1>2. /\ desired \in BOOLEAN /\ stopping \in BOOLEAN /\ url \in BOOLEAN /\ crossed \in BOOLEAN
        /\ task \in Calls \cup {None} /\ proc \in Processes \cup {None} /\ op \in Asks
        /\ alive \in [Processes -> {"unborn", "up", "term", "gone"}]
    BY DEF Init
  <1>3. /\ pc \in [Calls -> Pcs] /\ wpc \in [Calls -> Wpcs]
        /\ joins \in [Calls -> Calls \cup {None}] /\ mine \in [Calls -> Processes \cup {None}]
        /\ cancelled \in [Calls -> BOOLEAN]
    BY DEF Init, Pcs, Wpcs
  <1>4. /\ task = None
        /\ \A c \in Calls : pc[c] = "idle" /\ wpc[c] = "none" /\ joins[c] = None /\ mine[c] = None
                           /\ ~cancelled[c]
    BY DEF Init
  <1>5. exits \in 0 .. MaxExits
    BY TunnelAssumption DEF Init
  <1>6. QED
    BY <1>1, <1>2, <1>3, <1>4, <1>5 DEF TypeOK, Started, Pcs, Wpcs

(* What the operations on _proc and _task do.                                *)
LEMMA TakeProcFacts ==
  ASSUME TypeOK, NEW a \in Actors, TakeProc(a)
  PROVE  /\ proc' = None /\ proc \in Processes \cup {None}
         /\ victim' \in [Actors -> Processes \cup {None}]
         /\ victim'[a] # None <=> MustWait
         /\ \A b \in Actors : b # a => victim'[b] = victim[b]
         /\ alive' \in [Processes -> {"unborn", "up", "term", "gone"}]
         /\ \A p \in Processes : alive'[p] = "up" => alive[p] = "up" /\ p # proc
  <1>1. /\ proc \in Processes \cup {None} /\ victim \in [Actors -> Processes \cup {None}]
        /\ alive \in [Processes -> {"unborn", "up", "term", "gone"}]
        /\ None \notin Processes
    BY TunnelAssumption DEF TypeOK
  <1>2. CASE MustWait
    BY <1>1, <1>2 DEF TakeProc, MustWait, Alive
  <1>3. CASE ~MustWait
    BY <1>1, <1>3 DEF TakeProc, MustWait, Alive
  <1>4. QED
    BY <1>2, <1>3

LEMMA CancelsFacts ==
  ASSUME TypeOK, Started, NEW c \in Calls, pc[c] \in {"idle", "kill"}, Cancels(c)
  PROVE  /\ task' = None
         /\ \/ /\ task \in Over /\ pc' = [pc EXCEPT ![c] = "done"] /\ url' = FALSE
               /\ joins' = joins /\ cancelled' = cancelled
            \/ /\ task \in Calls /\ Live(task) /\ pc' = [pc EXCEPT ![c] = "join"] /\ url' = url
               /\ joins' = [joins EXCEPT ![c] = task]
               /\ cancelled' = [cancelled EXCEPT ![task] = TRUE]
  <1>1. task \notin Over => task \in Calls /\ Live(task)
    BY DEF TypeOK, Started, Over, Live
  <1>2. QED
    BY <1>1 DEF Cancels, Idle, Cancel

LEMMA TypeStep ==
  ASSUME TypeOK, Started, [Next]_vars
  PROVE  TypeOK' /\ Started'
  <1>1. /\ desired \in BOOLEAN /\ stopping \in BOOLEAN /\ url \in BOOLEAN
        /\ task \in Calls \cup {None} /\ proc \in Processes \cup {None}
        /\ alive \in [Processes -> {"unborn", "up", "term", "gone"}]
        /\ exits \in 0 .. MaxExits /\ op \in Asks
        /\ pc \in [Calls -> Pcs] /\ wpc \in [Calls -> Wpcs]
        /\ victim \in [Actors -> Processes \cup {None}]
        /\ joins \in [Calls -> Calls \cup {None}] /\ mine \in [Calls -> Processes \cup {None}]
        /\ cancelled \in [Calls -> BOOLEAN] /\ crossed \in BOOLEAN
    BY DEF TypeOK, Pcs, Wpcs
  <1>2. \A c \in Calls :
          /\ wpc[c] # "none" => op[c] = "start"
          /\ cancelled[c] => wpc[c] \notin {"none", "done"}
          /\ (mine[c] # None) <=> wpc[c] \in {"read", "kill"}
          /\ (joins[c] # None) <=> pc[c] = "join"
          /\ (victim[<<"call", c>>] # None) <=> pc[c] = "kill"
          /\ (victim[<<"work", c>>] # None) <=> wpc[c] = "kill"
          /\ pc[c] = "idle" => wpc[c] = "none"
    BY DEF TypeOK, Started
  <1>3. /\ None \notin Calls /\ None \notin Processes /\ MaxExits \in Nat
        /\ \A c, d \in Calls : /\ <<"call", c>> \in Actors /\ <<"work", c>> \in Actors
                               /\ <<"call", c>> # <<"work", d>>
                               /\ c # d => <<"call", c>> # <<"call", d>> /\ <<"work", c>> # <<"work", d>>
    BY TunnelAssumption DEF Actors
  <1>4. task # None => wpc[task] # "none"
    BY DEF Started
  \* a worker without a process goes on to another place without one
  <1>5. ASSUME NEW w \in Calls, NEW s \in {"spawn", "delay", "done"},
               wpc[w] \in {"new", "spawn", "delay"}, ~cancelled[w],
               wpc' = [wpc EXCEPT ![w] = s], url' \in BOOLEAN,
               UNCHANGED <<desired, stopping, task, proc, alive, exits, callers, victim, mine, cancelled>>
        PROVE  TypeOK' /\ Started'
    <2>1. wpc' \in [Calls -> Wpcs] /\ wpc'[w] = s /\ \A d \in Calls : d # w => wpc'[d] = wpc[d]
      BY <1>1, <1>5 DEF Wpcs
    <2>2. \A d \in Calls :
            /\ wpc'[d] # "none" => op'[d] = "start"
            /\ cancelled'[d] => wpc'[d] \notin {"none", "done"}
            /\ (mine'[d] # None) <=> wpc'[d] \in {"read", "kill"}
      BY <1>2, <1>5, <2>1 DEF callers
    <2>3. \A d \in Calls :
            /\ (joins'[d] # None) <=> pc'[d] = "join"
            /\ (victim'[<<"call", d>>] # None) <=> pc'[d] = "kill"
            /\ (victim'[<<"work", d>>] # None) <=> wpc'[d] = "kill"
      BY <1>2, <1>5, <2>1 DEF callers
    <2>4. Started'
      BY <1>1, <1>2, <1>4, <1>5, <2>1 DEF callers, Started
    <2>5. QED
      BY <1>1, <1>5, <2>1, <2>2, <2>3, <2>4 DEF callers, TypeOK, Pcs, Wpcs
  \* a worker gives up the process it owned and goes on
  <1>21. ASSUME NEW w \in Calls, NEW s \in {"delay", "done"}, wpc[w] # "none",
                wpc' = [wpc EXCEPT ![w] = s], mine' = [mine EXCEPT ![w] = None],
                victim' = [victim EXCEPT ![<<"work", w>>] = None],
                cancelled' = [cancelled EXCEPT ![w] = FALSE], url' \in BOOLEAN,
                UNCHANGED <<desired, stopping, task, proc, alive, exits, callers>>
         PROVE  TypeOK' /\ Started'
    <2>1. /\ wpc' \in [Calls -> Wpcs] /\ wpc'[w] = s /\ \A d \in Calls : d # w => wpc'[d] = wpc[d]
          /\ mine' \in [Calls -> Processes \cup {None}] /\ mine'[w] = None
          /\ \A d \in Calls : d # w => mine'[d] = mine[d]
          /\ cancelled' \in [Calls -> BOOLEAN] /\ ~cancelled'[w]
          /\ \A d \in Calls : d # w => cancelled'[d] = cancelled[d]
      BY <1>1, <1>21 DEF Wpcs
    <2>2. /\ victim' \in [Actors -> Processes \cup {None}] /\ victim'[<<"work", w>>] = None
          /\ \A b \in Actors : b # <<"work", w>> => victim'[b] = victim[b]
      BY <1>1, <1>3, <1>21
    <2>3. op' = op /\ pc' = pc /\ joins' = joins /\ crossed' = crossed
      BY <1>21 DEF callers
    <2>4. op[w] = "start" /\ pc[w] # "idle"
      BY <1>2, <1>21
    <2>5. ASSUME NEW d \in Calls, d # w
          PROVE  /\ wpc'[d] # "none" => op'[d] = "start"
                 /\ cancelled'[d] => wpc'[d] \notin {"none", "done"}
                 /\ (mine'[d] # None) <=> wpc'[d] \in {"read", "kill"}
                 /\ (victim'[<<"work", d>>] # None) <=> wpc'[d] = "kill"
                 /\ pc'[d] = "idle" => wpc'[d] = "none"
      <3>1. /\ wpc'[d] = wpc[d] /\ mine'[d] = mine[d] /\ cancelled'[d] = cancelled[d]
            /\ victim'[<<"work", d>>] = victim[<<"work", d>>]
        BY <1>3, <2>1, <2>2, <2>5
      <3>2. QED
        BY <1>2, <2>3, <3>1
    <2>6. \A d \in Calls : victim'[<<"call", d>>] = victim[<<"call", d>>]
      BY <1>3, <2>2
    <2>7. \A d \in Calls :
            /\ wpc'[d] # "none" => op'[d] = "start"
            /\ cancelled'[d] => wpc'[d] \notin {"none", "done"}
            /\ (mine'[d] # None) <=> wpc'[d] \in {"read", "kill"}
            /\ (joins'[d] # None) <=> pc'[d] = "join"
            /\ (victim'[<<"call", d>>] # None) <=> pc'[d] = "kill"
            /\ (victim'[<<"work", d>>] # None) <=> wpc'[d] = "kill"
            /\ pc'[d] = "idle" => wpc'[d] = "none"
      <3>1. /\ wpc'[w] \in {"delay", "done"} /\ mine'[w] = None /\ ~cancelled'[w]
            /\ victim'[<<"work", w>>] = None /\ op'[w] = "start" /\ pc'[w] # "idle"
        BY <2>1, <2>2, <2>3, <2>4
      <3>2. \A d \in Calls :
              /\ (joins'[d] # None) <=> pc'[d] = "join"
              /\ (victim'[<<"call", d>>] # None) <=> pc'[d] = "kill"
        BY <1>2, <2>3, <2>6
      <3> TAKE d \in Calls
      <3>3. CASE d = w
        <4>1. /\ wpc'[d] \in {"delay", "done"} /\ mine'[d] = None /\ ~cancelled'[d]
              /\ victim'[<<"work", d>>] = None /\ op'[d] = "start" /\ pc'[d] # "idle"
          BY <3>1, <3>3
        <4>2. QED
          BY <3>2, <4>1
      <3>4. CASE d # w
        <4>1. /\ wpc'[d] # "none" => op'[d] = "start"
              /\ cancelled'[d] => wpc'[d] \notin {"none", "done"}
              /\ (mine'[d] # None) <=> wpc'[d] \in {"read", "kill"}
              /\ (victim'[<<"work", d>>] # None) <=> wpc'[d] = "kill"
              /\ pc'[d] = "idle" => wpc'[d] = "none"
          BY <2>5, <3>4
        <4>2. QED
          BY <3>2, <4>1
      <3>5. QED
        BY <3>3, <3>4
    <2>8. Started'
      BY <1>1, <1>4, <1>21, <2>1, <2>7 DEF Started
    <2>9. QED
      BY <1>1, <1>21, <2>1, <2>2, <2>3, <2>7, <2>8 DEF TypeOK, Pcs, Wpcs
  <1>6. ASSUME NEW c \in Calls, Start(c) PROVE TypeOK' /\ Started'
    <2>1. /\ pc[c] = "idle" /\ op[c] = "start" /\ pc' = [pc EXCEPT ![c] = "done"]
          /\ \/ task' = c /\ wpc' = [wpc EXCEPT ![c] = "new"]
             \/ task' = task /\ wpc' = wpc
          /\ UNCHANGED <<url, proc, alive, exits, op, victim, joins, mine, cancelled>>
          /\ desired' \in BOOLEAN /\ stopping' \in BOOLEAN /\ crossed' \in BOOLEAN
      BY <1>1, <1>6 DEF Start
    <2>2. /\ pc' \in [Calls -> Pcs] /\ pc'[c] = "done" /\ \A d \in Calls : d # c => pc'[d] = pc[d]
          /\ wpc' \in [Calls -> Wpcs] /\ wpc'[c] \in {"none", "new"}
          /\ \A d \in Calls : d # c => wpc'[d] = wpc[d]
      <3>1. pc' \in [Calls -> Pcs] /\ pc'[c] = "done" /\ \A d \in Calls : d # c => pc'[d] = pc[d]
        BY <1>1, <2>1 DEF Pcs
      <3>2. wpc[c] = "none"
        BY <1>2, <2>1
      <3>3. CASE wpc' = wpc
        BY <1>1, <3>1, <3>2, <3>3
      <3>4. CASE wpc' = [wpc EXCEPT ![c] = "new"]
        BY <1>1, <3>1, <3>4 DEF Wpcs
      <3>5. QED
        BY <2>1, <3>3, <3>4
    <2>3. \A d \in Calls :
            /\ wpc'[d] # "none" => op'[d] = "start"
            /\ cancelled'[d] => wpc'[d] \notin {"none", "done"}
            /\ (mine'[d] # None) <=> wpc'[d] \in {"read", "kill"}
      <3>1. /\ op'[c] = "start" /\ wpc[c] = "none" /\ ~cancelled[c] /\ mine[c] = None
        BY <1>2, <2>1
      <3>2. cancelled' = cancelled /\ mine' = mine /\ op' = op
        BY <2>1
      <3>3. ASSUME NEW d \in Calls, d # c
            PROVE  /\ wpc'[d] # "none" => op'[d] = "start"
                   /\ cancelled'[d] => wpc'[d] \notin {"none", "done"}
                   /\ (mine'[d] # None) <=> wpc'[d] \in {"read", "kill"}
        <4>1. wpc'[d] = wpc[d]
          BY <2>2, <3>3
        <4>2. QED
          BY <1>2, <3>2, <4>1
      <3>4. QED
        BY <2>2, <3>1, <3>2, <3>3
    <2>4. \A d \in Calls :
            /\ (joins'[d] # None) <=> pc'[d] = "join"
            /\ (victim'[<<"call", d>>] # None) <=> pc'[d] = "kill"
            /\ (victim'[<<"work", d>>] # None) <=> wpc'[d] = "kill"
      <3>1. ASSUME NEW d \in Calls, d # c
            PROVE  /\ (joins'[d] # None) <=> pc'[d] = "join"
                   /\ (victim'[<<"call", d>>] # None) <=> pc'[d] = "kill"
                   /\ (victim'[<<"work", d>>] # None) <=> wpc'[d] = "kill"
        BY <1>2, <2>1, <2>2, <3>1
      <3>2. joins'[c] = None /\ victim'[<<"call", c>>] = None /\ victim'[<<"work", c>>] = None
        BY <1>2, <2>1
      <3>3. QED
        BY <2>2, <3>1, <3>2
    <2>5. Started' /\ task' \in Calls \cup {None}
      BY <1>1, <1>2, <1>4, <2>1, <2>2 DEF Started, Wpcs
    <2>6. QED
      BY <1>1, <2>1, <2>2, <2>3, <2>4, <2>5 DEF TypeOK, Pcs, Wpcs
  \* Cancels(c), when the call waits for no victim
  <1>7. ASSUME NEW c \in Calls, pc[c] \in {"idle", "kill"}, Cancels(c),
               victim' \in [Actors -> Processes \cup {None}], victim'[<<"call", c>>] = None,
               \A b \in Actors : b # <<"call", c>> => victim'[b] = victim[b]
        PROVE  /\ pc' \in [Calls -> Pcs] /\ joins' \in [Calls -> Calls \cup {None}]
               /\ cancelled' \in [Calls -> BOOLEAN] /\ url' \in BOOLEAN /\ task' \in {None, task}
               /\ \A d \in Calls :
                    /\ pc'[d] = "idle" => pc[d] = "idle"
                    /\ cancelled'[d] => wpc[d] \notin {"none", "done"}
                    /\ (joins'[d] # None) <=> pc'[d] = "join"
                    /\ (victim'[<<"call", d>>] # None) <=> pc'[d] = "kill"
                    /\ (victim'[<<"work", d>>] # None) <=> wpc[d] = "kill"
    <2>1. /\ task' = None
          /\ \/ /\ task \in Over /\ pc' = [pc EXCEPT ![c] = "done"] /\ url' = FALSE
                /\ joins' = joins /\ cancelled' = cancelled
             \/ /\ task \in Calls /\ Live(task) /\ pc' = [pc EXCEPT ![c] = "join"] /\ url' = url
                /\ joins' = [joins EXCEPT ![c] = task]
                /\ cancelled' = [cancelled EXCEPT ![task] = TRUE]
      BY <1>7, CancelsFacts
    <2>2. joins[c] = None
      BY <1>2, <1>7
    <2>3. /\ pc' \in [Calls -> Pcs] /\ \A d \in Calls : d # c => pc'[d] = pc[d] /\ joins'[d] = joins[d]
          /\ \/ pc'[c] = "done" /\ joins'[c] = None
             \/ pc'[c] = "join" /\ joins'[c] # None
          /\ joins' \in [Calls -> Calls \cup {None}]
      BY <1>1, <1>3, <2>1, <2>2 DEF Pcs
    <2>4. \A d \in Calls : cancelled'[d] => cancelled[d] \/ Live(d)
      BY <1>1, <2>1
    <2>5. cancelled' \in [Calls -> BOOLEAN] /\ url' \in BOOLEAN
      BY <1>1, <2>1
    <2>6. \A d \in Calls : /\ (victim'[<<"call", d>>] # None) <=> pc'[d] = "kill"
                           /\ (victim'[<<"work", d>>] # None) <=> wpc[d] = "kill"
      <3>1. /\ \A d \in Calls : victim'[<<"work", d>>] = victim[<<"work", d>>]
            /\ \A d \in Calls : d # c => victim'[<<"call", d>>] = victim[<<"call", d>>]
        BY <1>3, <1>7
      <3>2. \A d \in Calls : d # c => ((victim'[<<"call", d>>] # None) <=> pc'[d] = "kill")
        BY <1>2, <2>3, <3>1
      <3>3. (victim'[<<"call", c>>] # None) <=> pc'[c] = "kill"
        BY <1>7, <2>3
      <3>4. QED
        BY <1>2, <3>1, <3>2, <3>3
    <2>7. \A d \in Calls : /\ cancelled'[d] => wpc[d] \notin {"none", "done"}
                           /\ (joins'[d] # None) <=> pc'[d] = "join"
                           /\ pc'[d] = "idle" => pc[d] = "idle"
      BY <1>2, <2>3, <2>4 DEF Live
    <2>8. QED
      BY <2>1, <2>3, <2>5, <2>6, <2>7
  <1>8. ASSUME NEW c \in Calls, Stop(c) PROVE TypeOK' /\ Started'
    <2> DEFINE a == <<"call", c>>
    <2>1. /\ a \in Actors /\ pc[c] = "idle" /\ TakeProc(a) /\ UNCHANGED <<exits, op, wpc, mine, crossed>>
          /\ desired' \in BOOLEAN /\ stopping' \in BOOLEAN
      BY <1>3, <1>8 DEF Stop
    <2>2. /\ proc' = None /\ victim' \in [Actors -> Processes \cup {None}]
          /\ victim'[a] # None <=> MustWait
          /\ \A b \in Actors : b # a => victim'[b] = victim[b]
          /\ alive' \in [Processes -> {"unborn", "up", "term", "gone"}]
      BY <2>1, TakeProcFacts
    <2>3. /\ pc' \in [Calls -> Pcs] /\ joins' \in [Calls -> Calls \cup {None}]
          /\ cancelled' \in [Calls -> BOOLEAN] /\ url' \in BOOLEAN /\ task' \in {None, task}
          /\ \A d \in Calls :
               /\ pc'[d] = "idle" => pc[d] = "idle"
               /\ cancelled'[d] => wpc[d] \notin {"none", "done"}
               /\ (joins'[d] # None) <=> pc'[d] = "join"
               /\ (victim'[<<"call", d>>] # None) <=> pc'[d] = "kill"
               /\ (victim'[<<"work", d>>] # None) <=> wpc[d] = "kill"
      <3>1. CASE ~MustWait
        <4>1. Cancels(c) /\ victim'[a] = None
          BY <1>8, <2>2, <3>1 DEF Stop
        <4>2. QED
          BY <1>7, <2>1, <2>2, <4>1
      <3>2. CASE MustWait
        <4>1. /\ pc' = [pc EXCEPT ![c] = "kill"] /\ UNCHANGED <<url, task, joins, cancelled>>
              /\ victim'[a] # None
          BY <1>8, <2>2, <3>2 DEF Stop
        <4>2. pc' \in [Calls -> Pcs] /\ pc'[c] = "kill" /\ \A d \in Calls : d # c => pc'[d] = pc[d]
          BY <1>1, <4>1 DEF Pcs
        <4>3. \A d \in Calls : /\ (victim'[<<"call", d>>] # None) <=> pc'[d] = "kill"
                               /\ (victim'[<<"work", d>>] # None) <=> wpc[d] = "kill"
          <5>1. /\ \A d \in Calls : victim'[<<"work", d>>] = victim[<<"work", d>>]
                /\ \A d \in Calls : d # c => victim'[<<"call", d>>] = victim[<<"call", d>>]
            BY <1>3, <2>2
          <5>2. \A d \in Calls : d # c => ((victim'[<<"call", d>>] # None) <=> pc'[d] = "kill")
            BY <1>2, <4>2, <5>1
          <5>3. (victim'[<<"call", c>>] # None) <=> pc'[c] = "kill"
            BY <4>1, <4>2
          <5>4. QED
            BY <1>2, <5>1, <5>2, <5>3
        <4>4. \A d \in Calls : /\ pc'[d] = "idle" => pc[d] = "idle"
                               /\ cancelled'[d] => wpc[d] \notin {"none", "done"}
                               /\ (joins'[d] # None) <=> pc'[d] = "join"
          BY <1>2, <2>1, <4>1, <4>2
        <4>5. QED
          BY <1>1, <4>1, <4>2, <4>3, <4>4
      <3>3. QED
        BY <3>1, <3>2
    <2>4. Started'
      BY <1>2, <1>4, <2>1, <2>3 DEF Started
    <2>5. QED
      BY <1>1, <1>2, <2>1, <2>2, <2>3, <2>4 DEF TypeOK, Pcs, Wpcs
  <1>9. ASSUME NEW c \in Calls, StopCancels(c) PROVE TypeOK' /\ Started'
    <2>1. /\ victim' \in [Actors -> Processes \cup {None}] /\ victim'[<<"call", c>>] = None
          /\ \A b \in Actors : b # <<"call", c>> => victim'[b] = victim[b]
      BY <1>1, <1>3, <1>9 DEF StopCancels
    <2>2. /\ pc[c] = "kill" /\ Cancels(c)
          /\ UNCHANGED <<desired, stopping, proc, alive, exits, op, wpc, mine, crossed>>
      BY <1>9 DEF StopCancels
    <2>3. /\ pc' \in [Calls -> Pcs] /\ joins' \in [Calls -> Calls \cup {None}]
          /\ cancelled' \in [Calls -> BOOLEAN] /\ url' \in BOOLEAN /\ task' \in {None, task}
          /\ \A d \in Calls :
               /\ pc'[d] = "idle" => pc[d] = "idle"
               /\ cancelled'[d] => wpc[d] \notin {"none", "done"}
               /\ (joins'[d] # None) <=> pc'[d] = "join"
               /\ (victim'[<<"call", d>>] # None) <=> pc'[d] = "kill"
               /\ (victim'[<<"work", d>>] # None) <=> wpc[d] = "kill"
      BY <1>7, <2>1, <2>2
    <2>4. Started'
      BY <1>2, <1>4, <2>2, <2>3 DEF Started
    <2>5. QED
      BY <1>1, <1>2, <2>1, <2>2, <2>3, <2>4 DEF TypeOK, Pcs, Wpcs
  <1>10. ASSUME NEW c \in Calls, StopReturns(c) PROVE TypeOK' /\ Started'
    <2>1. /\ pc[c] = "join" /\ pc' = [pc EXCEPT ![c] = "done"]
          /\ joins' = [joins EXCEPT ![c] = None] /\ url' = FALSE
          /\ UNCHANGED <<desired, stopping, task, proc, alive, exits, op, victim, crossed, wpc,
                         mine, cancelled>>
      BY <1>10 DEF StopReturns, workers
    <2>2. /\ pc' \in [Calls -> Pcs] /\ pc'[c] = "done" /\ \A d \in Calls : d # c => pc'[d] = pc[d]
      BY <1>1, <2>1 DEF Pcs
    <2>3. /\ joins' \in [Calls -> Calls \cup {None}] /\ joins'[c] = None
          /\ \A d \in Calls : d # c => joins'[d] = joins[d]
      BY <1>1, <2>1
    <2>4. \A d \in Calls :
            /\ (joins'[d] # None) <=> pc'[d] = "join"
            /\ (victim'[<<"call", d>>] # None) <=> pc'[d] = "kill"
            /\ pc'[d] = "idle" => wpc'[d] = "none"
      <3>1. ASSUME NEW d \in Calls, d # c
            PROVE  /\ (joins'[d] # None) <=> pc'[d] = "join"
                   /\ (victim'[<<"call", d>>] # None) <=> pc'[d] = "kill"
                   /\ pc'[d] = "idle" => wpc'[d] = "none"
        BY <1>2, <2>1, <2>2, <2>3, <3>1
      <3>2. victim[<<"call", c>>] = None
        BY <1>2, <2>1
      <3>3. QED
        BY <2>1, <2>2, <2>3, <3>1, <3>2
    <2>5. Started'
      BY <1>1, <1>2, <1>4, <2>1, <2>4 DEF Started
    <2>6. QED
      BY <1>1, <1>2, <2>1, <2>2, <2>3, <2>4, <2>5 DEF TypeOK, Pcs, Wpcs
  <1>11. ASSUME NEW w \in Calls, Begins(w) \/ Restarts(w) \/ SpawnFails(w) PROVE TypeOK' /\ Started'
    <2>1. /\ wpc[w] \in {"new", "spawn", "delay"} /\ ~cancelled[w] /\ url' \in BOOLEAN
          /\ \E s \in {"spawn", "delay", "done"} : wpc' = [wpc EXCEPT ![w] = s]
          /\ UNCHANGED <<desired, stopping, task, proc, alive, exits, callers, victim, mine, cancelled>>
      BY <1>1, <1>11 DEF Begins, Restarts, SpawnFails, RunOnce, Moves, state
    <2>2. QED
      BY <1>5, <2>1
  <1>12. ASSUME NEW c \in Calls, Spawns(c) PROVE TypeOK' /\ Started'
    BY <1>1, <1>2, <1>3, <1>4, <1>12 DEF Spawns, Moves, state, callers, workers, Pcs, Wpcs,
         TypeOK, Started
  <1>13. ASSUME NEW c \in Calls, PrintsUrl(c) PROVE TypeOK' /\ Started'
    BY <1>1, <1>2, <1>3, <1>4, <1>13 DEF PrintsUrl, state, callers, workers, Pcs, Wpcs, TypeOK,
         Started
  <1>14. ASSUME NEW w \in Calls, Eof(w) PROVE TypeOK' /\ Started'
    <2> DEFINE a == <<"work", w>>
    <2>1. /\ wpc[w] = "read" /\ cancelled' = [cancelled EXCEPT ![w] = FALSE] /\ a \in Actors
          /\ UNCHANGED <<desired, stopping, task, exits, callers>>
      BY <1>3, <1>14 DEF Eof
    <2>2. /\ proc' = None /\ victim' \in [Actors -> Processes \cup {None}]
          /\ \A b \in Actors : b # a => victim'[b] = victim[b]
          /\ alive' \in [Processes -> {"unborn", "up", "term", "gone"}]
          /\ mine' \in [Calls -> Processes \cup {None}] /\ url' \in BOOLEAN
          /\ \A d \in Calls : d # w => mine'[d] = mine[d]
          /\ wpc' \in [Calls -> Wpcs] /\ \A d \in Calls : d # w => wpc'[d] = wpc[d]
          /\ \/ wpc'[w] = "kill" /\ victim'[a] # None /\ mine'[w] # None
             \/ wpc'[w] \in {"delay", "done"} /\ victim'[a] = None /\ mine'[w] = None
      <3>1. CASE MustWait
        <4>1. TakeProc(a) /\ wpc' = [wpc EXCEPT ![w] = "kill"] /\ url' = url /\ mine' = mine
          BY <1>14, <3>1 DEF Eof, Moves
        <4>2. /\ proc' = None /\ victim' \in [Actors -> Processes \cup {None}] /\ victim'[a] # None
              /\ \A b \in Actors : b # a => victim'[b] = victim[b]
              /\ alive' \in [Processes -> {"unborn", "up", "term", "gone"}]
          BY <2>1, <3>1, <4>1, TakeProcFacts
        <4>3. wpc' \in [Calls -> Wpcs] /\ wpc'[w] = "kill" /\ \A d \in Calls : d # w => wpc'[d] = wpc[d]
          BY <1>1, <4>1 DEF Wpcs
        <4>4. QED
          BY <1>1, <1>2, <2>1, <4>1, <4>2, <4>3
      <3>2. CASE ~MustWait
        <4>1. /\ proc' = None /\ alive' = alive /\ mine' = [mine EXCEPT ![w] = None]
              /\ victim' = [victim EXCEPT ![a] = None] /\ url' \in BOOLEAN
              /\ \E s \in {"delay", "done"} : wpc' = [wpc EXCEPT ![w] = s]
          BY <1>1, <1>14, <3>2 DEF Eof, Finally, Leaves, Moves, UrlDropped
        <4>2. /\ wpc' \in [Calls -> Wpcs] /\ wpc'[w] \in {"delay", "done"}
              /\ \A d \in Calls : d # w => wpc'[d] = wpc[d]
          BY <1>1, <4>1 DEF Wpcs
        <4>3. /\ mine' \in [Calls -> Processes \cup {None}] /\ mine'[w] = None
              /\ \A d \in Calls : d # w => mine'[d] = mine[d]
          BY <1>1, <4>1
        <4>4. /\ victim' \in [Actors -> Processes \cup {None}] /\ victim'[a] = None
              /\ \A b \in Actors : b # a => victim'[b] = victim[b]
          BY <1>1, <2>1, <4>1
        <4>5. QED
          BY <1>1, <4>1, <4>2, <4>3, <4>4
      <3>3. QED
        BY <3>1, <3>2
    <2>3. /\ cancelled' \in [Calls -> BOOLEAN] /\ ~cancelled'[w]
          /\ \A d \in Calls : d # w => cancelled'[d] = cancelled[d]
      BY <1>1, <2>1
    <2>4. \A d \in Calls :
            /\ wpc'[d] # "none" => op'[d] = "start"
            /\ cancelled'[d] => wpc'[d] \notin {"none", "done"}
            /\ (mine'[d] # None) <=> wpc'[d] \in {"read", "kill"}
      <3>1. ASSUME NEW d \in Calls, d # w
            PROVE  /\ wpc'[d] # "none" => op'[d] = "start"
                   /\ cancelled'[d] => wpc'[d] \notin {"none", "done"}
                   /\ (mine'[d] # None) <=> wpc'[d] \in {"read", "kill"}
        <4>1. /\ op' = op /\ wpc'[d] = wpc[d] /\ mine'[d] = mine[d] /\ cancelled'[d] = cancelled[d]
          BY ONLY <2>1, <2>2, <2>3, <3>1, d \in Calls DEF callers
        <4>2. QED
          BY ONLY <1>2, <4>1, d \in Calls
      <3>2. op'[w] = "start" /\ ~cancelled'[w] /\ ((mine'[w] # None) <=> wpc'[w] \in {"read", "kill"})
        BY <1>2, <2>1, <2>2, <2>3 DEF callers
      <3>3. QED
        BY <3>1, <3>2
    <2>5. \A d \in Calls :
            /\ (joins'[d] # None) <=> pc'[d] = "join"
            /\ (victim'[<<"call", d>>] # None) <=> pc'[d] = "kill"
      <3>1. joins' = joins /\ pc' = pc
        BY <2>1 DEF callers
      <3>2. \A d \in Calls : victim'[<<"call", d>>] = victim[<<"call", d>>]
        BY <1>3, <2>2
      <3>3. QED
        BY <1>2, <3>1, <3>2
    <2>6. \A d \in Calls : (victim'[<<"work", d>>] # None) <=> wpc'[d] = "kill"
      <3>1. ASSUME NEW d \in Calls, d # w PROVE (victim'[<<"work", d>>] # None) <=> wpc'[d] = "kill"
        <4>1. victim'[<<"work", d>>] = victim[<<"work", d>>] /\ wpc'[d] = wpc[d]
          BY <1>3, <2>2, <3>1
        <4>2. QED
          BY <1>2, <4>1
      <3>2. (victim'[a] # None) <=> wpc'[w] = "kill"
        BY <2>2
      <3>3. QED
        BY <3>1, <3>2
    <2>7. Started'
      BY <1>1, <1>2, <1>4, <2>1, <2>2 DEF callers, Started
    <2>8. QED
      BY <1>1, <2>1, <2>2, <2>3, <2>4, <2>5, <2>6, <2>7 DEF callers, TypeOK, Pcs, Wpcs
  <1>15. ASSUME NEW c \in Calls, Killed(c) PROVE TypeOK' /\ Started'
    <2>1. /\ wpc[c] # "none" /\ \E s \in {"delay", "done"} : wpc' = [wpc EXCEPT ![c] = s]
          /\ mine' = [mine EXCEPT ![c] = None] /\ url' \in BOOLEAN
          /\ victim' = [victim EXCEPT ![<<"work", c>>] = None]
          /\ UNCHANGED <<desired, stopping, task, proc, alive, exits, callers>>
      BY <1>1, <1>15 DEF Killed, Finally, Leaves, Moves, UrlDropped
    <2>2. cancelled' = [cancelled EXCEPT ![c] = FALSE]
      BY <1>1, <1>15 DEF Killed
    <2>3. QED
      BY <1>21, <2>1, <2>2
  <1>16. ASSUME NEW c \in Calls, Abandons(c) PROVE TypeOK' /\ Started'
    <2>1. /\ wpc[c] # "none" /\ wpc' = [wpc EXCEPT ![c] = "done"]
          /\ mine' = [mine EXCEPT ![c] = None] /\ url' \in BOOLEAN
          /\ victim' = [victim EXCEPT ![<<"work", c>>] = None]
          /\ cancelled' = [cancelled EXCEPT ![c] = FALSE]
          /\ UNCHANGED <<desired, stopping, task, proc, alive, exits, callers>>
      BY <1>1, <1>16 DEF Abandons, Moves, state
    <2>2. QED
      BY <1>21, <2>1
  <1>17. ASSUME NEW p \in Processes, Terminates(p) PROVE TypeOK' /\ Started'
    BY <1>1, <1>2, <1>3, <1>4, <1>17 DEF Terminates, state, callers, workers, Pcs, Wpcs, TypeOK,
         Started
  <1>18. ASSUME NEW p \in Processes, Exits(p) PROVE TypeOK' /\ Started'
    BY <1>1, <1>2, <1>3, <1>4, <1>18 DEF Exits, state, callers, workers, Pcs, Wpcs, TypeOK,
         Started
  <1>19. CASE UNCHANGED vars
    BY <1>1, <1>2, <1>4, <1>19 DEF vars, Pcs, Wpcs, TypeOK, Started
  <1>20. QED
    BY <1>6, <1>8, <1>9, <1>10, <1>11, <1>12, <1>13, <1>14, <1>15, <1>16, <1>17, <1>18, <1>19
       DEF Next, CallSteps, WorkSteps, Rest

-----------------------------------------------------------------------------
(* One worker, and what it owns *)

LEMMA CalmInit == Init => Calm
  BY DEF Init, Calm, Stopping, OneWorker, Owned, Shown, Live, Pending

(* A worker that has been cancelled, or that a stop awaits, is not wanted.   *)
LEMMA CalmFacts ==
  ASSUME TypeOK, Stopping
  PROVE  /\ \A c, w \in Calls : joins[c] = w => pc[c] = "join" /\ ~desired
         /\ \A w \in Calls : cancelled[w] => Live(w) /\ ~desired
         /\ \A w \in Calls : wpc[w] \in {"new", "spawn", "read", "kill", "delay"} => Live(w)
         /\ \A c \in Calls : pc[c] # "join" => joins[c] = None
  <1>1. \A c \in Calls : /\ (joins[c] # None) <=> pc[c] = "join"
                         /\ cancelled[c] => wpc[c] \notin {"none", "done"}
    BY DEF TypeOK
  <1>2. None \notin Calls
    BY TunnelAssumption
  <1>3. \A c, w \in Calls : joins[c] = w => pc[c] = "join" /\ ~desired
    BY <1>1, <1>2 DEF Stopping, Pending
  <1>4. QED
    BY <1>1, <1>3 DEF Stopping, Live

(* A stop() that has nothing to kill any more hands over to its join.        *)
LEMMA CalmCancels ==
  ASSUME TypeOK, Started, Stopping, OneWorker, NEW c \in Calls, pc[c] \in {"idle", "kill"}, Cancels(c),
         desired' = FALSE, wpc' = wpc
  PROVE  Stopping' /\ OneWorker' /\ Shown'
  <1>1. /\ task' = None
        /\ \/ /\ task \in Over /\ pc' = [pc EXCEPT ![c] = "done"] /\ url' = FALSE
              /\ joins' = joins /\ cancelled' = cancelled
           \/ /\ task \in Calls /\ Live(task) /\ pc' = [pc EXCEPT ![c] = "join"] /\ url' = url
              /\ joins' = [joins EXCEPT ![c] = task]
              /\ cancelled' = [cancelled EXCEPT ![task] = TRUE]
    BY CancelsFacts
  <1>2. /\ joins[c] = None /\ None \notin Calls /\ joins \in [Calls -> Calls \cup {None}]
        /\ cancelled \in [Calls -> BOOLEAN] /\ c \in DOMAIN pc
    BY CalmFacts, TunnelAssumption DEF TypeOK
  <1>3. \A d, w \in Calls : joins[d] = w => joins'[d] = w
    BY <1>1, <1>2
  <1>4. \A w \in Calls : cancelled'[w] => cancelled[w] \/ joins'[c] = w
    BY <1>1, <1>2
  <1>5. Stopping'
    BY <1>3, <1>4 DEF Stopping
  <1>6. \A w \in Calls : Live(w) /\ task = w => joins'[c] = w
    BY <1>1, <1>2 DEF Live, Over
  <1>7. OneWorker'
    BY <1>1, <1>2, <1>3, <1>6 DEF OneWorker, Live
  <1>8. url' => Pending(c)'
    BY <1>1, <1>2 DEF Pending
  <1>9. QED
    BY <1>5, <1>7, <1>8 DEF Shown

LEMMA CalmStep ==
  ASSUME TypeOK, Started, Calm, [Next]_vars
  PROVE  Calm'
  <1>1. SUFFICES ASSUME ~crossed', ~crossed
                 PROVE  Stopping' /\ OneWorker' /\ Owned' /\ Shown'
    <2>1. crossed => crossed'
      BY DEF Next, vars, Start, Stop, CallSteps, StopCancels, StopReturns, WorkSteps, Begins, Spawns,
             PrintsUrl, Eof, Killed, Restarts, Abandons, SpawnFails, Terminates, Exits, Rest, callers
    <2>2. QED
      BY <2>1 DEF Calm
  <1>2. Stopping /\ OneWorker /\ Owned /\ Shown
    BY <1>1 DEF Calm
  <1>3. /\ pc \in [Calls -> Pcs] /\ wpc \in [Calls -> Wpcs] /\ None \notin Calls /\ None \notin Processes
        /\ joins \in [Calls -> Calls \cup {None}] /\ mine \in [Calls -> Processes \cup {None}]
        /\ cancelled \in [Calls -> BOOLEAN] /\ task \in Calls \cup {None}
        /\ proc \in Processes \cup {None}
        /\ alive \in [Processes -> {"unborn", "up", "term", "gone"}]
        /\ \A c \in Calls : /\ (mine[c] # None) <=> wpc[c] \in {"read", "kill"}
                            /\ cancelled[c] => wpc[c] \notin {"none", "done"}
    BY TunnelAssumption DEF TypeOK, Pcs, Wpcs
  <1>4. /\ \A c, w \in Calls : joins[c] = w => pc[c] = "join" /\ ~desired
        /\ \A w \in Calls : cancelled[w] => Live(w) /\ ~desired
        /\ \A w \in Calls : wpc[w] \in {"new", "spawn", "read", "kill", "delay"} => Live(w)
        /\ \A c \in Calls : pc[c] # "join" => joins[c] = None
    BY <1>2, CalmFacts
  <1>5. \A v, w \in Calls : Live(v) /\ Live(w) => v = w
    BY <1>2 DEF OneWorker
  <1>6. ASSUME NEW c \in Calls, Start(c) PROVE Stopping' /\ OneWorker' /\ Owned' /\ Shown'
    <2>1. /\ desired' = TRUE /\ pc[c] = "idle" /\ pc' = [pc EXCEPT ![c] = "done"]
          /\ \A d \in Calls : ~Pending(d)
          /\ UNCHANGED <<url, proc, alive, joins, mine, cancelled>>
      BY <1>1, <1>6 DEF Start, Pending
    <2>2. /\ \A d \in Calls : ~Pending(d)' /\ joins[d] \notin Calls /\ ~cancelled[d]
          /\ \A w \in Calls : Live(w) => task = w /\ desired /\ ~stopping
      BY <1>2, <1>3, <1>4, <2>1 DEF Pending, OneWorker, Stopping
    <2>3. CASE Idle
      <3>1. /\ task' = c /\ stopping' = FALSE /\ wpc' = [wpc EXCEPT ![c] = "new"]
            /\ \A w \in Calls : ~Live(w)
        BY <1>3, <1>6, <2>2, <2>3 DEF Start, Idle, Over, Live
      <3>2. \A w \in Calls : /\ Live(w)' => w = c
                             /\ wpc'[w] \notin {"read", "kill"}
        BY <1>3, <1>4, <3>1 DEF Live
      <3>3. \A p \in Processes : alive[p] # "up"
        BY <1>2, <1>4, <3>1 DEF Owned
      <3>4. ~url
        BY <1>2, <1>4, <2>1, <3>1 DEF Shown
      <3>5. Stopping' /\ OneWorker'
        BY <1>2, <2>1, <2>2, <3>1, <3>2 DEF Stopping, OneWorker
      <3>6. Owned' /\ Shown'
        BY <2>1, <3>2, <3>3, <3>4 DEF Owned, Shown
      <3>7. QED
        BY <3>5, <3>6
    <2>4. CASE ~Idle
      <3>1. UNCHANGED <<stopping, task, wpc>> /\ desired
        BY <1>3, <1>6, <2>2, <2>4 DEF Start, Idle, Over, Live, Started
      <3>2. QED
        BY <1>2, <2>1, <2>2, <3>1 DEF Stopping, OneWorker, Owned, Shown, Live, Pending
    <2>5. QED
      BY <2>3, <2>4
  <1>7. ASSUME NEW c \in Calls, Stop(c) PROVE Stopping' /\ OneWorker' /\ Owned' /\ Shown'
    <2>1. /\ pc[c] = "idle" /\ desired' = FALSE /\ wpc' = wpc /\ TakeProc(<<"call", c>>)
          /\ <<"call", c>> \in Actors
      BY <1>7 DEF Stop, Actors
    <2>2. Owned'
      <3>1. \A p \in Processes : alive'[p] = "up" => alive[p] = "up" /\ p # proc
        BY <2>1, TakeProcFacts
      <3>2. QED
        BY <1>2, <2>1, <3>1 DEF Owned
    <2>3. CASE MustWait
      <3>1. pc' = [pc EXCEPT ![c] = "kill"] /\ UNCHANGED <<url, task, joins, cancelled>>
        BY <1>7, <2>3 DEF Stop
      <3>2. pc'[c] = "kill" /\ Pending(c)'
        BY <1>3, <3>1 DEF Pending
      <3>3. Stopping' /\ OneWorker' /\ Shown'
        BY <1>2, <2>1, <3>1, <3>2 DEF Stopping, OneWorker, Shown, Live
      <3>4. QED
        BY <2>2, <3>3
    <2>4. CASE ~MustWait
      BY <1>2, <1>7, <2>1, <2>2, <2>4, CalmCancels DEF Stop
    <2>5. QED
      BY <2>3, <2>4
  <1>8. ASSUME NEW c \in Calls, StopCancels(c) PROVE Stopping' /\ OneWorker' /\ Owned' /\ Shown'
    <2>1. pc[c] = "kill" /\ Cancels(c) /\ UNCHANGED <<desired, stopping, proc, alive, wpc, mine>>
      BY <1>8 DEF StopCancels
    <2>2. desired' = FALSE
      BY <1>2, <2>1 DEF Stopping, Pending, TypeOK
    <2>3. Stopping' /\ OneWorker' /\ Shown'
      BY <1>2, <2>1, <2>2, CalmCancels
    <2>4. Owned'
      BY <1>2, <2>1, <2>2 DEF Owned
    <2>5. QED
      BY <2>3, <2>4
  <1>9. ASSUME NEW c \in Calls, StopReturns(c) PROVE Stopping' /\ OneWorker' /\ Owned' /\ Shown'
    <2>1. /\ pc[c] = "join" /\ joins[c] \in Over /\ url' = FALSE /\ joins' = [joins EXCEPT ![c] = None]
          /\ pc' = [pc EXCEPT ![c] = "done"]
          /\ UNCHANGED <<desired, stopping, task, proc, alive, wpc, mine, cancelled>>
      BY <1>9 DEF StopReturns, workers
    <2>2. \A d, w \in Calls : joins[d] = w /\ Live(w) => joins'[d] = w
      BY <1>3, <2>1 DEF Over, Live
    <2>3. \A d \in Calls : /\ Pending(d)' => Pending(d)
                           /\ pc[d] = "kill" => pc'[d] = "kill"
      BY <1>3, <2>1 DEF Pending
    <2>4. Stopping' /\ OneWorker'
      BY <1>2, <1>4, <2>1, <2>2, <2>3 DEF Stopping, OneWorker, Live
    <2>5. Owned' /\ Shown'
      BY <1>2, <2>1 DEF Owned, Shown
    <2>6. QED
      BY <2>4, <2>5
  \* a step of a worker that leaves the calls alone and wakes no other worker
  <1>10. ASSUME NEW w \in Calls, Live(w), UNCHANGED <<desired, stopping, task, pc, joins>>,
                \A v \in Calls : v # w => wpc'[v] = wpc[v],
                \A v \in Calls : cancelled'[v] => cancelled[v]
         PROVE  Stopping' /\ OneWorker'
    <2>1. \A v \in Calls : Live(v)' => Live(v)
      BY <1>10 DEF Live
    <2>2. Stopping'
      BY <1>2, <1>10 DEF Stopping, Pending
    <2>3. OneWorker'
      BY <1>2, <1>10, <2>1 DEF OneWorker
    <2>4. QED
      BY <2>2, <2>3
  <1>11. ASSUME NEW w \in Calls, Begins(w) \/ Restarts(w) \/ SpawnFails(w)
         PROVE  Stopping' /\ OneWorker' /\ Owned' /\ Shown'
    <2>1. /\ wpc[w] \in {"new", "spawn", "delay"} /\ Live(w) /\ (url' => url)
          /\ \E s \in {"spawn", "delay", "done"} : wpc' = [wpc EXCEPT ![w] = s]
          /\ UNCHANGED <<desired, stopping, task, proc, alive, pc, joins, mine, cancelled>>
      BY <1>4, <1>11 DEF Begins, Restarts, SpawnFails, RunOnce, Moves, state, callers
    <2>2. /\ \A v \in Calls : v # w => wpc'[v] = wpc[v]
          /\ wpc'[w] \in {"spawn", "delay", "done"}
      BY <1>3, <2>1
    <2>3. \A v \in Calls : wpc[v] \notin {"read", "kill"}
      BY <1>4, <1>5, <2>1
    <2>4. Stopping' /\ OneWorker'
      BY <1>10, <2>1, <2>2
    <2>5. Owned' /\ Shown'
      BY <1>2, <2>1, <2>2, <2>3 DEF Owned, Shown, Pending
    <2>6. QED
      BY <2>4, <2>5
  <1>12. ASSUME NEW w \in Calls, Spawns(w) PROVE Stopping' /\ OneWorker' /\ Owned' /\ Shown'
    <2>1. PICK p \in Processes : /\ alive' = [alive EXCEPT ![p] = "up"] /\ proc' = p
                                 /\ mine' = [mine EXCEPT ![w] = p]
      BY <1>12 DEF Spawns
    <2>2. /\ wpc[w] = "spawn" /\ Live(w) /\ wpc' = [wpc EXCEPT ![w] = "read"]
          /\ UNCHANGED <<desired, stopping, url, task, pc, joins, cancelled>>
      BY <1>4, <1>12 DEF Spawns, Moves, callers
    <2>3. /\ \A v \in Calls : v # w => wpc'[v] = wpc[v]
          /\ wpc'[w] = "read" /\ mine'[w] = p /\ alive'[p] = "up"
          /\ \A q \in Processes : q # p => alive'[q] = alive[q]
      BY <1>3, <2>1, <2>2
    <2>4. \A v \in Calls : wpc[v] \notin {"read", "kill"}
      BY <1>4, <1>5, <2>2
    <2>5. Stopping' /\ OneWorker'
      BY <1>10, <2>2, <2>3
    <2>6. Owned' /\ Shown'
      BY <1>2, <2>1, <2>2, <2>3, <2>4 DEF Owned, Shown, Pending
    <2>7. QED
      BY <2>5, <2>6
  <1>13. ASSUME NEW w \in Calls, PrintsUrl(w) PROVE Stopping' /\ OneWorker' /\ Owned' /\ Shown'
    <2>1. /\ wpc[w] = "read" /\ Live(w) /\ url' = TRUE
          /\ UNCHANGED <<desired, stopping, task, proc, alive, pc, joins, wpc, mine, cancelled>>
      BY <1>4, <1>13 DEF PrintsUrl, callers, workers
    <2>2. Stopping' /\ OneWorker' /\ Owned'
      BY <1>2, <1>10, <2>1 DEF Owned
    <2>3. ~desired => \E c \in Calls : Pending(c)
      BY <1>2, <1>4, <2>1 DEF OneWorker, Pending
    <2>4. QED
      BY <2>1, <2>2, <2>3 DEF Shown, Pending
  <1>14. ASSUME NEW w \in Calls, Eof(w) PROVE Stopping' /\ OneWorker' /\ Owned' /\ Shown'
    <2>1. /\ wpc[w] = "read" /\ Live(w) /\ cancelled' = [cancelled EXCEPT ![w] = FALSE]
          /\ UNCHANGED <<desired, stopping, task, pc, joins>>
      BY <1>4, <1>14 DEF Eof, callers
    <2>2. \A v \in Calls : cancelled'[v] => cancelled[v]
      BY <1>3, <2>1
    <2>3. \A v \in Calls : wpc[v] \in {"read", "kill"} => v = w
      BY <1>4, <1>5, <2>1
    <2>4. CASE MustWait
      <3>1. TakeProc(<<"work", w>>) /\ wpc' = [wpc EXCEPT ![w] = "kill"] /\ url' = url
            /\ <<"work", w>> \in Actors
        BY <1>14, <2>4 DEF Eof, Moves, Actors
      <3>2. ~desired
        BY <1>2, <1>4, <1>14, <2>1, <2>4 DEF Eof, MustWait, Alive, Owned
      <3>3. \A p \in Processes : alive'[p] # "up"
        BY <1>2, <3>1, TakeProcFacts DEF Owned
      <3>4. Stopping' /\ OneWorker'
        BY <1>3, <1>10, <2>1, <2>2, <3>1
      <3>5. Owned' /\ Shown'
        BY <1>2, <2>1, <3>1, <3>2, <3>3 DEF Owned, Shown, Pending
      <3>6. QED
        BY <3>4, <3>5
    <2>5. CASE ~MustWait
      <3>1. /\ proc' = None /\ alive' = alive /\ (url' => url /\ ~Wanted)
            /\ \E s \in {"delay", "done"} : wpc' = [wpc EXCEPT ![w] = s]
        BY <1>14, <2>5 DEF Eof, Finally, Leaves, Moves, UrlDropped
      <3>2. /\ \A v \in Calls : v # w => wpc'[v] = wpc[v]
            /\ wpc'[w] \in {"delay", "done"}
        BY <1>3, <3>1
      <3>3. \A p \in Processes : alive[p] # "up"
        BY <1>2, <1>3, <2>5 DEF Owned, MustWait, Alive
      <3>4. url' => ~desired
        BY <1>2, <1>4, <2>1, <3>1 DEF OneWorker, Wanted
      <3>5. Stopping' /\ OneWorker'
        BY <1>10, <2>1, <2>2, <3>2
      <3>6. Owned' /\ Shown'
        BY <1>2, <2>1, <2>3, <3>1, <3>2, <3>3, <3>4 DEF Owned, Shown, Pending
      <3>7. QED
        BY <3>5, <3>6
    <2>6. QED
      BY <2>4, <2>5
  <1>15. ASSUME NEW w \in Calls, Killed(w) \/ Abandons(w) PROVE Stopping' /\ OneWorker' /\ Owned' /\ Shown'
    <2>1. /\ wpc[w] \in {"new", "spawn", "kill", "delay"} /\ Live(w) /\ (url' => url)
          /\ \E s \in {"delay", "done"} : wpc' = [wpc EXCEPT ![w] = s]
          /\ cancelled' = cancelled \/ cancelled' = [cancelled EXCEPT ![w] = FALSE]
          /\ UNCHANGED <<desired, stopping, task, proc, alive, pc, joins>>
      <3>1. CASE Killed(w)
        <4>1. wpc[w] = "kill" /\ cancelled' = cancelled /\ (url' => url)
              /\ UNCHANGED <<desired, stopping, task, proc, alive, pc, joins>>
          BY <3>1 DEF Killed, Finally, UrlDropped, callers
        <4>2. \E s \in {"delay", "done"} : wpc' = [wpc EXCEPT ![w] = s]
          BY <3>1 DEF Killed, Finally, Leaves, Moves
        <4>3. QED
          BY <1>4, <4>1, <4>2
      <3>2. CASE Abandons(w)
        <4>1. /\ wpc[w] \in {"new", "spawn", "kill", "delay"} /\ url' = url
              /\ cancelled' = [cancelled EXCEPT ![w] = FALSE] /\ wpc' = [wpc EXCEPT ![w] = "done"]
              /\ UNCHANGED <<desired, stopping, task, proc, alive, pc, joins>>
          BY <3>2 DEF Abandons, Moves, state, callers
        <4>2. QED
          BY <1>4, <4>1
      <3>3. QED
        BY <1>15, <3>1, <3>2
    <2>2. ~desired
      BY <1>2, <1>4, <1>15 DEF Killed, Abandons, Owned
    <2>3. \A v \in Calls : wpc[v] # "read"
      BY <1>4, <1>5, <2>1
    <2>4. /\ \A v \in Calls : v # w => wpc'[v] = wpc[v]
          /\ \A v \in Calls : cancelled'[v] => cancelled[v]
      BY <1>3, <2>1
    <2>5. Stopping' /\ OneWorker'
      BY <1>10, <2>1, <2>4
    <2>6. Owned' /\ Shown'
      BY <1>2, <2>1, <2>2, <2>3 DEF Owned, Shown, Pending
    <2>7. QED
      BY <2>5, <2>6
  <1>16. ASSUME NEW p \in Processes, Terminates(p) \/ Exits(p)
         PROVE  Stopping' /\ OneWorker' /\ Owned' /\ Shown'
    <2>1. /\ alive' = [alive EXCEPT ![p] = "gone"]
          /\ UNCHANGED <<desired, stopping, url, task, proc, pc, joins, wpc, mine, cancelled>>
      BY <1>16 DEF Terminates, Exits, state, callers, workers
    <2>2. \A q \in Processes : alive'[q] = "up" => alive[q] = "up"
      BY <1>3, <2>1
    <2>3. QED
      BY <1>2, <2>1, <2>2 DEF Stopping, OneWorker, Owned, Shown, Live, Pending
  <1>17. CASE UNCHANGED vars
    BY <1>2, <1>17 DEF vars, Stopping, OneWorker, Owned, Shown, Live, Pending
  <1>18. QED
    BY <1>6, <1>7, <1>8, <1>9, <1>11, <1>12, <1>13, <1>14, <1>15, <1>16, <1>17
       DEF Next, CallSteps, WorkSteps, Rest

-----------------------------------------------------------------------------
(* The theorems *)

(* IInv holds in every state.                                               *)
THEOREM Invariance == Spec => []IInv
  <1>1. Init => IInv
    BY TypeInit, CalmInit DEF IInv
  <1>2. IInv /\ [Next]_vars => IInv'
    BY TypeStep, CalmStep DEF IInv
  <1>3. QED
    BY <1>1, <1>2, PTL DEF Spec

(* Every variable keeps its type; what is cancelled is alive, who reads has  *)
(* a process, and who waits knows for what.                                  *)
THEOREM TypeCorrect == Spec => []TypeOK
  BY Invariance, PTL DEF IInv

(* As long as no start() overtakes a stop(), one process is up at most,      *)
(* whatever else overlaps (tunnel.py:81).                                    *)
THEOREM OneProcessUp == Spec => []CalmOneProcess
  <1>1. ASSUME IInv PROVE CalmOneProcess
    <2> DEFINE U == {p \in Processes : alive[p] = "up"}
    <2>1. SUFFICES ASSUME ~crossed PROVE Cardinality(U) <= 1
      BY DEF CalmOneProcess, OneProcess
    <2>2. U \subseteq {proc}
      BY <1>1, <2>1 DEF IInv, Calm, Owned
    <2>3. IsFiniteSet({proc}) /\ Cardinality({proc}) = 1
      BY FS_Singleton
    <2>4. QED
      BY <2>2, <2>3, FS_Subset, FS_CardinalityType
  <1>2. QED
    BY <1>1, Invariance, PTL

(* As long as no start() overtakes a stop(): once every request has been     *)
(* answered and the last one was a stop, no process is up and no link is     *)
(* shown (tunnel.py:171-185).                                                *)
THEOREM StoppedIsDown == Spec => []CalmStoppedIsDown
  <1>1. ASSUME IInv PROVE CalmStoppedIsDown
    <2>1. SUFFICES ASSUME Answered, ~desired, ~crossed
                   PROVE  ~url /\ \A p \in Processes : alive[p] # "up"
      BY DEF CalmStoppedIsDown
    <2>2. \A c \in Calls : ~Pending(c) /\ pc[c] # "kill" /\ pc[c] # "join"
      BY <2>1 DEF Answered, Pending
    <2>3. Stopping /\ OneWorker /\ Owned /\ Shown /\ TypeOK
      BY <1>1, <2>1 DEF IInv, Calm
    <2>4. \A w \in Calls : ~Live(w)
      BY <2>1, <2>2, <2>3, CalmFacts DEF OneWorker
    <2>5. \A w \in Calls : wpc[w] # "read"
      BY <2>4 DEF Live
    <2>6. QED
      BY <2>1, <2>2, <2>3, <2>5 DEF Owned, Shown
  <1>2. QED
    BY <1>1, Invariance, PTL

(* As long as no start() overtakes a stop(), the link that is shown belongs  *)
(* to a process that is still owned, or a stop is about to remove it         *)
(* (tunnel.py:181, 271-275).                                                 *)
THEOREM UrlIsOwned == Spec => []CalmUrlIsOwned
  <1>1. ASSUME IInv PROVE CalmUrlIsOwned
    <2>1. SUFFICES ASSUME url, ~crossed, desired PROVE proc # None
      BY DEF CalmUrlIsOwned
    <2>2. Owned /\ Shown /\ TypeOK
      BY <1>1, <2>1 DEF IInv, Calm
    <2>3. PICK w \in Calls : wpc[w] = "read"
      BY <2>1, <2>2 DEF Shown
    <2>4. QED
      BY <2>1, <2>2, <2>3 DEF Owned, TypeOK
  <1>2. QED
    BY <1>1, Invariance, PTL
=============================================================================
