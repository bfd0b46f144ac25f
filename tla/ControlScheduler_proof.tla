----------------------- MODULE ControlScheduler_proof -----------------------
(***************************************************************************)
(* Theorems about ControlScheduler, for every set of toys, motors,         *)
(* requests and jobs and every bound on levels and failures.               *)
(***************************************************************************)
EXTENDS ControlScheduler, SequenceTheorems, TLAPS

-----------------------------------------------------------------------------
(* The queue of a lock *)

(* Joining the queue of a lock adds one member, keeps the holder and queues  *)
(* nobody twice.                                                             *)
LEMMA JoinSeq ==
  ASSUME NEW S, NEW q \in Seq(S), NEW a \in S, IsInjective(q), a \notin Range(q)
  PROVE  LET p == Append(q, a) IN
         /\ p \in Seq(S) /\ IsInjective(p) /\ p # <<>>
         /\ Range(p) = Range(q) \cup {a}
         /\ q # <<>> => Head(p) = Head(q)
  <1> DEFINE p == Append(q, a)
  <1>1. /\ p \in Seq(S) /\ p # <<>> /\ DOMAIN p = DOMAIN q \cup {Len(q) + 1} /\ p[Len(q) + 1] = a
        /\ Len(q) + 1 \notin DOMAIN q /\ \A i \in DOMAIN q : p[i] = q[i]
        /\ q # <<>> => Head(p) = Head(q)
    BY AppendProperties, HeadTailAppend
  <1> HIDE DEF p
  <1>2. IsInjective(p) /\ Range(p) = Range(q) \cup {a}
    BY <1>1 DEF IsInjective, Range
  <1> QED BY <1>1, <1>2 DEF p

(* Releasing the lock removes its holder, and only it.                       *)
LEMMA TailSeq ==
  ASSUME NEW S, NEW q \in Seq(S), q # <<>>, IsInjective(q)
  PROVE  LET p == Tail(q) IN
         /\ p \in Seq(S) /\ IsInjective(p)
         /\ Range(p) = Range(q) \ {Head(q)}
  <1> DEFINE p == Tail(q)
  <1>1. /\ p \in Seq(S) /\ Head(q) = q[1] /\ \A i \in DOMAIN p : i + 1 \in DOMAIN q \ {1} /\ p[i] = q[i + 1]
        /\ \A j \in DOMAIN q \ {1} : j - 1 \in DOMAIN p /\ q[j] = p[j - 1]
        /\ 1 \in DOMAIN q /\ DOMAIN p \subseteq Nat
    BY HeadTailProperties
  <1> HIDE DEF p
  <1>2. IsInjective(p) /\ Range(p) = Range(q) \ {Head(q)}
    BY <1>1 DEF IsInjective, Range
  <1> QED BY <1>1, <1>2 DEF p

(* A waiter that gives up leaves the queue, the others keep their places.    *)
LEMMA WithoutSeq ==
  ASSUME NEW S, NEW q \in Seq(S), NEW a \in Range(q), IsInjective(q)
  PROVE  LET p == Without(q, a) IN
         /\ p \in Seq(S) /\ IsInjective(p)
         /\ Range(p) = Range(q) \ {a}
         /\ Head(q) # a => p # <<>> /\ Head(p) = Head(q)
  <1> DEFINE k == CHOOSE i \in 1 .. Len(q) : q[i] = a
             p == Without(q, a)
             src(i) == IF i < k THEN i ELSE i + 1
             dst(j) == IF j < k THEN j ELSE j - 1
  <1>1. k \in 1 .. Len(q) /\ q[k] = a
    BY DEF Range
  <1>2. p = [i \in 1 .. Len(q) - 1 |-> IF i < k THEN q[i] ELSE q[i + 1]]
    BY DEF Without
  <1> HIDE DEF k
  <1>3. /\ p \in Seq(S) /\ \A i \in DOMAIN p : src(i) \in DOMAIN q \ {k} /\ p[i] = q[src(i)] /\ dst(src(i)) = i
        /\ \A j \in DOMAIN q \ {k} : dst(j) \in DOMAIN p /\ q[j] = p[dst(j)]
        /\ k \in DOMAIN q
        /\ Head(q) # a => p # <<>> /\ Head(p) = Head(q)
    <2>1. p \in Seq(S) /\ DOMAIN p = 1 .. Len(q) - 1 /\ DOMAIN q = 1 .. Len(q)
      BY <1>1, <1>2
    <2>2. \A i \in DOMAIN p : src(i) \in DOMAIN q \ {k} /\ p[i] = q[src(i)] /\ dst(src(i)) = i
      BY <1>1, <1>2, <2>1
    <2>3. \A j \in DOMAIN q \ {k} : dst(j) \in DOMAIN p /\ q[j] = p[dst(j)]
      BY <1>1, <1>2, <2>1
    <2>4. Head(q) # a => k # 1 /\ 1 \in DOMAIN p /\ p[1] = q[1]
      BY <1>1, <1>2, <2>1
    <2>5. Head(q) # a => p # <<>> /\ Head(p) = Head(q)
      BY <2>1, <2>4
    <2> QED BY <1>1, <2>1, <2>2, <2>3, <2>5
  <1> HIDE DEF p, src, dst
  <1>4. IsInjective(p) /\ Range(p) = Range(q) \ {a}
    BY <1>1, <1>3 DEF IsInjective, Range
  <1> QED BY <1>3, <1>4 DEF p

-----------------------------------------------------------------------------
(* The inductive invariant. *)

\* a request that has arrived has a job; a slot that exists was created by one
Known ==
  /\ \A r \in Reqs : rpc[r] # "idle" => job[r] \in Jobs
  /\ \A s \in Slots : spc[s] # "free" => rpc[s[1]] # "idle"
  /\ \A s \in Slots : rows[s] # NoLevel => spc[s] # "free"

\* LocksLive, one actor at a time
Queues ==
  \A t \in Toys :
    /\ IsInjective(locks[t])
    /\ \A r \in Reqs : r \in Range(locks[t]) <=>
                         rpc[r] \in {"lock", "write"} /\ job[r].toy = t
    /\ \A s \in Slots : s \in Range(locks[t]) <=>
                          spc[s] \in {"lock", "write", "fin", "fwrite"} /\ Toy(s) = t
    /\ \A r \in Reqs : rpc[r] = "write" /\ job[r].toy = t => Holds(t, r)
    /\ \A s \in Slots : spc[s] \in {"write", "fwrite"} /\ Toy(s) = t => Holds(t, s)

\* the slots a request has still to create do not exist yet
Unborn ==
  /\ \A r \in Reqs, f \in Features :
       (f \in todo[r] \/ rpc[r] \in {"idle", "expand"}
          \/ (rpc[r] \in {"replace", "lock"} /\ f = cur[r])) => spc[<<r, f>>] = "free"
  /\ \A r \in Reqs : rpc[r] \in {"replace", "lock"} => cur[r] \notin todo[r]
  /\ \A s \in Slots : spc[s] = "free" => ~cancelled[s]

\* a registered slot exists and is registered under its own key
Keyed ==
  \A t \in Toys, f \in Features :
    LET s == tasks[t][f] IN
    s # NoSlot => spc[s] # "free" /\ Toy(s) = t /\ Feature(s) = f

IInv == TypeOK /\ Known /\ Queues /\ Unborn /\ Keyed /\ RegisteredAlive

-----------------------------------------------------------------------------
(* The operations on a toy's lock, as the actions use them. *)

\* who is at the locks, and who holds them, in the next state
SameExcept(t) == \A u \in Toys : u # t => locks'[u] = locks[u]

(* Waiting for a toy's lock adds one actor to its queue. *)
LEMMA JoinLock ==
  ASSUME TypeOK, Queues, NEW t \in Toys, NEW a \in Actors, a \notin Range(locks[t]),
         locks' = Joined(t, a)
  PROVE  /\ locks' \in [Toys -> Seq(Actors)] /\ SameExcept(t)
         /\ IsInjective(locks'[t])
         /\ \A b : b \in Range(locks'[t]) <=> b \in Range(locks[t]) \/ b = a
         /\ \A b : Holds(t, b) => Holds(t, b)'
  <1>1. locks \in [Toys -> Seq(Actors)] /\ locks[t] \in Seq(Actors) /\ IsInjective(locks[t])
    BY DEF TypeOK, Queues
  <1>2. locks'[t] = Append(locks[t], a) /\ SameExcept(t)
    BY <1>1 DEF Joined, SameExcept
  <1>3. /\ locks'[t] \in Seq(Actors) /\ IsInjective(locks'[t]) /\ locks'[t] # <<>>
        /\ Range(locks'[t]) = Range(locks[t]) \cup {a}
        /\ locks[t] # <<>> => Head(locks'[t]) = Head(locks[t])
    BY <1>1, <1>2, JoinSeq
  <1>4. locks' \in [Toys -> Seq(Actors)]
    BY <1>1, <1>3 DEF Joined
  <1>5. \A b : Holds(t, b) => Holds(t, b)'
    BY <1>3 DEF Holds, HeldBy
  <1>6. QED
    BY <1>2, <1>3, <1>4, <1>5

(* Releasing a toy's lock removes its holder from the queue. *)
LEMMA ReleaseLock ==
  ASSUME TypeOK, Queues, NEW t \in Toys, NEW a \in Actors, Holds(t, a),
         locks' = Released(t)
  PROVE  /\ locks' \in [Toys -> Seq(Actors)] /\ SameExcept(t)
         /\ IsInjective(locks'[t])
         /\ \A b : b \in Range(locks'[t]) <=> b \in Range(locks[t]) /\ b # a
  <1>1. /\ locks \in [Toys -> Seq(Actors)] /\ locks[t] \in Seq(Actors)
        /\ IsInjective(locks[t]) /\ locks[t] # <<>> /\ Head(locks[t]) = a
    BY DEF TypeOK, Queues, Holds, HeldBy
  <1>2. locks'[t] = Tail(locks[t]) /\ SameExcept(t)
    BY <1>1 DEF Released, SameExcept
  <1>3. /\ locks'[t] \in Seq(Actors) /\ IsInjective(locks'[t])
        /\ Range(locks'[t]) = Range(locks[t]) \ {a}
    BY <1>1, <1>2, TailSeq
  <1>4. locks' \in [Toys -> Seq(Actors)]
    BY <1>1, <1>3 DEF Released
  <1>5. QED
    BY <1>2, <1>3, <1>4

(* A slot that leaves the lock for its `finally` is in the queue again, last. *)
LEMMA RequeueLock ==
  ASSUME TypeOK, Queues, NEW t \in Toys, NEW a \in Actors, Holds(t, a),
         locks' = ReleasedTo(t, a)
  PROVE  /\ locks' \in [Toys -> Seq(Actors)] /\ SameExcept(t)
         /\ IsInjective(locks'[t])
         /\ \A b : b \in Range(locks'[t]) <=> b \in Range(locks[t])
  <1>1. /\ locks \in [Toys -> Seq(Actors)] /\ locks[t] \in Seq(Actors)
        /\ IsInjective(locks[t]) /\ locks[t] # <<>> /\ Head(locks[t]) = a
    BY DEF TypeOK, Queues, Holds, HeldBy
  <1> DEFINE q == Tail(locks[t])
  <1>2. locks'[t] = Append(q, a) /\ SameExcept(t)
    BY <1>1 DEF ReleasedTo, SameExcept
  <1>3. /\ q \in Seq(Actors) /\ IsInjective(q)
        /\ Range(q) = Range(locks[t]) \ {a}
    BY <1>1, TailSeq
  <1> HIDE DEF q
  <1>8. a \notin Range(q)
    BY <1>3
  <1>4. /\ locks'[t] \in Seq(Actors) /\ IsInjective(locks'[t])
        /\ Range(locks'[t]) = Range(q) \cup {a}
    BY <1>2, <1>3, <1>8, JoinSeq
  <1>5. a \in Range(locks[t])
    BY <1>1, HeadTailProperties DEF Range
  <1>6. locks' \in [Toys -> Seq(Actors)]
    BY <1>1, <1>2, <1>4 DEF ReleasedTo, q
  <1>7. QED
    BY <1>2, <1>3, <1>4, <1>5, <1>6

(* A cancelled waiter leaves the queue, whoever holds the lock keeps it. *)
LEMMA LeaveLock ==
  ASSUME TypeOK, Queues, NEW t \in Toys, NEW a \in Actors, a \in Range(locks[t]),
         locks' = [locks EXCEPT ![t] = Without(@, a)]
  PROVE  /\ locks' \in [Toys -> Seq(Actors)] /\ SameExcept(t)
         /\ IsInjective(locks'[t])
         /\ \A b : b \in Range(locks'[t]) <=> b \in Range(locks[t]) /\ b # a
         /\ \A b : b # a /\ Holds(t, b) => Holds(t, b)'
  <1>1. /\ locks \in [Toys -> Seq(Actors)] /\ locks[t] \in Seq(Actors)
        /\ IsInjective(locks[t])
    BY DEF TypeOK, Queues
  <1>2. locks'[t] = Without(locks[t], a) /\ SameExcept(t)
    BY <1>1 DEF SameExcept
  <1>3. /\ locks'[t] \in Seq(Actors) /\ IsInjective(locks'[t])
        /\ Range(locks'[t]) = Range(locks[t]) \ {a}
        /\ Head(locks[t]) # a => locks'[t] # <<>> /\ Head(locks'[t]) = Head(locks[t])
    BY <1>1, <1>2, WithoutSeq
  <1>4. locks' \in [Toys -> Seq(Actors)]
    BY <1>1, <1>3
  <1>5. \A b : b # a /\ Holds(t, b) => Holds(t, b)'
    BY <1>3 DEF Holds, HeldBy
  <1>6. QED
    BY <1>2, <1>3, <1>4, <1>5

(* A waiter cancelled in the body of a slot queues again for its `finally`. *)
LEMMA RejoinLock ==
  ASSUME TypeOK, Queues, NEW t \in Toys, NEW a \in Actors, a \in Range(locks[t]),
         locks' = [locks EXCEPT ![t] = Append(Without(@, a), a)]
  PROVE  /\ locks' \in [Toys -> Seq(Actors)] /\ SameExcept(t)
         /\ IsInjective(locks'[t])
         /\ \A b : b \in Range(locks'[t]) <=> b \in Range(locks[t])
         /\ \A b : b # a /\ Holds(t, b) => Holds(t, b)'
  <1> DEFINE q == Without(locks[t], a)
  <1>1. /\ locks \in [Toys -> Seq(Actors)] /\ locks[t] \in Seq(Actors)
        /\ IsInjective(locks[t])
    BY DEF TypeOK, Queues
  <1>2. locks'[t] = Append(q, a) /\ SameExcept(t)
    BY <1>1 DEF SameExcept
  <1>3. /\ q \in Seq(Actors) /\ IsInjective(q)
        /\ Range(q) = Range(locks[t]) \ {a}
        /\ Head(locks[t]) # a => q # <<>> /\ Head(q) = Head(locks[t])
    BY <1>1, WithoutSeq
  <1> HIDE DEF q
  <1>8. a \notin Range(q)
    BY <1>3
  <1>9. /\ Append(q, a) \in Seq(Actors) /\ IsInjective(Append(q, a)) /\ Append(q, a) # <<>>
        /\ Range(Append(q, a)) = Range(q) \cup {a}
        /\ q # <<>> => Head(Append(q, a)) = Head(q)
    BY ONLY <1>3, <1>8, a \in Actors, JoinSeq
  <1>4. /\ locks'[t] \in Seq(Actors) /\ IsInjective(locks'[t]) /\ locks'[t] # <<>>
        /\ Range(locks'[t]) = Range(q) \cup {a}
        /\ q # <<>> => Head(locks'[t]) = Head(q)
    BY <1>2, <1>9
  <1>5. locks' \in [Toys -> Seq(Actors)]
    BY <1>1, <1>2, <1>4 DEF q
  <1>6. \A b : b # a /\ Holds(t, b) => Holds(t, b)'
    BY <1>3, <1>4 DEF Holds, HeldBy
  <1>7. QED
    BY <1>2, <1>3, <1>4, <1>5, <1>6

-----------------------------------------------------------------------------
(* What the guards and the assumptions on jobs give. *)

(* The fields of a job are in their sets, and a request that has arrived has one. *)
LEMMA JobFacts ==
  ASSUME TypeOK, Known
  PROVE  /\ \A j \in Jobs : /\ j.toy \in Toys /\ j.feats \subseteq Features
                             /\ j.level \in Level /\ j.op \in Ops
         /\ \A r \in Reqs : rpc[r] # "idle" => job[r] \in Jobs /\ job[r].toy \in Toys
         /\ \A s \in Slots : /\ s[1] \in Reqs /\ s[2] \in Features /\ s = <<s[1], s[2]>>
                             /\ spc[s] # "free" => job[s[1]] \in Jobs /\ Toy(s) \in Toys
         /\ \A r \in Reqs, f \in Features : <<r, f>> \in Slots
         /\ Level \subseteq Level \cup {NoLevel} /\ 0 \in Level /\ NoLevel \notin Level
  <1>1. \A j \in Jobs : /\ j.toy \in Toys /\ j.feats \subseteq Features
                        /\ j.level \in Level /\ j.op \in Ops
    BY JobAssumption DEF Job
  <1>2. \A s \in Slots : s[1] \in Reqs /\ s[2] \in Features /\ s = <<s[1], s[2]>>
    BY DEF Slots
  <1>3. \A r \in Reqs : rpc[r] # "idle" => job[r] \in Jobs /\ job[r].toy \in Toys
    BY <1>1 DEF Known
  <1>4. \A s \in Slots : spc[s] # "free" => job[s[1]] \in Jobs /\ Toy(s) \in Toys
    BY <1>2, <1>3 DEF Known, Toy
  <1>5. \A r \in Reqs, f \in Features : <<r, f>> \in Slots
    BY DEF Slots
  <1>6. Level \subseteq Level \cup {NoLevel} /\ 0 \in Level /\ NoLevel \notin Level
    BY LevelAssumption DEF Level, NoLevel
  <1>7. QED
    BY <1>1, <1>2, <1>3, <1>4, <1>5, <1>6

(* Setting a level, dropping it and writing a snapshot keep the shape of the tables. *)
LEMMA TableTypes ==
  ASSUME TypeOK, NEW t \in Toys, NEW f \in Features
  PROVE  /\ \A l \in Level : Raised(t, f, l) \in [Toys -> [Features -> Level \cup {NoLevel}]]
         /\ Dropped(t, f) \in [Toys -> [Features -> Level \cup {NoLevel}]]
         /\ \A snap \in [Features -> Level \cup {NoLevel}] :
              Landed(t, snap) \in [Toys -> [Features -> Level]]
         /\ Empty \in [Features -> Level \cup {NoLevel}]
         /\ \A ts : Quiet(ts) \in [Toys -> [Features -> Level]]
  <1>1. levels \in [Toys -> [Features -> Level \cup {NoLevel}]]
        /\ motor \in [Toys -> [Features -> Level]]
    BY DEF TypeOK
  <1>2. 0 \in Level
    BY LevelAssumption DEF Level
  <1>3. \A l \in Level : Raised(t, f, l) \in [Toys -> [Features -> Level \cup {NoLevel}]]
    BY <1>1 DEF Raised
  <1>4. Dropped(t, f) \in [Toys -> [Features -> Level \cup {NoLevel}]]
    BY <1>1 DEF Dropped
  <1>5. ASSUME NEW snap \in [Features -> Level \cup {NoLevel}]
        PROVE  Landed(t, snap) \in [Toys -> [Features -> Level]]
    BY <1>1, <1>2 DEF Landed
  <1>6. Empty \in [Features -> Level \cup {NoLevel}]
    BY DEF Empty
  <1>7. ASSUME NEW ts PROVE Quiet(ts) \in [Toys -> [Features -> Level]]
    BY <1>1, <1>2 DEF Quiet, Silent
  <1>8. QED
    BY <1>3, <1>4, <1>5, <1>6, <1>7

(* The start of schedule_function's work keeps the types of the request's variables. *)
LEMMA BeginTypes ==
  ASSUME TypeOK, Known, NEW r \in Reqs, NEW j \in Jobs, Begin(r, j)
  PROVE  /\ todo' \in [Reqs -> SUBSET Features]
         /\ pend' \in [Reqs -> SUBSET (Toys \X Features)]
         /\ \/ rpc' = [rpc EXCEPT ![r] = "next"]
            \/ rpc' = [rpc EXCEPT ![r] = "cancel"]
  <1>1. j.feats \subseteq Features /\ j.toy \in Toys
    BY JobFacts
  <1>2. Keys(Targets(j)) \subseteq Toys \X Features
    BY <1>1 DEF Keys, Targets
  <1>3. todo' = [todo EXCEPT ![r] = j.feats]
        /\ (pend' = pend \/ pend' = [pend EXCEPT ![r] = Keys(Targets(j))])
    BY DEF Begin
  <1>4. todo' \in [Reqs -> SUBSET Features]
    BY <1>1, <1>3 DEF TypeOK
  <1>5. pend' \in [Reqs -> SUBSET (Toys \X Features)]
    BY <1>2, <1>3 DEF TypeOK
  <1>6. QED
    BY <1>4, <1>5 DEF Begin

-----------------------------------------------------------------------------
(* Type correctness of the steps of requests: one proof step per action. *)
LEMMA ReqTypeStep ==
  ASSUME IInv, NEW r \in Reqs, Submit(r) \/ Refuse(r) \/ Shutdown(r) \/ ReqSteps(r)
  PROVE  TypeOK'
  <1> USE DEF book, device, reqVars, slotVars
  <1>1. TypeOK /\ Known /\ Queues
    BY DEF IInv
  <1>2. CASE Submit(r) \/ Refuse(r) \/ Shutdown(r)
    <2>1. CASE Refuse(r)
      BY <1>1, <2>1 DEF Refuse, TypeOK
    <2>2. CASE Submit(r)
      <3>1. PICK j \in Jobs : /\ job' = [job EXCEPT ![r] = j]
                              /\ \/ rpc' = [rpc EXCEPT ![r] = "expand"] /\ UNCHANGED <<todo, pend>>
                                 \/ Begin(r, j)
        BY <2>2 DEF Submit
      <3>2. job' \in [Reqs -> Jobs \cup {NoJob}]
        BY <1>1, <3>1 DEF TypeOK
      <3>3. CASE rpc' = [rpc EXCEPT ![r] = "expand"] /\ UNCHANGED <<todo, pend>>
        BY <1>1, <2>2, <3>2, <3>3 DEF Submit, TypeOK
      <3>4. CASE Begin(r, j)
        BY <1>1, <2>2, <3>2, <3>4, BeginTypes DEF Submit, TypeOK
      <3>5. QED
        BY <3>1, <3>3, <3>4
    <2>3. CASE Shutdown(r)
      <3>1. Registered \subseteq Slots
        BY <1>1 DEF Registered, Keys, TypeOK
      <3>2. QED
        BY <1>1, <2>3, <3>1 DEF Shutdown, TypeOK
    <2>4. QED
      BY <1>2, <2>1, <2>2, <2>3
  <1>3. CASE ReqSteps(r)
    <2>1. CASE Expand(r)
      <3>1. job[r] \in Jobs
        BY <1>1, <2>1, JobFacts DEF Expand
      <3>2. CASE Begin(r, job[r])
        BY <1>1, <2>1, <3>1, <3>2, BeginTypes DEF Expand, TypeOK
      <3>3. CASE rpc' = [rpc EXCEPT ![r] = "failed"] /\ UNCHANGED <<todo, pend>>
        BY <1>1, <2>1, <3>3 DEF Expand, TypeOK
      <3>4. QED
        BY <2>1, <3>2, <3>3 DEF Expand
    <2>2. CASE CancelOne(r)
      <3>1. PICK k \in pend[r] : /\ pend' = [pend EXCEPT ![r] = @ \ {k}]
                                 /\ \/ UNCHANGED <<tasks, cancelled, waits, rpc>>
                                    \/ /\ tasks[k[1]][k[2]] # NoSlot /\ Forget(k[1], k[2])
                                       /\ waits' = [waits EXCEPT ![r] = {tasks[k[1]][k[2]]}]
                                       /\ rpc' = [rpc EXCEPT ![r] = "await"]
        BY <2>2 DEF CancelOne
      <3>2. k[1] \in Toys /\ k[2] \in Features /\ pend' \in [Reqs -> SUBSET (Toys \X Features)]
        BY <1>1, <3>1 DEF TypeOK
      <3>3. CASE UNCHANGED <<tasks, cancelled, waits, rpc>>
        BY <1>1, <2>2, <3>2, <3>3 DEF CancelOne, TypeOK
      <3>4. CASE /\ tasks[k[1]][k[2]] # NoSlot /\ Forget(k[1], k[2])
                 /\ waits' = [waits EXCEPT ![r] = {tasks[k[1]][k[2]]}]
                 /\ rpc' = [rpc EXCEPT ![r] = "await"]
        <4>1. tasks[k[1]][k[2]] \in Slots
          BY <1>1, <3>2, <3>4 DEF TypeOK
        <4>2. /\ tasks' \in [Toys -> [Features -> Slots \cup {NoSlot}]]
              /\ cancelled' \in [Slots -> BOOLEAN]
          BY <1>1, <3>2, <3>4, <4>1 DEF Forget, TypeOK
        <4>3. waits' \in [Reqs -> SUBSET Slots]
          BY <1>1, <3>4, <4>1 DEF TypeOK
        <4>4. UNCHANGED <<closed, levels, rows, device, job, todo, cur, spc>>
          BY <2>2 DEF CancelOne
        <4>5. QED
          BY <1>1, <3>2, <3>4, <4>2, <4>3, <4>4 DEF TypeOK
      <3>5. QED
        BY <3>1, <3>3, <3>4
    <2>3. CASE Cancelled(r) \/ CancelledAll(r) \/ Finish(r)
      BY <1>1, <2>3 DEF Cancelled, CancelledAll, Finish, TypeOK
    <2>4. CASE StopLands(r)
      <3>1. motor' \in [Toys -> [Features -> Level]]
        BY <1>1, <2>4, FeatureAssumption, TableTypes DEF StopLands, Targets, TypeOK, Quiet, Silent
      <3>2. QED
        BY <1>1, <2>4, <3>1 DEF StopLands, TypeOK
    <2>5. ASSUME NEW f \in Features, TakeLock(r, f) PROVE TypeOK'
      <3>1. job[r].toy \in Toys /\ r \notin Range(locks[job[r].toy]) /\ r \in Actors
        BY <1>1, <2>5, JobFacts DEF TakeLock, Take, Queues, Actors
      <3>2. locks' \in [Toys -> Seq(Actors)]
        BY <1>1, <2>5, <3>1, JoinLock DEF TakeLock
      <3>3. QED
        BY <1>1, <2>5, <3>2 DEF TakeLock, Take, TypeOK
    <2>6. ASSUME NEW f \in Features, Displace(r, f) PROVE TypeOK'
      <3>1. job[r].toy \in Toys
        BY <1>1, <2>6, JobFacts DEF Displace, Take
      <3>2. QED
        BY <1>1, <2>6, <3>1 DEF Displace, Forget, Take, TypeOK
    <2>7. ASSUME NEW f \in Features, StartTimed(r, f) PROVE TypeOK'
      <3>1. job[r].toy \in Toys /\ job[r].level \in Level /\ <<r, f>> \in Slots
        BY <1>1, <2>7, JobFacts DEF StartTimed, Take
      <3>2. levels' \in [Toys -> [Features -> Level \cup {NoLevel}]]
        BY <1>1, <2>7, <3>1, TableTypes DEF StartTimed, Create
      <3>3. QED
        BY <1>1, <2>7, <3>1, <3>2 DEF StartTimed, Create, Take, TypeOK
    <2>8. CASE ReplaceTimed(r)
      <3>1. /\ job[r].toy \in Toys /\ job[r].level \in Level /\ <<r, cur[r]>> \in Slots
            /\ cur[r] \in Features
        BY <1>1, <2>8, JobFacts DEF ReplaceTimed, TypeOK
      <3>2. levels' \in [Toys -> [Features -> Level \cup {NoLevel}]]
        BY <1>1, <2>8, <3>1, TableTypes DEF ReplaceTimed, Create
      <3>3. QED
        BY <1>1, <2>8, <3>1, <3>2 DEF ReplaceTimed, Create, TypeOK
    <2>9. CASE ReplaceZero(r)
      <3>1. job[r].toy \in Toys /\ r \notin Range(locks[job[r].toy]) /\ r \in Actors
        BY <1>1, <2>9, JobFacts DEF ReplaceZero, Queues, Actors
      <3>2. locks' \in [Toys -> Seq(Actors)]
        BY <1>1, <2>9, <3>1, JoinLock DEF ReplaceZero
      <3>3. QED
        BY <1>1, <2>9, <3>2 DEF ReplaceZero, TypeOK
    <2>10. CASE HoldUpdate(r) \/ HoldCreate(r) \/ ZeroLevel(r)
      <3>1. /\ job[r].toy \in Toys /\ job[r].level \in Level /\ <<r, cur[r]>> \in Slots
            /\ cur[r] \in Features
        BY <1>1, <2>10, JobFacts DEF HoldUpdate, HoldCreate, ZeroLevel, TypeOK
      <3>2. levels' \in [Toys -> [Features -> Level \cup {NoLevel}]]
        BY <1>1, <2>10, <3>1, TableTypes DEF HoldUpdate, HoldCreate, ZeroLevel, Create
      <3>3. /\ wire' \in [Toys -> [Features -> Level \cup {NoLevel}]]
            /\ rpc' = [rpc EXCEPT ![r] = "write"]
        BY <1>1, <2>10, <3>1, <3>2
           DEF HoldUpdate, HoldCreate, ZeroLevel, ToWrite, TypeOK
      <3>4. rows' \in [Slots -> Level \cup {NoLevel}]
        BY <1>1, <2>10, <3>1
           DEF HoldUpdate, HoldCreate, ZeroLevel, Create, HoldRows, TypeOK
      <3>5. /\ tasks' \in [Toys -> [Features -> Slots \cup {NoSlot}]]
            /\ spc' \in [Slots -> {"free", "new", "lock", "write", "hold", "fin", "fwrite", "done"}]
        <4>1. CASE HoldCreate(r)
          BY <1>1, <3>1, <4>1 DEF HoldCreate, Create, TypeOK
        <4>2. CASE HoldUpdate(r) \/ ZeroLevel(r)
          BY <1>1, <4>2 DEF HoldUpdate, ZeroLevel, TypeOK
        <4>3. QED
          BY <2>10, <4>1, <4>2
      <3>6. UNCHANGED <<closed, locks, motor, fails, job, todo, cur, pend, waits, cancelled>>
        BY <2>10 DEF HoldUpdate, HoldCreate, ZeroLevel
      <3>7. QED
        BY <1>1, <3>2, <3>3, <3>4, <3>5, <3>6 DEF TypeOK
    <2>11. CASE WriteLands(r)
      <3>1. job[r].toy \in Toys /\ Holds(job[r].toy, r) /\ r \in Actors
        BY <1>1, <2>11, JobFacts DEF WriteLands, Queues, Actors
      <3>2. locks' \in [Toys -> Seq(Actors)]
        BY <1>1, <2>11, <3>1, ReleaseLock DEF WriteLands
      <3>3. motor' \in [Toys -> [Features -> Level]] /\ Empty \in [Features -> Level \cup {NoLevel}]
        BY <1>1, <2>11, <3>1, FeatureAssumption, TableTypes DEF WriteLands, TypeOK
      <3>4. QED
        BY <1>1, <2>11, <3>1, <3>2, <3>3 DEF WriteLands, TypeOK
    <2>12. CASE ShutdownEnds(r)
      <3>1. Empty \in [Features -> Level \cup {NoLevel}]
        BY DEF Empty
      <3>2. QED
        BY <1>1, <2>12, <3>1 DEF ShutdownEnds, TypeOK
    <2>13. QED
      BY <1>3, <2>1, <2>2, <2>3, <2>4, <2>5, <2>6, <2>7, <2>8, <2>9, <2>10, <2>11, <2>12
         DEF ReqSteps
  <1>4. QED
    BY <1>2, <1>3

(* Type correctness of the steps of slots. *)
LEMMA SlotTypeStep ==
  ASSUME IInv, NEW s \in Slots, SlotSteps(s)
  PROVE  TypeOK'
  <1> USE DEF book, device, reqVars, slotVars, Move
  <1>1. TypeOK /\ Known /\ Queues
    BY DEF IInv
  <1>2. /\ s[1] \in Reqs /\ Feature(s) \in Features /\ s \in Actors
        /\ spc[s] # "free" => job[s[1]].level \in Level /\ Toy(s) \in Toys
    BY <1>1, JobFacts DEF Actors, Feature
  <1>3. CASE SlotStart(s) \/ SlotElapses(s) \/ CancelHolding(s)
    <2>1. Toy(s) \in Toys /\ s \notin Range(locks[Toy(s)]) /\ locks' = Joined(Toy(s), s)
      BY <1>1, <1>2, <1>3 DEF SlotStart, SlotElapses, CancelHolding, Deliver, Queues
    <2>2. locks' \in [Toys -> Seq(Actors)]
      BY <1>1, <1>2, <2>1, JoinLock
    <2>3. CASE SlotStart(s)
      BY <1>1, <2>2, <2>3 DEF SlotStart, TypeOK
    <2>4. CASE SlotElapses(s)
      BY <1>1, <2>2, <2>4 DEF SlotElapses, TypeOK
    <2>5. CASE CancelHolding(s)
      BY <1>1, <2>2, <2>5 DEF CancelHolding, Deliver, TypeOK
    <2>6. QED
      BY <1>3, <2>3, <2>4, <2>5
  <1>4. CASE SlotApply(s) \/ SlotRetires(s)
    <2>1. Toy(s) \in Toys
      BY <1>2, <1>4 DEF SlotApply, SlotRetires
    <2>2. levels' \in [Toys -> [Features -> Level \cup {NoLevel}]]
      BY <1>1, <1>2, <1>4, <2>1, TableTypes DEF SlotApply, SlotRetires
    <2>3. wire' = [wire EXCEPT ![Toy(s)] = levels'[Toy(s)]]
      BY <1>4 DEF SlotApply, SlotRetires
    <2>4. wire' \in [Toys -> [Features -> Level \cup {NoLevel}]]
      BY <1>1, <2>1, <2>2, <2>3 DEF TypeOK
    <2>5. CASE SlotApply(s)
      BY <1>1, <2>2, <2>4, <2>5 DEF SlotApply, TypeOK
    <2>6. CASE SlotRetires(s)
      BY <1>1, <1>2, <2>1, <2>2, <2>4, <2>6 DEF SlotRetires, TypeOK
    <2>7. QED
      BY <1>4, <2>5, <2>6
  <1>5. CASE SlotYields(s)
    <2>1. Toy(s) \in Toys
      BY <1>2, <1>5 DEF SlotYields
    <2>2. locks' \in [Toys -> Seq(Actors)]
      BY <1>1, <1>2, <1>5, <2>1, RequeueLock DEF SlotYields
    <2>3. QED
      BY <1>1, <1>5, <2>2 DEF SlotYields, TypeOK
  <1>6. CASE SlotLands(s) \/ SlotSilences(s)
    <2>1. Toy(s) \in Toys /\ Holds(Toy(s), s) /\ locks' = Released(Toy(s))
      BY <1>1, <1>2, <1>6 DEF SlotLands, SlotSilences, Queues
    <2>2. locks' \in [Toys -> Seq(Actors)]
      BY <1>1, <1>2, <2>1, ReleaseLock
    <2>3. motor' \in [Toys -> [Features -> Level]] /\ Empty \in [Features -> Level \cup {NoLevel}]
      BY <1>1, <1>2, <1>6, <2>1, TableTypes DEF SlotLands, SlotSilences, TypeOK
    <2>4. CASE SlotLands(s)
      BY <1>1, <2>2, <2>3, <2>4 DEF SlotLands, TypeOK
    <2>5. CASE SlotSilences(s)
      BY <1>1, <2>2, <2>3, <2>5 DEF SlotSilences, TypeOK
    <2>6. QED
      BY <1>6, <2>4, <2>5
  <1>7. CASE SlotLeaves(s)
    <2>1. Toy(s) \in Toys
      BY <1>2, <1>7 DEF SlotLeaves
    <2>2. locks' \in [Toys -> Seq(Actors)]
      BY <1>1, <1>2, <1>7, <2>1, ReleaseLock DEF SlotLeaves
    <2>3. QED
      BY <1>1, <1>7, <2>2 DEF SlotLeaves, TypeOK
  <1>8. CASE CancelNew(s)
    BY <1>1, <1>8 DEF CancelNew, Deliver, TypeOK
  <1>9. CASE CancelWaiting(s)
    <2>1. Toy(s) \in Toys /\ s \in Range(locks[Toy(s)])
      BY <1>1, <1>2, <1>9 DEF CancelWaiting, Deliver, Queues
    <2>2. locks' \in [Toys -> Seq(Actors)]
      BY <1>1, <1>2, <1>9, <2>1, RejoinLock DEF CancelWaiting
    <2>3. QED
      BY <1>1, <1>9, <2>2 DEF CancelWaiting, Deliver, TypeOK
  <1>10. CASE CancelWriting(s)
    <2>1. Toy(s) \in Toys /\ Holds(Toy(s), s)
      BY <1>1, <1>2, <1>10 DEF CancelWriting, Deliver, Queues
    <2>2. locks' \in [Toys -> Seq(Actors)]
      BY <1>1, <1>2, <1>10, <2>1, RequeueLock DEF CancelWriting
    <2>3. motor' \in [Toys -> [Features -> Level]] /\ Empty \in [Features -> Level \cup {NoLevel}]
      <3>1. /\ Landed(Toy(s), wire[Toy(s)]) \in [Toys -> [Features -> Level]]
            /\ Empty \in [Features -> Level \cup {NoLevel}]
        BY <1>1, <1>2, <2>1, TableTypes DEF TypeOK
      <3>2. motor' = motor \/ motor' = Landed(Toy(s), wire[Toy(s)])
        BY <1>10 DEF CancelWriting
      <3>3. QED
        BY <1>1, <3>1, <3>2 DEF TypeOK
    <2>4. QED
      BY <1>1, <1>10, <2>2, <2>3 DEF CancelWriting, Deliver, TypeOK
  <1>11. CASE CancelCleanup(s)
    <2>1. Toy(s) \in Toys /\ s \in Range(locks[Toy(s)])
      BY <1>1, <1>2, <1>11 DEF CancelCleanup, Deliver, Queues
    <2>2. locks' \in [Toys -> Seq(Actors)]
      BY <1>1, <1>2, <1>11, <2>1, LeaveLock DEF CancelCleanup
    <2>3. QED
      BY <1>1, <1>11, <2>2 DEF CancelCleanup, Deliver, TypeOK
  <1>12. QED
    BY <1>3, <1>4, <1>5, <1>6, <1>7, <1>8, <1>9, <1>10, <1>11 DEF SlotSteps

(* Type correctness of the failures of backend calls. *)
LEMMA FailureTypeStep ==
  ASSUME IInv, Failures
  PROVE  TypeOK'
  <1> USE DEF book, device, reqVars, slotVars, Move
  <1>1. TypeOK /\ Known /\ Queues /\ fails \in 0 .. MaxFail /\ MaxFail \in Nat
    BY LevelAssumption DEF IInv, TypeOK
  <1>2. Empty \in [Features -> Level \cup {NoLevel}]
    BY DEF Empty
  <1>a. fails' \in 0 .. MaxFail
    BY <1>1 DEF Failures, StopFails, WriteFails, SlotFails, SlotSilenceFails
  <1>3. ASSUME NEW r \in Reqs, StopFails(r) PROVE TypeOK'
    BY <1>1, <1>3, <1>a DEF StopFails, TypeOK
  <1>4. ASSUME NEW r \in Reqs, WriteFails(r) PROVE TypeOK'
    <2>1. job[r].toy \in Toys /\ Holds(job[r].toy, r) /\ r \in Actors
      BY <1>1, <1>4, JobFacts DEF WriteFails, Queues, Actors
    <2>2. locks' \in [Toys -> Seq(Actors)]
      BY <1>1, <1>4, <2>1, ReleaseLock DEF WriteFails
    <2>3. QED
      BY <1>1, <1>2, <1>4, <1>a, <2>2 DEF WriteFails, TypeOK
  <1>5. ASSUME NEW s \in Slots, SlotFails(s) \/ SlotSilenceFails(s) PROVE TypeOK'
    <2>1. Toy(s) \in Toys /\ Holds(Toy(s), s) /\ s \in Actors
      BY <1>1, <1>5, JobFacts DEF SlotFails, SlotSilenceFails, Queues, Actors
    <2>2. locks' = Released(Toy(s)) \/ locks' = ReleasedTo(Toy(s), s)
      BY <1>5 DEF SlotFails, SlotSilenceFails
    <2>3. locks' \in [Toys -> Seq(Actors)]
      BY <1>1, <2>1, <2>2, ReleaseLock, RequeueLock
    <2>4. CASE SlotFails(s)
      BY <1>1, <1>2, <1>a, <2>3, <2>4 DEF SlotFails, TypeOK
    <2>5. CASE SlotSilenceFails(s)
      BY <1>1, <1>2, <1>a, <2>3, <2>5 DEF SlotSilenceFails, TypeOK
    <2>6. QED
      BY <1>5, <2>4, <2>5
  <1>6. QED
    BY <1>3, <1>4, <1>5 DEF Failures

(* Type correctness of every step. *)
LEMMA TypeStep ==
  ASSUME IInv, Next
  PROVE  TypeOK'
  <1>1. ASSUME UNCHANGED vars PROVE TypeOK'
    BY <1>1 DEF vars, IInv, TypeOK
  <1>2. QED
    BY <1>1, ReqTypeStep, SlotTypeStep, FailureTypeStep DEF Next, Arrivals, Rest

-----------------------------------------------------------------------------
(* Known: nothing forgets its request. *)

(* Every step keeps jobs known and slots attached to the request that created them. *)
LEMMA KnownStep ==
  ASSUME IInv, Next
  PROVE  Known'
  <1> USE DEF book, device, reqVars, slotVars, Move
  <1>1. TypeOK /\ Known
    BY DEF IInv
  <1>2. \A s \in Slots : s[1] \in Reqs
    BY DEF Slots
  <1>3. ASSUME NEW r \in Reqs, Submit(r) \/ Refuse(r) \/ Shutdown(r) PROVE Known'
    <2>1. PICK j \in Jobs : job' = [job EXCEPT ![r] = j]
      BY <1>3 DEF Submit, Refuse, Shutdown
    <2>2. \A q \in Reqs : rpc'[q] # "idle" => (rpc[q] # "idle" \/ q = r)
      BY <1>1, <1>3 DEF Submit, Begin, Refuse, Shutdown, TypeOK
    <2>3. \A q \in Reqs : rpc[q] # "idle" => rpc'[q] # "idle"
      BY <1>1, <1>3 DEF Submit, Begin, Refuse, Shutdown, TypeOK
    <2>4. UNCHANGED <<spc, rows>>
      BY <1>3 DEF Submit, Refuse, Shutdown
    <2>5. QED
      BY <1>1, <1>2, <2>1, <2>2, <2>3, <2>4 DEF Known, TypeOK
  <1>4. ASSUME UNCHANGED job, \A q \in Reqs : rpc[q] = "idle" <=> rpc'[q] = "idle",
               \A s \in Slots : spc'[s] # "free" => spc[s] # "free" \/ rpc[s[1]] # "idle",
               \A s \in Slots : rows'[s] # NoLevel => spc'[s] # "free"
        PROVE  Known'
    BY <1>1, <1>2, <1>4 DEF Known
  <1>5. ASSUME NEW r \in Reqs, ReqSteps(r) PROVE Known'
    <2>1. CASE UNCHANGED <<job, spc, rows>>
      <3>1. \A q \in Reqs : rpc[q] = "idle" <=> rpc'[q] = "idle"
        BY <1>1, <1>5 DEF ReqSteps, Expand, Begin, CancelOne, Cancelled, CancelledAll, StopLands,
             Finish, TakeLock, Take, Displace, StartTimed, ReplaceTimed, ReplaceZero, HoldUpdate,
             HoldCreate, ZeroLevel, ToWrite, WriteLands, ShutdownEnds, TypeOK
      <3>2. QED
        BY <1>1, <1>4, <2>1, <3>1 DEF Known
    <2>2. ASSUME NEW f \in Features, rpc[r] # "idle", rpc'[r] # "idle", Create(r, f),
                 rpc' = [rpc EXCEPT ![r] = rpc'[r]], UNCHANGED job
          PROVE  Known'
      BY <1>1, <1>2, <1>4, <2>2 DEF Create, Known, TypeOK
    <2>3. CASE \E f \in Features : StartTimed(r, f)
      BY <1>1, <2>2, <2>3 DEF StartTimed, Take, TypeOK
    <2>4. CASE ReplaceTimed(r) \/ HoldCreate(r)
      BY <1>1, <2>2, <2>4 DEF ReplaceTimed, HoldCreate, ToWrite, TypeOK
    <2>5. CASE HoldUpdate(r)
      BY <1>1, <1>4, <2>5 DEF HoldUpdate, ToWrite, HoldRows, Known, TypeOK
    <2>6. CASE ShutdownEnds(r)
      BY <1>1, <1>4, <2>6 DEF ShutdownEnds, Known, TypeOK
    <2>7. QED
      BY <1>5, <2>1, <2>3, <2>4, <2>5, <2>6 DEF ReqSteps, Expand, CancelOne, Cancelled,
         CancelledAll, StopLands, Finish, TakeLock, Displace, ReplaceZero, ZeroLevel, WriteLands
  <1>6. ASSUME NEW s \in Slots, SlotSteps(s) \/ SlotFails(s) \/ SlotSilenceFails(s) PROVE Known'
    <2>1. UNCHANGED <<job, rpc>>
      BY <1>6 DEF SlotSteps, SlotStart, SlotApply, SlotYields, SlotLands, SlotElapses, SlotRetires,
         SlotLeaves, SlotSilences, CancelNew, CancelWaiting, CancelWriting, CancelHolding,
         CancelCleanup, SlotFails, SlotSilenceFails
    <2>2. /\ spc[s] # "free" /\ \E pc : pc # "free" /\ spc' = [spc EXCEPT ![s] = pc]
          /\ rows' = rows \/ rows' = [rows EXCEPT ![s] = NoLevel]
      BY <1>6 DEF SlotSteps, SlotStart, SlotApply, SlotYields, SlotLands, SlotElapses, SlotRetires,
         SlotLeaves, SlotSilences, CancelNew, CancelWaiting, CancelWriting, CancelHolding,
         CancelCleanup, SlotFails, SlotSilenceFails, Deliver
    <2>3. QED
      BY <1>1, <1>4, <2>1, <2>2 DEF Known, TypeOK
  <1>7. ASSUME NEW r \in Reqs, StopFails(r) \/ WriteFails(r) PROVE Known'
    BY <1>1, <1>4, <1>7 DEF StopFails, WriteFails, Known, TypeOK
  <1>8. CASE UNCHANGED vars
    BY <1>1, <1>4, <1>8 DEF vars, Known
  <1>9. QED
    BY <1>3, <1>5, <1>6, <1>7, <1>8 DEF Next, Arrivals, Failures, Rest

-----------------------------------------------------------------------------
(* Queues: the queue of a lock is exactly who waits for it or holds it. *)

(* A step that leaves the locks alone, and everybody where they stand at them. *)
LEMMA QueuesKept ==
  ASSUME Queues, UNCHANGED locks,
         \A r \in Reqs, t \in Toys, pc \in {"lock", "write"} :
           rpc'[r] = pc /\ job'[r].toy = t <=> rpc[r] = pc /\ job[r].toy = t,
         \A s \in Slots, t \in Toys, pc \in {"lock", "write", "fin", "fwrite"} :
           spc'[s] = pc /\ Toy(s)' = t <=> spc[s] = pc /\ Toy(s) = t
  PROVE  Queues'
  BY DEF Queues, Holds

(* A step of one actor at one lock: the others, and the other locks, are as before. *)
LEMMA QueuesMoved ==
  ASSUME Queues, NEW t \in Toys, NEW a \in Actors, SameExcept(t), IsInjective(locks'[t]),
         \A b \in Actors : b # a => (b \in Range(locks'[t]) <=> b \in Range(locks[t])),
         \A r \in Reqs, u \in Toys, pc \in {"lock", "write"} : r # a =>
           (rpc'[r] = pc /\ job'[r].toy = u <=> rpc[r] = pc /\ job[r].toy = u),
         \A s \in Slots, u \in Toys, pc \in {"lock", "write", "fin", "fwrite"} : s # a =>
           (spc'[s] = pc /\ Toy(s)' = u <=> spc[s] = pc /\ Toy(s) = u),
         a \in Reqs => /\ job'[a].toy = t /\ job[a].toy = t
                       /\ a \in Range(locks'[t]) <=> rpc'[a] \in {"lock", "write"}
                       /\ rpc'[a] = "write" => Holds(t, a)',
         a \in Slots => /\ Toy(a)' = t /\ Toy(a) = t
                        /\ a \in Range(locks'[t]) <=> spc'[a] \in {"lock", "write", "fin", "fwrite"}
                        /\ spc'[a] \in {"write", "fwrite"} => Holds(t, a)',
         \A b \in Actors : b # a /\ Holds(t, b) => Holds(t, b)'
  PROVE  Queues'
  <1>1. \A b \in Actors, u \in Toys : u # t => (Holds(u, b)' <=> Holds(u, b))
    BY DEF SameExcept, Holds
  <1>2. ASSUME NEW u \in Toys PROVE IsInjective(locks'[u])
    BY DEF Queues, SameExcept
  <1>3. ASSUME NEW u \in Toys, NEW r \in Reqs
        PROVE  /\ r \in Range(locks'[u]) <=> rpc'[r] \in {"lock", "write"} /\ job'[r].toy = u
               /\ rpc'[r] = "write" /\ job'[r].toy = u => Holds(u, r)'
    BY <1>1 DEF Queues, SameExcept, Actors
  <1>4. ASSUME NEW u \in Toys, NEW s \in Slots
        PROVE  /\ s \in Range(locks'[u]) <=>
                    spc'[s] \in {"lock", "write", "fin", "fwrite"} /\ Toy(s)' = u
               /\ spc'[s] \in {"write", "fwrite"} /\ Toy(s)' = u => Holds(u, s)'
    BY <1>1 DEF Queues, SameExcept, Actors
  <1>5. QED
    BY <1>2, <1>3, <1>4 DEF Queues

(* The steps of requests keep the queues. *)
LEMMA ReqQueueStep ==
  ASSUME IInv, NEW r \in Reqs, ReqSteps(r) \/ WriteFails(r) \/ StopFails(r)
  PROVE  Queues'
  <1> USE DEF book, device, reqVars, slotVars, Move
  <1>1. TypeOK /\ Known /\ Queues /\ Unborn
    BY DEF IInv
  <1>2. r \in Actors /\ r \notin Slots /\ UNCHANGED job /\ \A s \in Slots : Toy(s)' = Toy(s)
    BY DistinctAssumption DEF Actors, Toy, ReqSteps, Expand, CancelOne, Cancelled, CancelledAll,
       StopLands, Finish, TakeLock, Displace, StartTimed, ReplaceTimed, ReplaceZero, HoldUpdate,
       HoldCreate, ZeroLevel, WriteLands, ShutdownEnds, WriteFails, StopFails
  <1>3. CASE /\ UNCHANGED <<locks, spc>> /\ rpc[r] \notin {"lock", "write"}
             /\ \E pc : pc \notin {"lock", "write"} /\ rpc' = [rpc EXCEPT ![r] = pc]
    BY <1>1, <1>2, <1>3, QueuesKept DEF TypeOK
  <1>4. CASE Expand(r) \/ CancelOne(r) \/ Cancelled(r) \/ CancelledAll(r) \/ StopLands(r)
             \/ Finish(r) \/ ShutdownEnds(r) \/ StopFails(r)
             \/ \E f \in Features : Displace(r, f)
    <2>1. UNCHANGED <<locks, spc>> /\ rpc[r] \notin {"lock", "write"}
      BY <1>4 DEF Expand, CancelOne, Cancelled, CancelledAll, StopLands, Finish, Displace, Take,
         ShutdownEnds, StopFails
    <2>2. \E pc : pc \notin {"lock", "write"} /\ rpc' = [rpc EXCEPT ![r] = pc]
      BY <1>1, <1>4 DEF Expand, Begin, CancelOne, Cancelled, CancelledAll, StopLands, Finish,
         Displace, ShutdownEnds, StopFails, TypeOK
    <2>3. QED
      BY <1>3, <2>1, <2>2
  <1>5. ASSUME rpc[r] \in {"next", "replace"}, job[r].toy \in Toys,
               locks' = Joined(job[r].toy, r), rpc' = [rpc EXCEPT ![r] = "lock"], UNCHANGED spc
        PROVE  Queues'
    <2>1. r \notin Range(locks[job[r].toy])
      BY <1>1, <1>5 DEF Queues
    <2>2. /\ SameExcept(job[r].toy) /\ IsInjective(locks'[job[r].toy])
          /\ \A b : b \in Range(locks'[job[r].toy]) <=> b \in Range(locks[job[r].toy]) \/ b = r
          /\ \A b : Holds(job[r].toy, b) => Holds(job[r].toy, b)'
      BY <1>1, <1>2, <1>5, <2>1, JoinLock
    <2>3. QED
      BY <1>1, <1>2, <1>5, <2>2, QueuesMoved DEF TypeOK
  <1>6. ASSUME NEW f \in Features, TakeLock(r, f) PROVE Queues'
    BY <1>1, <1>5, <1>6, JobFacts DEF TakeLock, Take
  <1>7. CASE ReplaceZero(r)
    BY <1>1, <1>5, <1>7, JobFacts DEF ReplaceZero
  <1>8. ASSUME NEW f \in Features, Create(r, f), spc[<<r, f>>] = "free", UNCHANGED locks,
               \/ rpc[r] \in {"next", "replace"} /\ rpc' = [rpc EXCEPT ![r] = "next"]
               \/ rpc[r] = "lock" /\ ToWrite(r, job[r].toy)
        PROVE  Queues'
    <2>1. \A s \in Slots, t \in Toys, pc \in {"lock", "write", "fin", "fwrite"} :
             spc'[s] = pc /\ Toy(s)' = t <=> spc[s] = pc /\ Toy(s) = t
      BY <1>1, <1>2, <1>8 DEF Create, TypeOK
    <2>2. CASE rpc[r] \in {"next", "replace"} /\ rpc' = [rpc EXCEPT ![r] = "next"]
      BY <1>1, <1>2, <1>8, <2>1, <2>2, QueuesKept DEF TypeOK
    <2>3. CASE rpc[r] = "lock" /\ ToWrite(r, job[r].toy)
      <3>1. /\ locks' = locks /\ job' = job /\ rpc' = [rpc EXCEPT ![r] = "write"]
            /\ Holds(job[r].toy, r)
        BY <1>2, <1>8, <2>3 DEF ToWrite
      <3>2. \A q \in Reqs :
              /\ q # r => rpc'[q] = rpc[q]
              /\ q = r => rpc[q] = "lock" /\ rpc'[q] = "write"
        BY <1>1, <2>3, <3>1 DEF TypeOK
      <3>3. \A q \in Reqs, t \in Toys :
              rpc'[q] \in {"lock", "write"} /\ job'[q].toy = t <=>
              rpc[q] \in {"lock", "write"} /\ job[q].toy = t
        BY <3>1, <3>2
      <3>4. \A q \in Reqs, t \in Toys : rpc'[q] = "write" /\ job'[q].toy = t => Holds(t, q)'
        BY <1>1, <3>1, <3>2 DEF Queues, Holds
      <3>5. \A s \in Slots, t \in Toys :
              /\ spc'[s] \in {"lock", "write", "fin", "fwrite"} /\ Toy(s)' = t <=>
                 spc[s] \in {"lock", "write", "fin", "fwrite"} /\ Toy(s) = t
              /\ spc'[s] \in {"write", "fwrite"} /\ Toy(s)' = t <=>
                 spc[s] \in {"write", "fwrite"} /\ Toy(s) = t
        BY <2>1
      <3>6. QED
        BY <1>1, <3>1, <3>3, <3>4, <3>5 DEF Queues, Holds
    <2>4. QED
      BY <1>8, <2>2, <2>3
  <1>9. ASSUME NEW f \in Features, StartTimed(r, f) PROVE Queues'
    <2>1. Create(r, f) /\ UNCHANGED locks /\ rpc[r] = "next" /\ rpc' = rpc /\ f \in todo[r]
      BY <1>9 DEF StartTimed, Take
    <2>2. spc[<<r, f>>] = "free"
      BY <1>1, <2>1 DEF Unborn
    <2>3. rpc' = [rpc EXCEPT ![r] = "next"]
      BY <1>1, <2>1 DEF TypeOK
    <2>4. QED
      BY <1>8, <2>1, <2>2, <2>3
  <1>10. CASE ReplaceTimed(r) \/ HoldCreate(r)
    BY <1>1, <1>8, <1>10 DEF ReplaceTimed, HoldCreate, Unborn, TypeOK
  <1>11. CASE HoldUpdate(r) \/ ZeroLevel(r)
    BY <1>1, <1>2, <1>11 DEF HoldUpdate, ZeroLevel, ToWrite, Queues, Holds, TypeOK
  <1>12. CASE WriteLands(r) \/ WriteFails(r)
    <2>1. /\ job[r].toy \in Toys /\ Holds(job[r].toy, r) /\ locks' = Released(job[r].toy)
          /\ rpc[r] = "write" /\ UNCHANGED spc
          /\ \E pc \in {"next", "failed"} : rpc' = [rpc EXCEPT ![r] = pc]
      BY <1>1, <1>12, JobFacts DEF WriteLands, WriteFails, Queues
    <2>2. \A q \in Actors : Holds(job[r].toy, q) => q = r
      BY <2>1 DEF Holds, HeldBy
    <2>3. /\ SameExcept(job[r].toy) /\ IsInjective(locks'[job[r].toy])
          /\ \A b : b \in Range(locks'[job[r].toy]) <=> b \in Range(locks[job[r].toy]) /\ b # r
      BY <1>1, <1>2, <2>1, ReleaseLock
    <2>4. QED
      BY <1>1, <1>2, <2>1, <2>2, <2>3, QueuesMoved DEF TypeOK
  <1>13. QED
    BY <1>4, <1>6, <1>7, <1>9, <1>10, <1>11, <1>12 DEF ReqSteps

(* The steps of slots, and the failures of their writes, keep the queues. *)
LEMMA SlotQueueStep ==
  ASSUME IInv, NEW s \in Slots, SlotSteps(s) \/ SlotFails(s) \/ SlotSilenceFails(s)
  PROVE  Queues'
  <1> USE DEF book, device, reqVars, slotVars, Move
  <1>1. TypeOK /\ Known /\ Queues
    BY DEF IInv
  <1>2. s \in Actors /\ s \notin Reqs /\ UNCHANGED <<job, rpc>> /\ \A x \in Slots : Toy(x)' = Toy(x)
    BY DistinctAssumption DEF Actors, Toy, SlotSteps, SlotStart, SlotApply, SlotYields, SlotLands,
       SlotElapses, SlotRetires, SlotLeaves, SlotSilences, CancelNew, CancelWaiting, CancelWriting,
       CancelHolding, CancelCleanup, SlotFails, SlotSilenceFails
  <1>3. spc[s] # "free" /\ Toy(s) \in Toys
    <2>1. spc[s] # "free"
      BY DEF SlotSteps, SlotStart, SlotApply, SlotYields, SlotLands, SlotElapses, SlotRetires,
         SlotLeaves, SlotSilences, CancelNew, CancelWaiting, CancelWriting, CancelHolding,
         CancelCleanup, SlotFails, SlotSilenceFails, Deliver
    <2>2. QED
      BY <1>1, <2>1, JobFacts
  <1>a. PICK t \in Toys : t = Toy(s) /\ t = Toy(s)'
    BY <1>2, <1>3
  <1> DEFINE Moves(pc) == spc' = [spc EXCEPT ![s] = pc]
  <1>4. \A b : Holds(t, b) /\ Holds(t, s) => b = s
    BY DEF Holds, HeldBy
  <1>5. s \in Range(locks[t]) <=> spc[s] \in {"lock", "write", "fin", "fwrite"}
    BY <1>a, <1>1, <1>3 DEF Queues
  <1>6. CASE SlotStart(s) \/ SlotElapses(s) \/ CancelHolding(s)
    <2>1. /\ s \notin Range(locks[t]) /\ locks' = Joined(t, s)
          /\ \E pc \in {"lock", "fin"} : Moves(pc)
      BY <1>a, <1>5, <1>6 DEF SlotStart, SlotElapses, CancelHolding, Deliver
    <2>2. /\ SameExcept(t) /\ IsInjective(locks'[t])
          /\ \A b : b \in Range(locks'[t]) <=> b \in Range(locks[t]) \/ b = s
          /\ \A b : Holds(t, b) => Holds(t, b)'
      BY <1>a, <1>1, <1>2, <1>3, <2>1, JoinLock
    <2>3. /\ s \in Range(locks'[t]) /\ spc'[s] \in {"lock", "fin"}
          /\ \A x \in Slots : x # s => spc'[x] = spc[x]
      BY <1>1, <2>1, <2>2 DEF TypeOK
    <2>4. QED
      BY <1>a, <1>1, <1>2, <2>2, <2>3, QueuesMoved
  <1>7. CASE SlotApply(s) \/ SlotRetires(s)
    <2>1. /\ UNCHANGED locks /\ Holds(t, s) /\ spc[s] \in {"lock", "fin"}
          /\ \E pc \in {"write", "fwrite"} : Moves(pc)
      BY <1>a, <1>7 DEF SlotApply, SlotRetires
    <2>2. QED
      BY <1>a, <1>1, <1>2, <1>3, <1>5, <2>1, QueuesMoved DEF SameExcept, Holds, Queues, TypeOK
  <1>8. CASE SlotYields(s) \/ CancelWriting(s) \/ SlotFails(s)
    <2>1. Holds(t, s) /\ locks' = ReleasedTo(t, s) /\ Moves("fin") /\ spc[s] \in {"lock", "write"}
      BY <1>a, <1>1, <1>3, <1>8 DEF SlotYields, CancelWriting, SlotFails, Deliver, Queues
    <2>2. /\ SameExcept(t) /\ IsInjective(locks'[t])
          /\ \A b : b \in Range(locks'[t]) <=> b \in Range(locks[t])
      BY <1>a, <1>1, <1>2, <1>3, <2>1, RequeueLock
    <2>3. QED
      BY <1>a, <1>1, <1>2, <1>3, <1>4, <1>5, <2>1, <2>2, QueuesMoved DEF TypeOK
  <1>9. CASE SlotLands(s) \/ SlotSilences(s) \/ SlotLeaves(s) \/ SlotSilenceFails(s)
    <2>1. /\ Holds(t, s) /\ locks' = Released(t)
          /\ \E pc \in {"hold", "done"} : Moves(pc)
      BY <1>a, <1>1, <1>3, <1>9 DEF SlotLands, SlotSilences, SlotLeaves, SlotSilenceFails, Queues
    <2>2. /\ SameExcept(t) /\ IsInjective(locks'[t])
          /\ \A b : b \in Range(locks'[t]) <=> b \in Range(locks[t]) /\ b # s
      BY <1>a, <1>1, <1>2, <1>3, <2>1, ReleaseLock
    <2>3. QED
      BY <1>a, <1>1, <1>2, <1>3, <1>4, <2>1, <2>2, QueuesMoved DEF TypeOK
  <1>10. CASE CancelNew(s)
    BY <1>a, <1>1, <1>2, <1>10, QueuesKept DEF CancelNew, Deliver, TypeOK
  <1>11. CASE CancelWaiting(s)
    <2>1. /\ s \in Range(locks[t]) /\ locks' = [locks EXCEPT ![t] = Append(Without(@, s), s)]
          /\ Moves("fin") /\ spc[s] = "lock"
      BY <1>a, <1>5, <1>11 DEF CancelWaiting, Deliver
    <2>2. /\ SameExcept(t) /\ IsInjective(locks'[t])
          /\ \A b : b \in Range(locks'[t]) <=> b \in Range(locks[t])
          /\ \A b : b # s /\ Holds(t, b) => Holds(t, b)'
      BY <1>a, <1>1, <1>2, <1>3, <2>1, RejoinLock
    <2>3. QED
      BY <1>a, <1>1, <1>2, <1>3, <2>1, <2>2, QueuesMoved DEF TypeOK
  <1>12. CASE CancelCleanup(s)
    <2>1. /\ s \in Range(locks[t]) /\ locks' = [locks EXCEPT ![t] = Without(@, s)]
          /\ Moves("done")
      BY <1>a, <1>5, <1>12 DEF CancelCleanup, Deliver
    <2>2. /\ SameExcept(t) /\ IsInjective(locks'[t])
          /\ \A b : b \in Range(locks'[t]) <=> b \in Range(locks[t]) /\ b # s
          /\ \A b : b # s /\ Holds(t, b) => Holds(t, b)'
      BY <1>a, <1>1, <1>2, <1>3, <2>1, LeaveLock
    <2>3. QED
      BY <1>a, <1>1, <1>2, <1>3, <2>1, <2>2, QueuesMoved DEF TypeOK
  <1>13. QED
    BY <1>6, <1>7, <1>8, <1>9, <1>10, <1>11, <1>12 DEF SlotSteps

(* Every step keeps the queues. *)
LEMMA QueueStep ==
  ASSUME IInv, Next
  PROVE  Queues'
  <1> USE DEF book, device, reqVars, slotVars
  <1>1. TypeOK /\ Known /\ Queues
    BY DEF IInv
  <1>2. ASSUME NEW r \in Reqs, Submit(r) \/ Refuse(r) \/ Shutdown(r) PROVE Queues'
    <2>1. /\ UNCHANGED <<locks, spc>> /\ rpc[r] = "idle"
          /\ \E j \in Jobs : job' = [job EXCEPT ![r] = j]
          /\ \E pc : pc \notin {"lock", "write"} /\ rpc' = [rpc EXCEPT ![r] = pc]
      BY <1>1, <1>2 DEF Submit, Begin, Refuse, Shutdown, TypeOK
    <2>2. \A x \in Slots, pc \in {"lock", "write", "fin", "fwrite"} :
            spc[x] = pc => Toy(x)' = Toy(x)
      BY <1>1, <2>1, JobFacts DEF Known, Toy, TypeOK
    <2>3. QED
      BY <1>1, <2>1, <2>2, QueuesKept DEF TypeOK
  <1>3. CASE UNCHANGED vars
    BY <1>1, <1>3, QueuesKept DEF vars, Toy
  <1>4. QED
    BY <1>2, <1>3, ReqQueueStep, SlotQueueStep DEF Next, Arrivals, Failures, Rest

-----------------------------------------------------------------------------
(* Unborn: a slot is created once. *)

(* Every step keeps apart the slots that exist and those still to be created. *)
LEMMA UnbornStep ==
  ASSUME IInv, Next
  PROVE  Unborn'
  <1> USE DEF book, device, reqVars, slotVars, Move
  <1>1. TypeOK /\ Known /\ Unborn /\ Keyed
    BY DEF IInv
  <1>2. \A r \in Reqs, f \in Features : <<r, f>> \in Slots
    BY DEF Slots
  <1>3. ASSUME NEW r \in Reqs, Submit(r) \/ Refuse(r) \/ Shutdown(r) PROVE Unborn'
    <2>1. /\ UNCHANGED <<spc, cur>> /\ rpc[r] = "idle" /\ \A f \in Features : spc[<<r, f>>] = "free"
          /\ \E pc : pc \notin {"idle", "replace", "lock"} /\ rpc' = [rpc EXCEPT ![r] = pc]
          /\ todo' = [todo EXCEPT ![r] = todo'[r]]
      BY <1>1, <1>3 DEF Submit, Begin, Refuse, Shutdown, Unborn, TypeOK
    <2>2. \A x \in Slots : spc[x] = "free" => ~cancelled'[x]
      <3>1. Registered \cap {x \in Slots : spc[x] = "free"} = {}
        BY <1>1 DEF Registered, Keys, Keyed
      <3>2. QED
        BY <1>1, <1>3, <3>1 DEF Submit, Refuse, Shutdown, Unborn
    <2>3. QED
      BY <1>1, <1>2, <2>1, <2>2 DEF Unborn, TypeOK
  <1>4. ASSUME NEW t \in Toys, NEW f \in Features, tasks[t][f] # NoSlot, Forget(t, f)
        PROVE  \A x \in Slots : spc[x] = "free" => ~cancelled'[x]
    BY <1>1, <1>4 DEF Forget, Keyed, Unborn, TypeOK
  <1>5. ASSUME NEW r \in Reqs, ReqSteps(r) \/ StopFails(r) \/ WriteFails(r) PROVE Unborn'
    <2>1. CASE Expand(r)
      BY <1>1, <1>2, <2>1 DEF Expand, Begin, Unborn, TypeOK
    <2>2. CASE CancelOne(r)
      <3>1. \A x \in Slots : spc[x] = "free" => ~cancelled'[x]
        <4>1. \/ UNCHANGED cancelled
              \/ \E k \in pend[r] : tasks[k[1]][k[2]] # NoSlot /\ Forget(k[1], k[2])
          BY <2>2 DEF CancelOne
        <4>2. \A k \in pend[r] : k[1] \in Toys /\ k[2] \in Features
          BY <1>1 DEF TypeOK
        <4>3. QED
          BY <1>1, <1>4, <4>1, <4>2 DEF Unborn
      <3>2. QED
        BY <1>1, <1>2, <2>2, <3>1 DEF CancelOne, Unborn, TypeOK
    <2>3. CASE Cancelled(r) \/ CancelledAll(r) \/ StopLands(r) \/ Finish(r) \/ HoldUpdate(r)
               \/ ZeroLevel(r) \/ WriteLands(r) \/ ReplaceZero(r) \/ ShutdownEnds(r)
               \/ StopFails(r) \/ WriteFails(r)
      BY <1>1, <1>2, <2>3 DEF Cancelled, CancelledAll, StopLands, Finish, HoldUpdate, ZeroLevel,
         ToWrite, WriteLands, ReplaceZero, ShutdownEnds, StopFails, WriteFails, Unborn, TypeOK
    <2>4. ASSUME NEW f \in Features, TakeLock(r, f) PROVE Unborn'
      BY <1>1, <1>2, <2>4 DEF TakeLock, Take, Unborn, TypeOK
    <2>5. ASSUME NEW f \in Features, Displace(r, f) PROVE Unborn'
      <3>1. \A x \in Slots : spc[x] = "free" => ~cancelled'[x]
        BY <1>1, <1>4, <2>5, JobFacts DEF Displace, Take
      <3>2. QED
        BY <1>1, <1>2, <2>5, <3>1 DEF Displace, Take, Unborn, TypeOK
    <2>6. ASSUME NEW f \in Features, StartTimed(r, f) PROVE Unborn'
      BY <1>1, <1>2, <2>6 DEF StartTimed, Take, Create, Unborn, TypeOK
    <2>7. CASE ReplaceTimed(r)
      BY <1>1, <1>2, <2>7 DEF ReplaceTimed, Create, Unborn, TypeOK
    <2>8. CASE HoldCreate(r)
      <3>1. /\ spc' = [spc EXCEPT ![<<r, cur[r]>>] = "new"] /\ UNCHANGED <<todo, cur, cancelled>>
            /\ rpc' = [rpc EXCEPT ![r] = "write"] /\ rpc[r] = "lock"
        BY <2>8 DEF HoldCreate, Create, ToWrite
      <3>2. cur[r] \in Features /\ cur[r] \notin todo[r]
        BY <1>1, <3>1 DEF Unborn, TypeOK
      <3>3. QED
        BY <1>1, <1>2, <3>1, <3>2 DEF Unborn, TypeOK
    <2>9. QED
      BY <1>5, <2>1, <2>2, <2>3, <2>4, <2>5, <2>6, <2>7, <2>8 DEF ReqSteps
  <1>6. ASSUME NEW s \in Slots, SlotSteps(s) \/ SlotFails(s) \/ SlotSilenceFails(s) PROVE Unborn'
    <2>1. /\ UNCHANGED <<rpc, todo, cur>> /\ spc[s] # "free"
          /\ \E pc : pc # "free" /\ spc' = [spc EXCEPT ![s] = pc]
          /\ cancelled' = cancelled \/ cancelled' = [cancelled EXCEPT ![s] = FALSE]
      BY <1>6 DEF SlotSteps, SlotStart, SlotApply, SlotYields, SlotLands, SlotElapses, SlotRetires,
         SlotLeaves, SlotSilences, CancelNew, CancelWaiting, CancelWriting, CancelHolding,
         CancelCleanup, SlotFails, SlotSilenceFails, Deliver
    <2>2. QED
      BY <1>1, <1>2, <2>1 DEF Unborn, TypeOK
  <1>7. CASE UNCHANGED vars
    BY <1>1, <1>7 DEF vars, Unborn
  <1>8. QED
    BY <1>3, <1>5, <1>6, <1>7 DEF Next, Arrivals, Failures, Rest

-----------------------------------------------------------------------------
(* Keyed and RegisteredAlive: what the registry of slots points to. *)

\* how a step may change the registry and the slots it points to
KeepsOthers(t, f) ==
  \A u \in Toys, g \in Features : <<u, g>> # <<t, f>> => tasks'[u][g] = tasks[u][g]

(* A new slot registers under its own key. *)
LEMMA CreateKeyed ==
  ASSUME IInv, NEW r \in Reqs, NEW f \in Features, rpc[r] # "idle", Create(r, f),
         spc[<<r, f>>] = "free", UNCHANGED <<closed, job, cancelled>>
  PROVE  Keyed' /\ RegisteredAlive'
  <1>1. TypeOK /\ Known /\ Keyed /\ RegisteredAlive /\ Unborn
    BY DEF IInv
  <1>2. <<r, f>> \in Slots /\ job[r].toy \in Toys /\ job[r] \in Jobs /\ <<r, f>> # NoSlot
    BY <1>1, JobFacts, DistinctAssumption
  <1>3. /\ tasks'[job[r].toy][f] = <<r, f>> /\ KeepsOthers(job[r].toy, f)
        /\ spc'[<<r, f>>] = "new" /\ \A x \in Slots : x # <<r, f>> => spc'[x] = spc[x]
    BY <1>1, <1>2 DEF Create, KeepsOthers, TypeOK
  <1>4. ASSUME NEW u \in Toys, NEW g \in Features, <<u, g>> # <<job[r].toy, f>>,
               tasks[u][g] # NoSlot
        PROVE  tasks[u][g] \in Slots /\ tasks'[u][g] = tasks[u][g] /\ tasks[u][g] # <<r, f>>
    <2>1. tasks[u][g] \in Slots /\ spc[tasks[u][g]] # "free"
      BY <1>1, <1>4 DEF Keyed, TypeOK
    <2>2. tasks'[u][g] = tasks[u][g]
      BY <1>3, <1>4 DEF KeepsOthers
    <2>3. QED
      BY <2>1, <2>2
  <1>5. Keyed'
    BY <1>1, <1>2, <1>3, <1>4 DEF Keyed, Toy, Feature, KeepsOthers
  <1>6. ~cancelled[<<r, f>>]
    BY <1>1, <1>2 DEF Unborn
  <1>7. RegisteredAlive'
    BY <1>1, <1>2, <1>3, <1>4, <1>6, DistinctAssumption, JobAssumption
       DEF RegisteredAlive, Toy, Feature, KeepsOthers
  <1>8. QED
    BY <1>5, <1>7

(* _cancel_slot forgets the task it cancels, and no key points to it any more. *)
LEMMA ForgetKeyed ==
  ASSUME IInv, NEW t \in Toys, NEW f \in Features, tasks[t][f] # NoSlot, Forget(t, f),
         UNCHANGED <<closed, job, spc>>
  PROVE  Keyed' /\ RegisteredAlive'
  <1>1. TypeOK /\ Keyed /\ RegisteredAlive
    BY DEF IInv
  <1>2. tasks'[t][f] = NoSlot /\ KeepsOthers(t, f)
    BY <1>1 DEF Forget, KeepsOthers, TypeOK
  <1>3. ASSUME NEW u \in Toys, NEW g \in Features, <<u, g>> # <<t, f>>, tasks[u][g] # NoSlot
        PROVE  /\ tasks'[u][g] = tasks[u][g]
               /\ cancelled'[tasks[u][g]] = cancelled[tasks[u][g]]
    BY <1>1, <1>2, <1>3 DEF KeepsOthers, Keyed, Forget, TypeOK
  <1>4. Keyed'
    BY <1>1, <1>2, <1>3 DEF Keyed, Toy, Feature, KeepsOthers
  <1>5. RegisteredAlive'
    BY <1>1, <1>2, <1>3 DEF RegisteredAlive, Toy, Feature, KeepsOthers
  <1>6. QED
    BY <1>4, <1>5

(* Every step keeps the registry: its slots exist, under their own keys, and live. *)
LEMMA RegistryStep ==
  ASSUME IInv, Next
  PROVE  Keyed' /\ RegisteredAlive'
  <1> USE DEF book, device, reqVars, slotVars, Move
  <1>1. TypeOK /\ Known /\ Keyed /\ RegisteredAlive /\ Unborn
    BY DEF IInv
  <1>2. ASSUME UNCHANGED <<tasks, spc, closed, cancelled>>,
               \A r \in Reqs : rpc[r] # "idle" => job'[r] = job[r]
        PROVE  Keyed' /\ RegisteredAlive'
    <2>1. \A t \in Toys, f \in Features : tasks[t][f] # NoSlot => job'[tasks[t][f][1]] = job[tasks[t][f][1]]
      BY <1>1, <1>2, JobFacts DEF Keyed, Known, TypeOK
    <2>2. QED
      BY <1>1, <1>2, <2>1 DEF Keyed, RegisteredAlive, Toy
  <1>3. ASSUME NEW r \in Reqs, Submit(r) \/ Refuse(r) \/ Shutdown(r) PROVE Keyed' /\ RegisteredAlive'
    <2>1. rpc[r] = "idle" /\ UNCHANGED <<tasks, spc>> /\ \E j \in Jobs : job' = [job EXCEPT ![r] = j]
      BY <1>3 DEF Submit, Refuse, Shutdown
    <2>2. \A q \in Reqs : rpc[q] # "idle" => job'[q] = job[q]
      BY <1>1, <2>1 DEF TypeOK
    <2>3. CASE Submit(r) \/ Refuse(r)
      BY <1>2, <2>1, <2>2, <2>3 DEF Submit, Refuse
    <2>4. CASE Shutdown(r)
      <3>1. closed' = TRUE
        BY <2>4 DEF Shutdown
      <3>2. \A t \in Toys, f \in Features : tasks[t][f] # NoSlot => job'[tasks[t][f][1]] = job[tasks[t][f][1]]
        BY <1>1, <2>2, JobFacts DEF Keyed, Known, TypeOK
      <3>3. QED
        BY <1>1, <2>1, <3>1, <3>2 DEF Keyed, RegisteredAlive, Toy
    <2>5. QED
      BY <1>3, <2>3, <2>4
  <1>4. ASSUME NEW r \in Reqs, ReqSteps(r) \/ StopFails(r) \/ WriteFails(r)
        PROVE  Keyed' /\ RegisteredAlive'
    <2>1. CASE CancelOne(r)
      <3>1. PICK k \in pend[r] : \/ UNCHANGED <<tasks, cancelled>>
                                 \/ tasks[k[1]][k[2]] # NoSlot /\ Forget(k[1], k[2])
        BY <2>1 DEF CancelOne
      <3>2. k[1] \in Toys /\ k[2] \in Features /\ UNCHANGED <<closed, job, spc>>
        BY <1>1, <2>1 DEF CancelOne, TypeOK
      <3>3. QED
        BY <1>2, <3>1, <3>2, ForgetKeyed
    <2>2. ASSUME NEW f \in Features, Displace(r, f) PROVE Keyed' /\ RegisteredAlive'
      BY <1>1, <2>2, ForgetKeyed, JobFacts DEF Displace, Take
    <2>3. ASSUME NEW f \in Features, StartTimed(r, f) PROVE Keyed' /\ RegisteredAlive'
      BY <1>1, <2>3, CreateKeyed DEF StartTimed, Take, Unborn
    <2>4. CASE ReplaceTimed(r) \/ HoldCreate(r)
      BY <1>1, <2>4, CreateKeyed DEF ReplaceTimed, HoldCreate, Unborn, TypeOK
    <2>5. CASE ShutdownEnds(r)
      <3>1. \A t \in Toys, f \in Features : tasks'[t][f] = NoSlot
        BY <2>5 DEF ShutdownEnds
      <3>2. QED
        BY <3>1 DEF Keyed, RegisteredAlive
    <2>6. CASE Expand(r) \/ Cancelled(r) \/ CancelledAll(r) \/ StopLands(r) \/ Finish(r)
               \/ (\E f \in Features : TakeLock(r, f)) \/ ReplaceZero(r) \/ HoldUpdate(r)
               \/ ZeroLevel(r) \/ WriteLands(r) \/ StopFails(r) \/ WriteFails(r)
      BY <1>2, <2>6 DEF Expand, Cancelled, CancelledAll, StopLands, Finish, TakeLock, ReplaceZero,
         HoldUpdate, ZeroLevel, WriteLands, StopFails, WriteFails
    <2>7. QED
      BY <1>4, <2>1, <2>2, <2>3, <2>4, <2>5, <2>6 DEF ReqSteps
  <1>5. ASSUME NEW s \in Slots, UNCHANGED <<closed, job>>, cancelled[s] => closed \/ ~Owns(s) ,
               spc' = [spc EXCEPT ![s] = spc'[s]], spc[s] # "free", spc'[s] # "free",
               cancelled' = cancelled \/ cancelled' = [cancelled EXCEPT ![s] = FALSE],
               \/ UNCHANGED tasks /\ (spc'[s] \in {"lock", "write", "hold", "fin"} \/ ~Owns(s) \/ closed)
               \/ Owns(s) /\ tasks' = [tasks EXCEPT ![Toy(s)][Feature(s)] = NoSlot]
        PROVE  Keyed' /\ RegisteredAlive'
    <2>1. Toy(s) \in Toys /\ Feature(s) \in Features
      BY <1>1, <1>5, JobFacts DEF Feature
    <2>2. \A t \in Toys, f \in Features : tasks[t][f] = s => t = Toy(s) /\ f = Feature(s)
      BY <1>1, DistinctAssumption DEF Keyed
    <2>3. \A t \in Toys, f \in Features : tasks'[t][f] # NoSlot => tasks'[t][f] = tasks[t][f]
      <3>1. CASE UNCHANGED tasks
        BY <3>1
      <3>2. CASE tasks' = [tasks EXCEPT ![Toy(s)][Feature(s)] = NoSlot]
        BY <1>1, <2>1, <3>2 DEF TypeOK
      <3>3. QED
        BY <1>5, <3>1, <3>2
    <2>4. \A x \in Slots : x # s => spc'[x] = spc[x] /\ cancelled'[x] = cancelled[x]
      BY <1>1, <1>5 DEF TypeOK
    <2>5. \A t \in Toys, f \in Features : tasks[t][f] \in Slots \cup {NoSlot}
      BY <1>1 DEF TypeOK
    <2>6. Keyed'
      BY <1>1, <1>5, <2>3, <2>4, <2>5 DEF Keyed, Toy, Feature
    <2>7. ASSUME NEW t \in Toys, NEW f \in Features, tasks'[t][f] = s, ~closed
          PROVE  spc'[s] \in {"lock", "write", "hold", "fin"} /\ ~cancelled'[s]
      <3>1. Owns(s) /\ t = Toy(s) /\ f = Feature(s) /\ s # NoSlot
        BY <2>2, <2>3, <2>7, DistinctAssumption DEF Owns
      <3>2. UNCHANGED tasks
        BY <1>1, <1>5, <2>1, <2>7, <3>1 DEF TypeOK
      <3>3. QED
        BY <1>1, <1>5, <2>7, <3>1, <3>2 DEF TypeOK
    <2>8. RegisteredAlive'
      BY <1>1, <1>5, <2>3, <2>4, <2>5, <2>7 DEF RegisteredAlive, Toy, Feature
    <2>9. QED
      BY <2>6, <2>8
  <1>6. ASSUME NEW s \in Slots, SlotSteps(s) \/ SlotFails(s) \/ SlotSilenceFails(s)
        PROVE  Keyed' /\ RegisteredAlive'
    <2>1. spc[s] # "free" /\ UNCHANGED <<closed, job>>
      BY <1>6 DEF SlotSteps, SlotStart, SlotApply, SlotYields, SlotLands, SlotElapses, SlotRetires,
         SlotLeaves, SlotSilences, CancelNew, CancelWaiting, CancelWriting, CancelHolding,
         CancelCleanup, SlotFails, SlotSilenceFails, Deliver
    <2>2. Owns(s) /\ ~closed => spc[s] # "fwrite" /\ ~cancelled[s]
      BY <1>1, <2>1, JobFacts, DistinctAssumption DEF RegisteredAlive, Owns, Feature, Toy
    <2>3. /\ spc' = [spc EXCEPT ![s] = spc'[s]] /\ spc'[s] # "free"
          /\ cancelled' = cancelled \/ cancelled' = [cancelled EXCEPT ![s] = FALSE]
      BY <1>1, <1>6 DEF SlotSteps, SlotStart, SlotApply, SlotYields, SlotLands, SlotElapses,
         SlotRetires, SlotLeaves, SlotSilences, CancelNew, CancelWaiting, CancelWriting,
         CancelHolding, CancelCleanup, SlotFails, SlotSilenceFails, Deliver, TypeOK
    <2>4. \/ UNCHANGED tasks /\ (spc'[s] \in {"lock", "write", "hold", "fin"} \/ ~Owns(s) \/ closed)
          \/ Owns(s) /\ tasks' = [tasks EXCEPT ![Toy(s)][Feature(s)] = NoSlot]
      BY <1>1, <1>6, <2>2 DEF SlotSteps, SlotStart, SlotApply, SlotYields, SlotLands, SlotElapses,
         SlotRetires, SlotLeaves, SlotSilences, CancelNew, CancelWaiting, CancelWriting,
         CancelHolding, CancelCleanup, SlotFails, SlotSilenceFails, Deliver, TypeOK
    <2>5. QED
      BY <1>5, <2>1, <2>2, <2>3, <2>4
  <1>7. CASE UNCHANGED vars
    BY <1>2, <1>7 DEF vars
  <1>8. QED
    BY <1>3, <1>4, <1>6, <1>7 DEF Next, Arrivals, Failures, Rest

-----------------------------------------------------------------------------
(* What shutdown() leaves to the slots that are created after it. *)

\* what a closed scheduler still has registered is on its way out: a slot with a write
\* or a hold to lose is cancelled, and a slot that is cancelled or over is one that a
\* shutdown() is waiting to forget
Doomed ==
  closed => \A t \in Toys, f \in Features :
    LET s == tasks[t][f] IN
    s # NoSlot =>
      /\ spc[s] # "fwrite"
      /\ spc[s] \in {"write", "hold"} => cancelled[s]
      /\ cancelled[s] \/ spc[s] = "done" => \E r \in Reqs : rpc[r] = "gather"

\* the shutdowns that wait for their slots go on waiting
GatherStays == \A q \in Reqs : rpc[q] = "gather" => rpc'[q] = "gather"

(* A slot created after shutdown() is new, and nobody has cancelled it. *)
LEMMA CreateDoomed ==
  ASSUME IInv, Doomed, NEW r \in Reqs, NEW f \in Features, rpc[r] # "idle", Create(r, f),
         spc[<<r, f>>] = "free", GatherStays, UNCHANGED <<closed, job, cancelled>>
  PROVE  Doomed'
  <1>1. TypeOK /\ Known /\ Keyed /\ Unborn
    BY DEF IInv
  <1>2. <<r, f>> \in Slots /\ job[r].toy \in Toys /\ ~cancelled[<<r, f>>]
    BY <1>1, JobFacts DEF Unborn
  <1>3. /\ tasks'[job[r].toy][f] = <<r, f>> /\ KeepsOthers(job[r].toy, f)
        /\ spc'[<<r, f>>] = "new" /\ \A x \in Slots : x # <<r, f>> => spc'[x] = spc[x]
    BY <1>1, <1>2 DEF Create, KeepsOthers, TypeOK
  <1>4. ASSUME NEW u \in Toys, NEW g \in Features, <<u, g>> # <<job[r].toy, f>>,
               tasks[u][g] # NoSlot
        PROVE  tasks'[u][g] = tasks[u][g] /\ spc'[tasks[u][g]] = spc[tasks[u][g]]
    <2>1. tasks[u][g] \in Slots /\ spc[tasks[u][g]] # "free"
      BY <1>1, <1>4 DEF Keyed, TypeOK
    <2>2. QED
      BY <1>2, <1>3, <1>4, <2>1 DEF KeepsOthers
  <1>5. QED
    BY <1>2, <1>3, <1>4 DEF Doomed, GatherStays, KeepsOthers

(* _cancel_slot forgets what it cancels and touches no other slot. *)
LEMMA ForgetDoomed ==
  ASSUME IInv, Doomed, NEW t \in Toys, NEW f \in Features, tasks[t][f] # NoSlot, Forget(t, f),
         GatherStays, UNCHANGED <<closed, job, spc>>
  PROVE  Doomed'
  <1>1. TypeOK /\ Keyed
    BY DEF IInv
  <1>2. tasks'[t][f] = NoSlot /\ KeepsOthers(t, f)
    BY <1>1 DEF Forget, KeepsOthers, TypeOK
  <1>3. ASSUME NEW u \in Toys, NEW g \in Features, <<u, g>> # <<t, f>>, tasks[u][g] # NoSlot
        PROVE  /\ tasks'[u][g] = tasks[u][g]
               /\ cancelled'[tasks[u][g]] = cancelled[tasks[u][g]]
    BY <1>1, <1>2, <1>3 DEF KeepsOthers, Keyed, Forget, TypeOK
  <1>4. QED
    BY <1>2, <1>3 DEF Doomed, GatherStays, KeepsOthers

(* shutdown() cancels every registered task that is not over, and waits for it. *)
LEMMA ShutdownDooms ==
  ASSUME IInv, Doomed, NEW r \in Reqs, Shutdown(r)
  PROVE  Doomed'
  <1>1. TypeOK /\ Keyed /\ RegisteredAlive
    BY DEF IInv
  <1>2. UNCHANGED <<tasks, spc>> /\ rpc'[r] = "gather"
    BY <1>1 DEF Shutdown, TypeOK
  <1>3. ASSUME NEW t \in Toys, NEW f \in Features, tasks[t][f] # NoSlot
        PROVE  /\ spc[tasks[t][f]] # "fwrite"
               /\ spc[tasks[t][f]] # "done" => cancelled'[tasks[t][f]]
    <2>1. tasks[t][f] \in Slots /\ tasks[t][f] \in Registered
      <3>1. <<t, f>> \in Keys(Toys)
        BY <1>3 DEF Keys
      <3>2. QED
        BY <1>1, <1>3, <3>1 DEF Registered, TypeOK
    <2>2. spc[tasks[t][f]] # "fwrite"
      BY <1>1, <1>3 DEF RegisteredAlive, Doomed
    <2>3. QED
      BY <2>1, <2>2 DEF Shutdown
  <1>4. QED
    BY <1>2, <1>3 DEF Doomed

(* A closed scheduler's slots move towards their end only. *)
LEMMA SlotDoomed ==
  ASSUME IInv, Doomed, NEW s \in Slots, SlotSteps(s) \/ SlotFails(s) \/ SlotSilenceFails(s)
  PROVE  Doomed'
  <1> USE DEF book, device, reqVars, slotVars, Move
  <1>1. TypeOK /\ Known /\ Keyed
    BY DEF IInv
  <1>2. /\ UNCHANGED <<closed, job, rpc>> /\ spc[s] # "free"
        /\ spc' = [spc EXCEPT ![s] = spc'[s]]
        /\ cancelled' = cancelled \/ cancelled' = [cancelled EXCEPT ![s] = FALSE]
    BY <1>1 DEF SlotSteps, SlotStart, SlotApply, SlotYields, SlotLands, SlotElapses,
       SlotRetires, SlotLeaves, SlotSilences, CancelNew, CancelWaiting, CancelWriting,
       CancelHolding, CancelCleanup, SlotFails, SlotSilenceFails, Deliver, TypeOK
  <1>3. Toy(s) \in Toys /\ Feature(s) \in Features /\ s # NoSlot
    BY <1>1, <1>2, JobFacts, DistinctAssumption DEF Feature
  <1>4. closed /\ Owns(s) => /\ spc[s] # "fwrite"
                             /\ spc[s] \in {"write", "hold"} => cancelled[s]
    BY <1>3 DEF Doomed, Owns
  <1>5. \/ /\ UNCHANGED tasks
           /\ closed /\ Owns(s) => /\ spc'[s] \in {"lock", "fin", "done"}
                                   /\ spc'[s] = "done" => cancelled[s]
        \/ Owns(s) /\ tasks' = [tasks EXCEPT ![Toy(s)][Feature(s)] = NoSlot]
    BY <1>1, <1>4 DEF SlotSteps, SlotStart, SlotApply, SlotYields, SlotLands, SlotElapses,
       SlotRetires, SlotLeaves, SlotSilences, CancelNew, CancelWaiting, CancelWriting,
       CancelHolding, CancelCleanup, SlotFails, SlotSilenceFails, Deliver, MayApply, TypeOK
  <1>6. \A t \in Toys, f \in Features : tasks[t][f] = s => t = Toy(s) /\ f = Feature(s)
    BY <1>1, <1>3 DEF Keyed
  <1>7. \A t \in Toys, f \in Features : tasks'[t][f] # NoSlot => tasks'[t][f] = tasks[t][f]
    <2>1. CASE UNCHANGED tasks
      BY <2>1
    <2>2. CASE tasks' = [tasks EXCEPT ![Toy(s)][Feature(s)] = NoSlot]
      BY <1>1, <1>3, <2>2 DEF TypeOK
    <2>3. QED
      BY <1>5, <2>1, <2>2
  <1>8. \A x \in Slots : x # s => spc'[x] = spc[x] /\ cancelled'[x] = cancelled[x]
    BY <1>1, <1>2 DEF TypeOK
  <1>9. ASSUME NEW t \in Toys, NEW f \in Features, tasks'[t][f] = s, closed
        PROVE  /\ spc'[s] \in {"lock", "fin", "done"}
               /\ cancelled'[s] \/ spc'[s] = "done" => cancelled[s]
    <2>1. Owns(s) /\ t = Toy(s) /\ f = Feature(s)
      BY <1>3, <1>6, <1>7, <1>9 DEF Owns
    <2>2. UNCHANGED tasks
      BY <1>1, <1>3, <1>5, <1>9, <2>1 DEF TypeOK
    <2>3. spc'[s] \in {"lock", "fin", "done"} /\ (spc'[s] = "done" => cancelled[s])
      BY <1>1, <1>3, <1>5, <1>9, <2>1, <2>2 DEF TypeOK
    <2>4. cancelled'[s] => cancelled[s]
      BY <1>1, <1>2 DEF TypeOK
    <2>5. QED
      BY <2>3, <2>4
  <1>10. ASSUME NEW t \in Toys, NEW f \in Features, closed, tasks'[t][f] # NoSlot
         PROVE  LET x == tasks'[t][f] IN
                /\ spc'[x] # "fwrite"
                /\ spc'[x] \in {"write", "hold"} => cancelled'[x]
                /\ cancelled'[x] \/ spc'[x] = "done" => \E r \in Reqs : rpc[r] = "gather"
    <2>1. tasks'[t][f] = tasks[t][f] /\ tasks[t][f] \in Slots
      BY <1>1, <1>7, <1>10 DEF TypeOK
    <2>2. CASE tasks[t][f] # s
      BY <1>8, <1>10, <2>1, <2>2 DEF Doomed
    <2>3. CASE tasks[t][f] = s
      BY <1>3, <1>9, <1>10, <2>1, <2>3 DEF Doomed
    <2>4. QED
      BY <2>2, <2>3
  <1>11. QED
    BY <1>2, <1>10 DEF Doomed

(* Every step keeps a closed scheduler's slots on their way out. *)
LEMMA DoomedStep ==
  ASSUME IInv, Doomed, Next
  PROVE  Doomed'
  <1> USE DEF book, device, reqVars, slotVars
  <1>1. TypeOK /\ Known /\ Keyed /\ Unborn
    BY DEF IInv
  <1>2. ASSUME UNCHANGED <<tasks, spc, closed, cancelled>>, GatherStays
        PROVE  Doomed'
    BY <1>2 DEF Doomed, GatherStays
  <1>3. ASSUME NEW r \in Reqs, Submit(r) \/ Refuse(r) PROVE Doomed'
    <2>1. rpc[r] = "idle" /\ \E pc : rpc' = [rpc EXCEPT ![r] = pc]
      BY <1>3 DEF Submit, Refuse, Begin
    <2>2. GatherStays
      BY <1>1, <2>1 DEF GatherStays, TypeOK
    <2>3. QED
      BY <1>2, <1>3, <2>2 DEF Submit, Refuse
  <1>4. ASSUME NEW r \in Reqs, ReqSteps(r) \/ StopFails(r) \/ WriteFails(r) PROVE Doomed'
    <2>1. CASE ShutdownEnds(r)
      <3>1. \A t \in Toys, f \in Features : tasks'[t][f] = NoSlot
        BY <2>1 DEF ShutdownEnds
      <3>2. QED
        BY <3>1 DEF Doomed
    <2>2. ASSUME ~ShutdownEnds(r) PROVE GatherStays
      <3>1. rpc[r] # "gather" /\ (rpc' = rpc \/ \E pc : rpc' = [rpc EXCEPT ![r] = pc])
        BY <1>4, <2>2 DEF ReqSteps, Expand, Begin, CancelOne, Cancelled, CancelledAll, StopLands,
           Finish, TakeLock, Displace, StartTimed, Take, ReplaceTimed, ReplaceZero, HoldUpdate,
           HoldCreate, ZeroLevel, ToWrite, WriteLands, StopFails, WriteFails
      <3>2. QED
        BY <1>1, <3>1 DEF GatherStays, TypeOK
    <2>3. CASE CancelOne(r)
      <3>1. PICK k \in pend[r] : \/ UNCHANGED <<tasks, cancelled>>
                                 \/ tasks[k[1]][k[2]] # NoSlot /\ Forget(k[1], k[2])
        BY <2>3 DEF CancelOne
      <3>2. k[1] \in Toys /\ k[2] \in Features /\ UNCHANGED <<closed, job, spc>> /\ GatherStays
        <4>1. ~ShutdownEnds(r)
          BY <2>3 DEF CancelOne, ShutdownEnds
        <4>2. QED
          BY <1>1, <2>2, <2>3, <4>1 DEF CancelOne, TypeOK
      <3>3. QED
        BY <1>2, <3>1, <3>2, ForgetDoomed
    <2>4. ASSUME NEW f \in Features, ~ShutdownEnds(r), Displace(r, f) PROVE Doomed'
      BY <1>1, <2>2, <2>4, ForgetDoomed, JobFacts DEF Displace, Take
    <2>5. ASSUME NEW f \in Features, ~ShutdownEnds(r), StartTimed(r, f) PROVE Doomed'
      BY <1>1, <2>2, <2>5, CreateDoomed DEF StartTimed, Take, Unborn
    <2>6. CASE ~ShutdownEnds(r) /\ (ReplaceTimed(r) \/ HoldCreate(r))
      BY <1>1, <2>2, <2>6, CreateDoomed DEF ReplaceTimed, HoldCreate, Unborn, TypeOK
    <2>7. CASE ~ShutdownEnds(r) /\
               (Expand(r) \/ Cancelled(r) \/ CancelledAll(r) \/ StopLands(r) \/ Finish(r)
                 \/ (\E f \in Features : TakeLock(r, f)) \/ ReplaceZero(r) \/ HoldUpdate(r)
                 \/ ZeroLevel(r) \/ WriteLands(r) \/ StopFails(r) \/ WriteFails(r))
      BY <1>2, <2>2, <2>7 DEF Expand, Cancelled, CancelledAll, StopLands, Finish, TakeLock,
         ReplaceZero, HoldUpdate, ZeroLevel, WriteLands, StopFails, WriteFails
    <2>8. QED
      BY <1>4, <2>1, <2>3, <2>4, <2>5, <2>6, <2>7 DEF ReqSteps
  <1>5. CASE UNCHANGED vars
    BY <1>2, <1>5 DEF vars, GatherStays
  <1>6. QED
    BY <1>3, <1>4, <1>5, ShutdownDooms, SlotDoomed DEF Next, Arrivals, Failures, Rest

-----------------------------------------------------------------------------
(* The theorems. *)

(* Nothing is scheduled, queued or registered when the server starts. *)
LEMMA InitInv ==
  ASSUME Init
  PROVE  IInv
  <1> USE LevelAssumption
  <1>1. TypeOK
    <2>1. cur \in [Reqs -> Features]
      BY FeatureAssumption DEF Init
    <2>2. locks \in [Toys -> Seq(Actors)]
      BY DEF Init
    <2>3. /\ tasks \in [Toys -> [Features -> Slots \cup {NoSlot}]]
          /\ levels \in [Toys -> [Features -> Level \cup {NoLevel}]]
          /\ wire \in [Toys -> [Features -> Level \cup {NoLevel}]]
          /\ motor \in [Toys -> [Features -> Level]]
          /\ rows \in [Slots -> Level \cup {NoLevel}]
      BY DEF Init, Empty, Silent, Level
    <2>4. closed \in BOOLEAN /\ cancelled \in [Slots -> BOOLEAN]
      BY DEF Init
    <2>5. fails \in 0 .. MaxFail
      BY DEF Init
    <2>6. QED
      BY <2>1, <2>2, <2>3, <2>4, <2>5 DEF Init, TypeOK
  <1>2. Known /\ Unborn /\ Keyed /\ RegisteredAlive
    <2>1. \A t \in Toys, f \in Features : tasks[t][f] = NoSlot
      BY DEF Init
    <2>2. Keyed /\ RegisteredAlive
      BY <2>1 DEF Keyed, RegisteredAlive
    <2>3. \A r \in Reqs, f \in Features : <<r, f>> \in Slots
      BY DEF Slots
    <2>4. Known /\ Unborn
      BY <2>3 DEF Init, Known, Unborn
    <2>5. QED
      BY <2>2, <2>4
  <1>3. Queues
    <2>1. \A t \in Toys : IsInjective(locks[t]) /\ \A a : a \notin Range(locks[t])
      BY DEF Init, IsInjective, Range
    <2>2. QED
      BY <2>1 DEF Init, Queues
  <1>4. QED
    BY <1>1, <1>2, <1>3 DEF IInv

(* IInv holds in every state of the scheduler. *)
THEOREM Invariance == Spec => []IInv
  <1>1. Init => IInv
    BY InitInv
  <1>2. IInv /\ [Next]_vars => IInv'
    <2>1. ASSUME IInv, Next PROVE IInv'
      BY <2>1, TypeStep, KnownStep, QueueStep, UnbornStep, RegistryStep DEF IInv
    <2>2. ASSUME IInv, UNCHANGED vars PROVE IInv'
      BY <2>2 DEF vars, IInv, TypeOK, Known, Queues, Unborn, Keyed, RegisteredAlive, Holds, Toy,
         Feature
    <2>3. QED
      BY <2>1, <2>2
  <1>3. QED
    BY <1>1, <1>2, PTL DEF Spec

(* Every variable of the scheduler keeps its type. *)
THEOREM TypeCorrect == Spec => []TypeOK
  <1>1. IInv => TypeOK
    BY DEF IInv
  <1>2. QED
    BY <1>1, Invariance, PTL

(* A lock's queue is exactly the actors that are at the lock, without duplicates, *)
(* and only the holder writes to the toy (scheduler.py:366-398, :467-513).        *)
THEOREM LocksStayLive == Spec => []LocksLive
  <1>1. IInv => LocksLive
    <2>1. ASSUME IInv, NEW t \in Toys
          PROVE  /\ IsInjective(locks[t])
                 /\ Range(locks[t]) = AtLock(t)
                 /\ \A a \in Writing(t) : Holds(t, a)
      <3>1. Queues /\ locks[t] \in Seq(Actors)
        BY <2>1 DEF IInv, TypeOK
      <3>2. \A a \in Range(locks[t]) : a \in Actors
        BY <3>1 DEF Range
      <3>3. \A a \in Actors : a \in Range(locks[t]) <=> a \in AtLock(t)
        BY <3>1, DistinctAssumption DEF Queues, AtLock, Actors
      <3>4. AtLock(t) \subseteq Actors
        BY DEF AtLock, Actors
      <3>5. \A a \in Writing(t) : Holds(t, a)
        BY <3>1 DEF Queues, Writing
      <3>6. QED
        BY <3>1, <3>2, <3>3, <3>4, <3>5 DEF Queues
    <2>2. QED
      BY <2>1 DEF LocksLive
  <1>2. QED
    BY <1>1, Invariance, PTL

(* While the scheduler is open, what _tasks points to is the live task of that    *)
(* key, never one that is about to die (scheduler.py:469).                        *)
THEOREM RegistryStaysAlive == Spec => []RegisteredAlive
  <1>1. IInv => RegisteredAlive
    BY DEF IInv
  <1>2. QED
    BY <1>1, Invariance, PTL

(* A closed scheduler that has come to rest keeps nothing registered, although a  *)
(* request that passed the `closed` check may still create slots after shutdown() *)
(* has cleared the tables (scheduler.py:41-53, :367-368).                         *)
THEOREM ClosedForgetsAll == Spec => []ClosedKeepsNothing
  <1>1. Init => Doomed
    BY DEF Init, Doomed
  <1>2. IInv /\ Doomed /\ [Next]_vars => Doomed'
    <2>1. ASSUME IInv, Doomed, UNCHANGED vars PROVE Doomed'
      BY <2>1 DEF vars, Doomed
    <2>2. QED
      BY <2>1, DoomedStep
  <1>3. IInv /\ Doomed => ClosedKeepsNothing
    <2>1. ASSUME IInv, Doomed, Settled, closed, NEW t \in Toys, NEW f \in Features,
                 tasks[t][f] # NoSlot
          PROVE  FALSE
      <3>1. tasks[t][f] \in Slots /\ spc[tasks[t][f]] # "free"
        BY <2>1 DEF IInv, TypeOK, Keyed
      <3>2. /\ ~cancelled[tasks[t][f]] /\ spc[tasks[t][f]] \in {"done", "hold"}
            /\ \A r \in Reqs : rpc[r] # "gather"
        BY <2>1, <3>1 DEF Settled
      <3>3. QED
        BY <2>1, <3>2 DEF Doomed
    <2>2. ASSUME IInv, Doomed, Settled, closed, NEW t \in Toys
          PROVE  tasks[t] = [f \in Features |-> NoSlot]
      <3>1. \A f \in Features : tasks[t][f] = NoSlot
        BY <2>1, <2>2
      <3>2. tasks[t] \in [Features -> Slots \cup {NoSlot}]
        BY <2>2 DEF IInv, TypeOK
      <3>3. QED
        BY <3>1, <3>2
    <2>3. QED
      BY <2>2 DEF ClosedKeepsNothing
  <1>4. QED
    BY <1>1, <1>2, <1>3, Invariance, PTL DEF Spec

-----------------------------------------------------------------------------
(***************************************************************************)
(* What the motors do: the level on record of a motor that a slot holds is *)
(* the level it runs at.                                                   *)
(***************************************************************************)

StopOps == {"stopToy", "stopAll"}

\* what the state of a request says of its job
Asked ==
  \A r \in Reqs :
    /\ rpc[r] = "idle" => job[r] = NoJob
    /\ rpc[r] = "expand" => job[r].op \in FunctionOps
    /\ rpc[r] \in {"cancel", "await"} =>
         job[r].op \in StopOps \/ (job[r].op \in FunctionOps /\ job[r].fresh)
    /\ rpc[r] = "stop" => job[r].op \in StopOps
    /\ rpc[r] = "gather" => closed

\* a write to the toy is under way
ReqWrites(t)  == \E r \in Reqs : rpc[r] = "write" /\ job[r].toy = t
SlotWrites(t) == \E s \in Slots : spc[s] \in {"write", "fwrite"} /\ Toy(s) = t

\* the motor's registered slot is asserting its level, or has asserted it
Asserted(t, f) == tasks[t][f] # NoSlot /\ spc[tasks[t][f]] \in {"write", "hold"}

\* no other slot of the motor has a write under way
Alone ==
  \A t \in Toys, f \in Features : Asserted(t, f) =>
    \A s \in Slots : (spc[s] \in {"write", "fwrite"} /\ Toy(s) = t /\ Feature(s) = f)
                       => s = tasks[t][f]

\* every write under way carries the level on record of an asserted motor
Snapshot ==
  \A t \in Toys, f \in Features :
    (Asserted(t, f) /\ levels[t][f] # NoLevel /\ (ReqWrites(t) \/ SlotWrites(t)))
      => wire[t][f] = levels[t][f]

\* and when no request is writing, the motor already runs at that level: the write of
\* a slot, which a cancellation may cut short, has nothing to repair
Driven ==
  Undisturbed => \A t \in Toys, f \in Features :
    (Asserted(t, f) /\ spc[tasks[t][f]] = "hold" /\ levels[t][f] # NoLevel)
      => motor[t][f] = levels[t][f] \/ ReqWrites(t)

Motors == Alone /\ Snapshot /\ Driven

-----------------------------------------------------------------------------
(* What every step keeps. *)

(* Who holds a toy's lock is the only one with a write to it under way. *)
LEMMA HolderAlone ==
  ASSUME IInv, NEW t \in Toys, NEW a \in Actors, Holds(t, a)
  PROVE  /\ \A r \in Reqs : rpc[r] = "write" /\ job[r].toy = t => r = a
         /\ \A s \in Slots : spc[s] \in {"write", "fwrite"} /\ Toy(s) = t => s = a
  BY DEF IInv, Queues, Holds, HeldBy

(* A request that has arrived keeps its job, and so does every slot it made. *)
LEMMA JobsStay ==
  ASSUME IInv, Next
  PROVE  /\ \A r \in Reqs : rpc[r] # "idle" => job'[r] = job[r]
         /\ \A s \in Slots : spc[s] # "free" => Toy(s)' = Toy(s) /\ job'[s[1]] = job[s[1]]
  <1> USE DEF book, device, reqVars, slotVars
  <1>1. TypeOK /\ Known
    BY DEF IInv
  <1>2. \A r \in Reqs : rpc[r] # "idle" => job'[r] = job[r]
    <2>1. ASSUME NEW r \in Reqs, Submit(r) \/ Refuse(r) \/ Shutdown(r)
          PROVE  \A q \in Reqs : rpc[q] # "idle" => job'[q] = job[q]
      <3>1. rpc[r] = "idle" /\ \E j \in Jobs : job' = [job EXCEPT ![r] = j]
        BY <2>1 DEF Submit, Refuse, Shutdown
      <3>2. QED
        BY <1>1, <3>1 DEF TypeOK
    <2>2. ASSUME NEW r \in Reqs, ReqSteps(r) \/ StopFails(r) \/ WriteFails(r)
          PROVE  job' = job
      BY <2>2 DEF ReqSteps, Expand, CancelOne, Cancelled, CancelledAll,
         StopLands, Finish, TakeLock, Displace, StartTimed, ReplaceTimed, ReplaceZero, HoldUpdate,
         HoldCreate, ZeroLevel, WriteLands, ShutdownEnds, WriteFails, StopFails
    <2>3. ASSUME NEW s \in Slots, SlotSteps(s) \/ SlotFails(s) \/ SlotSilenceFails(s)
          PROVE  job' = job
      BY <2>3 DEF SlotSteps, SlotStart, SlotApply, SlotYields, SlotLands, SlotElapses, SlotRetires,
         SlotLeaves, SlotSilences, CancelNew, CancelWaiting, CancelWriting, CancelHolding,
         CancelCleanup, SlotFails, SlotSilenceFails
    <2>4. UNCHANGED vars => job' = job
      BY DEF vars
    <2>5. QED
      BY <2>1, <2>2, <2>3, <2>4 DEF Next, Arrivals, Failures, Rest
  <1>3. QED
    BY <1>1, <1>2, JobFacts DEF Known, Toy

(* A run that has been disturbed stays so. *)
LEMMA DisturbedStays ==
  ASSUME IInv, Asked, Next, Undisturbed'
  PROVE  Undisturbed
  <1> USE DEF book, device, reqVars, slotVars
  <1>1. TypeOK
    BY DEF IInv
  <1>2. fails \in Nat /\ fails' \in {fails, fails + 1}
    <2>1. fails \in Nat
      BY <1>1, LevelAssumption DEF TypeOK
    <2>2. fails' \in {fails, fails + 1}
      <3>1. CASE Arrivals \/ Rest
        BY <3>1 DEF Arrivals, Rest, vars, Submit, Refuse, Shutdown
      <3>2. ASSUME NEW r \in Reqs, ReqSteps(r) PROVE fails' = fails
        BY <3>2 DEF ReqSteps, Expand, CancelOne, Cancelled, CancelledAll, StopLands, Finish,
           TakeLock, Displace, StartTimed, ReplaceTimed, ReplaceZero, HoldUpdate, HoldCreate,
           ZeroLevel, WriteLands, ShutdownEnds
      <3>3. ASSUME NEW s \in Slots, SlotSteps(s) PROVE fails' = fails
        BY <3>3 DEF SlotSteps, SlotStart, SlotApply, SlotYields, SlotLands, SlotElapses,
           SlotRetires, SlotLeaves, SlotSilences, CancelNew, CancelWaiting, CancelWriting,
           CancelHolding, CancelCleanup
      <3>4. CASE Failures
        BY <3>4 DEF Failures, WriteFails, StopFails, SlotFails, SlotSilenceFails
      <3>5. QED
        BY <3>1, <3>2, <3>3, <3>4 DEF Next
    <2>3. QED
      BY <2>1, <2>2
  <1>3. fails = 0
    BY <1>2 DEF Undisturbed
  <1>4. ASSUME NEW r \in Reqs PROVE job[r] = NoJob \/ job[r].op \notin {"stopToy", "stopAll"}
    BY JobsStay DEF Undisturbed, Asked
  <1>5. QED
    BY <1>3, <1>4 DEF Undisturbed

(* Every step keeps what the state of a request says of its job. *)
LEMMA AskedStep ==
  ASSUME IInv, Asked, Next
  PROVE  Asked'
  <1> USE DEF book, device, reqVars, slotVars, StopOps
  <1>1. TypeOK /\ Known
    BY DEF IInv
  <1>2. ASSUME NEW r \in Reqs, Submit(r) \/ Refuse(r) PROVE Asked'
    <2>1. PICK j \in Jobs : /\ job' = [job EXCEPT ![r] = j]
                            /\ rpc' = [rpc EXCEPT ![r] = rpc'[r]]
                            /\ rpc'[r] \in {"next", "failed"}
                                 \/ (rpc'[r] = "expand" /\ j.op \in FunctionOps)
                                 \/ (rpc'[r] = "cancel"
                                      /\ (j.op \in StopOps \/ (j.op \in FunctionOps /\ j.fresh)))
      <3>1. CASE Refuse(r)
        BY <1>1, <3>1 DEF Refuse, TypeOK
      <3>2. CASE Submit(r)
        <4>1. PICK j \in Jobs : /\ j.op # "shutdown" /\ job' = [job EXCEPT ![r] = j]
                                /\ \/ rpc' = [rpc EXCEPT ![r] = "expand"] /\ j.op \in FunctionOps
                                   \/ Begin(r, j)
          BY <3>2 DEF Submit, FunctionOps
        <4>2. j.op \in Ops
          BY <1>1, JobFacts
        <4>3. QED
          BY <1>1, <4>1, <4>2 DEF Begin, Ops, FunctionOps, TypeOK
      <3>3. QED
        BY <1>2, <3>1, <3>2
    <2>2. rpc[r] = "idle" /\ UNCHANGED closed
      BY <1>2 DEF Submit, Refuse
    <2>3. \A q \in Reqs : q # r => job'[q] = job[q] /\ rpc'[q] = rpc[q]
      BY <1>1, <2>1 DEF TypeOK
    <2>4. job'[r] = j
      BY <1>1, <2>1 DEF TypeOK
    <2>5. QED
      BY <2>1, <2>2, <2>3, <2>4 DEF Asked
  <1>3. ASSUME NEW r \in Reqs, Shutdown(r) PROVE Asked'
    <2>1. /\ closed' /\ \A q \in Reqs : q # r => job'[q] = job[q] /\ rpc'[q] = rpc[q]
          /\ rpc'[r] = "gather"
      BY <1>1, <1>3 DEF Shutdown, TypeOK
    <2>2. QED
      BY <2>1 DEF Asked
  <1>4. ASSUME NEW r \in Reqs, ReqSteps(r) \/ StopFails(r) \/ WriteFails(r) PROVE Asked'
    <2>1. UNCHANGED <<job, closed>> /\ rpc[r] # "idle"
      BY <1>4 DEF ReqSteps, Expand, CancelOne, Cancelled, CancelledAll,
         StopLands, Finish, TakeLock, Displace, StartTimed, Take, ReplaceTimed, ReplaceZero,
         HoldUpdate, HoldCreate, ZeroLevel, WriteLands, ShutdownEnds, WriteFails, StopFails
    <2>2. rpc' = [rpc EXCEPT ![r] = rpc'[r]]
      BY <1>1, <1>4 DEF ReqSteps, Expand, Begin, CancelOne, Cancelled, CancelledAll,
         StopLands, Finish, TakeLock, Displace, StartTimed, Take, ReplaceTimed, ReplaceZero,
         HoldUpdate, HoldCreate, ZeroLevel, ToWrite, WriteLands, ShutdownEnds, WriteFails,
         StopFails, TypeOK
    <2>3. \/ rpc'[r] = rpc[r]
          \/ rpc'[r] \in {"next", "replace", "lock", "write", "done", "failed"}
          \/ rpc[r] = "expand" /\ Begin(r, job[r])
          \/ rpc[r] \in {"cancel", "await"} /\ rpc'[r] \in {"cancel", "await"}
          \/ rpc[r] = "cancel" /\ rpc'[r] = "stop" /\ job[r].op \notin FunctionOps
      BY <1>1, <1>4 DEF ReqSteps, Expand, CancelOne, Cancelled, CancelledAll,
         StopLands, Finish, TakeLock, Displace, StartTimed, Take, ReplaceTimed, ReplaceZero,
         HoldUpdate, HoldCreate, ZeroLevel, ToWrite, WriteLands, ShutdownEnds, WriteFails,
         StopFails, TypeOK
    <2>4. CASE rpc[r] = "expand" /\ Begin(r, job[r])
      BY <1>1, <2>1, <2>2, <2>4 DEF Begin, Asked, TypeOK
    <2>5. \A q \in Reqs : q # r => rpc'[q] = rpc[q]
      BY <1>1, <2>2 DEF TypeOK
    <2>6. QED
      BY <1>1, <2>1, <2>3, <2>4, <2>5 DEF Asked
  <1>5. ASSUME NEW s \in Slots, SlotSteps(s) \/ SlotFails(s) \/ SlotSilenceFails(s) PROVE Asked'
    <2>1. UNCHANGED <<job, rpc, closed>>
      BY <1>5 DEF SlotSteps, SlotStart, SlotApply, SlotYields, SlotLands, SlotElapses, SlotRetires,
         SlotLeaves, SlotSilences, CancelNew, CancelWaiting, CancelWriting, CancelHolding,
         CancelCleanup, SlotFails, SlotSilenceFails
    <2>2. QED
      BY <2>1 DEF Asked
  <1>6. CASE UNCHANGED vars
    BY <1>6 DEF vars, Asked
  <1>7. QED
    BY <1>2, <1>3, <1>4, <1>5, <1>6 DEF Next, Arrivals, Failures, Rest

-----------------------------------------------------------------------------
(* The kinds of steps, by what they do to the motors of a toy. *)

\* the motor's slot, its state and its level on record are as before
SameMotor(t, f) ==
  /\ tasks'[t][f] = tasks[t][f]
  /\ spc'[tasks'[t][f]] = spc[tasks[t][f]]
  /\ levels'[t][f] = levels[t][f]
\* ... or nothing is asserted for it any more
KeepsOrLets(t, f) == Asserted(t, f)' => SameMotor(t, f)

\* the writes of a toy that are under way are the same
SameWrites(t) ==
  /\ ReqWrites(t)' <=> ReqWrites(t)
  /\ \A s \in Slots : spc'[s] \in {"write", "fwrite"} /\ Toy(s)' = t <=>
                        spc[s] \in {"write", "fwrite"} /\ Toy(s) = t
\* nobody is writing to the toy
NoWrites(t) ==
  /\ \A r \in Reqs : ~(rpc[r] = "write" /\ job[r].toy = t)
  /\ \A s \in Slots : ~(spc[s] \in {"write", "fwrite"} /\ Toy(s) = t)

\* the three invariants, one motor at a time
MotorOK(t, f) ==
  Asserted(t, f) =>
    /\ \A s \in Slots : (spc[s] \in {"write", "fwrite"} /\ Toy(s) = t /\ Feature(s) = f)
                          => s = tasks[t][f]
    /\ (levels[t][f] # NoLevel /\ (ReqWrites(t) \/ SlotWrites(t))) => wire[t][f] = levels[t][f]
    /\ (Undisturbed /\ spc[tasks[t][f]] = "hold" /\ levels[t][f] # NoLevel)
         => motor[t][f] = levels[t][f] \/ ReqWrites(t)

LEMMA MotorWise == Motors <=> \A t \in Toys, f \in Features : MotorOK(t, f)
  BY DEF Motors, MotorOK, Alone, Snapshot, Driven

LEMMA MotorWiseNext ==
  ASSUME \A t \in Toys, f \in Features : MotorOK(t, f)'
  PROVE  Motors'
  BY DEF Motors, MotorOK, Alone, Snapshot, Driven

(* A step at another toy, or one that writes nothing and asserts nothing. *)
LEMMA QuietMotor ==
  ASSUME NEW t \in Toys, NEW f \in Features, MotorOK(t, f), KeepsOrLets(t, f), SameWrites(t),
         Undisturbed' => Undisturbed, wire'[t] = wire[t], Undisturbed' => motor'[t] = motor[t]
  PROVE  MotorOK(t, f)'
  <1>1. SlotWrites(t)' <=> SlotWrites(t)
    BY DEF SlotWrites, SameWrites
  <1>2. ASSUME Asserted(t, f)' PROVE Asserted(t, f)
    BY <1>2 DEF KeepsOrLets, SameMotor, Asserted
  <1>3. QED
    BY <1>1, <1>2 DEF MotorOK, KeepsOrLets, SameMotor, SameWrites, Feature

(* A request that has the lock sends the toy's levels on record. *)
LEMMA ReqWriteMotor ==
  ASSUME NEW t \in Toys, NEW f \in Features, NoWrites(t), NEW r \in Reqs,
         \A s \in Slots : ~(spc'[s] \in {"write", "fwrite"} /\ Toy(s)' = t),
         rpc'[r] = "write", job'[r].toy = t, wire'[t] = levels'[t]
  PROVE  MotorOK(t, f)'
  BY DEF MotorOK, ReqWrites

(* A slot that has the lock sends the toy's levels on record. *)
LEMMA SlotWriteMotor ==
  ASSUME NEW t \in Toys, NEW f \in Features, NEW s \in Slots, MotorOK(t, f), NoWrites(t),
         \A x \in Slots : x # s => ~(spc'[x] \in {"write", "fwrite"} /\ Toy(x)' = t),
         wire'[t] = levels'[t], motor' = motor, Undisturbed' => Undisturbed,
         f # Feature(s) => KeepsOrLets(t, f),
         f = Feature(s) => ~Asserted(t, f)' \/ (tasks'[t][f] = s /\ spc'[s] = "write")
  PROVE  MotorOK(t, f)'
  <1>1. CASE f # Feature(s)
    <2>1. ASSUME Asserted(t, f)' PROVE Asserted(t, f) /\ SameMotor(t, f)
      BY <1>1, <2>1 DEF KeepsOrLets, SameMotor, Asserted
    <2>2. ~ReqWrites(t)
      BY DEF NoWrites, ReqWrites
    <2>3. QED
      BY <1>1, <2>1, <2>2 DEF MotorOK, SameMotor, Feature
  <1>2. CASE f = Feature(s)
    BY <1>2 DEF MotorOK, Asserted
  <1>3. QED
    BY <1>1, <1>2

(* A write that ends leaves nobody writing, and the toy at what was sent, or, when it *)
(* is the write of a cancelled slot, where it was.                                    *)
LEMMA EndedMotor ==
  ASSUME TypeOK, NEW t \in Toys, NEW f \in Features, MotorOK(t, f), NoWrites(t)',
         ReqWrites(t) \/ SlotWrites(t), Undisturbed' => Undisturbed, UNCHANGED levels,
         Asserted(t, f)' => tasks'[t][f] = tasks[t][f] /\ Asserted(t, f),
         Undisturbed' =>
           \/ motor' = Landed(t, wire[t])
           \/ /\ motor' = motor /\ ~ReqWrites(t)
              /\ Asserted(t, f)' => spc[tasks[t][f]] = "hold"
  PROVE  MotorOK(t, f)'
  <1>1. ~ReqWrites(t)' /\ ~SlotWrites(t)'
    BY DEF NoWrites, ReqWrites, SlotWrites
  <1>2. ASSUME Asserted(t, f), levels[t][f] # NoLevel, wire[t][f] = levels[t][f]
        PROVE  Landed(t, wire[t])[t][f] = levels[t][f]
    BY <1>2 DEF Landed, Empty, TypeOK
  <1>3. QED
    BY <1>1, <1>2 DEF MotorOK, NoWrites

(* A new slot asserts nothing yet, and every other motor is as before. *)
LEMMA CreateLets ==
  ASSUME IInv, NEW r \in Reqs, NEW g \in Features, rpc[r] # "idle", Create(r, g),
         spc[<<r, g>>] = "free", UNCHANGED job
  PROVE  /\ \A t \in Toys, f \in Features : KeepsOrLets(t, f)
         /\ \A s \in Slots, t \in Toys : spc'[s] \in {"write", "fwrite"} /\ Toy(s)' = t <=>
                                           spc[s] \in {"write", "fwrite"} /\ Toy(s) = t
         /\ job[r].toy \in Toys
  <1>1. TypeOK /\ Known /\ Keyed
    BY DEF IInv
  <1>2. <<r, g>> \in Slots /\ job[r].toy \in Toys
    BY <1>1, JobFacts
  <1>3. /\ tasks'[job[r].toy][g] = <<r, g>> /\ KeepsOthers(job[r].toy, g)
        /\ spc'[<<r, g>>] = "new" /\ \A x \in Slots : x # <<r, g>> => spc'[x] = spc[x]
        /\ \A t \in Toys, f \in Features : <<t, f>> # <<job[r].toy, g>> => levels'[t][f] = levels[t][f]
    BY <1>1, <1>2 DEF Create, Raised, KeepsOthers, TypeOK
  <1>4. ASSUME NEW t \in Toys, NEW f \in Features, Asserted(t, f)' PROVE SameMotor(t, f)
    <2>1. <<t, f>> # <<job[r].toy, g>>
      BY <1>3, <1>4 DEF Asserted
    <2>2. tasks'[t][f] = tasks[t][f] /\ tasks[t][f] \in Slots /\ spc[tasks[t][f]] # "free"
      BY <1>1, <1>3, <1>4, <2>1 DEF KeepsOthers, Asserted, Keyed, TypeOK
    <2>3. QED
      BY <1>2, <1>3, <2>1, <2>2 DEF SameMotor
  <1>5. \A s \in Slots : Toy(s)' = Toy(s)
    BY DEF Toy
  <1>6. QED
    BY <1>2, <1>3, <1>4, <1>5 DEF KeepsOrLets

(* A step of one slot leaves the motors of the others as they are. *)
LEMMA MoveLets ==
  ASSUME IInv, NEW s \in Slots, spc[s] # "free", \E pc : spc' = [spc EXCEPT ![s] = pc],
         UNCHANGED job, NEW t \in Toys, NEW f \in Features,
         levels'[t][f] = levels[t][f], tasks'[t][f] = tasks[t][f]
  PROVE  tasks'[t][f] # s => KeepsOrLets(t, f)
  BY DEF IInv, TypeOK, KeepsOrLets, SameMotor, Asserted

(* The steps of requests keep the motors. *)
LEMMA ReqMotorStep ==
  ASSUME IInv, Asked, Motors, Next, NEW r \in Reqs, ReqSteps(r) \/ WriteFails(r) \/ StopFails(r)
  PROVE  Motors'
  <1> USE DEF book, device, reqVars, slotVars
  <1>1. /\ TypeOK /\ Known /\ Keyed /\ Unborn /\ Queues
        /\ \A t \in Toys, f \in Features : MotorOK(t, f)
        /\ Undisturbed' => Undisturbed
    BY MotorWise, DisturbedStays DEF IInv
  <1>2. UNCHANGED job /\ \A s \in Slots : Toy(s)' = Toy(s)
    BY DEF Toy, ReqSteps, Expand, CancelOne, Cancelled, CancelledAll,
       StopLands, Finish, TakeLock, Displace, StartTimed, ReplaceTimed, ReplaceZero, HoldUpdate,
       HoldCreate, ZeroLevel, WriteLands, ShutdownEnds, WriteFails, StopFails
  <1>3. r \in Actors /\ r \notin Slots
    BY DistinctAssumption DEF Actors
  <1>4. ASSUME \A t \in Toys, f \in Features : KeepsOrLets(t, f),
               \A s \in Slots : spc'[s] \in {"write", "fwrite"} <=> spc[s] \in {"write", "fwrite"},
               rpc[r] # "write", rpc'[r] # "write", \A q \in Reqs : q # r => rpc'[q] = rpc[q],
               UNCHANGED wire, Undisturbed' => UNCHANGED motor
        PROVE  Motors'
    <2>1. ASSUME NEW t \in Toys, NEW f \in Features PROVE MotorOK(t, f)'
      <3>1. SameWrites(t)
        BY <1>2, <1>4 DEF SameWrites, ReqWrites
      <3>2. QED
        BY <1>1, <1>4, <3>1, QuietMotor
    <2>2. QED
      BY <2>1, MotorWiseNext
  <1>5. CASE Expand(r) \/ Cancelled(r) \/ CancelledAll(r) \/ Finish(r) \/ ReplaceZero(r)
             \/ StopFails(r) \/ StopLands(r) \/ \E f \in Features : TakeLock(r, f)
    <2>1. /\ UNCHANGED <<tasks, levels, spc, wire>> /\ rpc[r] # "write" /\ rpc'[r] # "write"
          /\ \A q \in Reqs : q # r => rpc'[q] = rpc[q]
      BY <1>1, <1>5 DEF Expand, Begin, Cancelled, CancelledAll, Finish, ReplaceZero, StopFails,
         StopLands, TakeLock, Take, TypeOK
    <2>2. UNCHANGED motor \/ ~Undisturbed'
      <3>1. CASE StopLands(r)
        <4>1. job'[r].op \in {"stopToy", "stopAll"} /\ job'[r] # NoJob
          BY <1>1, <1>2, <3>1, DistinctAssumption DEF StopLands, Asked, StopOps, Known
        <4>2. QED
          BY <4>1 DEF Undisturbed
      <3>2. QED
        BY <1>5, <3>1 DEF Expand, Cancelled, CancelledAll, Finish, ReplaceZero, StopFails,
           TakeLock
    <2>3. \A t \in Toys, f \in Features : KeepsOrLets(t, f)
      BY <2>1 DEF KeepsOrLets, SameMotor
    <2>4. QED
      BY <1>4, <2>1, <2>2, <2>3
  <1>6. ASSUME NEW t \in Toys, NEW f \in Features, Forget(t, f), UNCHANGED <<levels, spc>>
        PROVE  \A u \in Toys, g \in Features : KeepsOrLets(u, g)
    <2>1. tasks'[t][f] = NoSlot /\ KeepsOthers(t, f)
      BY <1>1, <1>6 DEF Forget, KeepsOthers, TypeOK
    <2>2. QED
      BY <1>6, <2>1 DEF KeepsOrLets, SameMotor, Asserted, KeepsOthers
  <1>7. CASE CancelOne(r)
    <2>1. PICK k \in pend[r] : \/ UNCHANGED <<tasks, rpc>>
                               \/ Forget(k[1], k[2]) /\ rpc' = [rpc EXCEPT ![r] = "await"]
      BY <1>7 DEF CancelOne
    <2>2. /\ k[1] \in Toys /\ k[2] \in Features /\ UNCHANGED <<levels, spc, wire, motor>>
          /\ rpc[r] = "cancel"
      BY <1>1, <1>7 DEF CancelOne, TypeOK
    <2>3. rpc'[r] # "write" /\ \A q \in Reqs : q # r => rpc'[q] = rpc[q]
      BY <1>1, <2>1, <2>2 DEF TypeOK
    <2>4. \A t \in Toys, f \in Features : KeepsOrLets(t, f)
      BY <1>6, <2>1, <2>2 DEF KeepsOrLets, SameMotor
    <2>5. QED
      BY <1>4, <2>2, <2>3, <2>4
  <1>8. ASSUME NEW f \in Features, Displace(r, f) PROVE Motors'
    <2>1. /\ job[r].toy \in Toys /\ UNCHANGED <<levels, spc, wire, motor>> /\ Forget(job[r].toy, f)
          /\ rpc[r] # "write" /\ rpc'[r] # "write" /\ \A q \in Reqs : q # r => rpc'[q] = rpc[q]
      BY <1>1, <1>8, JobFacts DEF Displace, Take, TypeOK
    <2>2. QED
      BY <1>4, <1>6, <2>1
  <1>9. ASSUME NEW f \in Features, StartTimed(r, f) PROVE Motors'
    <2>1. /\ Create(r, f) /\ rpc[r] = "next" /\ UNCHANGED <<rpc, wire, motor>>
          /\ spc[<<r, f>>] = "free"
      BY <1>1, <1>9 DEF StartTimed, Take, Unborn
    <2>2. /\ \A t \in Toys, g \in Features : KeepsOrLets(t, g)
          /\ \A s \in Slots : spc'[s] \in {"write", "fwrite"} <=> spc[s] \in {"write", "fwrite"}
      BY <1>1, <1>2, <2>1, CreateLets DEF Create, TypeOK
    <2>3. QED
      BY <1>4, <2>1, <2>2
  <1>10. CASE ReplaceTimed(r)
    <2>1. /\ Create(r, cur[r]) /\ rpc[r] = "replace" /\ UNCHANGED <<wire, motor>>
          /\ rpc'[r] # "write" /\ \A q \in Reqs : q # r => rpc'[q] = rpc[q]
          /\ cur[r] \in Features /\ spc[<<r, cur[r]>>] = "free"
      BY <1>1, <1>10 DEF ReplaceTimed, Unborn, TypeOK
    <2>2. /\ \A t \in Toys, g \in Features : KeepsOrLets(t, g)
          /\ \A s \in Slots : spc'[s] \in {"write", "fwrite"} <=> spc[s] \in {"write", "fwrite"}
      BY <1>1, <1>2, <2>1, CreateLets DEF Create, TypeOK
    <2>3. QED
      BY <1>4, <2>1, <2>2
  <1>11. ASSUME rpc[r] = "lock", ToWrite(r, job[r].toy), UNCHANGED motor,
                \A t \in Toys, f \in Features : t # job[r].toy => KeepsOrLets(t, f),
                \A s \in Slots : spc'[s] \in {"write", "fwrite"} <=> spc[s] \in {"write", "fwrite"}
         PROVE  Motors'
    <2>1. /\ job[r].toy \in Toys /\ Holds(job[r].toy, r) /\ rpc'[r] = "write"
          /\ \A q \in Reqs : q # r => rpc'[q] = rpc[q]
          /\ \A t \in Toys : t # job[r].toy => wire'[t] = wire[t]
          /\ wire'[job[r].toy] = levels'[job[r].toy]
      BY <1>1, <1>11, JobFacts DEF ToWrite, TypeOK
    <2>2. NoWrites(job[r].toy)
      BY <1>3, <1>11, <2>1, HolderAlone DEF NoWrites
    <2>3. ASSUME NEW t \in Toys, NEW f \in Features PROVE MotorOK(t, f)'
      <3>1. CASE t = job[r].toy
        BY <1>2, <1>11, <2>1, <2>2, <3>1, ReqWriteMotor DEF NoWrites
      <3>2. CASE t # job[r].toy
        <4>1. SameWrites(t)
          BY <1>2, <1>11, <2>1, <3>2 DEF SameWrites, ReqWrites
        <4>2. QED
          BY <1>1, <1>11, <2>1, <3>2, <4>1, QuietMotor
      <3>3. QED
        BY <3>1, <3>2
    <2>4. QED
      BY <2>3, MotorWiseNext
  <1>12. CASE HoldCreate(r)
    <2>1. /\ Create(r, cur[r]) /\ rpc[r] = "lock" /\ ToWrite(r, job[r].toy) /\ UNCHANGED motor
          /\ cur[r] \in Features /\ spc[<<r, cur[r]>>] = "free"
      BY <1>1, <1>12 DEF HoldCreate, Unborn, TypeOK
    <2>2. /\ \A t \in Toys, g \in Features : KeepsOrLets(t, g)
          /\ \A s \in Slots : spc'[s] \in {"write", "fwrite"} <=> spc[s] \in {"write", "fwrite"}
      BY <1>1, <1>2, <2>1, CreateLets DEF Create, TypeOK
    <2>3. QED
      BY <1>11, <2>1, <2>2
  <1>13. CASE HoldUpdate(r) \/ ZeroLevel(r)
    <2>1. /\ rpc[r] = "lock" /\ ToWrite(r, job[r].toy) /\ UNCHANGED <<motor, tasks, spc>>
          /\ \A t \in Toys : t # job[r].toy => levels'[t] = levels[t]
      BY <1>1, <1>13 DEF HoldUpdate, ZeroLevel, Raised, Dropped, TypeOK
    <2>2. QED
      BY <1>11, <2>1 DEF KeepsOrLets, SameMotor
  <1>14. CASE WriteLands(r) \/ WriteFails(r)
    <2>1. /\ job[r].toy \in Toys /\ Holds(job[r].toy, r) /\ rpc[r] = "write"
          /\ rpc'[r] # "write" /\ \A q \in Reqs : q # r => rpc'[q] = rpc[q]
          /\ UNCHANGED <<tasks, levels, spc>>
          /\ \A t \in Toys : t # job[r].toy => wire'[t] = wire[t] /\ (motor'[t] = motor[t])
          /\ Undisturbed' => motor' = Landed(job[r].toy, wire[job[r].toy])
      <3>1. job[r].toy \in Toys /\ rpc[r] = "write"
        BY <1>1, <1>14, JobFacts DEF WriteLands, WriteFails
      <3>2. CASE WriteLands(r)
        BY <1>1, <3>1, <3>2 DEF WriteLands, Landed, Queues, TypeOK
      <3>3. CASE WriteFails(r)
        <4>1. fails' # 0
          BY <1>1, <3>3, LevelAssumption DEF WriteFails, TypeOK
        <4>2. QED
          BY <1>1, <3>1, <3>3, <4>1 DEF WriteFails, Undisturbed, Queues, TypeOK
      <3>4. QED
        BY <1>14, <3>2, <3>3
    <2>2. \A t \in Toys : t = job[r].toy => NoWrites(t)'
      BY <1>2, <1>3, <2>1, HolderAlone DEF NoWrites
    <2>3. ASSUME NEW t \in Toys, NEW f \in Features PROVE MotorOK(t, f)'
      <3>1. CASE t = job[r].toy
        <4>1. ReqWrites(t)
          BY <2>1, <3>1 DEF ReqWrites
        <4>2. Asserted(t, f)' => Asserted(t, f)
          BY <2>1 DEF Asserted
        <4>3. QED
          BY <1>1, <2>1, <2>2, <3>1, <4>1, <4>2, EndedMotor
      <3>2. CASE t # job[r].toy
        <4>1. SameWrites(t)
          BY <1>2, <2>1, <3>2 DEF SameWrites, ReqWrites
        <4>2. KeepsOrLets(t, f)
          BY <2>1 DEF KeepsOrLets, SameMotor
        <4>3. QED
          BY <1>1, <2>1, <3>2, <4>1, <4>2, QuietMotor
      <3>3. QED
        BY <3>1, <3>2
    <2>4. QED
      BY <2>3, MotorWiseNext
  <1>15. CASE ShutdownEnds(r)
    <2>1. \A t \in Toys, f \in Features : ~Asserted(t, f)'
      BY <1>15 DEF ShutdownEnds, Asserted
    <2>2. QED
      BY <2>1 DEF Motors, Alone, Snapshot, Driven
  <1>16. QED
    BY <1>5, <1>7, <1>8, <1>9, <1>10, <1>12, <1>13, <1>14, <1>15 DEF ReqSteps

(* The steps of slots keep the motors. *)
LEMMA SlotMotorStep ==
  ASSUME IInv, Asked, Motors, Next, NEW s \in Slots,
         SlotSteps(s) \/ SlotFails(s) \/ SlotSilenceFails(s)
  PROVE  Motors'
  <1> USE DEF book, device, reqVars, slotVars, Move
  <1>1. /\ TypeOK /\ Known /\ Keyed /\ Queues
        /\ \A t \in Toys, f \in Features : MotorOK(t, f)
        /\ Undisturbed' => Undisturbed
    BY MotorWise, DisturbedStays DEF IInv
  <1>2. /\ UNCHANGED <<job, rpc>> /\ spc[s] # "free" /\ \A x \in Slots : Toy(x)' = Toy(x)
        /\ spc' = [spc EXCEPT ![s] = spc'[s]] /\ \A x \in Slots : x # s => spc'[x] = spc[x]
    BY <1>1 DEF Toy, SlotSteps, SlotStart, SlotApply, SlotYields, SlotLands, SlotElapses,
       SlotRetires, SlotLeaves, SlotSilences, CancelNew, CancelWaiting, CancelWriting,
       CancelHolding, CancelCleanup, SlotFails, SlotSilenceFails, Deliver, TypeOK
  <1>3. /\ s \in Actors /\ s \notin Reqs /\ s # NoSlot
        /\ Toy(s) \in Toys /\ Feature(s) \in Features
    BY <1>1, <1>2, JobFacts, DistinctAssumption DEF Actors, Feature
  <1>4. \A t \in Toys, f \in Features : tasks[t][f] = s => t = Toy(s) /\ f = Feature(s)
    BY <1>1, <1>3 DEF Keyed
  <1>5. \A t \in Toys : ReqWrites(t)' <=> ReqWrites(t)
    BY <1>2 DEF ReqWrites
  <1>6. \A t \in Toys, f \in Features :
          tasks'[t][f] = tasks[t][f] /\ levels'[t][f] = levels[t][f] /\ tasks[t][f] # s
            => KeepsOrLets(t, f)
    BY <1>1, <1>2 DEF KeepsOrLets, SameMotor, Asserted, TypeOK
  <1>7. CASE \/ SlotStart(s) \/ SlotYields(s) \/ SlotElapses(s) \/ SlotLeaves(s) \/ CancelNew(s)
             \/ CancelWaiting(s) \/ CancelHolding(s) \/ CancelCleanup(s)
    <2>1. /\ UNCHANGED <<tasks, levels, wire, motor>>
          /\ spc[s] \notin {"write", "fwrite"} /\ spc'[s] \notin {"write", "fwrite", "hold"}
      BY <1>1, <1>7 DEF SlotStart, SlotYields, SlotElapses, SlotLeaves, CancelNew, CancelWaiting,
         CancelHolding, CancelCleanup, Deliver, TypeOK
    <2>2. ASSUME NEW t \in Toys, NEW f \in Features PROVE MotorOK(t, f)'
      <3>1. SameWrites(t)
        BY <1>2, <1>5, <2>1 DEF SameWrites
      <3>2. KeepsOrLets(t, f)
        BY <1>6, <2>1 DEF KeepsOrLets, Asserted
      <3>3. QED
        BY <1>1, <2>1, <3>1, <3>2, QuietMotor
    <2>3. QED
      BY <2>2, MotorWiseNext
  <1>8. CASE SlotApply(s) \/ SlotRetires(s)
    <2>1. /\ Holds(Toy(s), s) /\ Owns(s) /\ spc[s] \in {"lock", "fin"} /\ UNCHANGED motor
          /\ \A t \in Toys : t # Toy(s) => wire'[t] = wire[t]
          /\ wire'[Toy(s)] = levels'[Toy(s)]
      BY <1>1, <1>3, <1>8 DEF SlotApply, SlotRetires, MayApply, TypeOK
    <2>2. \/ tasks' = tasks /\ spc'[s] = "write"
          \/ tasks' = [tasks EXCEPT ![Toy(s)][Feature(s)] = NoSlot]
      BY <1>1, <1>8 DEF SlotApply, SlotRetires, TypeOK
    <2>3. \A t \in Toys, f \in Features : <<t, f>> # <<Toy(s), Feature(s)>> =>
            tasks'[t][f] = tasks[t][f] /\ levels'[t][f] = levels[t][f] /\ KeepsOrLets(t, f)
      <3>1. \A t \in Toys, f \in Features : <<t, f>> # <<Toy(s), Feature(s)>> =>
              tasks'[t][f] = tasks[t][f] /\ levels'[t][f] = levels[t][f]
        BY <1>1, <1>3, <1>8 DEF SlotApply, SlotRetires, Raised, Dropped, TypeOK
      <3>2. QED
        BY <1>4, <1>6, <3>1
    <2>4. ~Asserted(Toy(s), Feature(s))' \/ (tasks'[Toy(s)][Feature(s)] = s /\ spc'[s] = "write")
      <3>1. CASE tasks' = tasks /\ spc'[s] = "write"
        BY <2>1, <3>1 DEF Owns
      <3>2. CASE tasks' = [tasks EXCEPT ![Toy(s)][Feature(s)] = NoSlot]
        <4>1. tasks'[Toy(s)][Feature(s)] = NoSlot
          BY <1>1, <1>3, <3>2 DEF TypeOK
        <4>2. \A t \in Toys, f \in Features : t = Toy(s) /\ f = Feature(s) => ~Asserted(t, f)'
          BY <4>1 DEF Asserted
        <4>3. Toy(s)' = Toy(s)
          BY <1>2
        <4>4. QED
          BY <4>1, <4>3 DEF Asserted, Feature
      <3>3. QED
        BY <2>2, <3>1, <3>2
    <2>5. NoWrites(Toy(s))
      BY <1>3, <2>1, HolderAlone DEF NoWrites
    <2>6. ASSUME NEW t \in Toys, NEW f \in Features PROVE MotorOK(t, f)'
      <3>1. CASE t = Toy(s)
        <4>1. NoWrites(t) /\ wire'[t] = levels'[t]
          BY <2>1, <2>5, <3>1
        <4>2. f # Feature(s) => KeepsOrLets(t, f)
          BY <2>3, <3>1
        <4>3. f = Feature(s) => ~Asserted(t, f)' \/ (tasks'[t][f] = s /\ spc'[s] = "write")
          BY <1>2, <2>4, <3>1 DEF Asserted, Feature
        <4>4. \A x \in Slots : x # s => ~(spc'[x] \in {"write", "fwrite"} /\ Toy(x)' = t)
          BY <1>2, <4>1 DEF NoWrites
        <4>5. QED
          BY <1>1, <2>1, <4>1, <4>2, <4>3, <4>4, SlotWriteMotor
      <3>2. CASE t # Toy(s)
        <4>1. SameWrites(t)
          BY <1>2, <1>5, <3>2 DEF SameWrites
        <4>2. QED
          BY <1>1, <2>1, <2>3, <3>2, <4>1, QuietMotor
      <3>3. QED
        BY <3>1, <3>2
    <2>7. QED
      BY <2>6, MotorWiseNext
  <1>9. CASE SlotLands(s) \/ SlotFails(s) \/ SlotSilences(s) \/ SlotSilenceFails(s)
             \/ CancelWriting(s)
    <2>1. /\ spc[s] \in {"write", "fwrite"} /\ spc'[s] \notin {"write", "fwrite"}
          /\ UNCHANGED <<tasks, levels>>
          /\ spc'[s] = "hold" => SlotLands(s) /\ spc[s] = "write"
      BY <1>1, <1>9 DEF SlotLands, SlotFails, SlotSilences, SlotSilenceFails, CancelWriting,
         Deliver, TypeOK
    <2>2. /\ \A t \in Toys : t # Toy(s) => wire'[t] = wire[t] /\ motor'[t] = motor[t]
          /\ Undisturbed' => \/ motor' = Landed(Toy(s), wire[Toy(s)])
                             \/ motor' = motor /\ spc'[s] # "hold"
      <3>1. CASE SlotFails(s) \/ SlotSilenceFails(s)
        <4>1. fails' # 0
          BY <1>1, <3>1, LevelAssumption DEF SlotFails, SlotSilenceFails, TypeOK
        <4>2. QED
          BY <1>1, <3>1, <4>1 DEF SlotFails, SlotSilenceFails, Undisturbed, TypeOK
      <3>2. CASE SlotLands(s) \/ SlotSilences(s) \/ CancelWriting(s)
        <4>1. motor' = Landed(Toy(s), wire[Toy(s)]) \/ (motor' = motor /\ spc'[s] # "hold")
          BY <1>1, <3>2 DEF SlotLands, SlotSilences, CancelWriting, Deliver, TypeOK
        <4>2. wire' = [wire EXCEPT ![Toy(s)] = Empty]
          BY <3>2 DEF SlotLands, SlotSilences, CancelWriting
        <4>3. QED
          BY <1>1, <4>1, <4>2 DEF Landed, TypeOK
      <3>3. QED
        BY <1>9, <3>1, <3>2
    <2>3. Holds(Toy(s), s)
      BY <1>1, <1>3, <2>1 DEF Queues
    <2>4. \A t \in Toys : t = Toy(s) => NoWrites(t)' /\ ~ReqWrites(t)
      BY <1>2, <1>3, <2>1, <2>3, HolderAlone DEF NoWrites, ReqWrites
    <2>5. ASSUME NEW t \in Toys, NEW f \in Features PROVE MotorOK(t, f)'
      <3>1. CASE t = Toy(s)
        <4>1. SlotWrites(t) /\ ~ReqWrites(t) /\ NoWrites(t)'
          BY <2>1, <2>4, <3>1 DEF SlotWrites
        <4>2. ASSUME Asserted(t, f)'
              PROVE  /\ tasks'[t][f] = tasks[t][f] /\ Asserted(t, f)
                     /\ spc'[s] # "hold" => spc[tasks[t][f]] = "hold"
          <5>1. CASE tasks[t][f] = s
            BY <2>1, <4>2, <5>1 DEF Asserted
          <5>2. CASE tasks[t][f] # s
            <6>1. tasks[t][f] \in Slots /\ spc'[tasks[t][f]] = spc[tasks[t][f]]
              BY <1>1, <1>2, <2>1, <4>2, <5>2 DEF Asserted, TypeOK
            <6>2. spc[tasks[t][f]] # "write"
              <7>1. Toy(tasks[t][f]) = t
                BY <1>1, <2>1, <4>2 DEF Keyed, Asserted
              <7>2. QED
                BY <1>3, <2>3, <3>1, <5>2, <6>1, <7>1, HolderAlone
            <6>3. QED
              BY <2>1, <4>2, <6>1, <6>2 DEF Asserted
          <5>3. QED
            BY <5>1, <5>2
        <4>3. Undisturbed' => \/ motor' = Landed(t, wire[t])
                              \/ /\ motor' = motor /\ ~ReqWrites(t)
                                 /\ Asserted(t, f)' => spc[tasks[t][f]] = "hold"
          BY <2>2, <3>1, <4>1, <4>2
        <4>4. QED
          BY <1>1, <2>1, <4>1, <4>2, <4>3, EndedMotor
      <3>2. CASE t # Toy(s)
        <4>1. SameWrites(t)
          BY <1>2, <1>5, <3>2 DEF SameWrites
        <4>2. KeepsOrLets(t, f)
          BY <1>4, <1>6, <2>1, <3>2
        <4>3. QED
          BY <1>1, <2>2, <3>2, <4>1, <4>2, QuietMotor
      <3>3. QED
        BY <3>1, <3>2
    <2>6. QED
      BY <2>5, MotorWiseNext
  <1>10. QED
    BY <1>7, <1>8, <1>9 DEF SlotSteps

(* Every step keeps the motors. *)
LEMMA MotorStep ==
  ASSUME IInv, Asked, Motors, Next
  PROVE  Motors'
  <1>1. ASSUME NEW r \in Reqs, Submit(r) \/ Refuse(r) \/ Shutdown(r) PROVE Motors'
    <2>1. /\ UNCHANGED <<tasks, levels, wire, motor, spc>> /\ rpc[r] = "idle" /\ rpc'[r] # "write"
          /\ rpc' = [rpc EXCEPT ![r] = rpc'[r]]
      BY <1>1 DEF IInv, Submit, Refuse, Shutdown, Begin, book, device, slotVars, TypeOK
    <2>2. ASSUME NEW t \in Toys PROVE SameWrites(t)
      <3>1. \A q \in Reqs : rpc'[q] = "write" /\ job'[q].toy = t <=>
                              rpc[q] = "write" /\ job[q].toy = t
        BY <2>1, JobsStay DEF IInv, TypeOK
      <3>2. \A s \in Slots : spc[s] \in {"write", "fwrite"} => Toy(s)' = Toy(s)
        BY JobsStay
      <3>3. QED
        BY <2>1, <3>1, <3>2 DEF SameWrites, ReqWrites
    <2>3. ASSUME NEW t \in Toys, NEW f \in Features PROVE MotorOK(t, f)'
      <3>1. KeepsOrLets(t, f) /\ MotorOK(t, f)
        BY <2>1, MotorWise DEF KeepsOrLets, SameMotor
      <3>2. QED
        BY <2>1, <2>2, <3>1, DisturbedStays, QuietMotor
    <2>4. QED
      BY <2>3, MotorWiseNext
  <1>2. CASE UNCHANGED vars
    BY <1>2 DEF vars, Motors, Alone, Snapshot, Driven, Asserted, ReqWrites, SlotWrites,
       Undisturbed, Toy, Feature
  <1>3. QED
    BY <1>1, <1>2, ReqMotorStep, SlotMotorStep DEF Next, Arrivals, Failures, Rest

-----------------------------------------------------------------------------
(* Motors that run are on record, and what is on record is held. *)

\* the step that takes the motor off the record is silencing it
Drops(t, f) ==
  \/ \E r \in Reqs : rpc[r] = "write" /\ job[r].toy = t /\ cur[r] = f
  \/ \E s \in Slots : spc[s] = "fwrite" /\ Toy(s) = t /\ Feature(s) = f

\* a request that has forgotten the motor's slot will replace it, or zero the motor
Replaces(t, f) ==
  \E r \in Reqs : /\ rpc[r] \in {"replace", "lock"} /\ ~IsHold(job[r])
                  /\ job[r].toy = t /\ cur[r] = f

RecordOK(t, f) ==
  /\ (ReqWrites(t) \/ SlotWrites(t)) /\ wire[t][f] # NoLevel => levels[t][f] # NoLevel
  /\ motor[t][f] > 0 => levels[t][f] # NoLevel \/ Drops(t, f)
  /\ tasks[t][f] = NoSlot /\ levels[t][f] # NoLevel => Replaces(t, f)

\* what is sent or runs is on record, and what is on record has a slot or will have one
OnRecord == (~closed /\ Undisturbed) => \A t \in Toys, f \in Features : RecordOK(t, f)

(* A closed scheduler stays closed. *)
LEMMA ClosedStays ==
  ASSUME Next, closed
  PROVE  closed'
  <1> USE DEF book
  <1>1. CASE Arrivals \/ Rest
    BY <1>1 DEF Arrivals, Rest, vars, Submit, Refuse, Shutdown
  <1>2. ASSUME NEW r \in Reqs, ReqSteps(r) PROVE closed'
    BY <1>2 DEF ReqSteps, Expand, CancelOne, Cancelled, CancelledAll, StopLands, Finish, TakeLock,
       Displace, StartTimed, ReplaceTimed, ReplaceZero, HoldUpdate, HoldCreate, ZeroLevel,
       WriteLands, ShutdownEnds
  <1>3. ASSUME NEW s \in Slots, SlotSteps(s) PROVE closed'
    BY <1>3 DEF SlotSteps, SlotStart, SlotApply, SlotYields, SlotLands, SlotElapses, SlotRetires,
       SlotLeaves, SlotSilences, CancelNew, CancelWaiting, CancelWriting, CancelHolding,
       CancelCleanup
  <1>4. CASE Failures
    BY <1>4 DEF Failures, WriteFails, StopFails, SlotFails, SlotSilenceFails
  <1>5. QED
    BY <1>1, <1>2, <1>3, <1>4 DEF Next

\* the motor has a slot, nothing on record, or both as before and the same replacement
KeptSlot(t, f) ==
  (tasks'[t][f] = NoSlot /\ levels'[t][f] # NoLevel) =>
    \/ Replaces(t, f)'
    \/ /\ tasks[t][f] = NoSlot /\ levels[t][f] # NoLevel
       /\ Replaces(t, f) => Replaces(t, f)'

(* A step that takes nothing off the record and starts or ends no write. *)
LEMMA QuietRecord ==
  ASSUME NEW t \in Toys, NEW f \in Features, RecordOK(t, f), KeptSlot(t, f), SameWrites(t),
         Drops(t, f) => Drops(t, f)', wire'[t] = wire[t], motor'[t] = motor[t],
         levels[t][f] # NoLevel => levels'[t][f] # NoLevel
  PROVE  RecordOK(t, f)'
  <1>1. SlotWrites(t)' <=> SlotWrites(t)
    BY DEF SlotWrites, SameWrites
  <1>2. QED
    BY <1>1 DEF RecordOK, KeptSlot, SameWrites

(* Who takes the lock sends what is on record. *)
LEMMA SendRecord ==
  ASSUME NEW t \in Toys, NEW f \in Features, RecordOK(t, f), KeptSlot(t, f), NoWrites(t),
         wire'[t] = levels'[t], motor'[t] = motor[t],
         levels[t][f] # NoLevel => levels'[t][f] # NoLevel \/ Drops(t, f)'
  PROVE  RecordOK(t, f)'
  <1>1. ~Drops(t, f)
    BY DEF NoWrites, Drops
  <1>2. QED
    BY <1>1 DEF RecordOK, KeptSlot

(* An app that stops unlisted motors runs, after a write, what the write sent. *)
LEMMA EndRecord ==
  ASSUME ~Additive, TypeOK, NEW t \in Toys, NEW f \in Features, RecordOK(t, f), KeptSlot(t, f),
         NoWrites(t)', ReqWrites(t) \/ SlotWrites(t), UNCHANGED levels,
         motor' = Landed(t, wire[t]) \/ (motor' = motor /\ ~Drops(t, f))
  PROVE  RecordOK(t, f)'
  <1>1. ~ReqWrites(t)' /\ ~SlotWrites(t)'
    BY DEF NoWrites, ReqWrites, SlotWrites
  <1>2. motor'[t][f] > 0 => levels'[t][f] # NoLevel
    <2>1. CASE motor' = Landed(t, wire[t])
      <3>1. motor'[t][f] = IF wire[t] = Empty THEN 0
                           ELSE IF wire[t][f] # NoLevel THEN wire[t][f] ELSE 0
        BY <2>1 DEF Landed, TypeOK
      <3>2. motor'[t][f] > 0 => wire[t][f] # NoLevel
        BY <3>1
      <3>3. QED
        BY <3>2 DEF RecordOK
    <2>2. CASE motor' = motor /\ ~Drops(t, f)
      BY <2>2 DEF RecordOK
    <2>3. QED
      BY <2>1, <2>2
  <1>3. QED
    BY <1>1, <1>2 DEF RecordOK, KeptSlot

(* The steps of requests keep the record. *)
LEMMA ReqRecordStep ==
  ASSUME ~Additive, \A j \in Jobs : ~j.fresh, IInv, Asked, OnRecord, Next, ~closed', Undisturbed',
         NEW r \in Reqs, ReqSteps(r) \/ WriteFails(r) \/ StopFails(r)
  PROVE  \A t \in Toys, f \in Features : RecordOK(t, f)'
  <1> USE DEF book, device, reqVars, slotVars
  <1>1. /\ TypeOK /\ Known /\ Keyed /\ Unborn /\ Queues
        /\ \A t \in Toys, f \in Features : RecordOK(t, f)
    BY ClosedStays, DisturbedStays DEF IInv, OnRecord
  <1>2. UNCHANGED job /\ \A s \in Slots : Toy(s)' = Toy(s)
    BY DEF Toy, ReqSteps, Expand, CancelOne, Cancelled, CancelledAll,
       StopLands, Finish, TakeLock, Displace, StartTimed, ReplaceTimed, ReplaceZero, HoldUpdate,
       HoldCreate, ZeroLevel, WriteLands, ShutdownEnds, WriteFails, StopFails
  <1>3. /\ r \in Actors /\ r \notin Slots /\ \A q \in Reqs : q # r => rpc'[q] = rpc[q] /\ cur'[q] = cur[q]
        /\ rpc[r] # "next" => cur' = cur
    <2>1. r \in Actors /\ r \notin Slots
      BY DistinctAssumption DEF Actors
    <2>2. \A q \in Reqs : q # r => rpc'[q] = rpc[q] /\ cur'[q] = cur[q]
      BY <1>1 DEF ReqSteps, Expand, Begin, CancelOne, Cancelled, CancelledAll, StopLands, Finish,
         TakeLock, Displace, StartTimed, Take, ReplaceTimed, ReplaceZero, HoldUpdate, HoldCreate,
         ZeroLevel, ToWrite, WriteLands, ShutdownEnds, WriteFails, StopFails, TypeOK
    <2>3. rpc[r] # "next" => cur' = cur
      BY DEF ReqSteps, Expand, CancelOne, Cancelled, CancelledAll, StopLands, Finish,
         TakeLock, Displace, StartTimed, Take, ReplaceTimed, ReplaceZero, HoldUpdate, HoldCreate,
         ZeroLevel, WriteLands, ShutdownEnds, WriteFails, StopFails
    <2>4. QED
      BY <2>1, <2>2, <2>3
  <1>4. ~ShutdownEnds(r) /\ ~CancelOne(r) /\ ~StopLands(r) /\ ~StopFails(r) /\ ~WriteFails(r)
    <2>1. rpc[r] # "idle" => job'[r] \in Jobs /\ job'[r] # NoJob /\ job'[r].op \notin StopOps
      BY <1>1, <1>2, DistinctAssumption DEF Known, Undisturbed, StopOps
    <2>2. ~ShutdownEnds(r)
      BY ClosedStays DEF ShutdownEnds, Asked
    <2>3. ~CancelOne(r) /\ ~StopLands(r) /\ ~StopFails(r)
      BY <1>2, <2>1 DEF CancelOne, StopLands, StopFails, Asked
    <2>4. ~WriteFails(r)
      BY <1>1, LevelAssumption DEF WriteFails, Undisturbed, TypeOK
    <2>5. QED
      BY <2>2, <2>3, <2>4
  <1>5. ASSUME \A t \in Toys, f \in Features :
                 KeptSlot(t, f) /\ (levels[t][f] # NoLevel => levels'[t][f] # NoLevel),
               \A s \in Slots : /\ spc'[s] \in {"write", "fwrite"} <=> spc[s] \in {"write", "fwrite"}
                                /\ spc[s] = "fwrite" => spc'[s] = "fwrite",
               rpc[r] # "write", rpc'[r] # "write", UNCHANGED <<wire, motor>>
        PROVE  \A t \in Toys, f \in Features : RecordOK(t, f)'
    <2>1. ASSUME NEW t \in Toys, NEW f \in Features PROVE RecordOK(t, f)'
      <3>1. SameWrites(t)
        BY <1>2, <1>3, <1>5 DEF SameWrites, ReqWrites
      <3>2. Drops(t, f) => Drops(t, f)'
        BY <1>2, <1>3, <1>5 DEF Drops, Feature
      <3>3. QED
        BY <1>1, <1>5, <3>1, <3>2, QuietRecord
    <2>2. QED
      BY <2>1
  <1>6. CASE Expand(r) \/ Cancelled(r) \/ CancelledAll(r) \/ Finish(r) \/ ReplaceZero(r)
             \/ \E f \in Features : TakeLock(r, f)
    <2>1. /\ UNCHANGED <<tasks, levels, spc, wire, motor>> /\ rpc[r] # "write" /\ rpc'[r] # "write"
          /\ rpc[r] \in {"replace", "lock"} => rpc'[r] = "lock"
      BY <1>1, <1>6 DEF Expand, Begin, Cancelled, CancelledAll, Finish, ReplaceZero,
         TakeLock, Take, TypeOK
    <2>2. ASSUME NEW t \in Toys, NEW f \in Features PROVE KeptSlot(t, f)
      <3>1. Replaces(t, f) => Replaces(t, f)'
        BY <1>2, <1>3, <2>1 DEF Replaces
      <3>2. QED
        BY <2>1, <3>1 DEF KeptSlot
    <2>3. QED
      BY <1>5, <2>1, <2>2
  <1>7. ASSUME NEW f \in Features, Displace(r, f)
        PROVE  \A t \in Toys, g \in Features : RecordOK(t, g)'
    <2>1. /\ job[r].toy \in Toys /\ UNCHANGED <<levels, spc, wire, motor>>
          /\ tasks' = [tasks EXCEPT ![job[r].toy][f] = NoSlot]
          /\ rpc[r] = "next" /\ rpc'[r] = "replace" /\ cur'[r] = f /\ ~IsHold(job[r])
      BY <1>1, <1>7, JobFacts DEF Displace, Take, Forget, TypeOK
    <2>2. ASSUME NEW t \in Toys, NEW g \in Features PROVE KeptSlot(t, g)
      <3>1. CASE t = job[r].toy /\ g = f
        <4>1. Replaces(t, g)'
          BY <1>2, <2>1, <3>1 DEF Replaces, IsHold
        <4>2. QED
          BY <4>1 DEF KeptSlot
      <3>2. CASE ~(t = job[r].toy /\ g = f)
        <4>1. tasks'[t][g] = tasks[t][g]
          BY <1>1, <2>1, <3>2 DEF TypeOK
        <4>2. Replaces(t, g) => Replaces(t, g)'
          BY <1>2, <1>3, <2>1 DEF Replaces
        <4>3. QED
          BY <2>1, <4>1, <4>2 DEF KeptSlot
      <3>3. QED
        BY <3>1, <3>2
    <2>3. QED
      BY <1>5, <2>1, <2>2
  <1>8. ASSUME NEW g \in Features, rpc[r] # "idle", Create(r, g), spc[<<r, g>>] = "free",
               rpc[r] \in {"replace", "lock"} => IsHold(job[r]) \/ cur[r] = g
        PROVE  /\ \A t \in Toys, f \in Features :
                    KeptSlot(t, f) /\ (levels[t][f] # NoLevel => levels'[t][f] # NoLevel)
               /\ \A s \in Slots :
                    /\ spc'[s] \in {"write", "fwrite"} <=> spc[s] \in {"write", "fwrite"}
                    /\ spc[s] = "fwrite" => spc'[s] = "fwrite"
    <2>1. /\ <<r, g>> \in Slots /\ <<r, g>> # NoSlot /\ job[r].toy \in Toys
          /\ job[r].level \in Level /\ NoLevel \notin Level
      BY <1>1, <1>8, JobFacts, DistinctAssumption
    <2>2. /\ tasks'[job[r].toy][g] = <<r, g>> /\ KeepsOthers(job[r].toy, g)
          /\ levels'[job[r].toy][g] # NoLevel
          /\ \A t \in Toys, f \in Features : <<t, f>> # <<job[r].toy, g>> => levels'[t][f] = levels[t][f]
      BY <1>1, <1>8, <2>1 DEF Create, Raised, KeepsOthers, TypeOK
    <2>3. \A s \in Slots : /\ spc'[s] \in {"write", "fwrite"} <=> spc[s] \in {"write", "fwrite"}
                           /\ spc[s] = "fwrite" => spc'[s] = "fwrite"
      BY <1>1, <1>8, <2>1 DEF Create, TypeOK
    <2>4. ASSUME NEW t \in Toys, NEW f \in Features, <<t, f>> # <<job[r].toy, g>>, Replaces(t, f)
          PROVE  Replaces(t, f)'
      <3>1. PICK q \in Reqs : /\ rpc[q] \in {"replace", "lock"} /\ ~IsHold(job[q])
                              /\ job[q].toy = t /\ cur[q] = f
        BY <2>4 DEF Replaces
      <3>2. q # r
        BY <1>8, <2>4, <3>1
      <3>3. QED
        BY <1>2, <1>3, <3>1, <3>2 DEF Replaces, IsHold
    <2>5. \A t \in Toys, f \in Features :
            KeptSlot(t, f) /\ (levels[t][f] # NoLevel => levels'[t][f] # NoLevel)
      BY <2>1, <2>2, <2>4 DEF KeptSlot, KeepsOthers
    <2>6. QED
      BY <2>3, <2>5
  <1>9. ASSUME NEW f \in Features, StartTimed(r, f)
        PROVE  \A t \in Toys, g \in Features : RecordOK(t, g)'
    <2>1. /\ Create(r, f) /\ rpc[r] = "next" /\ UNCHANGED <<rpc, wire, motor>>
          /\ spc[<<r, f>>] = "free"
      BY <1>1, <1>9 DEF StartTimed, Take, Unborn
    <2>2. QED
      BY <1>5, <1>8, <2>1
  <1>10. CASE ReplaceTimed(r)
    <2>1. /\ Create(r, cur[r]) /\ rpc[r] = "replace" /\ UNCHANGED <<wire, motor>>
          /\ rpc'[r] # "write" /\ cur[r] \in Features /\ spc[<<r, cur[r]>>] = "free"
      BY <1>1, <1>10 DEF ReplaceTimed, Unborn, TypeOK
    <2>2. QED
      BY <1>5, <1>8, <2>1
  <1>11. ASSUME rpc[r] = "lock", ToWrite(r, job[r].toy), UNCHANGED motor,
                \A t \in Toys, f \in Features :
                  KeptSlot(t, f) /\ (levels[t][f] # NoLevel => levels'[t][f] # NoLevel
                                       \/ (t = job[r].toy /\ f = cur[r])),
                \A s \in Slots : /\ spc'[s] \in {"write", "fwrite"} <=> spc[s] \in {"write", "fwrite"}
                                 /\ spc[s] = "fwrite" => spc'[s] = "fwrite"
         PROVE  \A t \in Toys, f \in Features : RecordOK(t, f)'
    <2>1. /\ job[r].toy \in Toys /\ Holds(job[r].toy, r) /\ rpc'[r] = "write"
          /\ \A t \in Toys : t # job[r].toy => wire'[t] = wire[t]
          /\ wire'[job[r].toy] = levels'[job[r].toy] /\ cur' = cur
      BY <1>1, <1>3, <1>11, JobFacts DEF ToWrite, TypeOK
    <2>2. NoWrites(job[r].toy)
      BY <1>3, <1>11, <2>1, HolderAlone DEF NoWrites
    <2>3. ASSUME NEW t \in Toys, NEW f \in Features PROVE RecordOK(t, f)'
      <3>1. CASE t = job[r].toy
        <4>1. f = cur[r] => Drops(t, f)'
          BY <1>2, <2>1, <3>1 DEF Drops
        <4>2. QED
          BY <1>1, <1>11, <2>1, <2>2, <3>1, <4>1, SendRecord
      <3>2. CASE t # job[r].toy
        <4>1. SameWrites(t)
          BY <1>2, <1>3, <1>11, <2>1, <3>2 DEF SameWrites, ReqWrites
        <4>2. Drops(t, f) => Drops(t, f)'
          BY <1>2, <1>3, <1>11, <2>1, <3>2 DEF Drops, Feature
        <4>3. QED
          BY <1>1, <1>11, <2>1, <3>2, <4>1, <4>2, QuietRecord
      <3>3. QED
        BY <3>1, <3>2
    <2>4. QED
      BY <2>3
  <1>12. CASE HoldCreate(r)
    <2>1. /\ Create(r, cur[r]) /\ rpc[r] = "lock" /\ ToWrite(r, job[r].toy) /\ UNCHANGED motor
          /\ cur[r] \in Features /\ spc[<<r, cur[r]>>] = "free"
      BY <1>1, <1>12 DEF HoldCreate, Unborn, TypeOK
    <2>2. QED
      BY <1>8, <1>11, <2>1
  <1>13. CASE HoldUpdate(r) \/ ZeroLevel(r)
    <2>1. /\ rpc[r] = "lock" /\ ToWrite(r, job[r].toy) /\ UNCHANGED <<motor, tasks, spc>>
          /\ job[r].toy \in Toys /\ cur[r] \in Features /\ cur' = cur
      BY <1>1, <1>3, <1>13, JobFacts DEF HoldUpdate, ZeroLevel, TypeOK
    <2>2. \A t \in Toys, f \in Features : <<t, f>> # <<job[r].toy, cur[r]>> => levels'[t][f] = levels[t][f]
      BY <1>1, <1>13, <2>1 DEF HoldUpdate, ZeroLevel, Raised, Dropped, TypeOK
    <2>3. \/ IsHold(job[r]) /\ tasks[job[r].toy][cur[r]] # NoSlot
          \/ levels'[job[r].toy][cur[r]] = NoLevel
      BY <1>1, <1>13, <2>1 DEF HoldUpdate, Parkable, ZeroLevel, Dropped, TypeOK
    <2>4. ASSUME NEW t \in Toys, NEW f \in Features PROVE KeptSlot(t, f)
      <3>1. CASE t = job[r].toy /\ f = cur[r]
        BY <2>1, <2>3, <3>1 DEF KeptSlot
      <3>2. CASE <<t, f>> # <<job[r].toy, cur[r]>>
        <4>1. Replaces(t, f) => Replaces(t, f)'
          <5>1. ASSUME NEW q \in Reqs, rpc[q] \in {"replace", "lock"}, ~IsHold(job[q]),
                       job[q].toy = t, cur[q] = f
                PROVE  q # r
            BY <3>2, <5>1
          <5>2. QED
            BY <1>2, <1>3, <5>1 DEF Replaces, IsHold
        <4>2. QED
          BY <2>1, <2>2, <3>2, <4>1 DEF KeptSlot
      <3>3. QED
        BY <3>1, <3>2
    <2>5. QED
      BY <1>11, <2>1, <2>2, <2>4
  <1>14. CASE WriteLands(r)
    <2>1. /\ job[r].toy \in Toys /\ Holds(job[r].toy, r) /\ rpc[r] = "write" /\ rpc'[r] = "next"
          /\ UNCHANGED <<tasks, levels, spc>> /\ cur' = cur
          /\ \A t \in Toys : t # job[r].toy => wire'[t] = wire[t] /\ motor'[t] = motor[t]
          /\ motor' = Landed(job[r].toy, wire[job[r].toy])
      <3>1. job[r].toy \in Toys /\ rpc[r] = "write"
        BY <1>1, <1>14, JobFacts DEF WriteLands
      <3>2. QED
        BY <1>1, <1>3, <1>14, <3>1 DEF WriteLands, Landed, Queues, TypeOK
    <2>2. \A t \in Toys : t = job[r].toy => NoWrites(t)'
      BY <1>2, <1>3, <2>1, HolderAlone DEF NoWrites
    <2>3. ASSUME NEW t \in Toys, NEW f \in Features PROVE KeptSlot(t, f)
      <3>1. Replaces(t, f) => Replaces(t, f)'
        BY <1>2, <1>3, <2>1 DEF Replaces
      <3>2. QED
        BY <2>1, <3>1 DEF KeptSlot
    <2>4. ASSUME NEW t \in Toys, NEW f \in Features PROVE RecordOK(t, f)'
      <3>1. CASE t = job[r].toy
        <4>1. ReqWrites(t)
          BY <2>1, <3>1 DEF ReqWrites
        <4>2. QED
          BY <1>1, <2>1, <2>2, <2>3, <3>1, <4>1, EndRecord
      <3>2. CASE t # job[r].toy
        <4>1. SameWrites(t)
          BY <1>2, <1>3, <2>1, <3>2 DEF SameWrites, ReqWrites
        <4>2. Drops(t, f) => Drops(t, f)'
          BY <1>2, <1>3, <2>1, <3>2 DEF Drops, Feature
        <4>3. QED
          BY <1>1, <2>1, <2>3, <3>2, <4>1, <4>2, QuietRecord
      <3>3. QED
        BY <3>1, <3>2
    <2>5. QED
      BY <2>4
  <1>15. QED
    BY <1>4, <1>6, <1>7, <1>9, <1>10, <1>12, <1>13, <1>14 DEF ReqSteps

(* The steps of slots keep the record. *)
LEMMA SlotRecordStep ==
  ASSUME ~Additive, IInv, Asked, OnRecord, Next, ~closed', Undisturbed',
         NEW s \in Slots, SlotSteps(s) \/ SlotFails(s) \/ SlotSilenceFails(s)
  PROVE  \A t \in Toys, f \in Features : RecordOK(t, f)'
  <1> USE DEF book, device, reqVars, slotVars, Move
  <1>1. /\ TypeOK /\ Known /\ Keyed /\ Queues
        /\ \A t \in Toys, f \in Features : RecordOK(t, f)
    BY ClosedStays, DisturbedStays DEF IInv, OnRecord
  <1>2. /\ UNCHANGED <<job, rpc, cur>> /\ spc[s] # "free" /\ \A x \in Slots : Toy(x)' = Toy(x)
        /\ spc' = [spc EXCEPT ![s] = spc'[s]] /\ \A x \in Slots : x # s => spc'[x] = spc[x]
    BY <1>1 DEF Toy, SlotSteps, SlotStart, SlotApply, SlotYields, SlotLands, SlotElapses,
       SlotRetires, SlotLeaves, SlotSilences, CancelNew, CancelWaiting, CancelWriting,
       CancelHolding, CancelCleanup, SlotFails, SlotSilenceFails, Deliver, TypeOK
  <1>3. /\ s \in Actors /\ s \notin Reqs /\ s # NoSlot
        /\ Toy(s) \in Toys /\ Feature(s) \in Features
    BY <1>1, <1>2, JobFacts, DistinctAssumption DEF Actors, Feature
  <1>4. \A t \in Toys, f \in Features : /\ ReqWrites(t)' <=> ReqWrites(t)
                                        /\ Replaces(t, f)' <=> Replaces(t, f)
    BY <1>2 DEF ReqWrites, Replaces, IsHold
  <1>5. ~SlotFails(s) /\ ~SlotSilenceFails(s)
    BY <1>1, LevelAssumption DEF SlotFails, SlotSilenceFails, Undisturbed, TypeOK
  <1>6. ASSUME NEW t \in Toys, NEW f \in Features, t # Toy(s) PROVE Drops(t, f) => Drops(t, f)'
    BY <1>2, <1>6 DEF Drops, Feature
  <1>7. CASE \/ SlotStart(s) \/ SlotYields(s) \/ SlotElapses(s) \/ SlotLeaves(s) \/ CancelNew(s)
             \/ CancelWaiting(s) \/ CancelHolding(s) \/ CancelCleanup(s)
    <2>1. /\ UNCHANGED <<tasks, levels, wire, motor>>
          /\ spc[s] \notin {"write", "fwrite"} /\ spc'[s] \notin {"write", "fwrite", "hold"}
      BY <1>1, <1>7 DEF SlotStart, SlotYields, SlotElapses, SlotLeaves, CancelNew, CancelWaiting,
         CancelHolding, CancelCleanup, Deliver, TypeOK
    <2>2. ASSUME NEW t \in Toys, NEW f \in Features PROVE RecordOK(t, f)'
      <3>1. SameWrites(t)
        BY <1>2, <1>4, <2>1 DEF SameWrites
      <3>2. KeptSlot(t, f)
        BY <1>4, <2>1 DEF KeptSlot
      <3>3. Drops(t, f) => Drops(t, f)'
        BY <1>2, <2>1 DEF Drops, Feature
      <3>4. QED
        BY <1>1, <2>1, <3>1, <3>2, <3>3, QuietRecord
    <2>3. QED
      BY <2>2
  <1>8. CASE SlotApply(s) \/ SlotRetires(s)
    <2>1. /\ Holds(Toy(s), s) /\ tasks[Toy(s)][Feature(s)] = s /\ UNCHANGED motor
          /\ \A t \in Toys : t # Toy(s) => wire'[t] = wire[t]
          /\ wire'[Toy(s)] = levels'[Toy(s)]
          /\ spc[s] \notin {"write", "fwrite"}
      BY <1>1, <1>3, <1>8 DEF SlotApply, SlotRetires, MayApply, Owns, TypeOK
    <2>2. \A t \in Toys, f \in Features : <<t, f>> # <<Toy(s), Feature(s)>> =>
            tasks'[t][f] = tasks[t][f] /\ levels'[t][f] = levels[t][f]
      BY <1>1, <1>3, <1>8 DEF SlotApply, SlotRetires, Raised, Dropped, TypeOK
    <2>3. \/ tasks'[Toy(s)][Feature(s)] = s /\ levels'[Toy(s)][Feature(s)] # NoLevel
          \/ spc'[s] = "fwrite" /\ levels'[Toy(s)][Feature(s)] = NoLevel
      <3>1. job[s[1]].level # NoLevel
        BY <1>1, <1>2, JobFacts
      <3>2. CASE SlotApply(s)
        BY <1>1, <1>3, <2>1, <3>1, <3>2 DEF SlotApply, Raised, TypeOK
      <3>3. CASE SlotRetires(s)
        BY <1>1, <1>3, <3>3 DEF SlotRetires, Dropped, TypeOK
      <3>4. QED
        BY <1>8, <3>2, <3>3
    <2>4. NoWrites(Toy(s))
      BY <1>3, <2>1, HolderAlone DEF NoWrites
    <2>5. ASSUME NEW t \in Toys, NEW f \in Features PROVE KeptSlot(t, f)
      BY <1>3, <1>4, <2>2, <2>3 DEF KeptSlot
    <2>6. ASSUME NEW t \in Toys, NEW f \in Features PROVE RecordOK(t, f)'
      <3>1. CASE t = Toy(s)
        <4>1. levels[t][f] # NoLevel => levels'[t][f] # NoLevel \/ Drops(t, f)'
          <5>1. ASSUME spc'[s] = "fwrite", f = Feature(s) PROVE Drops(t, f)'
            BY <1>2, <3>1, <5>1 DEF Drops, Feature
          <5>2. QED
            BY <2>2, <2>3, <3>1, <5>1
        <4>2. NoWrites(t) /\ wire'[t] = levels'[t]
          BY <2>1, <2>4, <3>1
        <4>3. QED
          BY <1>1, <2>1, <2>5, <4>1, <4>2, SendRecord
      <3>2. CASE t # Toy(s)
        <4>1. SameWrites(t)
          BY <1>2, <1>4, <3>2 DEF SameWrites
        <4>2. QED
          BY <1>1, <1>6, <2>1, <2>2, <2>5, <3>2, <4>1, QuietRecord
      <3>3. QED
        BY <3>1, <3>2
    <2>7. QED
      BY <2>6
  <1>9. CASE SlotLands(s) \/ SlotSilences(s) \/ CancelWriting(s)
    <2>1. /\ spc[s] \in {"write", "fwrite"} /\ spc'[s] \notin {"write", "fwrite"}
          /\ UNCHANGED <<tasks, levels>>
          /\ motor' = Landed(Toy(s), wire[Toy(s)]) \/ (motor' = motor /\ spc[s] = "write")
          /\ wire' = [wire EXCEPT ![Toy(s)] = Empty]
      BY <1>1, <1>9 DEF SlotLands, SlotSilences, CancelWriting, Deliver, TypeOK
    <2>2. \A t \in Toys : t # Toy(s) => wire'[t] = wire[t] /\ motor'[t] = motor[t]
      BY <1>1, <2>1 DEF Landed, TypeOK
    <2>3. Holds(Toy(s), s)
      BY <1>1, <1>3, <2>1 DEF Queues
    <2>4. \A t \in Toys : t = Toy(s) => NoWrites(t)'
      BY <1>2, <1>3, <2>1, <2>3, HolderAlone DEF NoWrites
    <2>5. ASSUME NEW t \in Toys, NEW f \in Features PROVE KeptSlot(t, f)
      BY <1>4, <2>1 DEF KeptSlot
    <2>6. ASSUME NEW t \in Toys, NEW f \in Features PROVE RecordOK(t, f)'
      <3>1. CASE t = Toy(s)
        <4>1. SlotWrites(t)
          BY <2>1, <3>1 DEF SlotWrites
        <4>2. spc[s] = "write" => ~Drops(t, f)
          BY <1>3, <2>3, <3>1, HolderAlone DEF Drops
        <4>3. QED
          BY <1>1, <2>1, <2>4, <2>5, <3>1, <4>1, <4>2, EndRecord
      <3>2. CASE t # Toy(s)
        <4>1. SameWrites(t)
          BY <1>2, <1>4, <3>2 DEF SameWrites
        <4>2. QED
          BY <1>1, <1>6, <2>1, <2>2, <2>5, <3>2, <4>1, QuietRecord
      <3>3. QED
        BY <3>1, <3>2
    <2>7. QED
      BY <2>6
  <1>10. QED
    BY <1>5, <1>7, <1>8, <1>9 DEF SlotSteps

(* Every step keeps the record. *)
LEMMA RecordStep ==
  ASSUME ~Additive, \A j \in Jobs : ~j.fresh, IInv, Asked, OnRecord, Next
  PROVE  OnRecord'
  <1>1. ASSUME NEW r \in Reqs, Submit(r) \/ Refuse(r) \/ Shutdown(r), ~closed', Undisturbed',
               NEW t \in Toys, NEW f \in Features
        PROVE  RecordOK(t, f)'
    <2>1. /\ UNCHANGED <<tasks, levels, wire, motor, spc, cur>> /\ rpc[r] = "idle"
          /\ rpc'[r] \notin {"write"} /\ rpc' = [rpc EXCEPT ![r] = rpc'[r]] /\ TypeOK
      BY <1>1 DEF IInv, Submit, Refuse, Shutdown, Begin, book, device, slotVars, TypeOK
    <2>2. \A q \in Reqs : rpc[q] # "idle" => rpc'[q] = rpc[q] /\ job'[q] = job[q]
      BY <2>1, JobsStay DEF TypeOK
    <2>3. \A s \in Slots : spc[s] \in {"write", "fwrite"} => Toy(s)' = Toy(s)
      BY JobsStay
    <2>4. \A q \in Reqs : rpc'[q] = "write" /\ job'[q].toy = t <=>
                            rpc[q] = "write" /\ job[q].toy = t
      BY <2>1, <2>2 DEF TypeOK
    <2>5. SameWrites(t)
      BY <2>1, <2>3, <2>4 DEF SameWrites, ReqWrites
    <2>6. (Drops(t, f) => Drops(t, f)') /\ (Replaces(t, f) => Replaces(t, f)')
      BY <2>1, <2>2, <2>3 DEF Drops, Replaces, IsHold, Feature
    <2>7. RecordOK(t, f) /\ KeptSlot(t, f)
      BY <1>1, <2>1, <2>6, ClosedStays, DisturbedStays DEF OnRecord, KeptSlot
    <2>8. QED
      BY <2>1, <2>5, <2>6, <2>7, QuietRecord
  <1>2. CASE UNCHANGED vars
    BY <1>2 DEF vars, OnRecord, RecordOK, ReqWrites, SlotWrites, Drops, Replaces, IsHold,
       Undisturbed, Toy, Feature
  <1>3. QED
    BY <1>1, <1>2, ReqRecordStep, SlotRecordStep DEF OnRecord, Next, Arrivals, Failures, Rest

-----------------------------------------------------------------------------
(* The theorems. *)

(* The motors invariants hold in every state of the scheduler. *)
THEOREM MotorsInvariance == Spec => [](IInv /\ Asked /\ Motors)
  <1>1. Init => Asked /\ Motors
    BY DEF Init, Asked, Motors, Alone, Snapshot, Driven, Asserted
  <1>2. IInv /\ Asked /\ Motors /\ [Next]_vars => Asked' /\ Motors'
    <2>1. ASSUME IInv, Asked, Motors, UNCHANGED vars PROVE Asked' /\ Motors'
      <3>1. Asked'
        BY <2>1 DEF vars, Asked
      <3>2. Motors'
        BY <2>1 DEF vars, Motors, Alone, Snapshot, Driven, Asserted, ReqWrites, SlotWrites,
           Undisturbed, Toy, Feature
      <3>3. QED
        BY <3>1, <3>2
    <2>2. QED
      BY <2>1, AskedStep, MotorStep
  <1>3. QED
    BY <1>1, <1>2, Invariance, PTL DEF Spec

(* Once a registered hold has been asserted and nobody is at the toy's lock, the  *)
(* motor runs at the level on record: whatever slots, ticks, cancellations and    *)
(* writes of other motors came in between, and whatever the toy's app does with   *)
(* the motors a write does not list (scheduler.py:366-398, :456-513).             *)
THEOREM RunningHoldIsDriven == Spec => []RunningHoldDriven
  <1>1. IInv /\ Motors => RunningHoldDriven
    <2>1. ASSUME IInv, Motors, Undisturbed, NEW t \in Toys, NEW f \in Features,
                 Asserted(t, f), spc[tasks[t][f]] = "hold", levels[t][f] # NoLevel,
                 locks[t] = <<>>
          PROVE  motor[t][f] = levels[t][f]
      <3>1. ~ReqWrites(t)
        BY <2>1 DEF IInv, Queues, Holds, HeldBy, ReqWrites
      <3>2. QED
        BY <2>1, <3>1 DEF Motors, Driven
    <2>2. QED
      BY <2>1 DEF RunningHoldDriven, Asserted
  <1>2. QED
    BY <1>1, MotorsInvariance, PTL

(* No gap: while one slot holds a motor and a level is on record for it, no step  *)
(* turns the motor off (scheduler.py:389-391, :456-460).                          *)
THEOREM HoldHasNoGap == Spec => NoGap
  <1> USE DEF book, device, reqVars, slotVars
  <1> DEFINE Kept(t, f) ==
        LET s == tasks[t][f] IN
        ( /\ s # NoSlot /\ tasks'[t][f] = s /\ spc[s] = "hold"
          /\ levels[t][f] > 0 /\ levels'[t][f] > 0
          /\ motor[t][f] > 0 ) => motor'[t][f] > 0
  <1>1. ASSUME IInv, Asked, Motors, Next, Undisturbed', NEW t \in Toys, NEW f \in Features
        PROVE  Kept(t, f)
    <2>1. TypeOK /\ Known /\ Queues
      BY <1>1 DEF IInv
    <2>2. ASSUME NEW u \in Toys, motor' \in {motor, Landed(u, wire[u])},
                 ReqWrites(u) \/ SlotWrites(u)
          PROVE  Kept(t, f)
      <3>1. CASE motor'[t] = motor[t]
        BY <3>1
      <3>2. CASE motor' = Landed(u, wire[u]) /\ t = u
        <4>1. ASSUME Asserted(t, f), levels[t][f] > 0 PROVE motor'[t][f] = levels[t][f]
          <5>1. levels[t][f] # NoLevel
            BY <4>1 DEF NoLevel
          <5>2. wire[t][f] = levels[t][f]
            BY <1>1, <2>2, <3>2, <4>1, <5>1 DEF Motors, Snapshot
          <5>3. QED
            BY <2>1, <3>2, <5>1, <5>2 DEF Landed, Empty, TypeOK
        <4>2. QED
          BY <4>1 DEF Asserted
      <3>3. QED
        BY <2>1, <2>2, <3>1, <3>2 DEF Landed, TypeOK
    <2>3. ASSUME NEW r \in Reqs, WriteLands(r) PROVE Kept(t, f)
      <3>1. job[r].toy \in Toys /\ ReqWrites(job[r].toy) /\ motor' = Landed(job[r].toy, wire[job[r].toy])
        BY <2>1, <2>3, JobFacts DEF WriteLands, ReqWrites
      <3>2. QED
        BY <2>2, <3>1
    <2>4. ASSUME NEW s \in Slots, SlotLands(s) \/ SlotSilences(s) \/ CancelWriting(s)
          PROVE  Kept(t, f)
      <3>1. /\ Toy(s) \in Toys /\ SlotWrites(Toy(s))
            /\ motor' \in {motor, Landed(Toy(s), wire[Toy(s)])}
        BY <2>1, <2>4, JobFacts DEF SlotLands, SlotSilences, CancelWriting, Deliver, SlotWrites
      <3>2. QED
        BY <2>2, <3>1
    <2>5. ASSUME NEW r \in Reqs, StopLands(r) PROVE FALSE
      <3>1. job'[r].op \in {"stopToy", "stopAll"} /\ job'[r] # NoJob
        BY <1>1, <2>1, <2>5, DistinctAssumption DEF StopLands, Asked, StopOps, Known
      <3>2. QED
        BY <1>1, <3>1 DEF Undisturbed
    <2>6. CASE UNCHANGED motor
      BY <2>6
    <2>7. \/ UNCHANGED motor
          \/ \E r \in Reqs : WriteLands(r) \/ StopLands(r)
          \/ \E s \in Slots : SlotLands(s) \/ SlotSilences(s) \/ CancelWriting(s)
      <3>1. CASE Arrivals \/ Rest
        BY <3>1 DEF Arrivals, Rest, vars, Submit, Refuse, Shutdown
      <3>2. ASSUME NEW r \in Reqs, ReqSteps(r)
            PROVE  UNCHANGED motor \/ WriteLands(r) \/ StopLands(r)
        BY <3>2 DEF ReqSteps, Expand, CancelOne, Cancelled, CancelledAll, Finish, TakeLock,
           Displace, StartTimed, ReplaceTimed, ReplaceZero, HoldUpdate, HoldCreate, ZeroLevel,
           ShutdownEnds
      <3>3. ASSUME NEW s \in Slots, SlotSteps(s)
            PROVE  UNCHANGED motor \/ SlotLands(s) \/ SlotSilences(s) \/ CancelWriting(s)
        BY <3>3 DEF SlotSteps, SlotStart, SlotApply, SlotYields, SlotElapses, SlotRetires,
           SlotLeaves, CancelNew, CancelWaiting, CancelHolding, CancelCleanup
      <3>4. CASE Failures
        BY <3>4 DEF Failures, WriteFails, StopFails, SlotFails, SlotSilenceFails
      <3>5. QED
        BY <1>1, <3>1, <3>2, <3>3, <3>4 DEF Next
    <2>8. QED
      BY <2>3, <2>4, <2>5, <2>6, <2>7
  <1>2. IInv /\ Asked /\ Motors /\ [Next]_vars =>
          [Undisturbed' => \A t \in Toys, f \in Features : Kept(t, f)]_vars
    BY <1>1
  <1>3. QED
    BY <1>2, MotorsInvariance, PTL DEF Spec, NoGap

(* When every request has been answered and nothing is in flight, a motor that    *)
(* runs is held by a registered slot, for a toy whose app stops the motors a      *)
(* write does not list and when nobody asks for stop_previous; without either     *)
(* hypothesis the motor of a slot that was cancelled may be left running          *)
(* (scheduler.py:83, :392-398, :442-443, :597).                                   *)
THEOREM RunningMotorIsHeld ==
  ASSUME ~Additive, \A j \in Jobs : ~j.fresh
  PROVE  Spec => []RunningMotorHasSlot
  <1>1. Init => OnRecord
    BY DEF Init, OnRecord, RecordOK, ReqWrites, SlotWrites, Silent, Empty
  <1>2. IInv /\ Asked /\ OnRecord /\ [Next]_vars => OnRecord'
    <2>1. ASSUME IInv, OnRecord, UNCHANGED vars PROVE OnRecord'
      BY <2>1 DEF vars, OnRecord, RecordOK, ReqWrites, SlotWrites, Drops, Replaces, IsHold,
         Undisturbed, Toy, Feature
    <2>2. QED
      BY <2>1, RecordStep
  <1>3. IInv /\ OnRecord => RunningMotorHasSlot
    <2>1. ASSUME IInv, OnRecord, Settled, ~closed, Undisturbed, NEW t \in Toys, NEW f \in Features,
                 motor[t][f] > 0
          PROVE  tasks[t][f] # NoSlot
      <3>1. ~Drops(t, f) /\ ~Replaces(t, f)
        BY <2>1 DEF Settled, Drops, Replaces
      <3>2. RecordOK(t, f)
        BY <2>1 DEF OnRecord
      <3>3. QED
        BY <2>1, <3>1, <3>2 DEF RecordOK
    <2>2. QED
      BY <2>1 DEF RunningMotorHasSlot
  <1>4. QED
    BY <1>1, <1>2, <1>3, MotorsInvariance, PTL DEF Spec
=============================================================================
