------------------------- MODULE BleSupervisor_proof --------------------------
(***************************************************************************)
(* Theorems about BleSupervisor, for every set of ids, devices and         *)
(* requests: a toy the user has disconnected stays down.                   *)
(***************************************************************************)
EXTENDS BleSupervisor, SequenceTheorems, TLAPS

-----------------------------------------------------------------------------
(* The queue of a lock *)

(* Joining the queue of a lock adds one member, keeps the holder and queues  *)
(* nobody twice.                                                             *)
LEMMA JoinSeq ==
  ASSUME NEW S, NEW q \in Seq(S), NEW a \in S, IsInjective(q), a \notin Range(q)
  PROVE  LET p == Append(q, a) IN
         /\ p \in Seq(S) /\ IsInjective(p) /\ p # <<>>
         /\ Range(p) = Range(q) \cup {a}
         /\ q # <<>> => Head(p) = Head(q)
  <1> DEFINE p == Append(q, a)
  <1>1. /\ p \in Seq(S) /\ p # <<>> /\ DOMAIN p = DOMAIN q \cup {Len(q) + 1} /\ p[Len(q) + 1] = a
        /\ Len(q) + 1 \notin DOMAIN q /\ \A i \in DOMAIN q : p[i] = q[i]
        /\ q # <<>> => Head(p) = Head(q)
    BY AppendProperties, HeadTailAppend
  <1> HIDE DEF p
  <1>2. IsInjective(p) /\ Range(p) = Range(q) \cup {a}
    BY <1>1 DEF IsInjective, Range
  <1> QED BY <1>1, <1>2 DEF p

(* Releasing the lock removes its holder, and only it.                       *)
LEMMA TailSeq ==
  ASSUME NEW S, NEW q \in Seq(S), q # <<>>, IsInjective(q)
  PROVE  LET p == Tail(q) IN
         /\ p \in Seq(S) /\ IsInjective(p)
         /\ Range(p) = Range(q) \ {Head(q)}
  <1> DEFINE p == Tail(q)
  <1>1. /\ p \in Seq(S) /\ Head(q) = q[1] /\ \A i \in DOMAIN p : i + 1 \in DOMAIN q \ {1} /\ p[i] = q[i + 1]
        /\ \A j \in DOMAIN q \ {1} : j - 1 \in DOMAIN p /\ q[j] = p[j - 1]
        /\ 1 \in DOMAIN q /\ DOMAIN p \subseteq Nat
    BY HeadTailProperties
  <1> HIDE DEF p
  <1>2. IsInjective(p) /\ Range(p) = Range(q) \ {Head(q)}
    BY <1>1 DEF IsInjective, Range
  <1> QED BY <1>1, <1>2 DEF p

(* A waiter that gives up leaves the queue, the others keep their places.    *)
LEMMA WithoutSeq ==
  ASSUME NEW S, NEW q \in Seq(S), NEW a \in Range(q), IsInjective(q)
  PROVE  LET p == Without(q, a) IN
         /\ p \in Seq(S) /\ IsInjective(p)
         /\ Range(p) = Range(q) \ {a}
         /\ Head(q) # a => p # <<>> /\ Head(p) = Head(q)
  <1> DEFINE k == CHOOSE i \in 1 .. Len(q) : q[i] = a
             p == Without(q, a)
             src(i) == IF i < k THEN i ELSE i + 1
             dst(j) == IF j < k THEN j ELSE j - 1
  <1>1. k \in 1 .. Len(q) /\ q[k] = a
    BY DEF Range
  <1>2. p = [i \in 1 .. Len(q) - 1 |-> IF i < k THEN q[i] ELSE q[i + 1]]
    BY DEF Without
  <1> HIDE DEF k
  <1>3. /\ p \in Seq(S) /\ \A i \in DOMAIN p : src(i) \in DOMAIN q \ {k} /\ p[i] = q[src(i)] /\ dst(src(i)) = i
        /\ \A j \in DOMAIN q \ {k} : dst(j) \in DOMAIN p /\ q[j] = p[dst(j)]
        /\ k \in DOMAIN q
        /\ Head(q) # a => p # <<>> /\ Head(p) = Head(q)
    <2>1. p \in Seq(S) /\ DOMAIN p = 1 .. Len(q) - 1 /\ DOMAIN q = 1 .. Len(q)
      BY <1>1, <1>2
    <2>2. \A i \in DOMAIN p : src(i) \in DOMAIN q \ {k} /\ p[i] = q[src(i)] /\ dst(src(i)) = i
      BY <1>1, <1>2, <2>1
    <2>3. \A j \in DOMAIN q \ {k} : dst(j) \in DOMAIN p /\ q[j] = p[dst(j)]
      BY <1>1, <1>2, <2>1
    <2>4. Head(q) # a => k # 1 /\ 1 \in DOMAIN p /\ p[1] = q[1]
      BY <1>1, <1>2, <2>1
    <2>5. Head(q) # a => p # <<>> /\ Head(p) = Head(q)
      BY <2>1, <2>4
    <2> QED BY <1>1, <2>1, <2>2, <2>3, <2>5
  <1> HIDE DEF p, src, dst
  <1>4. IsInjective(p) /\ Range(p) = Range(q) \ {a}
    BY <1>1, <1>3 DEF IsInjective, Range
  <1> QED BY <1>3, <1>4 DEF p

-----------------------------------------------------------------------------
(* The inductive invariant *)

\* where a call waits for the lock, or holds it
AtLockPcs == {"lock", "relock", "link", "relink", "enrich", "drop"}
HolderPcs == {"link", "relink", "enrich", "drop"}

\* a toy that is not registered has no link that counts, and is not being connected
Down ==
  /\ \A i \in Ids : i \notin Registered => ~up[i]
  /\ \A c \in Calls : pc[c] \in {"link", "relink"} => at[c] \in Registered
  /\ sup = "link" => cur \in Registered

\* a disconnect that waits for the lock or has got it, an enrichment that ends the pause
Ends(c, i) == at[c] = i /\ \/ pc[c] = "enrich"
                           \/ pc[c] \in {"lock", "drop"} /\ ask[c].op = "disconnect"
\* the link of a paused toy is about to be taken down, or its pause to be lifted
Watched == \A i \in Ids : st[i].paused /\ up[i] => \E c \in Calls : Ends(c, i)

\* a pause that came while an attempt was at the lock has its disconnect queued behind it
Behind(q, a, b) == \E m, n \in 1 .. Len(q) : m < n /\ q[m] = a /\ q[n] = b
Overtaken ==
  sup \in {"lock", "link"} /\ st[cur].paused =>
    \E c \in Calls : pc[c] = "lock" /\ ask[c].op = "disconnect" /\ at[c] = cur /\ Behind(lock, Sup, c)

IInv == TypeOK /\ LockLive /\ Down /\ Watched /\ Overtaken

-----------------------------------------------------------------------------
(* The queue of the lock *)

LEMMA BehindJoin ==
  ASSUME NEW S, NEW q \in Seq(S), NEW x \in S
  PROVE  /\ \A a, b : Behind(q, a, b) => Behind(Append(q, x), a, b)
         /\ \A a \in Range(q) : Behind(Append(q, x), a, x)
  <1> DEFINE p == Append(q, x)
  <1>1. /\ Len(p) = Len(q) + 1 /\ p[Len(p)] = x /\ Len(q) \in Nat
        /\ \A i \in 1 .. Len(q) : p[i] = q[i]
    BY AppendProperties
  <1> HIDE DEF p
  <1>2. ASSUME NEW a, NEW b, Behind(q, a, b) PROVE Behind(p, a, b)
    <2>1. PICK m, n \in 1 .. Len(q) : m < n /\ q[m] = a /\ q[n] = b
      BY <1>2 DEF Behind
    <2>2. m \in 1 .. Len(p) /\ n \in 1 .. Len(p) /\ p[m] = a /\ p[n] = b
      BY <1>1, <2>1
    <2>3. QED
      BY <2>1, <2>2 DEF Behind
  <1>3. ASSUME NEW a \in Range(q) PROVE Behind(p, a, x)
    <2>1. PICK m \in 1 .. Len(q) : q[m] = a
      BY <1>3 DEF Range
    <2>2. /\ m \in 1 .. Len(p) /\ Len(p) \in 1 .. Len(p) /\ m < Len(p)
          /\ p[m] = a /\ p[Len(p)] = x
      BY <1>1, <2>1
    <2>3. QED
      BY <2>2 DEF Behind
  <1>4. QED
    BY <1>2, <1>3 DEF p

LEMMA BehindTail ==
  ASSUME NEW S, NEW q \in Seq(S), q # <<>>, IsInjective(q), NEW a, NEW b, Behind(q, a, b)
  PROVE  /\ Head(q) # a => Behind(Tail(q), a, b)
         /\ Head(q) # b
  <1>1. PICK m, n \in 1 .. Len(q) : m < n /\ q[m] = a /\ q[n] = b
    BY DEF Behind
  <1>2. /\ Len(Tail(q)) = Len(q) - 1 /\ Head(q) = q[1] /\ Len(q) \in Nat
        /\ \A i \in 1 .. Len(Tail(q)) : Tail(q)[i] = q[i + 1]
    BY HeadTailProperties
  <1>3. Head(q) # b
    <2>1. DOMAIN q = 1 .. Len(q) /\ 1 \in 1 .. Len(q)
      BY <1>1
    <2> QED BY <1>1, <1>2, <2>1 DEF IsInjective
  <1>4. ASSUME Head(q) # a PROVE Behind(Tail(q), a, b)
    <2>1. m # 1
      BY <1>1, <1>2, <1>4
    <2>2. /\ m - 1 \in 1 .. Len(Tail(q)) /\ n - 1 \in 1 .. Len(Tail(q)) /\ m - 1 < n - 1
          /\ Tail(q)[m - 1] = a /\ Tail(q)[n - 1] = b
      BY <1>1, <1>2, <2>1
    <2>3. QED
      BY <2>2 DEF Behind
  <1>5. QED
    BY <1>3, <1>4

-----------------------------------------------------------------------------
(* The supervisor's states of the toys *)

(* What the operations on _states do to the type and to the pauses.          *)
LEMMA StateFacts ==
  ASSUME TypeOK, NEW i \in Ids
  PROVE  /\ NotedConnected(i) \in [Ids -> State] /\ Paused(i) \in [Ids -> State]
         /\ Resumed(i) \in [Ids -> State] /\ Forgotten(i) \in [Ids -> State]
         /\ Kept \in [Ids -> State] /\ BackedOff \in [Ids -> State] /\ Reached \in [Ids -> State]
         /\ ~NotedConnected(i)[i].paused /\ ~Resumed(i)[i].paused /\ ~Forgotten(i)[i].paused
         /\ \A j \in Ids :
              /\ NotedConnected(i)[j].paused => st[j].paused
              /\ Resumed(i)[j].paused => st[j].paused
              /\ Forgotten(i)[j].paused => st[j].paused
              /\ Kept[j].paused => st[j].paused
              /\ BackedOff[j].paused => st[j].paused
              /\ Reached[j].paused => st[j].paused
              /\ Paused(i)[j].paused /\ j # i => st[j].paused
  <1>1. st \in [Ids -> State] /\ cur \in Ids /\ 0 \in 0 .. MaxTries
    BY BleAssumption DEF TypeOK
  <1>2. Absent \in State /\ ~Absent.paused
    BY <1>1 DEF Absent, State
  <1>3. [Absent EXCEPT !.known = TRUE, !.since = TRUE] \in State
        /\ ~[Absent EXCEPT !.known = TRUE, !.since = TRUE].paused
    BY <1>2 DEF Absent, State
  <1>4. NotedConnected(i) \in [Ids -> State] /\ ~NotedConnected(i)[i].paused
        /\ \A j \in Ids : j # i => NotedConnected(i)[j] = st[j]
    BY <1>1, <1>3 DEF NotedConnected
  <1>5. Paused(i) \in [Ids -> State] /\ \A j \in Ids : j # i => Paused(i)[j] = st[j]
    <2>1. /\ Paused(i) = [st EXCEPT ![i] = [@ EXCEPT !.known = TRUE, !.paused = TRUE, !.since = FALSE]]
          /\ st[i] \in State
      BY <1>1 DEF Paused
    <2>2. [st[i] EXCEPT !.known = TRUE, !.paused = TRUE, !.since = FALSE] \in State
      BY <2>1 DEF State
    <2>3. QED
      BY <1>1, <2>1, <2>2
  <1>6. Resumed(i) \in [Ids -> State] /\ ~Resumed(i)[i].paused
        /\ \A j \in Ids : j # i => Resumed(i)[j] = st[j]
    <2>1. /\ Resumed(i) = [st EXCEPT ![i] = [@ EXCEPT !.known = TRUE, !.paused = FALSE,
                                                     !.tries = 0, !.due = TRUE]]
          /\ st[i] \in State
      BY <1>1 DEF Resumed
    <2>2. /\ [st[i] EXCEPT !.known = TRUE, !.paused = FALSE, !.tries = 0, !.due = TRUE] \in State
          /\ ~[st[i] EXCEPT !.known = TRUE, !.paused = FALSE, !.tries = 0, !.due = TRUE].paused
      BY <1>1, <2>1 DEF State
    <2>3. QED
      BY <1>1, <2>1, <2>2
  <1>7. Forgotten(i) \in [Ids -> State] /\ ~Forgotten(i)[i].paused
        /\ \A j \in Ids : j # i => Forgotten(i)[j] = st[j]
    BY <1>1, <1>2 DEF Forgotten
  <1>8. Kept \in [Ids -> State] /\ \A j \in Ids : Kept[j].paused => st[j].paused
    BY <1>1, <1>2 DEF Kept
  <1>9. BackedOff \in [Ids -> State] /\ \A j \in Ids : BackedOff[j].paused => st[j].paused
    BY <1>1 DEF BackedOff, State
  <1>10. Reached \in [Ids -> State] /\ \A j \in Ids : Reached[j].paused => st[j].paused
    <2>1. CASE own
      <3>1. \A j \in Ids : j # cur => Reached[j] = st[j]
        BY <1>1, <2>1 DEF Reached
      <3>2. Reached[cur] = [st[cur] EXCEPT !.tries = 0, !.failed = FALSE, !.due = TRUE, !.since = TRUE]
        BY <1>1, <2>1 DEF Reached, State
      <3>3. Reached[cur] \in State /\ Reached[cur].paused = st[cur].paused
        <4>1. st[cur] \in State
          BY <1>1
        <4>2. [st[cur] EXCEPT !.tries = 0, !.failed = FALSE, !.due = TRUE, !.since = TRUE] \in State
          BY <1>1, <4>1 DEF State
        <4>3. QED
          BY <3>2, <4>1, <4>2 DEF State
      <3>4. Reached = [j \in Ids |-> Reached[j]]
        BY <1>1, <2>1 DEF Reached
      <3>5. QED
        BY <1>1, <3>1, <3>3, <3>4
    <2>2. CASE ~own
      BY <1>1, <2>2 DEF Reached
    <2>3. QED
      BY <2>1, <2>2
  <1>11. /\ \A j \in Ids : NotedConnected(i)[j].paused => st[j].paused
         /\ \A j \in Ids : Resumed(i)[j].paused => st[j].paused
         /\ \A j \in Ids : Forgotten(i)[j].paused => st[j].paused
         /\ \A j \in Ids : Paused(i)[j].paused /\ j # i => st[j].paused
    BY <1>4, <1>5, <1>6, <1>7
  <1>12. QED
    BY <1>4, <1>5, <1>6, <1>7, <1>8, <1>9, <1>10, <1>11

(* A visit of the round notes that it has seen the toy; the pause stays.     *)
LEMMA VisitFacts ==
  ASSUME TypeOK, NEW i \in Ids, VisitUp(i) \/ VisitIdle(i) \/ VisitDown(i)
  PROVE  st' \in [Ids -> State] /\ \A j \in Ids : st'[j].paused = st[j].paused
  <1>1. st \in [Ids -> State] /\ st[i] \in State /\ MaxTries \in Nat /\ 0 \in 0 .. MaxTries
    BY BleAssumption DEF TypeOK
  <1> SUFFICES ASSUME NEW r \in State, st' = [st EXCEPT ![i] = r], r.paused = st[i].paused
               PROVE  st' \in [Ids -> State] /\ \A j \in Ids : st'[j].paused = st[j].paused
    <2>1. CASE VisitUp(i)
      <3> DEFINE r == IF st[i].since THEN [st[i] EXCEPT !.known = TRUE]
                      ELSE [st[i] EXCEPT !.known = TRUE, !.since = TRUE, !.tries = 0, !.failed = FALSE]
      <3>1. r \in State /\ r.paused = st[i].paused
        BY <1>1 DEF State
      <3>2. st' = [st EXCEPT ![i] = r]
        BY <1>1, <2>1 DEF VisitUp, State
      <3>3. QED
        BY <3>1, <3>2
    <2>2. CASE VisitIdle(i)
      <3> DEFINE r == [st[i] EXCEPT !.known = TRUE, !.since = FALSE]
      <3>1. r \in State /\ r.paused = st[i].paused /\ st' = [st EXCEPT ![i] = r]
        BY <1>1, <2>2 DEF VisitIdle, State
      <3>2. QED
        BY <3>1
    <2>3. CASE VisitDown(i)
      <3> DEFINE t == IF st[i].tries < MaxTries THEN st[i].tries + 1 ELSE st[i].tries
                 r == [st[i] EXCEPT !.known = TRUE, !.since = FALSE, !.tries = t]
      <3>1. t \in 0 .. MaxTries
        BY <1>1 DEF State
      <3>2. r \in State /\ r.paused = st[i].paused
        BY <1>1, <3>1 DEF State
      <3>3. st' = [st EXCEPT ![i] = r]
        BY <1>1, <2>3 DEF VisitDown, State
      <3>4. QED
        BY <3>2, <3>3
    <2>4. QED
      BY <2>1, <2>2, <2>3
  <1>2. QED
    BY <1>1

-----------------------------------------------------------------------------
(* Types *)

Pcs == {"idle", "scan", "rows", "rest", "lock", "relock", "link", "relink",
        "enrich", "drop", "close", "done", "failed"}

LEMMA TypeInit == Init => TypeOK
  <1> SUFFICES ASSUME Init PROVE TypeOK
    OBVIOUS
  <1>1. Absent \in State
    BY BleAssumption DEF Absent, State
  <1>2. (CHOOSE i \in Ids : TRUE) \in Ids /\ (CHOOSE d \in Devices : TRUE) \in Devices
    BY BleAssumption
  <1>3. /\ entry \in [Ids -> Devices \cup {NoDevice}] /\ up \in [Ids -> BOOLEAN]
        /\ st \in [Ids -> State] /\ lock \in Seq(Calls \cup {Sup})
    BY <1>1 DEF Init
  <1>4. /\ ask \in [Calls -> Asks \cup {NoAsk}] /\ pc \in [Calls -> Pcs]
        /\ at \in [Calls -> Ids] /\ dev \in [Calls -> Devices]
    BY <1>2 DEF Init, Pcs
  <1>5. /\ todo \in [Calls -> SUBSET Devices] /\ rest \in [Calls -> SUBSET Ids]
        /\ made \in [Calls -> SUBSET Ids]
    BY DEF Init
  <1>6. drops \in 0 .. MaxDrops /\ fails \in 0 .. MaxFails
    BY BleAssumption DEF Init
  <1>7. /\ lost \subseteq Devices /\ gone \in BOOLEAN /\ own \in BOOLEAN
        /\ left \subseteq Ids /\ seen \subseteq Ids /\ cur \in Ids
        /\ sup \in {"off", "sleep", "round", "lock", "link", "battery"}
    BY <1>2 DEF Init
  <1>8. QED
    BY <1>3, <1>4, <1>5, <1>6, <1>7 DEF TypeOK, Pcs

(* The queue keeps its type, whoever holds or joins it.                      *)
LEMMA QueueTypes ==
  ASSUME TypeOK, LockLive
  PROVE  /\ \A x \in Calls \cup {Sup} : Append(lock, x) \in Seq(Calls \cup {Sup})
         /\ \A x : Holds(x) => Unlocked \in Seq(Calls \cup {Sup}) /\ Append(Unlocked, Sup) \in Seq(Calls \cup {Sup})
         /\ sup \in AtLockSup => Without(lock, Sup) \in Seq(Calls \cup {Sup})
  <1>1. lock \in Seq(Calls \cup {Sup}) /\ IsInjective(lock)
    BY DEF TypeOK, LockLive
  <1>2. \A x : Holds(x) => Unlocked \in Seq(Calls \cup {Sup})
    BY <1>1, TailSeq DEF Holds, HeldBy, Unlocked
  <1>3. sup \in AtLockSup => Without(lock, Sup) \in Seq(Calls \cup {Sup})
    <2>1. sup \in AtLockSup => Sup \in Range(lock)
      BY DEF LockLive
    <2>2. QED
      BY <1>1, <2>1, WithoutSeq
  <1>4. QED
    BY <1>1, <1>2, <1>3

(* A request that arrives.                                                   *)
LEMMA AskedFacts ==
  ASSUME TypeOK, NEW c \in Calls, NEW o, Asked(c, o)
  PROVE  /\ pc[c] = "idle" /\ ask' \in [Calls -> Asks \cup {NoAsk}] /\ ask'[c].op = o
         /\ ask'[c].id \in Ids /\ ask'[c].dev \in Devices
         /\ \A d \in Calls : d # c => ask'[d] = ask[d]
  <1>1. PICK q \in Asks : q.op = o /\ ask' = [ask EXCEPT ![c] = q]
    BY DEF Asked
  <1>2. ask'[c] = q /\ q.id \in Ids /\ q.dev \in Devices
    BY <1>1, BleAssumption DEF TypeOK, Ask
  <1>3. QED
    BY <1>1, <1>2 DEF Asked, TypeOK

LEMMA TypeStep ==
  ASSUME TypeOK, LockLive, Down, [Next]_vars
  PROVE  TypeOK'
  <1> DEFINE Q == Seq(Calls \cup {Sup})
  <1>1. /\ entry \in [Ids -> Devices \cup {NoDevice}] /\ up \in [Ids -> BOOLEAN]
        /\ lost \subseteq Devices /\ gone \in BOOLEAN /\ st \in [Ids -> State] /\ lock \in Q
        /\ drops \in 0 .. MaxDrops /\ fails \in 0 .. MaxFails
        /\ ask \in [Calls -> Asks \cup {NoAsk}] /\ pc \in [Calls -> Pcs]
        /\ at \in [Calls -> Ids] /\ dev \in [Calls -> Devices]
        /\ todo \in [Calls -> SUBSET Devices]
        /\ rest \in [Calls -> SUBSET Ids] /\ made \in [Calls -> SUBSET Ids]
        /\ sup \in {"off", "sleep", "round", "lock", "link", "battery"}
        /\ left \subseteq Ids /\ seen \subseteq Ids /\ cur \in Ids /\ own \in BOOLEAN
    BY DEF TypeOK, Pcs
  <1>2. /\ \A x \in Calls \cup {Sup} : Append(lock, x) \in Q
        /\ \A x : Holds(x) => Unlocked \in Q /\ Append(Unlocked, Sup) \in Q
        /\ sup \in AtLockSup => Without(lock, Sup) \in Q
    BY QueueTypes
  <1>3. /\ \A c \in Calls : pc[c] \in HolderPcs => Holds(c)
        /\ sup = "link" => Holds(Sup)
    BY DEF LockLive, HolderPcs
  <1>4. /\ Guess \in [Devices -> Ids] /\ Mac \in [Devices -> Ids]
        /\ MaxDrops \in Nat /\ MaxFails \in Nat /\ MaxTries \in Nat
        /\ Registered \subseteq Ids /\ \A i \in Ids : up[i] \/ i \in Registered => entry[i] \in Devices
    BY <1>1, BleAssumption DEF Down, Registered
  <1>5. \A i \in Ids : /\ NotedConnected(i) \in [Ids -> State] /\ Paused(i) \in [Ids -> State]
                       /\ Resumed(i) \in [Ids -> State] /\ Forgotten(i) \in [Ids -> State]
    BY StateFacts
  <1>6. Kept \in [Ids -> State] /\ BackedOff \in [Ids -> State] /\ Reached \in [Ids -> State]
    BY <1>1, StateFacts
  <1>7. ASSUME NEW c \in Calls, Connect(c) PROVE TypeOK'
    BY <1>1, <1>2, <1>3, <1>4, <1>5, AskedFacts, <1>7 DEF Connect, Queue, hubVars, supVars, world,
         Goto, HolderPcs, Pcs, TypeOK
  <1>8. ASSUME NEW c \in Calls, Reconnect(c) PROVE TypeOK'
    <2>1. at' \in [Calls -> Ids] /\ at'[c] \in Ids /\ ask' \in [Calls -> Asks \cup {NoAsk}]
      BY <1>1, <1>8, AskedFacts DEF Reconnect
    <2>2. pc' \in [Calls -> Pcs] /\ st' \in [Ids -> State] /\ lock' \in Q
      <3>1. CASE at'[c] \in Registered
        <4>1. Queue(c) /\ st' = Resumed(at'[c])
          BY <1>8, <3>1 DEF Reconnect
        <4>2. st' \in [Ids -> State]
          BY <1>5, <2>1, <4>1
        <4>3. QED
          BY <1>1, <1>2, <4>1, <4>2 DEF Queue, Goto, Pcs
      <3>2. CASE at'[c] \notin Registered
        BY <1>1, <1>8, <3>2 DEF Reconnect, Goto, Pcs
      <3>3. QED
        BY <3>1, <3>2
    <2>3. QED
      BY <1>1, <1>8, <2>1, <2>2 DEF Reconnect, hubVars, world, supVars, Pcs, TypeOK
  <1>9. ASSUME NEW c \in Calls, Disconnect(c) PROVE TypeOK'
    <2>1. /\ pc' \in [Calls -> Pcs] /\ ask' \in [Calls -> Asks \cup {NoAsk}]
          /\ at' \in [Calls -> Ids] /\ dev' \in [Calls -> Devices] /\ todo' \in [Calls -> SUBSET Devices]
          /\ rest' \in [Calls -> SUBSET Ids] /\ made' \in [Calls -> SUBSET Ids]
      BY <1>1, <1>2, <1>3, <1>4, <1>5, AskedFacts, <1>9 DEF Disconnect, Queue, hubVars, supVars,
           world, Goto, HolderPcs, Pcs
    <2>2. /\ entry' \in [Ids -> Devices \cup {NoDevice}] /\ up' \in [Ids -> BOOLEAN]
          /\ lost' \subseteq Devices /\ gone' \in BOOLEAN
      BY <1>1, <1>2, <1>3, <1>4, <1>5, AskedFacts, <1>9 DEF Disconnect, Queue, hubVars, supVars,
           world, Goto, HolderPcs, Pcs
    <2>3. /\ st' \in [Ids -> State] /\ lock' \in Q /\ drops' \in 0 .. MaxDrops /\ fails' \in 0 .. MaxFails
      BY <1>1, <1>2, <1>3, <1>4, <1>5, AskedFacts, <1>9 DEF Disconnect, Queue, hubVars, supVars,
           world, Goto, HolderPcs, Pcs
    <2>4. /\ sup' \in {"off", "sleep", "round", "lock", "link", "battery"}
          /\ left' \subseteq Ids /\ seen' \subseteq Ids /\ cur' \in Ids /\ own' \in BOOLEAN
      BY <1>1, <1>2, <1>3, <1>4, <1>5, AskedFacts, <1>9 DEF Disconnect, Queue, hubVars, supVars,
           world, Goto, HolderPcs, Pcs
    <2>5. QED
      BY <2>1, <2>2, <2>3, <2>4 DEF Pcs, TypeOK
  <1>10. ASSUME NEW c \in Calls, Remove(c) PROVE TypeOK'
    BY <1>1, <1>2, <1>3, <1>4, <1>5, AskedFacts, <1>10 DEF Remove, Queue, hubVars, supVars, world,
         Goto, HolderPcs, Pcs, TypeOK
  <1>11. ASSUME NEW c \in Calls, AutoConnect(c) PROVE TypeOK'
    BY <1>1, <1>2, <1>3, <1>4, <1>5, AskedFacts, <1>11 DEF AutoConnect, Goto, hubVars, supVars,
         world, HolderPcs, Pcs, TypeOK
  <1>12. ASSUME NEW c \in Calls, Disable(c) PROVE TypeOK'
    BY <1>1, <1>2, <1>3, <1>4, <1>5, AskedFacts, <1>12 DEF Disable, Goto, hubVars, supVars, world,
         HolderPcs, Pcs, TypeOK
  <1>13. ASSUME NEW c \in Calls, Refused(c) PROVE TypeOK'
    BY <1>1, <1>2, <1>3, <1>4, <1>5, AskedFacts, <1>13 DEF Refused, Goto, hubVars, supVars, world,
         HolderPcs, Pcs, TypeOK
  <1>14. ASSUME NEW c \in Calls, Scanned(c) PROVE TypeOK'
    BY <1>1, <1>2, <1>3, <1>4, <1>5, <1>14 DEF Scanned, Goto, hubVars, supVars, world, HolderPcs,
         Pcs, TypeOK
  <1>15. ASSUME NEW c \in Calls, NextRow(c) PROVE TypeOK'
    BY <1>1, <1>2, <1>3, <1>4, <1>5, <1>15 DEF NextRow, Queue, hubVars, supVars, world, Goto,
         HolderPcs, Pcs, TypeOK
  <1>16. ASSUME NEW c \in Calls, RowsDone(c) PROVE TypeOK'
    BY <1>1, <1>2, <1>3, <1>4, <1>5, <1>16 DEF RowsDone, Goto, hubVars, supVars, world, HolderPcs,
         Pcs, TypeOK
  <1>17. ASSUME NEW c \in Calls, NextRest(c) PROVE TypeOK'
    BY <1>1, <1>2, <1>3, <1>4, <1>5, <1>17 DEF NextRest, Goto, hubVars, supVars, world, HolderPcs,
         Pcs, TypeOK
  <1>18. ASSUME NEW c \in Calls, RestDone(c) PROVE TypeOK'
    BY <1>1, <1>2, <1>3, <1>4, <1>5, <1>18 DEF RestDone, Goto, hubVars, supVars, world, HolderPcs,
         Pcs, TypeOK
  <1>19. ASSUME NEW c \in Calls, Known(c) PROVE TypeOK'
    BY <1>1, <1>2, <1>3, <1>4, <1>5, <1>19 DEF Known, Goto, hubVars, supVars, world, Adds,
         HolderPcs, Pcs, TypeOK
  <1>20. ASSUME NEW c \in Calls, Register(c) PROVE TypeOK'
    BY <1>1, <1>2, <1>3, <1>4, <1>5, <1>20 DEF Register, Goto, supVars, world, Adds, HolderPcs,
         Pcs, TypeOK
  <1>21. ASSUME NEW c \in Calls, RegisterRefused(c) PROVE TypeOK'
    BY <1>1, <1>2, <1>3, <1>4, <1>5, <1>21 DEF RegisterRefused, Goto, supVars, world, Adds,
         HolderPcs, Pcs, TypeOK
  <1>22. ASSUME NEW c \in Calls, Relink(c) PROVE TypeOK'
    BY <1>1, <1>2, <1>3, <1>4, <1>5, <1>22 DEF Relink, Goto, hubVars, supVars, world, Plain,
         Broken, HolderPcs, Pcs, TypeOK
  <1>23. ASSUME NEW c \in Calls, LinkUp(c) PROVE TypeOK'
    BY <1>1, <1>2, <1>3, <1>4, <1>5, <1>23 DEF LinkUp, Goto, supVars, world, HolderPcs, Pcs, TypeOK
  <1>24. ASSUME NEW c \in Calls, RelinkUp(c) PROVE TypeOK'
    BY <1>1, <1>2, <1>3, <1>4, <1>5, <1>24 DEF RelinkUp, Goto, supVars, world, HolderPcs, Pcs,
         TypeOK
  <1>25. ASSUME NEW c \in Calls, EnrichRenames(c) PROVE TypeOK'
    <2>1. /\ pc' \in [Calls -> Pcs] /\ ask' \in [Calls -> Asks \cup {NoAsk}]
          /\ at' \in [Calls -> Ids] /\ dev' \in [Calls -> Devices] /\ todo' \in [Calls -> SUBSET Devices]
          /\ rest' \in [Calls -> SUBSET Ids] /\ made' \in [Calls -> SUBSET Ids]
      BY <1>1, <1>2, <1>3, <1>4, <1>5, <1>25 DEF EnrichRenames, Enriched, supVars, world, Goto,
           HolderPcs, Pcs
    <2>2. /\ entry' \in [Ids -> Devices \cup {NoDevice}] /\ up' \in [Ids -> BOOLEAN]
          /\ lost' \subseteq Devices /\ gone' \in BOOLEAN
      BY <1>1, <1>2, <1>3, <1>4, <1>5, <1>25 DEF EnrichRenames, Enriched, supVars, world, Goto,
           HolderPcs, Pcs
    <2>3. /\ st' \in [Ids -> State] /\ lock' \in Q /\ drops' \in 0 .. MaxDrops /\ fails' \in 0 .. MaxFails
      BY <1>1, <1>2, <1>3, <1>4, <1>5, <1>25 DEF EnrichRenames, Enriched, supVars, world, Goto,
           HolderPcs, Pcs
    <2>4. /\ sup' \in {"off", "sleep", "round", "lock", "link", "battery"}
          /\ left' \subseteq Ids /\ seen' \subseteq Ids /\ cur' \in Ids /\ own' \in BOOLEAN
      BY <1>1, <1>2, <1>3, <1>4, <1>5, <1>25 DEF EnrichRenames, Enriched, supVars, world, Goto,
           HolderPcs, Pcs
    <2>5. QED
      BY <2>1, <2>2, <2>3, <2>4 DEF Pcs, TypeOK
  <1>26. ASSUME NEW c \in Calls, EnrichKeeps(c) PROVE TypeOK'
    BY <1>1, <1>2, <1>3, <1>4, <1>5, <1>26 DEF EnrichKeeps, Enriched, hubVars, supVars, world,
         Goto, HolderPcs, Pcs, TypeOK
  <1>27. ASSUME NEW c \in Calls, DisconnectStarts(c) PROVE TypeOK'
    BY <1>1, <1>2, <1>3, <1>4, <1>5, <1>27 DEF DisconnectStarts, Goto, hubVars, supVars, world,
         HolderPcs, Pcs, TypeOK
  <1>28. ASSUME NEW c \in Calls, DisconnectLands(c) PROVE TypeOK'
    BY <1>1, <1>2, <1>3, <1>4, <1>5, <1>28 DEF DisconnectLands, Goto, supVars, world, HolderPcs,
         Pcs, TypeOK
  <1>29. ASSUME NEW c \in Calls, RemoveStarts(c) PROVE TypeOK'
    <2>1. /\ pc' \in [Calls -> Pcs] /\ ask' \in [Calls -> Asks \cup {NoAsk}]
          /\ at' \in [Calls -> Ids] /\ dev' \in [Calls -> Devices] /\ todo' \in [Calls -> SUBSET Devices]
          /\ rest' \in [Calls -> SUBSET Ids] /\ made' \in [Calls -> SUBSET Ids]
      BY <1>1, <1>2, <1>3, <1>4, <1>5, <1>29 DEF RemoveStarts, Goto, Forgets, world, HolderPcs, Pcs
    <2>2. /\ entry' \in [Ids -> Devices \cup {NoDevice}] /\ up' \in [Ids -> BOOLEAN]
          /\ lost' \subseteq Devices /\ gone' \in BOOLEAN
      BY <1>1, <1>2, <1>3, <1>4, <1>5, <1>29 DEF RemoveStarts, Goto, Forgets, world, HolderPcs, Pcs
    <2>3. /\ st' \in [Ids -> State] /\ lock' \in Q /\ drops' \in 0 .. MaxDrops /\ fails' \in 0 .. MaxFails
      BY <1>1, <1>2, <1>3, <1>4, <1>5, <1>29 DEF RemoveStarts, Goto, Forgets, world, HolderPcs, Pcs
    <2>4. /\ sup' \in {"off", "sleep", "round", "lock", "link", "battery"}
          /\ left' \subseteq Ids /\ seen' \subseteq Ids /\ cur' \in Ids /\ own' \in BOOLEAN
      BY <1>1, <1>2, <1>3, <1>4, <1>5, <1>29 DEF RemoveStarts, Goto, Forgets, world, HolderPcs, Pcs
    <2>5. QED
      BY <2>1, <2>2, <2>3, <2>4 DEF Pcs, TypeOK
  <1>30. ASSUME NEW c \in Calls, RemoveLands(c) PROVE TypeOK'
    BY <1>1, <1>2, <1>3, <1>4, <1>5, <1>30 DEF RemoveLands, Goto, Forgets, world, HolderPcs, Pcs,
         TypeOK
  <1>31. ASSUME NEW c \in Calls, CloseOne(c) PROVE TypeOK'
    BY <1>1, <1>2, <1>3, <1>4, <1>5, <1>31 DEF CloseOne, supVars, world, HolderPcs, Pcs, TypeOK
  <1>32. ASSUME NEW c \in Calls, Closed(c) PROVE TypeOK'
    BY <1>1, <1>2, <1>3, <1>4, <1>5, <1>32 DEF Closed, Goto, world, HolderPcs, Pcs, TypeOK
  <1>33. ASSUME NEW c \in Calls, LinkFails(c) PROVE TypeOK'
    BY <1>1, <1>2, <1>3, <1>4, <1>5, <1>33 DEF LinkFails, Goto, hubVars, supVars, Broken,
         HolderPcs, Pcs, TypeOK
  <1>34. ASSUME NEW c \in Calls, EnrichFails(c) PROVE TypeOK'
    BY <1>1, <1>2, <1>3, <1>4, <1>5, <1>34 DEF EnrichFails, Enriched, hubVars, supVars, Goto,
         HolderPcs, Pcs, TypeOK
  <1>35. CASE RoundBegins
    BY <1>1, <1>2, <1>3, <1>4, <1>6, <1>35 DEF RoundBegins, hubVars, world, callVars, HolderPcs,
         Pcs, TypeOK
  <1>36. CASE RoundEnds
    BY <1>1, <1>2, <1>3, <1>4, <1>6, <1>36 DEF RoundEnds, hubVars, world, callVars, HolderPcs, Pcs,
         TypeOK
  <1>37. CASE SupConnects
    BY <1>1, <1>2, <1>3, <1>4, <1>6, <1>37 DEF SupConnects, hubVars, world, callVars, HolderPcs,
         Pcs, TypeOK
  <1>38. CASE SupLinkUp
    BY <1>1, <1>2, <1>3, <1>4, <1>6, <1>38 DEF SupLinkUp, world, callVars, HolderPcs, Pcs, TypeOK
  <1>39. CASE SupLinkFails
    BY <1>1, <1>2, <1>3, <1>4, <1>6, <1>39 DEF SupLinkFails, hubVars, callVars, HolderPcs, Pcs,
         TypeOK
  <1>40. CASE SupBattery
    BY <1>1, <1>2, <1>3, <1>4, <1>6, <1>40 DEF SupBattery, hubVars, world, callVars, HolderPcs,
         Pcs, TypeOK
  <1>41. CASE LinkDrops
    <2>1. drops' \in 0 .. MaxDrops
      BY <1>1, <1>4, <1>41 DEF LinkDrops
    <2>2. up' \in [Ids -> BOOLEAN] /\ lost' \subseteq Devices
      BY <1>1, <1>41 DEF LinkDrops
    <2>3. QED
      BY <1>1, <1>41, <2>1, <2>2 DEF LinkDrops, supVars, callVars, Pcs, TypeOK
  <1>42. ASSUME NEW i \in Ids, VisitUp(i) PROVE TypeOK'
    <2>1. st' \in [Ids -> State]
      BY <1>42, VisitFacts
    <2>2. QED
      <3>1. UNCHANGED <<hubVars, world, callVars, seen>> /\ left' = left \ {i}
        BY <1>42 DEF VisitUp, Visit
      <3>2. /\ cur' \in Ids /\ own' \in BOOLEAN /\ lock' \in Q
            /\ sup' \in {"off", "sleep", "round", "lock", "link", "battery"}
        BY <1>1, <1>2, <1>42 DEF VisitUp, Attend
      <3>3. QED
        BY <1>1, <2>1, <3>1, <3>2 DEF hubVars, world, callVars, Pcs, TypeOK
  <1>43. ASSUME NEW i \in Ids, VisitIdle(i) PROVE TypeOK'
    <2>1. st' \in [Ids -> State]
      BY <1>43, VisitFacts
    <2>2. QED
      BY <1>1, <1>2, <1>43, <2>1 DEF VisitIdle, Visit, Attend, hubVars, world, callVars, Pcs, TypeOK
  <1>44. ASSUME NEW i \in Ids, VisitDown(i) PROVE TypeOK'
    <2>1. st' \in [Ids -> State]
      BY <1>44, VisitFacts
    <2>2. QED
      BY <1>1, <1>2, <1>44, <2>1 DEF VisitDown, Visit, Attend, hubVars, world, callVars, Pcs, TypeOK
  <1>45. ASSUME NEW i \in Ids, Elapse(i) PROVE TypeOK'
    <2>1. st' \in [Ids -> State]
      <3>1. st' = [st EXCEPT ![i] = [@ EXCEPT !.due = TRUE]] /\ st[i] \in State
        BY <1>1, <1>45 DEF Elapse
      <3>2. [st[i] EXCEPT !.due = TRUE] \in State
        BY <3>1 DEF State
      <3>3. QED
        BY <1>1, <3>1, <3>2
    <2>2. QED
      BY <1>1, <1>45, <2>1 DEF Elapse, hubVars, supVars, world, callVars, Pcs, TypeOK
  <1>46. CASE UNCHANGED vars
    BY <1>1, <1>46 DEF vars, Pcs, TypeOK
  <1>47. QED
    BY <1>7, <1>8, <1>9, <1>10, <1>11, <1>12, <1>13, <1>14, <1>15, <1>16, <1>17, <1>18, <1>19,
       <1>20, <1>21, <1>22, <1>23, <1>24, <1>25, <1>26, <1>27, <1>28, <1>29, <1>30, <1>31, <1>32,
       <1>33, <1>34, <1>35, <1>36, <1>37, <1>38, <1>39, <1>40, <1>41, <1>42, <1>43, <1>44, <1>45,
       <1>46
       DEF Next, Arrivals, CallSteps, SupVisits, SupWakes, Failures

-----------------------------------------------------------------------------
(* What a step of a call does *)

\* every step of a call but Closed(c), which cancels the supervision task as well
Steps(c) ==
  \/ Arrivals(c) \/ (CallSteps(c) /\ ~Closed(c)) \/ LinkFails(c) \/ EnrichFails(c)

\* the call queues for the lock, lets it go, or leaves the queue alone
Joins(c)  == c \notin AtLock /\ lock' = Append(lock, c) /\ pc'[c] \in {"lock", "relock"}
Leaves(c) == c \in AtLock /\ Holds(c) /\ lock' = Unlocked /\ pc'[c] \notin AtLockPcs
Moves(c)  == /\ lock' = lock /\ (c \in AtLock <=> pc'[c] \in AtLockPcs)
             /\ pc'[c] \in HolderPcs => Holds(c)

\* who has asked for what, where, is changed by nobody else, and not while it is at the lock
Apart(c) ==
  /\ sup' = sup /\ cur' = cur /\ pc' = [pc EXCEPT ![c] = pc'[c]]
  /\ \A d \in Calls : d # c \/ d \in AtLock => at'[d] = at[d] /\ ask'[d] = ask[d]

LEMMA CallQueue ==
  ASSUME TypeOK, LockLive, NEW c \in Calls, Steps(c)
  PROVE  Apart(c) /\ (Joins(c) \/ Leaves(c) \/ Moves(c))
  <1>1. /\ pc \in [Calls -> Pcs] /\ at \in [Calls -> Ids] /\ ask \in [Calls -> Asks \cup {NoAsk}]
        /\ c \in AtLock <=> pc[c] \in AtLockPcs
        /\ \A d \in Calls : d \in AtLock => pc[d] # "idle" /\ pc[d] # "rows" /\ pc[d] # "rest"
    BY DEF TypeOK, Pcs, AtLock, AtLockPcs
  <1>2. pc[c] \in HolderPcs => Holds(c)
    BY DEF LockLive, HolderPcs
  <1>3. ASSUME Connect(c) PROVE Apart(c) /\ (Joins(c) \/ Leaves(c) \/ Moves(c))
    BY <1>1, <1>2, AskedFacts, <1>3 DEF Connect, Queue, supVars, Goto, Apart, Joins, Leaves, Moves,
         HolderPcs, AtLockPcs
  <1>4. ASSUME Reconnect(c) PROVE Apart(c) /\ (Joins(c) \/ Leaves(c) \/ Moves(c))
    BY <1>1, <1>2, AskedFacts, <1>4 DEF Reconnect, Goto, Queue, supVars, Apart, Joins, Leaves,
         Moves, HolderPcs, AtLockPcs
  <1>5. ASSUME Disconnect(c) PROVE Apart(c) /\ (Joins(c) \/ Leaves(c) \/ Moves(c))
    BY <1>1, <1>2, AskedFacts, <1>5 DEF Disconnect, Queue, supVars, Goto, Apart, Joins, Leaves,
         Moves, HolderPcs, AtLockPcs
  <1>6. ASSUME Remove(c) PROVE Apart(c) /\ (Joins(c) \/ Leaves(c) \/ Moves(c))
    BY <1>1, <1>2, AskedFacts, <1>6 DEF Remove, Queue, supVars, Goto, Apart, Joins, Leaves, Moves,
         HolderPcs, AtLockPcs
  <1>7. ASSUME AutoConnect(c) PROVE Apart(c) /\ (Joins(c) \/ Leaves(c) \/ Moves(c))
    BY <1>1, <1>2, AskedFacts, <1>7 DEF AutoConnect, Goto, supVars, Apart, Joins, Leaves, Moves,
         HolderPcs, AtLockPcs
  <1>8. ASSUME Disable(c) PROVE Apart(c) /\ (Joins(c) \/ Leaves(c) \/ Moves(c))
    BY <1>1, <1>2, AskedFacts, <1>8 DEF Disable, Goto, supVars, Apart, Joins, Leaves, Moves,
         HolderPcs, AtLockPcs
  <1>9. ASSUME Refused(c) PROVE Apart(c) /\ (Joins(c) \/ Leaves(c) \/ Moves(c))
    BY <1>1, <1>2, <1>9 DEF Refused, Goto, supVars, Apart, Joins, Leaves, Moves, HolderPcs,
         AtLockPcs
  <1>10. ASSUME Scanned(c) PROVE Apart(c) /\ (Joins(c) \/ Leaves(c) \/ Moves(c))
    BY <1>1, <1>2, <1>10 DEF Scanned, Goto, supVars, Apart, Joins, Leaves, Moves, HolderPcs,
         AtLockPcs
  <1>11. ASSUME NextRow(c) PROVE Apart(c) /\ (Joins(c) \/ Leaves(c) \/ Moves(c))
    BY <1>1, <1>2, <1>11 DEF NextRow, Queue, supVars, Goto, Apart, Joins, Leaves, Moves, HolderPcs,
         AtLockPcs
  <1>12. ASSUME RowsDone(c) PROVE Apart(c) /\ (Joins(c) \/ Leaves(c) \/ Moves(c))
    BY <1>1, <1>2, <1>12 DEF RowsDone, Goto, supVars, Apart, Joins, Leaves, Moves, HolderPcs,
         AtLockPcs
  <1>13. ASSUME NextRest(c) PROVE Apart(c) /\ (Joins(c) \/ Leaves(c) \/ Moves(c))
    BY <1>1, <1>2, <1>13 DEF NextRest, Goto, supVars, Apart, Joins, Leaves, Moves, HolderPcs,
         AtLockPcs
  <1>14. ASSUME RestDone(c) PROVE Apart(c) /\ (Joins(c) \/ Leaves(c) \/ Moves(c))
    BY <1>1, <1>2, <1>14 DEF RestDone, Goto, supVars, Apart, Joins, Leaves, Moves, HolderPcs,
         AtLockPcs
  <1>15. ASSUME Known(c) PROVE Apart(c) /\ (Joins(c) \/ Leaves(c) \/ Moves(c))
    BY <1>1, <1>2, <1>15 DEF Known, Goto, supVars, Adds, Apart, Joins, Leaves, Moves, HolderPcs,
         AtLockPcs
  <1>16. ASSUME Register(c) PROVE Apart(c) /\ (Joins(c) \/ Leaves(c) \/ Moves(c))
    BY <1>1, <1>2, <1>16 DEF Register, Goto, supVars, Adds, Apart, Joins, Leaves, Moves, HolderPcs,
         AtLockPcs
  <1>17. ASSUME RegisterRefused(c) PROVE Apart(c) /\ (Joins(c) \/ Leaves(c) \/ Moves(c))
    BY <1>1, <1>2, <1>17 DEF RegisterRefused, Goto, supVars, Adds, Apart, Joins, Leaves, Moves,
         HolderPcs, AtLockPcs
  <1>18. ASSUME Relink(c) PROVE Apart(c) /\ (Joins(c) \/ Leaves(c) \/ Moves(c))
    BY <1>1, <1>2, <1>18 DEF Relink, Goto, supVars, Plain, Broken, Apart, Joins, Leaves, Moves,
         HolderPcs, AtLockPcs
  <1>19. ASSUME LinkUp(c) PROVE Apart(c) /\ (Joins(c) \/ Leaves(c) \/ Moves(c))
    BY <1>1, <1>2, <1>19 DEF LinkUp, Goto, supVars, Apart, Joins, Leaves, Moves, HolderPcs,
         AtLockPcs
  <1>20. ASSUME RelinkUp(c) PROVE Apart(c) /\ (Joins(c) \/ Leaves(c) \/ Moves(c))
    BY <1>1, <1>2, <1>20 DEF RelinkUp, Goto, supVars, Apart, Joins, Leaves, Moves, HolderPcs,
         AtLockPcs
  <1>21. ASSUME EnrichRenames(c) PROVE Apart(c) /\ (Joins(c) \/ Leaves(c) \/ Moves(c))
    BY <1>1, <1>2, <1>21 DEF EnrichRenames, Enriched, supVars, Goto, Apart, Joins, Leaves, Moves,
         HolderPcs, AtLockPcs
  <1>22. ASSUME EnrichKeeps(c) PROVE Apart(c) /\ (Joins(c) \/ Leaves(c) \/ Moves(c))
    BY <1>1, <1>2, <1>22 DEF EnrichKeeps, Enriched, supVars, Goto, Apart, Joins, Leaves, Moves,
         HolderPcs, AtLockPcs
  <1>23. ASSUME DisconnectStarts(c) PROVE Apart(c) /\ (Joins(c) \/ Leaves(c) \/ Moves(c))
    BY <1>1, <1>2, <1>23 DEF DisconnectStarts, Goto, supVars, Apart, Joins, Leaves, Moves,
         HolderPcs, AtLockPcs
  <1>24. ASSUME DisconnectLands(c) PROVE Apart(c) /\ (Joins(c) \/ Leaves(c) \/ Moves(c))
    BY <1>1, <1>2, <1>24 DEF DisconnectLands, Goto, supVars, Apart, Joins, Leaves, Moves,
         HolderPcs, AtLockPcs
  <1>25. ASSUME RemoveStarts(c) PROVE Apart(c) /\ (Joins(c) \/ Leaves(c) \/ Moves(c))
    BY <1>1, <1>2, <1>25 DEF RemoveStarts, Goto, Forgets, Apart, Joins, Leaves, Moves, HolderPcs,
         AtLockPcs
  <1>26. ASSUME RemoveLands(c) PROVE Apart(c) /\ (Joins(c) \/ Leaves(c) \/ Moves(c))
    BY <1>1, <1>2, <1>26 DEF RemoveLands, Goto, Forgets, Apart, Joins, Leaves, Moves, HolderPcs,
         AtLockPcs
  <1>27. ASSUME CloseOne(c) PROVE Apart(c) /\ (Joins(c) \/ Leaves(c) \/ Moves(c))
    BY <1>1, <1>2, <1>27 DEF CloseOne, supVars, Apart, Joins, Leaves, Moves, HolderPcs, AtLockPcs
  <1>28. ASSUME LinkFails(c) PROVE Apart(c) /\ (Joins(c) \/ Leaves(c) \/ Moves(c))
    BY <1>1, <1>2, <1>28 DEF LinkFails, Goto, supVars, Broken, Apart, Joins, Leaves, Moves,
         HolderPcs, AtLockPcs
  <1>29. ASSUME EnrichFails(c) PROVE Apart(c) /\ (Joins(c) \/ Leaves(c) \/ Moves(c))
    BY <1>1, <1>2, <1>29 DEF EnrichFails, Enriched, supVars, Goto, Apart, Joins, Leaves, Moves,
         HolderPcs, AtLockPcs
  <1>30. QED
    BY <1>3, <1>4, <1>5, <1>6, <1>7, <1>8, <1>9, <1>10, <1>11, <1>12, <1>13, <1>14, <1>15, <1>16,
       <1>17, <1>18, <1>19, <1>20, <1>21, <1>22, <1>23, <1>24, <1>25, <1>26, <1>27, <1>28, <1>29
       DEF Steps, Arrivals, CallSteps

\* what the step does to the pauses: only a disconnect that joins the queue sets one
Pausing(c, i) == c \notin AtLock /\ ask'[c].op = "disconnect" /\ at'[c] = i /\ pc'[c] = "lock"
Pauses(c) ==
  /\ \A i \in Ids : st'[i].paused => st[i].paused \/ Pausing(c, i)
  /\ \A i \in Ids : up'[i] /\ st'[i].paused => up[i] \/ (pc'[c] = "enrich" /\ at'[c] = i)
  /\ \A i \in Ids : Ends(c, i) /\ up'[i] /\ st'[i].paused =>
       at'[c] = i /\ ask'[c] = ask[c]
       /\ \/ pc'[c] = "enrich"
          \/ pc'[c] \in {"lock", "drop"} /\ ask[c].op = "disconnect"
  /\ pc[c] = "lock" /\ ask[c].op = "disconnect" => Holds(c)

\* and to the links
Entered == {i \in Ids : entry'[i] # NoDevice}
Counts(c) ==
  /\ \A i \in Ids : i \notin Entered => ~up'[i]
  /\ pc'[c] \in {"link", "relink"} => at'[c] \in Entered
  /\ Registered \subseteq Entered \/ Holds(c)

LEMMA CallPauses ==
  ASSUME TypeOK, LockLive, Down, NEW c \in Calls, Steps(c)
  PROVE  Pauses(c)
  <1>1. /\ pc \in [Calls -> Pcs] /\ at \in [Calls -> Ids] /\ ask \in [Calls -> Asks \cup {NoAsk}]
        /\ entry \in [Ids -> Devices \cup {NoDevice}] /\ up \in [Ids -> BOOLEAN]
        /\ c \in AtLock <=> pc[c] \in AtLockPcs
    BY DEF TypeOK, Pcs, AtLock, AtLockPcs
  <1>2. /\ pc[c] \in HolderPcs => Holds(c)
        /\ \A i \in Ids : i \notin Registered => ~up[i]
        /\ pc[c] \in {"link", "relink"} => at[c] \in Registered
    BY DEF LockLive, HolderPcs, Down
  <1>3. /\ \A i \in Ids : ~NotedConnected(i)[i].paused /\ ~Resumed(i)[i].paused /\ ~Forgotten(i)[i].paused
        /\ \A i, j \in Ids : /\ NotedConnected(i)[j].paused => st[j].paused
                             /\ Resumed(i)[j].paused => st[j].paused
                             /\ Forgotten(i)[j].paused => st[j].paused
                             /\ Paused(i)[j].paused /\ j # i => st[j].paused
    BY StateFacts
  <1>4. ASSUME Connect(c) PROVE Pauses(c)
    BY <1>1, <1>2, <1>3, AskedFacts, <1>4 DEF Connect, Queue, hubVars, Goto, Pauses, Pausing, Ends,
         HolderPcs, AtLockPcs
  <1>5. ASSUME Reconnect(c) PROVE Pauses(c)
    BY <1>1, <1>2, <1>3, AskedFacts, <1>5 DEF Reconnect, Goto, Queue, hubVars, Pauses, Pausing,
         Ends, HolderPcs, AtLockPcs
  <1>6. ASSUME Disconnect(c) PROVE Pauses(c)
    BY <1>1, <1>2, <1>3, AskedFacts, <1>6 DEF Disconnect, Queue, hubVars, Goto, Pauses, Pausing,
         Ends, HolderPcs, AtLockPcs
  <1>7. ASSUME Remove(c) PROVE Pauses(c)
    BY <1>1, <1>2, <1>3, AskedFacts, <1>7 DEF Remove, Queue, hubVars, Goto, Pauses, Pausing, Ends,
         HolderPcs, AtLockPcs
  <1>8. ASSUME AutoConnect(c) PROVE Pauses(c)
    BY <1>1, <1>2, <1>3, AskedFacts, <1>8 DEF AutoConnect, Goto, hubVars, Pauses, Pausing, Ends,
         HolderPcs, AtLockPcs
  <1>9. ASSUME Disable(c) PROVE Pauses(c)
    BY <1>1, <1>2, <1>3, AskedFacts, <1>9 DEF Disable, Goto, hubVars, Pauses, Pausing, Ends,
         HolderPcs, AtLockPcs
  <1>10. ASSUME Refused(c) PROVE Pauses(c)
    BY <1>1, <1>2, <1>3, <1>10 DEF Refused, Goto, hubVars, Pauses, Pausing, Ends, HolderPcs,
         AtLockPcs
  <1>11. ASSUME Scanned(c) PROVE Pauses(c)
    BY <1>1, <1>2, <1>3, <1>11 DEF Scanned, Goto, hubVars, Pauses, Pausing, Ends, HolderPcs,
         AtLockPcs
  <1>12. ASSUME NextRow(c) PROVE Pauses(c)
    BY <1>1, <1>2, <1>3, <1>12 DEF NextRow, Queue, hubVars, Goto, Pauses, Pausing, Ends, HolderPcs,
         AtLockPcs
  <1>13. ASSUME RowsDone(c) PROVE Pauses(c)
    BY <1>1, <1>2, <1>3, <1>13 DEF RowsDone, Goto, hubVars, Pauses, Pausing, Ends, HolderPcs,
         AtLockPcs
  <1>14. ASSUME NextRest(c) PROVE Pauses(c)
    BY <1>1, <1>2, <1>3, <1>14 DEF NextRest, Goto, hubVars, Pauses, Pausing, Ends, HolderPcs,
         AtLockPcs
  <1>15. ASSUME RestDone(c) PROVE Pauses(c)
    BY <1>1, <1>2, <1>3, <1>15 DEF RestDone, Goto, hubVars, Pauses, Pausing, Ends, HolderPcs,
         AtLockPcs
  <1>16. ASSUME Known(c) PROVE Pauses(c)
    BY <1>1, <1>2, <1>3, <1>16 DEF Known, Goto, hubVars, Adds, Pauses, Pausing, Ends, HolderPcs,
         AtLockPcs
  <1>17. ASSUME Register(c) PROVE Pauses(c)
    BY <1>1, <1>2, <1>3, <1>17 DEF Register, Goto, Adds, Pauses, Pausing, Ends, HolderPcs, AtLockPcs
  <1>18. ASSUME RegisterRefused(c) PROVE Pauses(c)
    BY <1>1, <1>2, <1>3, <1>18 DEF RegisterRefused, Goto, Adds, Pauses, Pausing, Ends, HolderPcs,
         AtLockPcs
  <1>19. ASSUME Relink(c) PROVE Pauses(c)
    BY <1>1, <1>2, <1>3, <1>19 DEF Relink, Goto, hubVars, Plain, Broken, Pauses, Pausing, Ends,
         HolderPcs, AtLockPcs
  <1>20. ASSUME LinkUp(c) PROVE Pauses(c)
    BY <1>1, <1>2, <1>3, <1>20 DEF LinkUp, Goto, Pauses, Pausing, Ends, HolderPcs, AtLockPcs
  <1>21. ASSUME RelinkUp(c) PROVE Pauses(c)
    BY <1>1, <1>2, <1>3, <1>21 DEF RelinkUp, Goto, Pauses, Pausing, Ends, HolderPcs, AtLockPcs
  <1>22. ASSUME EnrichRenames(c) PROVE Pauses(c)
    <2> DEFINE i == at[c]
               n == Mac[entry[i]]
    <2>1. i \in Ids /\ up[i] /\ entry[i] \in Devices /\ n \in Ids /\ n # i /\ pc[c] = "enrich"
      BY <1>1, <1>2, <1>22, BleAssumption DEF EnrichRenames, Registered
    <2>2. /\ up' = [up EXCEPT ![n] = TRUE, ![i] = FALSE] /\ st' = NotedConnected(n)
          /\ at' = at /\ ask' = ask
      BY <1>22 DEF EnrichRenames, Enriched
    <2>3. \A j \in Ids : up'[j] /\ st'[j].paused => up[j] /\ st[j].paused /\ j # i
      BY <1>1, <1>3, <2>1, <2>2
    <2>4. \A j \in Ids : st'[j].paused => st[j].paused
      BY <1>3, <2>1, <2>2
    <2>5. QED
      BY <2>1, <2>3, <2>4 DEF Pauses, Ends
  <1>23. ASSUME EnrichKeeps(c) PROVE Pauses(c)
    BY <1>1, <1>2, <1>3, <1>23 DEF EnrichKeeps, Enriched, hubVars, Goto, Pauses, Pausing, Ends,
         HolderPcs, AtLockPcs
  <1>24. ASSUME DisconnectStarts(c) PROVE Pauses(c)
    BY <1>1, <1>2, <1>3, <1>24 DEF DisconnectStarts, Goto, hubVars, Pauses, Pausing, Ends,
         HolderPcs, AtLockPcs
  <1>25. ASSUME DisconnectLands(c) PROVE Pauses(c)
    BY <1>1, <1>2, <1>3, <1>25 DEF DisconnectLands, Goto, Pauses, Pausing, Ends, HolderPcs,
         AtLockPcs
  <1>26. ASSUME RemoveStarts(c) PROVE Pauses(c)
    BY <1>1, <1>2, <1>3, <1>26 DEF RemoveStarts, Goto, Forgets, Pauses, Pausing, Ends, HolderPcs,
         AtLockPcs
  <1>27. ASSUME RemoveLands(c) PROVE Pauses(c)
    BY <1>1, <1>2, <1>3, <1>27 DEF RemoveLands, Goto, Forgets, Pauses, Pausing, Ends, HolderPcs,
         AtLockPcs
  <1>28. ASSUME CloseOne(c) PROVE Pauses(c)
    BY <1>1, <1>2, <1>3, <1>28 DEF CloseOne, Pauses, Pausing, Ends, HolderPcs, AtLockPcs
  <1>29. ASSUME LinkFails(c) PROVE Pauses(c)
    BY <1>1, <1>2, <1>3, <1>29 DEF LinkFails, Goto, hubVars, Broken, Pauses, Pausing, Ends,
         HolderPcs, AtLockPcs
  <1>30. ASSUME EnrichFails(c) PROVE Pauses(c)
    BY <1>1, <1>2, <1>3, <1>30 DEF EnrichFails, Enriched, hubVars, Goto, Pauses, Pausing, Ends,
         HolderPcs, AtLockPcs
  <1>31. QED
    BY <1>4, <1>5, <1>6, <1>7, <1>8, <1>9, <1>10, <1>11, <1>12, <1>13, <1>14, <1>15, <1>16, <1>17,
       <1>18, <1>19, <1>20, <1>21, <1>22, <1>23, <1>24, <1>25, <1>26, <1>27, <1>28, <1>29, <1>30
       DEF Steps, Arrivals, CallSteps

LEMMA CallLinks ==
  ASSUME TypeOK, LockLive, Down, NEW c \in Calls, Steps(c)
  PROVE  Counts(c)
  <1>1. /\ pc \in [Calls -> Pcs] /\ at \in [Calls -> Ids] /\ dev \in [Calls -> Devices]
        /\ entry \in [Ids -> Devices \cup {NoDevice}] /\ up \in [Ids -> BOOLEAN] /\ NoDevice \notin Devices
    BY BleAssumption DEF TypeOK, Pcs
  <1>2. /\ pc[c] \in HolderPcs => Holds(c)
        /\ \A i \in Ids : i \notin Registered => ~up[i]
        /\ pc[c] \in {"link", "relink"} => at[c] \in Registered
        /\ Registered = {i \in Ids : entry[i] # NoDevice}
    BY DEF LockLive, HolderPcs, Down, Registered
  <1>3. ASSUME Connect(c) PROVE Counts(c)
    BY <1>1, <1>2, AskedFacts, <1>3 DEF Connect, Queue, hubVars, supVars, Goto, Counts, Entered,
         HolderPcs
  <1>4. ASSUME Reconnect(c) PROVE Counts(c)
    BY <1>1, <1>2, AskedFacts, <1>4 DEF Reconnect, Goto, Queue, hubVars, supVars, Counts, Entered,
         HolderPcs
  <1>5. ASSUME Disconnect(c) PROVE Counts(c)
    BY <1>1, <1>2, AskedFacts, <1>5 DEF Disconnect, Queue, hubVars, supVars, Goto, Counts, Entered,
         HolderPcs
  <1>6. ASSUME Remove(c) PROVE Counts(c)
    BY <1>1, <1>2, AskedFacts, <1>6 DEF Remove, Queue, hubVars, supVars, Goto, Counts, Entered,
         HolderPcs
  <1>7. ASSUME AutoConnect(c) PROVE Counts(c)
    BY <1>1, <1>2, AskedFacts, <1>7 DEF AutoConnect, Goto, hubVars, supVars, Counts, Entered,
         HolderPcs
  <1>8. ASSUME Disable(c) PROVE Counts(c)
    BY <1>1, <1>2, AskedFacts, <1>8 DEF Disable, Goto, hubVars, supVars, Counts, Entered, HolderPcs
  <1>9. ASSUME Refused(c) PROVE Counts(c)
    BY <1>1, <1>2, <1>9 DEF Refused, Goto, hubVars, supVars, Counts, Entered, HolderPcs
  <1>10. ASSUME Scanned(c) PROVE Counts(c)
    BY <1>1, <1>2, <1>10 DEF Scanned, Goto, hubVars, supVars, Counts, Entered, HolderPcs
  <1>11. ASSUME NextRow(c) PROVE Counts(c)
    BY <1>1, <1>2, <1>11 DEF NextRow, Queue, hubVars, supVars, Goto, Counts, Entered, HolderPcs
  <1>12. ASSUME RowsDone(c) PROVE Counts(c)
    BY <1>1, <1>2, <1>12 DEF RowsDone, Goto, hubVars, supVars, Counts, Entered, HolderPcs
  <1>13. ASSUME NextRest(c) PROVE Counts(c)
    BY <1>1, <1>2, <1>13 DEF NextRest, Goto, hubVars, supVars, Counts, Entered, HolderPcs
  <1>14. ASSUME RestDone(c) PROVE Counts(c)
    BY <1>1, <1>2, <1>14 DEF RestDone, Goto, hubVars, supVars, Counts, Entered, HolderPcs
  <1>15. ASSUME Known(c) PROVE Counts(c)
    BY <1>1, <1>2, <1>15 DEF Known, Goto, hubVars, supVars, Adds, Counts, Entered, HolderPcs
  <1>16. ASSUME Register(c) PROVE Counts(c)
    BY <1>1, <1>2, <1>16 DEF Register, Goto, supVars, Adds, Counts, Entered, HolderPcs
  <1>17. ASSUME RegisterRefused(c) PROVE Counts(c)
    BY <1>1, <1>2, <1>17 DEF RegisterRefused, Goto, supVars, Adds, Counts, Entered, HolderPcs
  <1>18. ASSUME Relink(c) PROVE Counts(c)
    BY <1>1, <1>2, <1>18 DEF Relink, Goto, hubVars, supVars, Plain, Broken, Counts, Entered,
         HolderPcs
  <1>19. ASSUME LinkUp(c) PROVE Counts(c)
    BY <1>1, <1>2, <1>19 DEF LinkUp, Goto, supVars, Counts, Entered, HolderPcs
  <1>20. ASSUME RelinkUp(c) PROVE Counts(c)
    BY <1>1, <1>2, <1>20 DEF RelinkUp, Goto, supVars, Counts, Entered, HolderPcs
  <1>21. ASSUME EnrichRenames(c) PROVE Counts(c)
    BY <1>1, <1>2, <1>21 DEF EnrichRenames, Enriched, supVars, Goto, Counts, Entered, HolderPcs
  <1>22. ASSUME EnrichKeeps(c) PROVE Counts(c)
    BY <1>1, <1>2, <1>22 DEF EnrichKeeps, Enriched, hubVars, supVars, Goto, Counts, Entered,
         HolderPcs
  <1>23. ASSUME DisconnectStarts(c) PROVE Counts(c)
    BY <1>1, <1>2, <1>23 DEF DisconnectStarts, Goto, hubVars, supVars, Counts, Entered, HolderPcs
  <1>24. ASSUME DisconnectLands(c) PROVE Counts(c)
    BY <1>1, <1>2, <1>24 DEF DisconnectLands, Goto, supVars, Counts, Entered, HolderPcs
  <1>25. ASSUME RemoveStarts(c) PROVE Counts(c)
    BY <1>1, <1>2, <1>25 DEF RemoveStarts, Goto, Forgets, Counts, Entered, HolderPcs
  <1>26. ASSUME RemoveLands(c) PROVE Counts(c)
    BY <1>1, <1>2, <1>26 DEF RemoveLands, Goto, Forgets, Counts, Entered, HolderPcs
  <1>27. ASSUME CloseOne(c) PROVE Counts(c)
    BY <1>1, <1>2, <1>27 DEF CloseOne, supVars, Counts, Entered, HolderPcs
  <1>28. ASSUME LinkFails(c) PROVE Counts(c)
    BY <1>1, <1>2, <1>28 DEF LinkFails, Goto, hubVars, supVars, Broken, Counts, Entered, HolderPcs
  <1>29. ASSUME EnrichFails(c) PROVE Counts(c)
    BY <1>1, <1>2, <1>29 DEF EnrichFails, Enriched, hubVars, supVars, Goto, Counts, Entered,
         HolderPcs
  <1>30. QED
    BY <1>3, <1>4, <1>5, <1>6, <1>7, <1>8, <1>9, <1>10, <1>11, <1>12, <1>13, <1>14, <1>15, <1>16,
       <1>17, <1>18, <1>19, <1>20, <1>21, <1>22, <1>23, <1>24, <1>25, <1>26, <1>27, <1>28, <1>29
       DEF Steps, Arrivals, CallSteps

-----------------------------------------------------------------------------
(* The queue holds exactly those that are at the lock *)

LEMMA LockCall ==
  ASSUME TypeOK, LockLive, NEW c \in Calls, Apart(c), Joins(c) \/ Leaves(c) \/ Moves(c)
  PROVE  LockLive'
  <1> DEFINE S == Calls \cup {Sup}
             A == {d \in Calls : pc[d] \in AtLockPcs}
             B == {d \in Calls : pc'[d] \in AtLockPcs}
             R == IF sup \in AtLockSup THEN {Sup} ELSE {}
  <1>1. /\ lock \in Seq(S) /\ IsInjective(lock) /\ Range(lock) = A \cup R /\ A = AtLock
        /\ \A d \in Calls : pc[d] \in HolderPcs => HeldBy(lock, d)
        /\ sup = "link" => HeldBy(lock, Sup)
        /\ Sup \notin Calls /\ c \in S
    BY BleAssumption DEF TypeOK, LockLive, AtLock, AtLockPcs, HolderPcs, Holds
  <1>2. /\ sup' = sup /\ \A d \in Calls : d # c => pc'[d] = pc[d]
    BY DEF Apart, TypeOK
  <1> SUFFICES /\ IsInjective(lock') /\ Range(lock') = B \cup R
               /\ \A d \in Calls : pc'[d] \in HolderPcs => HeldBy(lock', d)
               /\ sup = "link" => HeldBy(lock', Sup)
    BY <1>2 DEF LockLive, AtLock, AtLockPcs, HolderPcs, Holds, AtLockSup
  <1>3. CASE Joins(c)
    <2>1. c \notin A /\ B = A \cup {c} /\ lock' = Append(lock, c) /\ pc'[c] \notin HolderPcs
      BY <1>1, <1>2, <1>3 DEF Joins, AtLockPcs, HolderPcs
    <2>2. c \notin Range(lock)
      BY <1>1, <2>1
    <2>3. /\ IsInjective(lock') /\ Range(lock') = Range(lock) \cup {c}
          /\ lock # <<>> => lock' # <<>> /\ Head(lock') = Head(lock)
      BY <1>1, <2>1, <2>2, JoinSeq
    <2>4. QED
      BY <1>1, <1>2, <2>1, <2>3 DEF HeldBy
  <1>4. CASE Leaves(c)
    <2>1. B = A \ {c} /\ lock' = Tail(lock) /\ pc'[c] \notin HolderPcs /\ lock # <<>> /\ Head(lock) = c
      BY <1>1, <1>2, <1>4 DEF Leaves, AtLockPcs, HolderPcs, Holds, HeldBy, Unlocked
    <2>2. IsInjective(lock') /\ Range(lock') = Range(lock) \ {c}
      BY <1>1, <2>1, TailSeq
    <2>3. QED
      BY <1>1, <1>2, <2>1, <2>2 DEF HeldBy
  <1>5. CASE Moves(c)
    <2>1. lock' = lock /\ A = B
      BY <1>1, <1>2, <1>5 DEF Moves
    <2>2. QED
      BY <1>1, <1>2, <1>5, <2>1 DEF Moves, Holds
  <1>6. QED
    BY <1>3, <1>4, <1>5

LEMMA LockStep ==
  ASSUME TypeOK, LockLive, [Next]_vars
  PROVE  LockLive'
  <1> DEFINE S == Calls \cup {Sup}
             A == {d \in Calls : pc[d] \in AtLockPcs}
             R == IF sup \in AtLockSup THEN {Sup} ELSE {}
  <1>1. /\ lock \in Seq(S) /\ IsInjective(lock) /\ Range(lock) = A \cup R
        /\ \A d \in Calls : pc[d] \in HolderPcs => HeldBy(lock, d)
        /\ sup = "link" => HeldBy(lock, Sup)
        /\ Sup \notin Calls /\ Sup \in S /\ A \subseteq Calls
    BY BleAssumption DEF TypeOK, LockLive, AtLock, AtLockPcs, HolderPcs, Holds
  <1>2. ASSUME NEW c \in Calls, Steps(c) PROVE LockLive'
    BY <1>2, CallQueue, LockCall
  \* from here on the calls stand still, but for one that closes the hub
  <1>3. ASSUME IsInjective(lock'),
               Range(lock') = A \cup (IF sup' \in AtLockSup THEN {Sup} ELSE {}),
               \A d \in Calls : pc[d] \in HolderPcs => HeldBy(lock', d),
               sup' = "link" => HeldBy(lock', Sup),
               \A d \in Calls : pc'[d] = pc[d] \/ {pc[d], pc'[d]} \cap AtLockPcs = {}
        PROVE  LockLive'
    <2>1. A = AtLock' /\ HolderPcs \subseteq AtLockPcs
      BY <1>3 DEF AtLock, AtLockPcs, HolderPcs
    <2>2. QED
      BY <1>3, <2>1 DEF LockLive, HolderPcs, Holds, AtLockSup
  <1>4. ASSUME lock' = lock, pc' = pc, (sup' = sup) \/ ({sup, sup'} \cap AtLockSup = {})
                                        \/ (sup = "lock" /\ sup' = "link" /\ Holds(Sup))
        PROVE  LockLive'
    BY <1>1, <1>3, <1>4 DEF AtLockSup, Holds
  <1>5. ASSUME pc' = pc, sup \notin AtLockSup, sup' \in {"lock", "battery"}, lock' = Append(lock, Sup)
        PROVE  LockLive'
    <2>1. /\ IsInjective(lock') /\ Range(lock') = A \cup {Sup}
          /\ lock # <<>> => lock' # <<>> /\ Head(lock') = Head(lock)
      BY <1>1, <1>5, JoinSeq
    <2>2. \A d \in Calls : pc[d] \in HolderPcs => HeldBy(lock', d)
      BY <1>1, <2>1 DEF HeldBy
    <2>3. QED
      BY <1>3, <1>5, <2>1, <2>2 DEF AtLockSup
  <1>6. ASSUME Holds(Sup), sup \in AtLockSup
        PROVE  /\ Unlocked \in Seq(S) /\ IsInjective(Unlocked) /\ Range(Unlocked) = A
               /\ \A d \in Calls : pc[d] \notin HolderPcs
    <2>1. lock # <<>> /\ Head(lock) = Sup
      BY <1>6 DEF Holds, HeldBy
    <2>2. /\ Unlocked \in Seq(S) /\ IsInjective(Unlocked) /\ Range(Unlocked) = (A \cup {Sup}) \ {Sup}
      BY <1>1, <1>6, <2>1, TailSeq DEF Unlocked
    <2>3. QED
      BY <1>1, <2>1, <2>2 DEF HeldBy
  <1>7. ASSUME pc' = pc, Holds(Sup), sup \in AtLockSup, sup' = "round", lock' = Unlocked
        PROVE  LockLive'
    BY <1>3, <1>6, <1>7 DEF AtLockSup
  <1>8. CASE SupLinkUp
    <2>1. sup = "link" /\ Holds(Sup) /\ pc' = pc /\ sup' = "battery" /\ lock' = Append(Unlocked, Sup)
      BY <1>1, <1>8 DEF SupLinkUp, callVars, Holds
    <2>2. /\ Unlocked \in Seq(S) /\ IsInjective(Unlocked) /\ Range(Unlocked) = A
          /\ \A d \in Calls : pc[d] \notin HolderPcs
      BY <1>6, <2>1 DEF AtLockSup
    <2>3. IsInjective(lock') /\ Range(lock') = A \cup {Sup}
      BY <1>1, <2>1, <2>2, JoinSeq
    <2>4. Range(lock') = A \cup (IF sup' \in AtLockSup THEN {Sup} ELSE {}) /\ sup' # "link"
      BY <2>1, <2>3 DEF AtLockSup
    <2>5. \A d \in Calls : pc[d] \in HolderPcs => HeldBy(lock', d)
      BY <2>2
    <2>6. QED
      BY <1>3, <2>1, <2>3, <2>4, <2>5
  <1>9. ASSUME NEW c \in Calls, Closed(c) PROVE LockLive'
    <2>1. /\ sup' = "off" /\ lock' = (IF sup \in AtLockSup THEN Without(lock, Sup) ELSE lock)
          /\ \A d \in Calls : pc'[d] = pc[d] \/ {pc[d], pc'[d]} \cap AtLockPcs = {}
      BY <1>9 DEF Closed, Goto, AtLockPcs, TypeOK
    <2>2. IsInjective(lock') /\ Range(lock') = A /\ \A d \in Calls : HeldBy(lock, d) => HeldBy(lock', d)
      <3>1. CASE sup \in AtLockSup
        <4>1. Sup \in Range(lock)
          BY <1>1, <3>1
        <4>2. /\ IsInjective(lock') /\ Range(lock') = Range(lock) \ {Sup}
              /\ Head(lock) # Sup => lock' # <<>> /\ Head(lock') = Head(lock)
          BY <1>1, <2>1, <3>1, <4>1, WithoutSeq
        <4>3. QED
          BY <1>1, <3>1, <4>2 DEF HeldBy
      <3>2. CASE sup \notin AtLockSup
        BY <1>1, <2>1, <3>2
      <3>3. QED
        BY <3>1, <3>2
    <2>3. QED
      BY <1>1, <1>3, <2>1, <2>2 DEF AtLockSup
  <1>10. CASE SupConnects
    <2>1. pc' = pc /\ sup = "lock" /\ Holds(Sup)
      BY <1>10 DEF SupConnects, callVars
    <2>2. CASE cur \in Registered
      BY <1>4, <1>10, <2>1, <2>2 DEF SupConnects
    <2>3. CASE cur \notin Registered
      BY <1>7, <1>10, <2>1, <2>3 DEF SupConnects, AtLockSup
    <2>4. QED
      BY <2>2, <2>3
  <1>11. CASE SupLinkFails
    BY <1>1, <1>7, <1>11 DEF SupLinkFails, callVars, AtLockSup, Holds
  <1>12. CASE SupBattery
    BY <1>7, <1>12 DEF SupBattery, callVars, AtLockSup
  <1>13. ASSUME NEW i \in Ids, VisitUp(i) PROVE LockLive'
    <2>1. sup = "round" /\ pc' = pc
      BY <1>13 DEF VisitUp, Visit, callVars
    <2>2. CASE Attend(i, "battery")
      BY <1>5, <2>1, <2>2 DEF Attend, AtLockSup
    <2>3. CASE UNCHANGED <<cur, own, sup, lock>>
      BY <1>4, <2>1, <2>3
    <2>4. QED
      BY <1>13, <2>2, <2>3 DEF VisitUp
  <1>14. ASSUME NEW i \in Ids, VisitDown(i) PROVE LockLive'
    BY <1>5, <1>14 DEF VisitDown, Visit, Attend, callVars, AtLockSup
  <1>15. ASSUME NEW i \in Ids, VisitIdle(i) \/ Elapse(i) PROVE LockLive'
    BY <1>4, <1>15 DEF VisitIdle, Elapse, callVars, supVars
  <1>16. CASE RoundBegins \/ RoundEnds
    BY <1>4, <1>16 DEF RoundBegins, RoundEnds, callVars, AtLockSup
  <1>17. CASE LinkDrops \/ UNCHANGED vars
    BY <1>4, <1>17 DEF LinkDrops, callVars, supVars, vars
  <1>18. QED
    BY <1>2, <1>8, <1>9, <1>10, <1>11, <1>12, <1>13, <1>14, <1>15, <1>16, <1>17
       DEF Next, Steps, SupVisits, SupWakes, Failures

-----------------------------------------------------------------------------
(* The links *)

LEMMA DownStep ==
  ASSUME TypeOK, TypeOK', LockLive, Down, [Next]_vars
  PROVE  Down'
  <1>1. /\ \A i \in Ids : i \notin Registered => ~up[i]
        /\ \A c \in Calls : pc[c] \in {"link", "relink"} => at[c] \in Registered
        /\ sup = "link" => cur \in Registered
        /\ Entered = Registered'
    BY DEF Down, Entered, Registered
  <1>2. /\ up \in [Ids -> BOOLEAN] /\ Sup \notin Calls /\ cur \in Ids
        /\ \A c \in Calls : pc[c] \in HolderPcs => Holds(c)
        /\ sup = "link" => Holds(Sup)
    BY BleAssumption DEF TypeOK, LockLive, HolderPcs
  <1>3. ASSUME NEW c \in Calls, Steps(c) PROVE Down'
    <2>1. Apart(c) /\ Counts(c)
      BY <1>3, CallQueue, CallLinks
    <2>2. \A i \in Ids : i \notin Registered' => ~up'[i]
      BY <1>1, <2>1 DEF Counts
    <2>3. ASSUME NEW d \in Calls, pc'[d] \in {"link", "relink"} PROVE at'[d] \in Registered'
      <3>1. CASE d = c
        BY <1>1, <2>1, <2>3, <3>1 DEF Counts
      <3>2. CASE d # c
        <4>1. pc[d] \in {"link", "relink"} /\ at'[d] = at[d]
          BY <2>1, <2>3, <3>2 DEF Apart, TypeOK
        <4>2. Holds(d) /\ ~Holds(c)
          BY <1>2, <3>2, <4>1 DEF Holds, HeldBy, HolderPcs
        <4>3. QED
          BY <1>1, <2>1, <4>1, <4>2 DEF Counts
      <3>3. QED
        BY <3>1, <3>2
    <2>4. sup' = "link" => cur' \in Registered'
      <3>1. sup = "link" => ~Holds(c)
        BY <1>2 DEF Holds, HeldBy
      <3>2. QED
        BY <1>1, <2>1, <3>1 DEF Counts, Apart
    <2>5. QED
      BY <2>2, <2>3, <2>4 DEF Down
  <1>4. ASSUME entry' = entry, at' = at,
               \A c \in Calls : pc'[c] = pc[c] \/ pc'[c] = "done",
               \A i \in Ids : up'[i] => up[i] \/ i \in Registered,
               sup' = "link" => cur' \in Registered
        PROVE  Down'
    BY <1>1, <1>4 DEF Down, Registered
  <1>5. ASSUME NEW c \in Calls, Closed(c) PROVE Down'
    BY <1>1, <1>4, <1>5 DEF Closed, Goto, TypeOK
  <1>6. CASE SupLinkUp
    BY <1>1, <1>2, <1>4, <1>6 DEF SupLinkUp, callVars
  <1>7. CASE SupConnects
    BY <1>1, <1>4, <1>7 DEF SupConnects, hubVars, callVars
  <1>8. CASE LinkDrops
    BY <1>1, <1>2, <1>4, <1>8 DEF LinkDrops, callVars, supVars
  <1>9. CASE SupLinkFails \/ SupBattery \/ RoundBegins \/ RoundEnds
    BY <1>1, <1>4, <1>9 DEF SupLinkFails, SupBattery, RoundBegins, RoundEnds, hubVars, callVars
  <1>10. ASSUME NEW i \in Ids, VisitUp(i) \/ VisitIdle(i) \/ VisitDown(i) PROVE Down'
    BY <1>1, <1>4, <1>10 DEF VisitUp, VisitIdle, VisitDown, Visit, Attend, hubVars, callVars
  <1>11. ASSUME NEW i \in Ids, Elapse(i) PROVE Down'
    BY <1>1, <1>4, <1>11 DEF Elapse, hubVars, callVars, supVars
  <1>12. CASE UNCHANGED vars
    BY <1>1, <1>4, <1>12 DEF vars
  <1>13. QED
    BY <1>3, <1>5, <1>6, <1>7, <1>8, <1>9, <1>10, <1>11, <1>12
       DEF Next, Steps, SupVisits, SupWakes, Failures

-----------------------------------------------------------------------------
(* The pauses *)

(* Only a disconnect pauses: every other step keeps the pauses or lifts them. *)
LEMMA OthersPause ==
  ASSUME TypeOK, Next, ~\E c \in Calls : Steps(c)
  PROVE  \A i \in Ids : st'[i].paused => st[i].paused
  <1>1. st \in [Ids -> State] /\ cur \in Ids
    BY DEF TypeOK
  <1>2. \A i \in Ids : /\ Kept[i].paused => st[i].paused
                       /\ BackedOff[i].paused => st[i].paused
                       /\ Reached[i].paused => st[i].paused
    BY StateFacts
  <1>3. ASSUME NEW c \in Calls, Closed(c) PROVE st' = st
    BY <1>3 DEF Closed
  <1>4. CASE RoundBegins
    BY <1>2, <1>4 DEF RoundBegins
  <1>5. CASE SupConnects \/ SupLinkUp \/ SupLinkFails
    BY <1>2, <1>5 DEF SupConnects, SupLinkUp, SupLinkFails
  <1>6. CASE RoundEnds \/ SupBattery \/ LinkDrops \/ UNCHANGED vars
    BY <1>6 DEF RoundEnds, SupBattery, LinkDrops, vars
  <1>7. ASSUME NEW i \in Ids, VisitUp(i) \/ VisitIdle(i) \/ VisitDown(i)
        PROVE  \A j \in Ids : st'[j].paused => st[j].paused
    BY <1>7, VisitFacts
  <1>8. ASSUME NEW i \in Ids, Elapse(i)
        PROVE  \A j \in Ids : st'[j].paused => st[j].paused
    BY <1>1, <1>8 DEF Elapse, State
  <1>9. QED
    BY <1>3, <1>4, <1>5, <1>6, <1>7, <1>8 DEF Next, Steps, SupVisits, SupWakes, Failures

LEMMA WatchedStep ==
  ASSUME TypeOK, LockLive, Down, Watched, Overtaken, [Next]_vars
  PROVE  Watched'
  <1>1. up \in [Ids -> BOOLEAN] /\ cur \in Ids /\ pc \in [Calls -> Pcs]
    BY DEF TypeOK, Pcs
  <1>2. ASSUME NEW c \in Calls, Steps(c) PROVE Watched'
    <2>1. Apart(c) /\ (Joins(c) \/ Leaves(c) \/ Moves(c)) /\ Pauses(c)
      BY <1>2, CallQueue, CallPauses
    <2>2. SUFFICES ASSUME NEW i \in Ids, st'[i].paused, up'[i]
                   PROVE  \E d \in Calls : Ends(d, i)'
      BY DEF Watched
    <2>3. CASE Pausing(c, i)
      BY <2>3 DEF Pausing, Ends
    <2>4. CASE pc'[c] = "enrich" /\ at'[c] = i
      BY <2>4 DEF Ends
    <2>5. CASE st[i].paused /\ up[i]
      <3>1. PICK d \in Calls : Ends(d, i)
        BY <2>5 DEF Watched
      <3>2. CASE d = c
        BY <2>1, <2>2, <3>1, <3>2 DEF Pauses, Ends
      <3>3. CASE d # c
        BY <1>1, <2>1, <3>1, <3>3 DEF Apart, Ends
      <3>4. QED
        BY <3>2, <3>3
    <2>6. QED
      BY <2>1, <2>2, <2>3, <2>4, <2>5 DEF Pauses
  <1>3. ASSUME ask' = ask, at' = at, \A c \in Calls : pc'[c] = pc[c] \/ pc[c] = "close",
               \A i \in Ids : st'[i].paused => st[i].paused,
               \A i \in Ids : up'[i] => up[i]
        PROVE  Watched'
    BY <1>3 DEF Watched, Ends
  <1>4. CASE SupLinkUp
    <2>1. /\ ask' = ask /\ at' = at /\ pc' = pc /\ sup = "link"
          /\ \A i \in Ids : st'[i].paused => st[i].paused
          /\ \A i \in Ids : up'[i] => up[i] \/ i = cur
      BY <1>1, <1>4, StateFacts DEF SupLinkUp, callVars
    <2>2. SUFFICES ASSUME NEW i \in Ids, st[i].paused, up'[i] PROVE \E c \in Calls : Ends(c, i)
      BY <2>1 DEF Watched, Ends
    <2>3. CASE i = cur
      BY <2>1, <2>2, <2>3 DEF Overtaken, Ends
    <2>4. CASE i # cur
      BY <2>1, <2>2, <2>4 DEF Watched
    <2>5. QED
      BY <2>3, <2>4
  <1>5. ASSUME NEW c \in Calls, Closed(c) PROVE Watched'
    BY <1>1, <1>3, <1>5 DEF Closed, Goto
  <1>6. CASE UNCHANGED vars
    BY <1>3, <1>6 DEF vars
  <1>7. ASSUME Next, ~\E c \in Calls : Steps(c), ask' = ask, at' = at, pc' = pc,
               \A i \in Ids : up'[i] => up[i]
        PROVE  Watched'
    BY <1>3, <1>7, OthersPause
  <1>8. CASE LinkDrops
    <2>1. \A i \in Ids : up'[i] => up[i]
      BY <1>1, <1>8 DEF LinkDrops
    <2>2. QED
      BY <1>3, <1>8, <2>1 DEF LinkDrops, callVars
  <1>9. ASSUME SupVisits \/ RoundBegins \/ SupConnects \/ SupBattery \/ SupLinkFails
               \/ \E i \in Ids : Elapse(i)
        PROVE  ask' = ask /\ at' = at /\ pc' = pc /\ up' = up
    BY <1>9 DEF SupVisits, VisitUp, VisitIdle, VisitDown, RoundBegins, RoundEnds, SupConnects,
         SupBattery, SupLinkFails, Elapse, hubVars, callVars
  <1>10. QED
    BY <1>2, <1>4, <1>5, <1>6, <1>7, <1>8, <1>9 DEF Next, Steps, SupWakes, Failures

LEMMA OvertakenStep ==
  ASSUME TypeOK, LockLive, Overtaken, Down, [Next]_vars
  PROVE  Overtaken'
  <1> DEFINE S == Calls \cup {Sup}
  <1>1. /\ lock \in Seq(S) /\ IsInjective(lock) /\ Sup \notin Calls /\ cur \in Ids /\ Sup \in S
        /\ sup \in {"lock", "link"} => Sup \in Range(lock)
        /\ \A d \in Calls : pc[d] = "lock" => d \in AtLock
        /\ pc \in [Calls -> Pcs]
    BY BleAssumption DEF TypeOK, LockLive, AtLockSup, AtLock, Pcs
  <1>2. ASSUME NEW c \in Calls, Steps(c) PROVE Overtaken'
    <2>1. Apart(c) /\ (Joins(c) \/ Leaves(c) \/ Moves(c)) /\ Pauses(c)
      BY <1>2, CallQueue, CallPauses
    <2>2. SUFFICES ASSUME sup \in {"lock", "link"}, st'[cur].paused
                   PROVE  \E d \in Calls : /\ pc'[d] = "lock" /\ ask'[d].op = "disconnect"
                                           /\ at'[d] = cur /\ Behind(lock', Sup, d)
      BY <2>1 DEF Overtaken, Apart
    <2>3. CASE st[cur].paused
      <3>1. PICK d \in Calls : /\ pc[d] = "lock" /\ ask[d].op = "disconnect" /\ at[d] = cur
                               /\ Behind(lock, Sup, d)
        BY <2>2, <2>3 DEF Overtaken
      <3>2. d # c
        <4>1. lock # <<>> => Head(lock) # d
          BY <1>1, <3>1, BehindTail
        <4>2. ~Holds(d)
          BY <4>1 DEF Holds, HeldBy
        <4>3. QED
          BY <2>1, <3>1, <4>2 DEF Pauses
      <3>3. pc'[d] = "lock" /\ ask'[d] = ask[d] /\ at'[d] = cur
        BY <1>1, <2>1, <3>1, <3>2 DEF Apart
      <3>4. Behind(lock', Sup, d)
        <4>1. CASE Joins(c)
          BY <1>1, <3>1, <4>1, BehindJoin DEF Joins
        <4>2. CASE Leaves(c)
          <5>1. lock # <<>> /\ Head(lock) # Sup
            BY <1>1, <4>2 DEF Leaves, Holds, HeldBy
          <5>2. QED
            BY <1>1, <3>1, <4>2, <5>1, BehindTail DEF Leaves, Unlocked
        <4>3. CASE Moves(c)
          BY <3>1, <4>3 DEF Moves
        <4>4. QED
          BY <2>1, <4>1, <4>2, <4>3
      <3>5. QED
        BY <3>1, <3>3, <3>4
    <2>4. CASE ~st[cur].paused
      <3>1. Pausing(c, cur)
        BY <1>1, <2>1, <2>2, <2>4 DEF Pauses
      <3>2. lock' = Append(lock, c)
        BY <2>1, <3>1 DEF Pausing, Joins, Leaves, Moves, AtLockPcs
      <3>3. Behind(lock', Sup, c)
        BY <1>1, <2>2, <3>2, BehindJoin
      <3>4. QED
        BY <3>1, <3>3 DEF Pausing
    <2>5. QED
      BY <2>3, <2>4
  <1>3. ASSUME sup' \notin {"lock", "link"} PROVE Overtaken'
    BY <1>3 DEF Overtaken
  <1>4. ASSUME callVars' = callVars, lock' = lock, cur' = cur, sup \in {"lock", "link"} \/ sup' = sup,
               st'[cur].paused => st[cur].paused
        PROVE  Overtaken'
    BY <1>4 DEF Overtaken, callVars
  <1>5. ASSUME NEW i \in Ids, VisitUp(i) PROVE Overtaken'
    BY <1>3, <1>5 DEF VisitUp, Visit, Attend
  <1>6. ASSUME NEW i \in Ids, VisitDown(i) PROVE Overtaken'
    <2>1. ~st[i].paused /\ cur' = i /\ st'[i].paused = st[i].paused
      BY <1>6, VisitFacts DEF VisitDown, MayTry, Attend
    <2>2. QED
      BY <2>1 DEF Overtaken
  <1>7. ASSUME NEW i \in Ids, VisitIdle(i) PROVE Overtaken'
    BY <1>3, <1>7 DEF VisitIdle, Visit
  <1>8. CASE SupConnects
    BY <1>3, <1>4, <1>8 DEF SupConnects
  <1>9. ASSUME NEW i \in Ids, Elapse(i) PROVE Overtaken'
    <2>1. st'[cur].paused => st[cur].paused
      BY <1>1, <1>9 DEF Elapse, TypeOK, State
    <2>2. QED
      BY <1>4, <1>9, <2>1 DEF Elapse, supVars
  <1>10. CASE LinkDrops
    BY <1>4, <1>10 DEF LinkDrops, supVars
  <1>11. CASE UNCHANGED vars
    BY <1>4, <1>11 DEF vars, callVars
  <1>12. ASSUME NEW c \in Calls, Closed(c) PROVE Overtaken'
    BY <1>3, <1>12 DEF Closed
  <1>13. CASE RoundBegins \/ RoundEnds \/ SupLinkUp \/ SupLinkFails \/ SupBattery
    BY <1>3, <1>13 DEF RoundBegins, RoundEnds, SupLinkUp, SupLinkFails, SupBattery
  <1>14. QED
    BY <1>2, <1>5, <1>6, <1>7, <1>8, <1>9, <1>10, <1>11, <1>12, <1>13
       DEF Next, Steps, SupVisits, SupWakes, Failures

-----------------------------------------------------------------------------
(* The theorems *)

LEMMA IInvInit == Init => IInv
  <1> SUFFICES ASSUME Init PROVE IInv
    OBVIOUS
  <1>1. TypeOK
    BY TypeInit
  <1>2. /\ \A c \in Calls : pc[c] = "idle" /\ sup = "sleep" /\ lock = <<>>
        /\ \A i \in Ids : ~up[i]
    BY DEF Init
  <1>3. lock = <<>> /\ sup = "sleep"
    BY DEF Init
  <1>4. Range(lock) = {} /\ IsInjective(lock) /\ AtLock = {}
    <2>1. DOMAIN lock = {}
      BY <1>3
    <2>2. QED
      BY <1>2, <2>1 DEF Range, IsInjective, AtLock
  <1>5. LockLive
    BY <1>2, <1>3, <1>4 DEF LockLive, AtLockSup
  <1>6. Down /\ Watched /\ Overtaken
    BY <1>2, <1>3 DEF Down, Watched, Overtaken
  <1>7. QED
    BY <1>1, <1>5, <1>6 DEF IInv

LEMMA IInvStep == IInv /\ [Next]_vars => IInv'
  BY TypeStep, LockStep, DownStep, WatchedStep, OvertakenStep DEF IInv

(* IInv holds in every state.                                               *)
THEOREM Invariance == Spec => []IInv
  BY IInvInit, IInvStep, PTL DEF Spec

(* Every variable keeps its type.                                            *)
THEOREM TypeCorrect == Spec => []TypeOK
  BY Invariance, PTL DEF IInv

(* The queue of ble_lock holds exactly the requests and the attempt that are *)
(* at it, each once, and who works on a link has the lock.                   *)
THEOREM LockIsLive == Spec => []LockLive
  BY Invariance, PTL DEF IInv

(* A toy the user has disconnected stays down once no request for it is in   *)
(* flight, whatever attempt of the supervisor the disconnect overtook.       *)
THEOREM PausedStaysDown == Spec => []PausedIsDown
  <1>1. IInv => PausedIsDown
    <2>1. \A c \in Calls, i \in Ids : Ends(c, i) => Busy(i)
      BY DEF Ends, Busy, AtLock
    <2>2. QED
      BY <2>1 DEF IInv, Watched, PausedIsDown
  <1>2. QED
    BY <1>1, Invariance, PTL

(* An attempt brings up a toy that has been paused meanwhile only when the   *)
(* disconnect that paused it still waits, to take it down again.             *)
THEOREM PauseIsLast == Spec => PauseWins
  <1> DEFINE Pair == \A i \in Ids :
        (sup = "link" /\ sup' = "battery" /\ cur = i /\ st[i].paused) =>
          \E c \in Calls : pc[c] = "lock" /\ ask[c].op = "disconnect" /\ at[c] = i
  <1>1. IInv => Pair
    BY DEF IInv, Overtaken
  <1>2. QED
    BY <1>1, Invariance, PTL DEF PauseWins
=============================================================================
