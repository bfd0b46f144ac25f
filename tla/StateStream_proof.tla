-------------------------- MODULE StateStream_proof --------------------------
(***************************************************************************)
(* Theorems about StateStream, for every set of sockets and of ids and     *)
(* every bound.                                                            *)
(***************************************************************************)
EXTENDS StateStream, SequenceTheorems, TLAPS

-----------------------------------------------------------------------------
(* The queue of a lock *)

(* Joining the queue of a lock adds one member, keeps the holder and queues  *)
(* nobody twice.                                                             *)
LEMMA JoinSeq ==
  ASSUME NEW S, NEW q \in Seq(S), NEW a \in S, IsInjective(q), a \notin Range(q)
  PROVE  LET p == Append(q, a) IN
         /\ p \in Seq(S) /\ IsInjective(p) /\ p # <<>>
         /\ Range(p) = Range(q) \cup {a}
         /\ q # <<>> => Head(p) = Head(q)
  <1> DEFINE p == Append(q, a)
  <1>1. /\ p \in Seq(S) /\ p # <<>> /\ DOMAIN p = DOMAIN q \cup {Len(q) + 1} /\ p[Len(q) + 1] = a
        /\ Len(q) + 1 \notin DOMAIN q /\ \A i \in DOMAIN q : p[i] = q[i]
        /\ q # <<>> => Head(p) = Head(q)
    BY AppendProperties, HeadTailAppend
  <1> HIDE DEF p
  <1>2. IsInjective(p) /\ Range(p) = Range(q) \cup {a}
    BY <1>1 DEF IsInjective, Range
  <1> QED BY <1>1, <1>2 DEF p

(* Releasing the lock removes its holder, and only it.                       *)
LEMMA TailSeq ==
  ASSUME NEW S, NEW q \in Seq(S), q # <<>>, IsInjective(q)
  PROVE  LET p == Tail(q) IN
         /\ p \in Seq(S) /\ IsInjective(p)
         /\ Range(p) = Range(q) \ {Head(q)}
  <1> DEFINE p == Tail(q)
  <1>1. /\ p \in Seq(S) /\ Head(q) = q[1] /\ \A i \in DOMAIN p : i + 1 \in DOMAIN q \ {1} /\ p[i] = q[i + 1]
        /\ \A j \in DOMAIN q \ {1} : j - 1 \in DOMAIN p /\ q[j] = p[j - 1]
        /\ 1 \in DOMAIN q /\ DOMAIN p \subseteq Nat
    BY HeadTailProperties
  <1> HIDE DEF p
  <1>2. IsInjective(p) /\ Range(p) = Range(q) \ {Head(q)}
    BY <1>1 DEF IsInjective, Range
  <1> QED BY <1>1, <1>2 DEF p

-----------------------------------------------------------------------------
(* The inductive invariant *)

InLock == {"queue", "ask", "answer"}

\* the queue of a cache's lock holds the readers that are in its get()
Queued ==
  /\ \A v \in Viewers : pc[v] \in InLock => v \in Range(caches[gen[v]].queue)
  /\ \A g \in Gens : \A v \in Range(caches[g].queue) : gen[v] = g /\ pc[v] \in InLock

\* whoever reads the toys holds the lock
Locked == \A v \in Viewers : pc[v] \in {"ask", "answer"} => Holds(v)

\* a refresh that was taken up is answered by a read that began after it
Taken ==
  \A v \in Viewers : /\ floor[v] <= toys
                     /\ pc[v] = "answer" => floor[v] <= got[v] /\ got[v] <= toys

\* no reader is in the get() of a cache that is not there yet
Reached == \A v \in Viewers : gen[v] <= cur

\* what the viewers have been shown, or are about to be, is no newer than n
ShownTo(v, n) ==
  /\ last[v] # None => last[v].toys <= n
  /\ pc[v] = "send" => snap[v].toys <= n
ShownBy(n) == \A v \in Viewers : ShownTo(v, n)

\* While the first cache serves: what was shown is no newer than what it keeps, nor than the
\* answer a reader holds, which is no older than what the cache keeps.
Ordered ==
  cur = 0 =>
    LET kept == caches[0].value IN
    /\ ShownBy(toys)
    /\ kept # None => kept <= toys
    /\ kept \notin {None, Empty} => ShownBy(kept)
    /\ \A v \in Viewers : pc[v] = "answer" => ShownBy(got[v]) /\ (kept # None => kept <= got[v])

\* and the frame that is about to be sent is no older than the last one, or empty
Onward ==
  cur = 0 =>
    \A v \in Viewers : pc[v] = "send" =>
      /\ snap[v] \in States
      /\ last[v] # None => snap[v].toys >= last[v].toys \/ snap[v].toys = Empty

\* the caches, with the queues of their locks
CachesOK == caches \in [Gens -> Caches] /\ \A g \in Gens : IsInjective(caches[g].queue)

IInv == TypeOK /\ Queued /\ Locked /\ Taken /\ RefreshIsFresh

-----------------------------------------------------------------------------
(* The operators *)

LEMMA Bounds == MaxToys \in Nat \ {0} /\ MaxOdd \in Nat /\ Heartbeat \in Nat \ {0} /\ 0 \in Gens
  BY BoundAssumption DEF Gens

LEMMA Smaller ==
  ASSUME NEW a \in Nat, NEW b \in Nat
  PROVE  Min({a, b}) = IF a <= b THEN a ELSE b
  <1> DEFINE low == IF a <= b THEN a ELSE b
  <1>1. low \in {a, b} /\ \A y \in {a, b} : low <= y
    OBVIOUS
  <1>2. \A x \in {a, b} : (\A y \in {a, b} : x <= y) => x = low
    OBVIOUS
  <1> HIDE DEF low
  <1>3. Min({a, b}) = low
    BY <1>1, <1>2 DEF Min
  <1>4. QED
    BY <1>3 DEF low

LEMMA IdledFacts ==
  ASSUME NEW i \in 0 .. Heartbeat
  PROVE  Idled(i, TRUE) \in 0 .. Heartbeat /\ Idled(i, FALSE) \in 0 .. Heartbeat
  <1>1. i + 1 \in Nat /\ Heartbeat \in Nat
    BY Bounds
  <1>2. Min({i + 1, Heartbeat}) = IF i + 1 <= Heartbeat THEN i + 1 ELSE Heartbeat
    BY <1>1, Smaller
  <1>3. QED
    BY <1>1, <1>2 DEF Idled

(* The lock of a cache, once its holder has left. *)
LEMMA LeftFacts ==
  ASSUME TypeOK, NEW v \in Viewers, NEW c \in Caches, IsInjective(c.queue), HeldBy(c.queue, v)
  PROVE  /\ Left(v, c) \in Caches /\ IsInjective(Left(v, c).queue)
         /\ Range(Left(v, c).queue) = Range(c.queue) \ {v}
         /\ gen[v] = cur => Left(v, c).value = c.value
  <1>1. c.queue \in Seq(Viewers) /\ c.queue # <<>> /\ Head(c.queue) = v
    BY DEF Caches, HeldBy
  <1>2. /\ Tail(c.queue) \in Seq(Viewers) /\ IsInjective(Tail(c.queue))
        /\ Range(Tail(c.queue)) = Range(c.queue) \ {v}
    BY <1>1, TailSeq
  <1>3. CASE gen[v] # cur /\ Len(c.queue) = 1
    <2>1. Left(v, c) = NoCache
      BY <1>3 DEF Left
    <2>2. NoCache \in Caches /\ NoCache.queue = <<>> /\ <<>> \in Seq(Viewers)
      BY DEF NoCache, Caches
    <2>3. Tail(c.queue) = <<>>
      <3>1. Len(Tail(c.queue)) = 0
        BY <1>1, <1>3, HeadTailProperties
      <3>2. QED
        BY <1>2, <3>1, EmptySeq
    <2>4. QED
      BY <1>2, <1>3, <2>1, <2>2, <2>3
  <1>4. CASE ~(gen[v] # cur /\ Len(c.queue) = 1)
    <2>1. Left(v, c) = [c EXCEPT !.queue = Tail(@)]
      BY <1>4 DEF Left
    <2>2. /\ Left(v, c) \in Caches /\ Left(v, c).queue = Tail(c.queue)
          /\ Left(v, c).value = c.value
      BY <1>2, <2>1 DEF Caches
    <2>3. QED
      BY <1>2, <2>2
  <1>5. QED
    BY <1>3, <1>4

-----------------------------------------------------------------------------
(* The locks of the caches: a reader joins, the holder leaves, or neither *)

LEMMA Joins ==
  ASSUME TypeOK, Queued, Locked, NEW v \in Viewers, pc[v] \notin InLock,
         caches' = [caches EXCEPT ![cur].queue = Append(@, v)],
         gen' = [gen EXCEPT ![v] = cur], pc' = [pc EXCEPT ![v] = "queue"]
  PROVE  CachesOK' /\ Queued' /\ Locked'
  <1> DEFINE q == caches[cur].queue
             p == Append(q, v)
  <1>1. /\ caches \in [Gens -> Caches] /\ cur \in Gens /\ gen \in [Viewers -> Gens]
        /\ pc \in [Viewers -> Places] /\ \A g \in Gens : IsInjective(caches[g].queue)
    BY DEF TypeOK
  <1>2. q \in Seq(Viewers) /\ caches[cur] \in Caches
    BY <1>1 DEF Caches
  <1>3. v \notin Range(q)
    BY <1>1 DEF Queued
  <1>4. /\ p \in Seq(Viewers) /\ IsInjective(p) /\ p # <<>> /\ Range(p) = Range(q) \cup {v}
        /\ q # <<>> => Head(p) = Head(q)
    BY <1>1, <1>2, <1>3, JoinSeq
  <1>5. /\ caches'[cur] = [caches[cur] EXCEPT !.queue = p] /\ DOMAIN caches' = Gens
        /\ \A g \in Gens : g # cur => caches'[g] = caches[g]
        /\ caches' = [g \in Gens |-> caches'[g]]
    BY <1>1
  <1> HIDE DEF p
  <1>6. /\ caches' \in [Gens -> Caches] /\ caches'[cur].queue = p
        /\ \A g \in Gens : g # cur => caches'[g] = caches[g]
    BY <1>1, <1>2, <1>4, <1>5 DEF Caches
  <1>7. /\ gen'[v] = cur /\ pc'[v] = "queue" /\ v \in Viewers
        /\ \A w \in Viewers : w # v => gen'[w] = gen[w] /\ pc'[w] = pc[w]
    BY <1>1
  <1>8. CachesOK'
    BY <1>1, <1>4, <1>6 DEF CachesOK
  <1>9. Queued'
    <2>1. ASSUME NEW w \in Viewers, pc'[w] \in InLock PROVE w \in Range(caches'[gen'[w]].queue)
      <3>1. CASE w = v
        BY <3>1, <1>4, <1>6, <1>7
      <3>2. CASE w # v
        <4>1. w \in Range(caches[gen[w]].queue) /\ gen'[w] = gen[w] /\ gen[w] \in Gens
          BY <2>1, <3>2, <1>1, <1>7 DEF Queued
        <4>2. QED
          BY <4>1, <1>4, <1>6
      <3>3. QED
        BY <3>1, <3>2
    <2>2. ASSUME NEW g \in Gens, NEW w \in Range(caches'[g].queue)
          PROVE  gen'[w] = g /\ pc'[w] \in InLock
      <3>1. CASE w = v /\ g = cur
        BY <3>1, <1>7 DEF InLock
      <3>2. CASE w # v \/ g # cur
        <4>1. w \in Range(caches[g].queue)
          BY <2>2, <3>2, <1>4, <1>6
        <4>2. gen[w] = g /\ pc[w] \in InLock /\ w # v
          BY <4>1 DEF Queued
        <4>3. w \in Viewers
          <5>1. caches[g].queue \in Seq(Viewers)
            BY <1>1 DEF Caches
          <5>2. QED
            BY <4>1, <5>1 DEF Range
        <4>4. QED
          BY <4>2, <4>3, <1>7
      <3>3. QED
        BY <3>1, <3>2
    <2>3. QED
      BY <2>1, <2>2 DEF Queued
  <1>10. Locked'
    <2>1. ASSUME NEW w \in Viewers, pc'[w] \in {"ask", "answer"}
          PROVE  HeldBy(caches'[gen'[w]].queue, w)
      <3>1. w # v /\ pc[w] \in {"ask", "answer"} /\ gen'[w] = gen[w] /\ gen[w] \in Gens
        BY <2>1, <1>1, <1>7
      <3>2. HeldBy(caches[gen[w]].queue, w)
        BY <3>1 DEF Locked, Holds
      <3>3. QED
        BY <3>1, <3>2, <1>4, <1>6 DEF HeldBy
    <2>2. QED
      BY <2>1 DEF Locked, Holds
  <1>11. QED
    BY <1>8, <1>9, <1>10

LEMMA Leaves ==
  ASSUME TypeOK, Queued, Locked, NEW v \in Viewers, Holds(v),
         NEW c \in Caches, c.queue = caches[gen[v]].queue, NEW x, x \notin InLock,
         caches' = [caches EXCEPT ![gen[v]] = Left(v, c)],
         gen' = [gen EXCEPT ![v] = 0], pc' = [pc EXCEPT ![v] = x]
  PROVE  CachesOK' /\ Queued' /\ Locked'
  <1> DEFINE h == gen[v]
             q == c.queue
             d == Left(v, c)
  <1>1. /\ caches \in [Gens -> Caches] /\ gen \in [Viewers -> Gens] /\ h \in Gens
        /\ pc \in [Viewers -> Places] /\ \A g \in Gens : IsInjective(caches[g].queue)
    BY DEF TypeOK
  <1>2. IsInjective(q) /\ HeldBy(q, v)
    BY <1>1 DEF Holds
  <1>3. d \in Caches /\ IsInjective(d.queue) /\ Range(d.queue) = Range(q) \ {v}
    BY <1>2, LeftFacts
  <1> HIDE DEF d
  <1>4. /\ caches' \in [Gens -> Caches] /\ caches'[h] = d
        /\ \A g \in Gens : g # h => caches'[g] = caches[g]
    BY <1>1, <1>3 DEF d
  <1>5. /\ pc'[v] \notin InLock
        /\ \A w \in Viewers : w # v => gen'[w] = gen[w] /\ pc'[w] = pc[w]
    BY <1>1
  <1>6. CachesOK'
    BY <1>1, <1>3, <1>4 DEF CachesOK
  <1>7. Queued'
    <2>1. ASSUME NEW w \in Viewers, pc'[w] \in InLock PROVE w \in Range(caches'[gen'[w]].queue)
      <3>1. w # v /\ w \in Range(caches[gen[w]].queue) /\ gen'[w] = gen[w] /\ gen[w] \in Gens
        BY <2>1, <1>1, <1>5 DEF Queued
      <3>2. QED
        BY <3>1, <1>3, <1>4
    <2>2. ASSUME NEW g \in Gens, NEW w \in Range(caches'[g].queue)
          PROVE  gen'[w] = g /\ pc'[w] \in InLock
      <3>1. w \in Range(caches[g].queue) /\ (g = h => w # v)
        BY <2>2, <1>3, <1>4
      <3>2. gen[w] = g /\ pc[w] \in InLock
        BY <3>1 DEF Queued
      <3>3. w \in Viewers
        <4>1. caches[g].queue \in Seq(Viewers)
          BY <1>1 DEF Caches
        <4>2. QED
          BY <3>1, <4>1 DEF Range
      <3>4. QED
        BY <3>1, <3>2, <3>3, <1>5
    <2>3. QED
      BY <2>1, <2>2 DEF Queued
  <1>8. Locked'
    <2>1. ASSUME NEW w \in Viewers, pc'[w] \in {"ask", "answer"}
          PROVE  HeldBy(caches'[gen'[w]].queue, w)
      <3>1. w # v /\ pc[w] \in {"ask", "answer"} /\ gen'[w] = gen[w] /\ gen[w] \in Gens
        BY <2>1, <1>1, <1>5 DEF InLock
      <3>2. HeldBy(caches[gen[w]].queue, w)
        BY <3>1 DEF Locked, Holds
      <3>3. gen[w] # h
        BY <3>1, <3>2, <1>2 DEF HeldBy
      <3>4. QED
        BY <3>1, <3>2, <3>3, <1>4
    <2>2. QED
      BY <2>1 DEF Locked, Holds
  <1>9. QED
    BY <1>6, <1>7, <1>8

LEMMA Waits ==
  ASSUME TypeOK, Queued, Locked, caches' \in [Gens -> Caches],
         \A g \in Gens : caches'[g].queue = caches[g].queue,
         \A w \in Viewers : /\ pc[w] \in InLock => gen'[w] = gen[w]
                            /\ pc'[w] \in InLock <=> pc[w] \in InLock
                            /\ pc'[w] \in {"ask", "answer"} =>
                                 pc[w] \in {"ask", "answer"} \/ Holds(w)
  PROVE  CachesOK' /\ Queued' /\ Locked'
  <1>1. gen \in [Viewers -> Gens] /\ caches \in [Gens -> Caches]
        /\ \A g \in Gens : IsInjective(caches[g].queue)
    BY DEF TypeOK
  <1>2. CachesOK'
    BY <1>1 DEF CachesOK
  <1>3. Queued'
    <2>1. ASSUME NEW w \in Viewers, pc'[w] \in InLock PROVE w \in Range(caches'[gen'[w]].queue)
      BY <2>1, <1>1 DEF Queued
    <2>2. ASSUME NEW g \in Gens, NEW w \in Range(caches'[g].queue)
          PROVE  gen'[w] = g /\ pc'[w] \in InLock
      <3>1. w \in Viewers /\ w \in Range(caches[g].queue)
        <4>1. caches[g].queue \in Seq(Viewers)
          BY <1>1 DEF Caches
        <4>2. QED
          BY <2>2, <4>1 DEF Range
      <3>2. QED
        BY <3>1 DEF Queued
    <2>3. QED
      BY <2>1, <2>2 DEF Queued
  <1>4. Locked'
    <2>1. ASSUME NEW w \in Viewers, pc'[w] \in {"ask", "answer"}
          PROVE  HeldBy(caches'[gen'[w]].queue, w)
      <3>1. Holds(w) /\ gen'[w] = gen[w] /\ gen[w] \in Gens
        BY <2>1, <1>1 DEF Locked, InLock
      <3>2. QED
        BY <3>1 DEF Holds
    <2>2. QED
      BY <2>1 DEF Locked, Holds
  <1>5. QED
    BY <1>2, <1>3, <1>4

(* What a reader is handed is a list of toys, and the cache it leaves behind has it. *)
LEMMA KeptFacts ==
  ASSUME TypeOK, NEW v \in Viewers, NEW list \in 0 .. MaxToys
  PROVE  LET c == [caches[gen[v]] EXCEPT !.value = list, !.young = TRUE] IN
         c \in Caches /\ c.queue = caches[gen[v]].queue /\ c.value = list
  <1>1. caches[gen[v]] \in Caches
    BY DEF TypeOK
  <1>2. QED
    BY <1>1 DEF Caches

(* The state that is built, and where the reader goes with it.                        *)
LEMMA BuiltFacts ==
  ASSUME NEW v \in Viewers, NEW list \in 0 .. MaxToys, Built(v, list), pc \in [Viewers -> Places]
  PROVE  /\ [toys |-> list, ids |-> Listed] \in States
         /\ gen' = [gen EXCEPT ![v] = 0] /\ got' = [got EXCEPT ![v] = Empty]
         /\ \E x \in {"send", "beat", "wait"} :
              /\ pc' = [pc EXCEPT ![v] = x]
              /\ x = "send" => snap' = [snap EXCEPT ![v] = [toys |-> list, ids |-> Listed]]
              /\ x # "send" => snap' = snap
  BY DEF Built, States, Listed

LEMMA LockBuild ==
  ASSUME TypeOK, Queued, Locked, NEW v \in Viewers, Build(v)
  PROVE  CachesOK' /\ Queued' /\ Locked'
  <1>0. /\ caches \in [Gens -> Caches] /\ cur \in Gens /\ gen \in [Viewers -> Gens]
        /\ pc \in [Viewers -> Places] /\ pc[v] \notin InLock
    BY DEF TypeOK, Build, InLock
  <1>1. CASE Served(caches[cur], force[v]) /\ Built(v, caches[cur].value) /\ UNCHANGED caches
    <2>1. caches[cur].value \in 0 .. MaxToys
      BY <1>0, <1>1 DEF Served, IsYoung, Caches
    <2>2. gen' = [gen EXCEPT ![v] = 0]
      BY <1>0, <1>1, <2>1, BuiltFacts
    <2>3. PICK x \in {"send", "beat", "wait"} : pc' = [pc EXCEPT ![v] = x]
      BY <1>0, <1>1, <2>1, BuiltFacts
    <2>4. x \notin InLock /\ x \notin {"ask", "answer"}
      BY <2>3 DEF InLock
    <2>5. ASSUME NEW w \in Viewers
          PROVE  /\ pc[w] \in InLock => gen'[w] = gen[w]
                 /\ pc'[w] \in InLock <=> pc[w] \in InLock
                 /\ pc'[w] \in {"ask", "answer"} => pc[w] \in {"ask", "answer"} \/ Holds(w)
      BY <1>0, <2>2, <2>3, <2>4
    <2>6. QED
      BY <1>0, <1>1, <2>5, Waits
  <1>2. CASE /\ gen' = [gen EXCEPT ![v] = cur]
             /\ caches' = [caches EXCEPT ![cur].queue = Append(@, v)]
             /\ pc' = [pc EXCEPT ![v] = "queue"]
    BY <1>0, <1>2, Joins
  <1>3. QED
    BY <1>1, <1>2 DEF Build

LEMMA LockKeep ==
  ASSUME TypeOK, Queued, Locked, NEW v \in Viewers, Holds(v), NEW list \in 0 .. MaxToys, Keep(v, list)
  PROVE  CachesOK' /\ Queued' /\ Locked'
  <1> DEFINE c == [caches[gen[v]] EXCEPT !.value = list, !.young = TRUE]
  <1>0. caches \in [Gens -> Caches] /\ gen \in [Viewers -> Gens] /\ pc \in [Viewers -> Places]
    BY DEF TypeOK
  <1>1. c \in Caches /\ c.queue = caches[gen[v]].queue
    BY KeptFacts
  <1>2. gen' = [gen EXCEPT ![v] = 0]
    BY <1>0, BuiltFacts DEF Keep
  <1>3. PICK x \in {"send", "beat", "wait"} : pc' = [pc EXCEPT ![v] = x]
    BY <1>0, BuiltFacts DEF Keep
  <1>4. x \notin InLock
    BY <1>3 DEF InLock
  <1>5. caches' = [caches EXCEPT ![gen[v]] = Left(v, c)]
    BY <1>0 DEF Keep
  <1> HIDE DEF c
  <1>6. QED
    BY <1>1, <1>2, <1>3, <1>4, <1>5, Leaves

LEMMA LockEnter ==
  ASSUME TypeOK, Queued, Locked, NEW v \in Viewers, Enter(v)
  PROVE  CachesOK' /\ Queued' /\ Locked'
  <1> DEFINE c == caches[gen[v]]
  <1>0. /\ caches \in [Gens -> Caches] /\ gen \in [Viewers -> Gens] /\ c \in Caches
        /\ pc \in [Viewers -> Places] /\ pc[v] = "queue" /\ Holds(v)
    BY DEF TypeOK, Enter
  <1>1. CASE /\ Served(c, fresh[v]) /\ Built(v, c.value)
             /\ caches' = [caches EXCEPT ![gen[v]] = Left(v, @)]
    <2>1. c.value \in 0 .. MaxToys
      BY <1>0, <1>1 DEF Served, IsYoung, Caches
    <2>2. gen' = [gen EXCEPT ![v] = 0]
      BY <1>0, <1>1, <2>1, BuiltFacts
    <2>3. PICK x \in {"send", "beat", "wait"} : pc' = [pc EXCEPT ![v] = x]
      BY <1>0, <1>1, <2>1, BuiltFacts
    <2>4. x \notin InLock
      BY <2>3 DEF InLock
    <2>5. caches' = [caches EXCEPT ![gen[v]] = Left(v, c)]
      BY <1>1
    <2>6. QED
      BY <1>0, <2>2, <2>3, <2>4, <2>5, Leaves
  <1>2. CASE pc' = [pc EXCEPT ![v] = "ask"] /\ UNCHANGED <<caches, gen>>
    <2>1. ASSUME NEW w \in Viewers
          PROVE  /\ pc[w] \in InLock => gen'[w] = gen[w]
                 /\ pc'[w] \in InLock <=> pc[w] \in InLock
                 /\ pc'[w] \in {"ask", "answer"} => pc[w] \in {"ask", "answer"} \/ Holds(w)
      BY <1>0, <1>2 DEF InLock
    <2>2. QED
      BY <1>0, <1>2, <2>1, Waits
  <1>3. QED
    BY <1>1, <1>2 DEF Enter

LEMMA LockFailed ==
  ASSUME TypeOK, Queued, Locked, NEW v \in Viewers, AskFails(v)
  PROVE  CachesOK' /\ Queued' /\ Locked'
  <1> DEFINE c == caches[gen[v]]
             list == IF c.value = None THEN Empty ELSE c.value
  <1>1. Holds(v)
    BY DEF AskFails, Locked
  <1>2. c \in Caches
    BY DEF TypeOK
  <1>3. list \in 0 .. MaxToys
    BY <1>2, Bounds DEF Caches, Empty
  <1>4. Keep(v, list)
    BY DEF AskFails
  <1> HIDE DEF list
  <1>5. QED
    BY <1>1, <1>3, <1>4, LockKeep

LEMMA LockStep ==
  ASSUME TypeOK, Queued, Locked, [Next]_vars
  PROVE  CachesOK' /\ Queued' /\ Locked'
  <1>0. /\ caches \in [Gens -> Caches] /\ gen \in [Viewers -> Gens] /\ pc \in [Viewers -> Places]
        /\ cur \in Gens /\ got \in [Viewers -> 0 .. MaxToys]
    BY DEF TypeOK
  <1> DEFINE Calm(w) == /\ pc[w] \in InLock => gen'[w] = gen[w]
                        /\ pc'[w] \in InLock <=> pc[w] \in InLock
                        /\ pc'[w] \in {"ask", "answer"} => pc[w] \in {"ask", "answer"} \/ Holds(w)
  <1>1. CASE UNCHANGED <<caches, gen, pc>>
    <2>1. \A w \in Viewers : Calm(w)
      BY <1>1
    <2>2. QED
      BY <1>0, <1>1, <2>1, Waits
  <1>2. ASSUME UNCHANGED <<pc, gen>>, caches' \in [Gens -> Caches],
               \A g \in Gens : caches'[g].queue = caches[g].queue
        PROVE  CachesOK' /\ Queued' /\ Locked'
    <2>1. \A w \in Viewers : Calm(w)
      BY <1>2
    <2>2. QED
      BY <1>0, <1>2, <2>1, Waits
  <1>3. CASE ToysChange
    <2> DEFINE d == [NoCache EXCEPT !.queue = caches[cur].queue]
    <2>1. d \in Caches /\ d.queue = caches[cur].queue
      BY <1>0 DEF NoCache, Caches
    <2>2. caches' = [caches EXCEPT ![cur] = d] \/ caches' = caches
      BY <1>3 DEF ToysChange
    <2> HIDE DEF d
    <2>3. caches' \in [Gens -> Caches] /\ \A g \in Gens : caches'[g].queue = caches[g].queue
      BY <1>0, <2>1, <2>2
    <2>4. QED
      BY <1>2, <1>3, <2>3 DEF ToysChange, workVars
  <1>4. CASE Swap
    <2>1. NoCache \in Caches /\ NoCache.queue = <<>>
      BY DEF NoCache, Caches
    <2>2. caches' \in [Gens -> Caches] /\ \A g \in Gens : caches'[g].queue = caches[g].queue
      BY <1>4, <1>0, <2>1 DEF Swap
    <2>3. QED
      BY <1>2, <1>4, <2>2 DEF Swap, workVars
  <1>5. ASSUME NEW g \in Gens, Ages(g) PROVE CachesOK' /\ Queued' /\ Locked'
    <2>1. \A h \in Gens : caches[h] \in Caches /\ [caches[h] EXCEPT !.young = FALSE] \in Caches
                          /\ [caches[h] EXCEPT !.young = FALSE].queue = caches[h].queue
      BY <1>0 DEF Caches
    <2>2. caches' \in [Gens -> Caches] /\ \A h \in Gens : caches'[h].queue = caches[h].queue
      BY <1>5, <1>0, <2>1 DEF Ages
    <2>3. QED
      BY <1>2, <1>5, <2>2 DEF Ages, workVars
  <1>6. CASE Bumped \/ \E v \in Viewers : Refresh(v) \/ ReadEnds(v) \/ Leave(v)
    BY <1>1, <1>6 DEF Bumped, Refresh, ReadEnds, Leave, cacheVars, workVars
  <1>7. ASSUME NEW v \in Viewers, NEW x, x \notin InLock, pc[v] \notin InLock,
               UNCHANGED <<caches, gen>>, pc' = [pc EXCEPT ![v] = x]
        PROVE  CachesOK' /\ Queued' /\ Locked'
    <2>1. \A w \in Viewers : Calm(w)
      BY <1>0, <1>7 DEF InLock
    <2>2. QED
      BY <1>0, <1>7, <2>1, Waits
  <1>8. ASSUME NEW v \in Viewers, Connect(v) \/ Replace(v) \/ Hello(v)
        PROVE  CachesOK' /\ Queued' /\ Locked'
    <2>1. /\ UNCHANGED <<caches, gen>> /\ pc[v] \notin InLock
          /\ \E x \in {"hello", "replacing", "loop", "lost"} : pc' = [pc EXCEPT ![v] = x]
      BY <1>8 DEF Connect, Replace, Hello, Register, cacheVars, workVars, InLock
    <2>2. "hello" \notin InLock /\ "replacing" \notin InLock /\ "loop" \notin InLock /\ "lost" \notin InLock
      BY DEF InLock
    <2>3. QED
      BY <1>7, <2>1, <2>2
  <1>9. ASSUME NEW v \in Viewers, Send(v) \/ SendFails(v) \/ Wake(v) \/ Timeout(v) \/ LoopEnds(v) \/ Finish(v)
        PROVE  CachesOK' /\ Queued' /\ Locked'
    <2>1. /\ UNCHANGED <<caches, gen>> /\ pc[v] \notin InLock
          /\ \E x \in {"wait", "closing", "loop", "ended"} : pc' = [pc EXCEPT ![v] = x]
      BY <1>9 DEF Send, SendFails, Wake, Timeout, LoopEnds, Finish, cacheVars, workVars, InLock
    <2>2. "wait" \notin InLock /\ "closing" \notin InLock /\ "loop" \notin InLock /\ "ended" \notin InLock
      BY DEF InLock
    <2>3. QED
      BY <1>7, <2>1, <2>2
  <1>10. ASSUME NEW v \in Viewers, Asked(v) PROVE CachesOK' /\ Queued' /\ Locked'
    <2>1. pc[v] = "ask" /\ pc' = [pc EXCEPT ![v] = "answer"] /\ UNCHANGED <<caches, gen>>
      BY <1>10 DEF Asked, cacheVars
    <2>2. \A w \in Viewers : Calm(w)
      BY <1>0, <2>1 DEF InLock
    <2>3. QED
      BY <1>0, <2>1, <2>2, Waits
  <1>11. ASSUME NEW v \in Viewers, Answer(v) PROVE CachesOK' /\ Queued' /\ Locked'
    <2>1. Holds(v) /\ got[v] \in 0 .. MaxToys /\ Keep(v, got[v])
      BY <1>11, <1>0 DEF Answer, Locked
    <2>2. QED
      BY <2>1, LockKeep
  <1>12. CASE UNCHANGED vars
    BY <1>1, <1>12 DEF vars, cacheVars, workVars
  <1>13. QED
    BY <1>3, <1>4, <1>5, <1>6, <1>8, <1>9, <1>10, <1>11, <1>12, LockBuild, LockEnter, LockFailed
       DEF Next, Handler

-----------------------------------------------------------------------------
(* Types *)

LEMMA Start == Init => TypeOK /\ Queued /\ Locked /\ Taken /\ RefreshIsFresh
  <1> SUFFICES ASSUME Init PROVE TypeOK /\ Queued /\ Locked /\ Taken /\ RefreshIsFresh
    OBVIOUS
  <1>1. NoCache \in Caches /\ NoCache.queue = <<>> /\ <<>> \in Seq(Viewers)
    BY DEF NoCache, Caches
  <1>2. IsInjective(<<>>) /\ \A x : x \notin Range(<<>>)
    <2>1. Len(<<>>) = 0 /\ \A i : i \notin 1 .. 0
      OBVIOUS
    <2>2. QED
      BY <2>1 DEF Range, IsInjective
  <1>3. TypeOK
    BY <1>1, <1>2, Bounds DEF Init, TypeOK, Places, Empty, Gens, States
  <1>4. Queued /\ Locked
    BY <1>1, <1>2 DEF Init, Queued, Locked, InLock
  <1>5. Taken /\ RefreshIsFresh
    BY Bounds DEF Init, Taken, RefreshIsFresh
  <1>6. QED
    BY <1>3, <1>4, <1>5

LEMMA TypeBuilt ==
  ASSUME TypeOK, NEW v \in Viewers, NEW list \in 0 .. MaxToys, Built(v, list)
  PROVE  /\ gen' \in [Viewers -> Gens] /\ got' \in [Viewers -> 0 .. MaxToys]
         /\ pc' \in [Viewers -> Places] /\ snap' \in [Viewers -> States \cup {None}]
  <1>0. /\ pc \in [Viewers -> Places] /\ gen \in [Viewers -> Gens] /\ got \in [Viewers -> 0 .. MaxToys]
        /\ snap \in [Viewers -> States \cup {None}] /\ Empty \in 0 .. MaxToys /\ 0 \in Gens
    BY Bounds DEF TypeOK, Empty
  <1>1. /\ [toys |-> list, ids |-> Listed] \in States
        /\ gen' = [gen EXCEPT ![v] = 0] /\ got' = [got EXCEPT ![v] = Empty]
    BY <1>0, BuiltFacts
  <1>2. PICK x \in {"send", "beat", "wait"} :
          /\ pc' = [pc EXCEPT ![v] = x]
          /\ x = "send" => snap' = [snap EXCEPT ![v] = [toys |-> list, ids |-> Listed]]
          /\ x # "send" => snap' = snap
    BY <1>0, BuiltFacts
  <1>3. x \in Places
    BY <1>2 DEF Places
  <1>4. QED
    BY <1>0, <1>1, <1>2, <1>3

LEMMA TypeStep ==
  ASSUME TypeOK, CachesOK', [Next]_vars
  PROVE  TypeOK'
  <1> USE DEF CachesOK
  <1>1. CASE ToysChange
    BY <1>1, Bounds DEF ToysChange, TypeOK, linkVars, workVars
  <1>2. CASE Bumped
    BY <1>2 DEF Bumped, Bump, TypeOK, cacheVars, linkVars, workVars
  <1>3. CASE Swap
    BY <1>3, Bounds DEF Swap, MoreOdd, Gens, TypeOK, linkVars, workVars
  <1>4. ASSUME NEW g \in Gens, Ages(g) PROVE TypeOK'
    BY <1>4 DEF Ages, TypeOK, linkVars, workVars
  <1>5. ASSUME NEW v \in Viewers, Connect(v) \/ Replace(v) PROVE TypeOK'
    <2>1. /\ rows' \in [Ids -> Viewers \cup {None}] /\ woken' \in [Viewers -> BOOLEAN]
          /\ pc' \in [Viewers -> Places]
      <3>1. CASE Register(v)
        <4>1. Id(v) \in Ids /\ "hello" \in Places
          BY IdAssumption DEF Places
        <4>2. /\ rows' = [rows EXCEPT ![Id(v)] = v] /\ pc' = [pc EXCEPT ![v] = "hello"]
              /\ woken' = Bump
          BY <3>1 DEF Register
        <4>3. Bump \in [Viewers -> BOOLEAN]
          BY DEF Bump, TypeOK
        <4>4. QED
          BY <4>1, <4>2, <4>3 DEF TypeOK
      <3>2. CASE pc' = [pc EXCEPT ![v] = "replacing"] /\ UNCHANGED <<rows, woken>>
        BY <3>2 DEF TypeOK, Places
      <3>3. QED
        BY <1>5, <3>1, <3>2 DEF Connect, Replace
    <2>2. open' \in [Viewers -> BOOLEAN]
      BY <1>5 DEF Connect, Replace, TypeOK
    <2>3. UNCHANGED <<cacheVars, closed, workVars, asks, force, idle>>
      BY <1>5 DEF Connect, Replace
    <2>4. QED
      BY <2>1, <2>2, <2>3 DEF TypeOK, cacheVars, workVars
  <1>6. ASSUME NEW v \in Viewers, Hello(v) \/ ReadEnds(v) \/ Leave(v) PROVE TypeOK'
    BY <1>6 DEF Hello, ReadEnds, Leave, TypeOK, Places, cacheVars, linkVars, workVars
  <1>7. ASSUME NEW v \in Viewers, Refresh(v) PROVE TypeOK'
    BY <1>7, Bounds DEF Refresh, MoreOdd, Gens, TypeOK, cacheVars, linkVars, workVars
  <1>8. ASSUME NEW v \in Viewers, Build(v) PROVE TypeOK'
    <2>1. /\ fresh' \in [Viewers -> BOOLEAN] /\ force' \in [Viewers -> BOOLEAN]
          /\ floor' \in [Viewers -> 0 .. MaxToys]
      BY <1>8, Bounds DEF Build, TakeUp, TypeOK
    <2>2. /\ gen' \in [Viewers -> Gens] /\ got' \in [Viewers -> 0 .. MaxToys]
          /\ pc' \in [Viewers -> Places] /\ snap' \in [Viewers -> States \cup {None}]
      <3>1. CASE Served(caches[cur], force[v]) /\ Built(v, caches[cur].value)
        <4>1. caches[cur].value \in 0 .. MaxToys
          BY <3>1 DEF Served, IsYoung, Caches, TypeOK
        <4>2. QED
          BY <3>1, <4>1, TypeBuilt
      <3>2. CASE gen' = [gen EXCEPT ![v] = cur] /\ pc' = [pc EXCEPT ![v] = "queue"] /\ UNCHANGED <<got, snap>>
        BY <3>2 DEF TypeOK, Places
      <3>3. QED
        BY <1>8, <3>1, <3>2 DEF Build
    <2>3. QED
      BY <1>8, <2>1, <2>2 DEF Build, TypeOK, linkVars
  <1>9. ASSUME NEW v \in Viewers, Enter(v) PROVE TypeOK'
    <2>1. /\ fresh' = fresh
          /\ gen' \in [Viewers -> Gens] /\ got' \in [Viewers -> 0 .. MaxToys]
          /\ pc' \in [Viewers -> Places] /\ snap' \in [Viewers -> States \cup {None}]
      <3>1. CASE Served(caches[gen[v]], fresh[v]) /\ Built(v, caches[gen[v]].value) /\ fresh' = fresh
        <4>1. caches[gen[v]].value \in 0 .. MaxToys
          BY <3>1 DEF Served, IsYoung, Caches, TypeOK
        <4>2. QED
          BY <3>1, <4>1, TypeBuilt
      <3>2. CASE pc' = [pc EXCEPT ![v] = "ask"] /\ UNCHANGED <<fresh, gen, got, snap>>
        BY <3>2 DEF TypeOK, Places
      <3>3. QED
        BY <1>9, <3>1, <3>2 DEF Enter
    <2>2. QED
      BY <1>9, <2>1 DEF Enter, TypeOK, linkVars
  <1>10. ASSUME NEW v \in Viewers, Asked(v) PROVE TypeOK'
    BY <1>10, Bounds DEF Asked, TypeOK, Places, cacheVars, linkVars
  <1>11. ASSUME NEW v \in Viewers, Answer(v) PROVE TypeOK'
    <2>1. /\ gen' \in [Viewers -> Gens] /\ got' \in [Viewers -> 0 .. MaxToys]
          /\ pc' \in [Viewers -> Places] /\ snap' \in [Viewers -> States \cup {None}]
      <3>1. got[v] \in 0 .. MaxToys /\ Built(v, got[v])
        BY <1>11 DEF Answer, Keep, TypeOK
      <3>2. QED
        BY <3>1, TypeBuilt
    <2>2. QED
      BY <1>11, <2>1 DEF Answer, Keep, TypeOK, linkVars
  <1>12. ASSUME NEW v \in Viewers, AskFails(v) PROVE TypeOK'
    <2> DEFINE list == IF caches[gen[v]].value = None THEN Empty ELSE caches[gen[v]].value
    <2>1. list \in 0 .. MaxToys
      BY Bounds DEF TypeOK, Caches, Empty
    <2>2. Built(v, list) /\ fresh' = fresh
      BY <1>12 DEF AskFails, Keep
    <2> HIDE DEF list
    <2>3. /\ gen' \in [Viewers -> Gens] /\ got' \in [Viewers -> 0 .. MaxToys]
          /\ pc' \in [Viewers -> Places] /\ snap' \in [Viewers -> States \cup {None}]
      BY <2>1, <2>2, TypeBuilt
    <2>4. fails' \in Gens
      BY <1>12, Bounds DEF AskFails, MoreOdd, Gens, TypeOK
    <2>5. floor' \in [Viewers -> 0 .. MaxToys]
      BY <1>12, Bounds DEF AskFails, TypeOK
    <2>6. /\ UNCHANGED <<toys, cur, linkVars, last, asks, force, woken, idle>>
      BY <1>12 DEF AskFails
    <2>7. QED
      BY <2>2, <2>3, <2>4, <2>5, <2>6 DEF TypeOK, linkVars
  <1>13. ASSUME NEW v \in Viewers, Send(v) \/ SendFails(v) PROVE TypeOK'
    <2>1. CASE Send(v)
      <3>1. last' \in [Viewers -> States \cup {None}] /\ snap' \in [Viewers -> States \cup {None}]
        BY <2>1 DEF Send, TypeOK
      <3>2. /\ pc' \in [Viewers -> Places] /\ idle' \in [Viewers -> 0 .. Heartbeat]
            /\ fresh' \in [Viewers -> BOOLEAN] /\ floor' \in [Viewers -> 0 .. MaxToys]
        BY <2>1, Bounds DEF Send, TypeOK, Places
      <3>3. UNCHANGED <<cacheVars, linkVars, gen, got, asks, force, woken>>
        BY <2>1 DEF Send
      <3>4. QED
        BY <3>1, <3>2, <3>3 DEF TypeOK, cacheVars, linkVars
    <2>2. CASE SendFails(v)
      BY <2>2 DEF SendFails, TypeOK, Places, cacheVars, linkVars, workVars
    <2>3. QED
      BY <1>13, <2>1, <2>2
  <1>14. ASSUME NEW v \in Viewers, Wake(v) \/ Timeout(v) PROVE TypeOK'
    <2>1. Idled(idle[v], TRUE) \in 0 .. Heartbeat /\ Idled(idle[v], FALSE) \in 0 .. Heartbeat
      BY IdledFacts DEF TypeOK
    <2>2. /\ pc' \in [Viewers -> Places] /\ idle' \in [Viewers -> 0 .. Heartbeat]
          /\ woken' \in [Viewers -> BOOLEAN]
      <3>1. \/ idle' = [idle EXCEPT ![v] = Idled(idle[v], TRUE)] /\ woken' = [woken EXCEPT ![v] = FALSE]
            \/ idle' = [idle EXCEPT ![v] = Idled(idle[v], FALSE)] /\ woken' = woken
        BY <1>14 DEF Wake, Timeout
      <3>2. pc' = [pc EXCEPT ![v] = "loop"] /\ "loop" \in Places
        BY <1>14 DEF Wake, Timeout, Places
      <3>3. QED
        BY <2>1, <3>1, <3>2 DEF TypeOK
    <2>3. UNCHANGED <<cacheVars, linkVars, workVars, asks, force>>
      BY <1>14 DEF Wake, Timeout
    <2>4. QED
      BY <2>2, <2>3 DEF TypeOK, cacheVars, linkVars, workVars
  <1>15. ASSUME NEW v \in Viewers, LoopEnds(v) PROVE TypeOK'
    BY <1>15 DEF LoopEnds, TypeOK, Places, cacheVars, linkVars, workVars
  <1>16. ASSUME NEW v \in Viewers, Finish(v) PROVE TypeOK'
    BY <1>16, IdAssumption, Bounds DEF Finish, Disconnect, Bump, TypeOK, Places, cacheVars
  <1>17. CASE UNCHANGED vars
    BY <1>17 DEF vars, TypeOK, cacheVars, linkVars, workVars
  <1>18. QED
    BY <1>1, <1>2, <1>3, <1>4, <1>5, <1>6, <1>7, <1>8, <1>9, <1>10, <1>11, <1>12, <1>13, <1>14,
       <1>15, <1>16, <1>17 DEF Next, Handler

-----------------------------------------------------------------------------
(* A refresh is answered with what was read after it was taken up *)

\* Taken and RefreshIsFresh, for one viewer
Answered(w) ==
  /\ floor[w] <= toys
  /\ pc[w] = "answer" => floor[w] <= got[w] /\ got[w] <= toys
  /\ pc[w] = "send" /\ fresh[w] => snap[w].toys >= floor[w]

LEMMA TakenAnswered == (Taken /\ RefreshIsFresh) <=> \A w \in Viewers : Answered(w)
  BY DEF Taken, RefreshIsFresh, Answered

LEMMA TakenAnsweredNext ==
  (\A w \in Viewers : Answered(w)') => Taken' /\ RefreshIsFresh'
  BY DEF Taken, RefreshIsFresh, Answered

\* a viewer whose handler does not move, or moves to where nothing is promised
LEMMA AnsweredElsewhere ==
  ASSUME TypeOK, NEW w \in Viewers, Answered(w), toys' \in Nat, toys <= toys',
         pc'[w] \notin {"answer", "send"} \/
           /\ pc'[w] = pc[w] /\ got'[w] = got[w]
           /\ (fresh'[w] => fresh[w]) /\ snap'[w] = snap[w],
         floor'[w] = floor[w] \/ (floor'[w] = 0 /\ pc'[w] \notin {"answer", "send"})
  PROVE  Answered(w)'
  <1>1. floor[w] \in Nat /\ toys \in Nat /\ got[w] \in Nat
    BY Bounds DEF TypeOK
  <1>2. QED
    BY <1>1 DEF Answered

LEMMA BuiltAnswered ==
  ASSUME TypeOK, NEW v \in Viewers, NEW list \in 0 .. MaxToys, Built(v, list), UNCHANGED toys,
         floor'[v] \in 0 .. MaxToys, floor'[v] <= toys, fresh'[v] => floor'[v] <= list
  PROVE  Answered(v)'
  <1>1. pc \in [Viewers -> Places] /\ snap \in [Viewers -> States \cup {None}]
    BY DEF TypeOK
  <1>2. PICK x \in {"send", "beat", "wait"} :
          /\ pc' = [pc EXCEPT ![v] = x]
          /\ x = "send" => snap' = [snap EXCEPT ![v] = [toys |-> list, ids |-> Listed]]
          /\ x # "send" => snap' = snap
    BY <1>1, BuiltFacts
  <1>3. pc'[v] = x /\ (x = "send" => snap'[v].toys = list) /\ x # "answer"
    BY <1>1, <1>2
  <1>4. QED
    BY <1>3, Bounds DEF Answered

LEMMA BuiltElsewhere ==
  ASSUME TypeOK, NEW v \in Viewers, NEW list \in 0 .. MaxToys, Built(v, list),
         NEW w \in Viewers, w # v
  PROVE  pc'[w] = pc[w] /\ got'[w] = got[w] /\ snap'[w] = snap[w] /\ gen'[w] = gen[w]
  <1>1. /\ pc \in [Viewers -> Places] /\ snap \in [Viewers -> States \cup {None}]
        /\ got \in [Viewers -> 0 .. MaxToys] /\ gen \in [Viewers -> Gens]
    BY DEF TypeOK
  <1>2. gen' = [gen EXCEPT ![v] = 0] /\ got' = [got EXCEPT ![v] = Empty]
    BY <1>1, BuiltFacts
  <1>3. PICK x \in {"send", "beat", "wait"} :
          /\ pc' = [pc EXCEPT ![v] = x]
          /\ x = "send" => snap' = [snap EXCEPT ![v] = [toys |-> list, ids |-> Listed]]
          /\ x # "send" => snap' = snap
    BY <1>1, BuiltFacts
  <1>4. QED
    BY <1>1, <1>2, <1>3

(* The four steps that build a state, seen alike: the list that is shown, and *)
(* where it comes from.                                                       *)
FromCache(v, list) ==
  /\ pc[v] = "loop" /\ ~force[v] /\ list = caches[cur].value /\ list # None
  /\ UNCHANGED caches /\ TakeUp(v)
FromLock(v, list) ==
  /\ pc[v] = "queue" /\ Holds(v) /\ ~fresh[v] /\ list = caches[gen[v]].value /\ list # None
  /\ caches' = [caches EXCEPT ![gen[v]] = Left(v, @)] /\ UNCHANGED <<fresh, force, floor>>
FromAnswer(v, list) ==
  /\ pc[v] = "answer" /\ list = got[v] /\ Keep(v, list) /\ UNCHANGED <<force, floor>>
FromFailure(v, list) ==
  /\ pc[v] \in {"ask", "answer"}
  /\ list = (IF caches[gen[v]].value = None THEN Empty ELSE caches[gen[v]].value)
  /\ Keep(v, list) /\ UNCHANGED force /\ floor' = [floor EXCEPT ![v] = 0]

Shows(v, list) ==
  /\ Built(v, list) /\ UNCHANGED <<toys, cur, linkVars, last, asks, woken, idle>>
  /\ FromCache(v, list) \/ FromLock(v, list) \/ FromAnswer(v, list) \/ FromFailure(v, list)

LEMMA Showing ==
  ASSUME TypeOK, NEW v \in Viewers, Build(v) \/ Enter(v) \/ Answer(v) \/ AskFails(v)
  PROVE  \/ \E list \in 0 .. MaxToys : Shows(v, list)
         \/ /\ Build(v) /\ gen' = [gen EXCEPT ![v] = cur] /\ pc' = [pc EXCEPT ![v] = "queue"]
            /\ caches' = [caches EXCEPT ![cur].queue = Append(@, v)] /\ UNCHANGED <<got, snap>>
         \/ Enter(v) /\ pc' = [pc EXCEPT ![v] = "ask"] /\ UNCHANGED <<caches, fresh, gen, got, snap>>
  <1>1. ASSUME Build(v), Served(caches[cur], force[v]), Built(v, caches[cur].value), UNCHANGED caches
        PROVE  \E list \in 0 .. MaxToys : Shows(v, list)
    <2> DEFINE list == caches[cur].value
    <2>1. list \in 0 .. MaxToys /\ list # None /\ ~force[v]
      BY <1>1 DEF Served, IsYoung, TypeOK, Caches
    <2>2. FromCache(v, list)
      BY <1>1, <2>1 DEF FromCache, Build
    <2>3. Shows(v, list)
      BY <1>1, <2>2 DEF Shows, Build
    <2>4. QED
      BY <2>1, <2>3
  <1>2. ASSUME Enter(v), Served(caches[gen[v]], fresh[v]), Built(v, caches[gen[v]].value),
               fresh' = fresh, caches' = [caches EXCEPT ![gen[v]] = Left(v, @)]
        PROVE  \E list \in 0 .. MaxToys : Shows(v, list)
    <2> DEFINE list == caches[gen[v]].value
    <2>1. list \in 0 .. MaxToys /\ list # None /\ ~fresh[v]
      BY <1>2 DEF Served, IsYoung, TypeOK, Caches
    <2>2. FromLock(v, list)
      BY <1>2, <2>1 DEF FromLock, Enter
    <2>3. Shows(v, list)
      BY <1>2, <2>2 DEF Shows, Enter
    <2>4. QED
      BY <2>1, <2>3
  <1>3. ASSUME Answer(v) PROVE \E list \in 0 .. MaxToys : Shows(v, list)
    <2>1. got[v] \in 0 .. MaxToys
      BY DEF TypeOK
    <2>2. Shows(v, got[v])
      BY <1>3 DEF Shows, FromAnswer, Answer, Keep
    <2>3. QED
      BY <2>1, <2>2
  <1>4. ASSUME AskFails(v) PROVE \E list \in 0 .. MaxToys : Shows(v, list)
    <2> DEFINE list == IF caches[gen[v]].value = None THEN Empty ELSE caches[gen[v]].value
    <2>1. list \in 0 .. MaxToys
      BY Bounds DEF TypeOK, Caches, Empty
    <2>2. Shows(v, list)
      BY <1>4 DEF Shows, FromFailure, AskFails, Keep
    <2>3. QED
      BY <2>1, <2>2
  <1>5. QED
    <2>1. CASE Build(v)
      BY <2>1, <1>1 DEF Build
    <2>2. CASE Enter(v)
      BY <2>2, <1>2 DEF Enter
    <2>3. QED
      BY <2>1, <2>2, <1>3, <1>4

LEMMA TakenShows ==
  ASSUME TypeOK, Taken, RefreshIsFresh, NEW v \in Viewers, NEW list \in 0 .. MaxToys, Shows(v, list)
  PROVE  \A w \in Viewers : Answered(w)'
  <1>0. /\ \A w \in Viewers : Answered(w)
        /\ toys \in Nat /\ UNCHANGED toys /\ Built(v, list)
        /\ floor \in [Viewers -> 0 .. MaxToys] /\ fresh \in [Viewers -> BOOLEAN]
    BY TakenAnswered, Bounds DEF TypeOK, Shows
  <1>1. /\ \A w \in Viewers : w # v => floor'[w] = floor[w] /\ fresh'[w] = fresh[w]
        /\ floor'[v] \in 0 .. MaxToys /\ floor'[v] <= toys
        /\ fresh'[v] => floor'[v] <= list
    <2>1. CASE FromCache(v, list)
      BY <2>1, <1>0, Bounds DEF FromCache, TakeUp, TypeOK
    <2>2. CASE FromLock(v, list)
      BY <2>2, <1>0, Bounds DEF FromLock, Answered, TypeOK
    <2>3. CASE FromAnswer(v, list)
      BY <2>3, <1>0, Bounds DEF FromAnswer, Keep, Answered, TypeOK
    <2>4. CASE FromFailure(v, list)
      BY <2>4, <1>0, Bounds DEF FromFailure, Keep, TypeOK
    <2>5. QED
      BY <2>1, <2>2, <2>3, <2>4 DEF Shows
  <1>2. Answered(v)'
    BY <1>0, <1>1, BuiltAnswered
  <1>3. ASSUME NEW w \in Viewers, w # v PROVE Answered(w)'
    <2>1. pc'[w] = pc[w] /\ got'[w] = got[w] /\ snap'[w] = snap[w]
      BY <1>0, <1>3, BuiltElsewhere
    <2>2. QED
      BY <1>0, <1>1, <1>3, <2>1, AnsweredElsewhere
  <1>4. QED
    BY <1>2, <1>3

LEMMA TakenStep ==
  ASSUME TypeOK, TypeOK', Taken, RefreshIsFresh, [Next]_vars
  PROVE  Taken' /\ RefreshIsFresh'
  <1> SUFFICES \A w \in Viewers : Answered(w)'
    BY TakenAnsweredNext
  <1>0. /\ \A w \in Viewers : Answered(w)
        /\ toys \in Nat /\ toys' \in Nat /\ pc \in [Viewers -> Places] /\ snap \in [Viewers -> States \cup {None}]
        /\ got \in [Viewers -> 0 .. MaxToys] /\ floor \in [Viewers -> 0 .. MaxToys]
        /\ fresh \in [Viewers -> BOOLEAN]
    BY TakenAnswered, Bounds DEF TypeOK
  <1>1. CASE toys <= toys' /\ UNCHANGED <<pc, got, fresh, snap, floor>>
    BY <1>0, <1>1, AnsweredElsewhere
  <1>2. CASE ToysChange \/ Bumped \/ Swap \/ (\E g \in Gens : Ages(g)) \/ UNCHANGED vars
             \/ \E v \in Viewers : ReadEnds(v) \/ Refresh(v) \/ Leave(v)
    <2>1. toys <= toys' /\ UNCHANGED <<pc, got, fresh, snap, floor>>
      BY <1>2, <1>0 DEF ToysChange, Bumped, Swap, Ages, vars, ReadEnds, Refresh, Leave, cacheVars, workVars
    <2>2. QED
      BY <1>1, <2>1
  <1>3. ASSUME NEW v \in Viewers, NEW x, x \notin {"answer", "send"}, UNCHANGED <<toys, got>>,
               pc' = [pc EXCEPT ![v] = x],
               \A w \in Viewers : w # v => fresh'[w] = fresh[w] /\ snap'[w] = snap[w] /\ floor'[w] = floor[w],
               floor'[v] \in {0, floor[v]}
        PROVE  \A w \in Viewers : Answered(w)'
    BY <1>0, <1>3, AnsweredElsewhere
  <1>4. ASSUME NEW v \in Viewers, Connect(v) \/ Replace(v) \/ Hello(v) \/ Send(v) \/ SendFails(v)
                                  \/ Wake(v) \/ Timeout(v) \/ LoopEnds(v) \/ Finish(v)
        PROVE  \A w \in Viewers : Answered(w)'
    <2>1. \E x \in {"hello", "replacing", "loop", "lost", "wait", "closing", "ended"} : pc' = [pc EXCEPT ![v] = x]
      BY <1>4 DEF Connect, Replace, Register, Hello, Send, SendFails, Wake, Timeout, LoopEnds, Finish
    <2>2. UNCHANGED <<toys, got>>
      BY <1>4 DEF Connect, Replace, Hello, Send, SendFails, Wake, Timeout, LoopEnds, Finish, cacheVars, workVars
    <2>3. /\ \A w \in Viewers : w # v => fresh'[w] = fresh[w] /\ snap'[w] = snap[w] /\ floor'[w] = floor[w]
          /\ floor'[v] \in {0, floor[v]}
      BY <1>4, <1>0 DEF Connect, Replace, Hello, Send, SendFails, Wake, Timeout, LoopEnds, Finish, workVars
    <2>4. \A x \in {"hello", "replacing", "loop", "lost", "wait", "closing", "ended"} : x \notin {"answer", "send"}
      OBVIOUS
    <2>5. QED
      BY <1>3, <2>1, <2>2, <2>3, <2>4
  <1>5. ASSUME NEW v \in Viewers, Asked(v) PROVE \A w \in Viewers : Answered(w)'
    <2>1. /\ UNCHANGED <<toys, fresh, snap, floor>> /\ pc' = [pc EXCEPT ![v] = "answer"]
          /\ got' = [got EXCEPT ![v] = toys]
      BY <1>5 DEF Asked, cacheVars
    <2>2. ASSUME NEW w \in Viewers, w # v PROVE Answered(w)'
      BY <1>0, <2>1, <2>2, AnsweredElsewhere
    <2>3. Answered(v)'
      BY <1>0, <2>1 DEF Answered
    <2>4. QED
      BY <2>2, <2>3
  <1>6. ASSUME NEW v \in Viewers, Build(v) \/ Enter(v) \/ Answer(v) \/ AskFails(v)
        PROVE  \A w \in Viewers : Answered(w)'
    <2>1. ASSUME Enter(v), pc' = [pc EXCEPT ![v] = "ask"], UNCHANGED <<fresh, got, snap>>
          PROVE  \A w \in Viewers : Answered(w)'
      <3>1. UNCHANGED <<toys, floor>>
        BY <2>1 DEF Enter
      <3>2. QED
        BY <1>3, <2>1, <3>1
    <2>2. ASSUME Build(v), pc' = [pc EXCEPT ![v] = "queue"], UNCHANGED <<got, snap>>
          PROVE  \A w \in Viewers : Answered(w)'
      <3>1. /\ UNCHANGED toys /\ pc'[v] = "queue" /\ floor'[v] \in {0, toys}
            /\ \A w \in Viewers : w # v => /\ floor'[w] = floor[w] /\ fresh'[w] = fresh[w]
                                           /\ pc'[w] = pc[w]
        BY <2>2, <1>0 DEF Build, TakeUp
      <3>2. Answered(v)'
        BY <3>1, <1>0 DEF Answered
      <3>3. ASSUME NEW w \in Viewers, w # v PROVE Answered(w)'
        BY <3>1, <3>3, <2>2, <1>0, AnsweredElsewhere
      <3>4. QED
        BY <3>2, <3>3
    <2>3. QED
      BY <1>6, <2>1, <2>2, Showing, TakenShows
  <1>7. QED
    BY <1>2, <1>4, <1>5, <1>6 DEF Next, Handler

(* IInv holds in every state of the stream. *)
THEOREM Invariance == Spec => []IInv
  <1>1. Init => IInv
    BY Start DEF IInv
  <1>2. IInv /\ [Next]_vars => IInv'
    <2> SUFFICES ASSUME IInv, [Next]_vars PROVE IInv'
      OBVIOUS
    <2>1. CachesOK' /\ Queued' /\ Locked'
      BY LockStep DEF IInv
    <2>2. TypeOK'
      BY <2>1, TypeStep DEF IInv
    <2>3. Taken' /\ RefreshIsFresh'
      BY <2>2, TakenStep DEF IInv
    <2>4. QED
      BY <2>1, <2>2, <2>3 DEF IInv
  <1>3. QED
    BY <1>1, <1>2, PTL DEF Spec

(* Every variable has its type (presence.py:45-69, toy_cache.py:22-28), and no reader waits *)
(* twice for the lock of a cache.                                                           *)
THEOREM TypeCorrect == Spec => []TypeOK
  <1>1. IInv => TypeOK
    BY DEF IInv
  <1>2. QED
    BY <1>1, Invariance, PTL

(* A frame that answers a refresh shows a toy list no older than the moment the refresh was *)
(* taken up, whatever the other readers of the cache do and however often it is replaced    *)
(* (events.py:182-189, toy_cache.py:54-71).                                                 *)
THEOREM RefreshesAreFresh == Spec => []RefreshIsFresh
  <1>1. IInv => RefreshIsFresh
    BY DEF IInv
  <1>2. QED
    BY <1>1, Invariance, PTL

-----------------------------------------------------------------------------
(* Rows *)

LEMMA RowStep ==
  ASSUME TypeOK, [Next]_vars, NEW i \in Ids, rows'[i] # rows[i]
  PROVE  \/ rows'[i] # None /\ pc'[rows'[i]] = "hello" /\ pc[rows'[i]] # "hello"
         \/ rows'[i] = None /\ pc[rows[i]] = "closing"
  <1>0. pc \in [Viewers -> Places] /\ rows \in [Ids -> Viewers \cup {None}] /\ None \notin Viewers
    BY IdAssumption DEF TypeOK
  <1>1. ASSUME NEW v \in Viewers, Register(v), pc[v] # "hello"
        PROVE  rows'[i] # None /\ pc'[rows'[i]] = "hello" /\ pc[rows'[i]] # "hello"
    <2>1. rows'[i] = v /\ pc'[v] = "hello"
      BY <1>0, <1>1 DEF Register
    <2>2. QED
      BY <1>0, <1>1, <2>1
  <1>2. ASSUME NEW v \in Viewers, Connect(v) \/ Replace(v)
        PROVE  rows'[i] # None /\ pc'[rows'[i]] = "hello" /\ pc[rows'[i]] # "hello"
    <2>1. Register(v) /\ pc[v] # "hello"
      BY <1>2 DEF Connect, Replace
    <2>2. QED
      BY <1>1, <2>1
  <1>3. ASSUME NEW v \in Viewers, Finish(v)
        PROVE  rows'[i] = None /\ pc[rows[i]] = "closing"
    BY <1>0, <1>3 DEF Finish, Disconnect
  <1>4. CASE UNCHANGED rows
    BY <1>4
  <1>5. CASE ToysChange \/ Bumped \/ Swap \/ (\E g \in Gens : Ages(g)) \/ UNCHANGED vars
    BY <1>4, <1>5 DEF ToysChange, Bumped, Swap, Ages, vars, linkVars
  <1>6. ASSUME NEW v \in Viewers,
               \/ Hello(v) \/ ReadEnds(v) \/ Build(v) \/ Enter(v) \/ Asked(v) \/ Answer(v) \/ Send(v)
               \/ Wake(v) \/ Timeout(v) \/ LoopEnds(v) \/ Refresh(v) \/ Leave(v) \/ AskFails(v) \/ SendFails(v)
        PROVE  UNCHANGED rows
    BY <1>6 DEF Hello, ReadEnds, Build, Enter, Asked, Answer, Send, Wake, Timeout, LoopEnds, Refresh,
                Leave, AskFails, SendFails, linkVars
  <1>7. QED
    BY <1>2, <1>3, <1>4, <1>5, <1>6 DEF Next, Handler

(* A row changes only when its own socket is done or another one registers: the handler of a *)
(* replaced socket, which ends later, takes nobody's row (presence.py:106-121).              *)
THEOREM RowsAreOwn == Spec => RowIsOwn
  <1>1. TypeOK /\ [Next]_vars =>
          [\A i \in Ids : rows'[i] # rows[i] =>
             \/ rows'[i] # None /\ pc'[rows'[i]] = "hello" /\ pc[rows'[i]] # "hello"
             \/ rows'[i] = None /\ pc[rows[i]] = "closing"]_vars
    BY RowStep
  <1>2. QED
    BY <1>1, TypeCorrect, PTL DEF Spec, RowIsOwn

-----------------------------------------------------------------------------
(* What is shown never goes back *)

LEMMA ReachedStep ==
  ASSUME TypeOK, Reached, [Next]_vars
  PROVE  Reached'
  <1>0. /\ gen \in [Viewers -> Gens] /\ cur \in Gens /\ pc \in [Viewers -> Places]
        /\ \A g \in Gens : g \in Nat
    BY Bounds DEF TypeOK, Gens
  <1>1. ASSUME NEW v \in Viewers, Build(v) \/ Enter(v) \/ Answer(v) \/ AskFails(v)
        PROVE  UNCHANGED cur /\ \A w \in Viewers : gen'[w] \in {gen[w], 0, cur}
    <2>1. UNCHANGED cur
      BY <1>1 DEF Build, Enter, Answer, AskFails
    <2>2. ASSUME NEW list \in 0 .. MaxToys, Shows(v, list)
          PROVE  \A w \in Viewers : gen'[w] \in {gen[w], 0, cur}
      <3>1. gen' = [gen EXCEPT ![v] = 0]
        BY <1>0, <2>2, BuiltFacts DEF Shows
      <3>2. QED
        BY <1>0, <3>1
    <2>3. QED
      BY <1>0, <1>1, <2>1, <2>2, Showing
  <1>2. ASSUME ~\E v \in Viewers : Build(v) \/ Enter(v) \/ Answer(v) \/ AskFails(v)
        PROVE  UNCHANGED gen /\ cur' \in {cur, cur + 1}
    BY <1>2 DEF Next, Handler, ToysChange, Bumped, Swap, Ages, Replace, Hello, ReadEnds, Asked, Send,
                Wake, Timeout, LoopEnds, Finish, Connect, Refresh, Leave, SendFails, vars, cacheVars, workVars
  <1>3. QED
    BY <1>0, <1>1, <1>2 DEF Reached

\* who has been shown no more than m has been shown no more than what is larger
LEMMA ShownMore ==
  ASSUME TypeOK, Onward, cur = 0, NEW m \in Int, NEW n \in Int, m <= n, ShownBy(m)
  PROVE  ShownBy(n)
  <1>1. ASSUME NEW v \in Viewers PROVE ShownTo(v, n)
    <2>1. last[v] # None => last[v].toys \in Int
      BY Bounds DEF TypeOK, States
    <2>2. pc[v] = "send" => snap[v].toys \in Int
      BY Bounds DEF Onward, States
    <2>3. QED
      BY <2>1, <2>2 DEF ShownBy, ShownTo
  <1>2. QED
    BY <1>1 DEF ShownBy

\* a step that builds no state shows nothing new
LEMMA ShownQuiet ==
  ASSUME TypeOK, NEW n, ShownBy(n),
         \A w \in Viewers : /\ pc'[w] = "send" => pc[w] = "send" /\ snap'[w] = snap[w]
                            /\ \/ last'[w] \in {last[w], None}
                               \/ pc[w] = "send" /\ last'[w] = snap[w]
  PROVE  ShownBy(n)'
  BY DEF ShownBy, ShownTo

\* a step that builds a state shows the list it is built around
LEMMA ShownBuilt ==
  ASSUME TypeOK, NEW n, ShownBy(n), NEW v \in Viewers, NEW list \in 0 .. MaxToys, list <= n,
         Built(v, list), UNCHANGED last
  PROVE  ShownBy(n)'
  <1>1. pc \in [Viewers -> Places] /\ snap \in [Viewers -> States \cup {None}]
    BY DEF TypeOK
  <1>2. PICK x \in {"send", "beat", "wait"} :
          /\ pc' = [pc EXCEPT ![v] = x]
          /\ x = "send" => snap' = [snap EXCEPT ![v] = [toys |-> list, ids |-> Listed]]
          /\ x # "send" => snap' = snap
    BY <1>1, BuiltFacts
  <1>3. ASSUME NEW w \in Viewers PROVE ShownTo(w, n)'
    <2>1. last'[w] # None => last'[w].toys <= n
      BY DEF ShownBy, ShownTo
    <2>2. pc'[w] = "send" => snap'[w].toys <= n
      <3>1. CASE w = v
        BY <3>1, <1>1, <1>2
      <3>2. CASE w # v
        <4>1. pc'[w] = pc[w] /\ snap'[w] = snap[w]
          BY <3>2, BuiltElsewhere
        <4>2. QED
          BY <4>1 DEF ShownBy, ShownTo
      <3>3. QED
        BY <3>1, <3>2
    <2>3. QED
      BY <2>1, <2>2 DEF ShownTo
  <1>4. QED
    BY <1>3 DEF ShownBy

OrderInv == Reached /\ Ordered /\ Onward

\* a step that builds no state, while the first cache serves
LEMMA OrderedQuiet ==
  ASSUME IInv, OrderInv, TypeOK', cur = 0, toys <= toys',
         caches'[0].value \in {caches[0].value, None},
         \A w \in Viewers : /\ pc'[w] = "send" => pc[w] = "send" /\ snap'[w] = snap[w]
                            /\ \/ last'[w] \in {last[w], None}
                               \/ pc[w] = "send" /\ last'[w] = snap[w] /\ pc'[w] # "send"
                            /\ pc'[w] = "answer" =>
                                 (pc[w] = "answer" /\ got'[w] = got[w]) \/ got'[w] = toys
  PROVE  Ordered' /\ Onward'
  <1>0. TypeOK /\ Reached /\ Ordered /\ Onward /\ toys \in Int /\ toys' \in Int
    BY Bounds DEF IInv, OrderInv, TypeOK
  <1>1. \A n : ShownBy(n) => ShownBy(n)'
    BY <1>0, ShownQuiet
  <1>2. /\ ShownBy(toys) /\ ShownBy(toys')
        /\ caches[0].value \notin {None, Empty} => ShownBy(caches[0].value)
        /\ caches[0].value # None => caches[0].value <= toys /\ caches[0].value \in Int
        /\ \A v \in Viewers : pc[v] = "answer" =>
             ShownBy(got[v]) /\ (caches[0].value # None => caches[0].value <= got[v])
    <2>1. caches[0].value # None => caches[0].value \in Int
      BY <1>0, Bounds DEF TypeOK, Caches
    <2>2. ShownBy(toys)
      BY <1>0 DEF Ordered
    <2>3. QED
      BY <1>0, <2>1, <2>2, ShownMore DEF Ordered
  <1>3. Ordered'
    <2>1. ASSUME NEW t, t = toys' PROVE ShownBy(t)'
      BY <1>1, <1>2, <2>1
    <2>2. ASSUME NEW t, t = caches'[0].value, t \notin {None, Empty} PROVE ShownBy(t)'
      BY <1>1, <1>2, <2>2
    <2>3. ASSUME NEW v \in Viewers, pc'[v] = "answer", NEW t, t = got'[v]
          PROVE  ShownBy(t)' /\ (caches'[0].value # None => caches'[0].value <= t)
      BY <1>1, <1>2, <2>3
    <2>4. caches'[0].value # None => caches'[0].value <= toys'
      BY <1>0, <1>2
    <2>5. QED
      BY <2>1, <2>2, <2>3, <2>4 DEF Ordered
  <1>4. Onward'
    <2>1. ASSUME NEW w \in Viewers, pc'[w] = "send"
          PROVE  /\ snap'[w] \in States
                 /\ last'[w] # None => snap'[w].toys >= last'[w].toys \/ snap'[w].toys = Empty
      BY <1>0, <2>1 DEF Onward
    <2>2. QED
      BY <2>1 DEF Onward
  <1>5. QED
    BY <1>3, <1>4

\* the holder of the lock is alone with it
LEMMA OneReader ==
  ASSUME IInv, Reached, cur = 0, NEW v \in Viewers, NEW w \in Viewers, Holds(v), gen[v] = 0,
         pc[w] \in {"ask", "answer"}
  PROVE  w = v
  <1>1. gen[w] = 0
    BY Bounds DEF IInv, Reached, TypeOK, Gens
  <1>2. Holds(w)
    BY DEF IInv, Locked
  <1>3. QED
    BY <1>1, <1>2 DEF Holds, HeldBy

LEMMA OrderedShows ==
  ASSUME IInv, OrderInv, cur = 0, NEW v \in Viewers, NEW list \in 0 .. MaxToys, Shows(v, list)
  PROVE  Ordered' /\ Onward'
  <1> DEFINE kept == caches[0].value
  <1>0. /\ TypeOK /\ Reached /\ Ordered /\ Onward /\ toys \in Int /\ list \in Int
        /\ Built(v, list) /\ UNCHANGED <<toys, cur, last>>
        /\ caches \in [Gens -> Caches] /\ 0 \in Gens /\ got \in [Viewers -> 0 .. MaxToys]
        /\ pc \in [Viewers -> Places] /\ snap \in [Viewers -> States \cup {None}]
    BY Bounds DEF IInv, OrderInv, TypeOK, Shows
  <1>1. /\ ShownBy(toys)
        /\ kept \notin {None, Empty} => ShownBy(kept)
        /\ kept # None => kept <= toys /\ kept \in Int
        /\ \A w \in Viewers : pc[w] = "answer" => ShownBy(got[w]) /\ (kept # None => kept <= got[w])
    BY <1>0, Bounds DEF Ordered, TypeOK, Caches
  <1>2. PICK x \in {"send", "beat", "wait"} :
          /\ pc' = [pc EXCEPT ![v] = x]
          /\ x = "send" => snap' = [snap EXCEPT ![v] = [toys |-> list, ids |-> Listed]]
          /\ x # "send" => snap' = snap
    BY <1>0, BuiltFacts
  <1>3. \A w \in Viewers : w # v => pc'[w] = pc[w] /\ got'[w] = got[w] /\ snap'[w] = snap[w]
    BY <1>0, BuiltElsewhere
  <1>4. gen[v] = 0 \/ pc[v] = "loop"
    BY <1>0, Bounds DEF Reached, TypeOK, Gens, Shows
  <1>5. /\ list # Empty => ShownBy(list) /\ list <= toys
        /\ caches'[0].value = list
        /\ \A w \in Viewers : w # v /\ pc[w] = "answer" => list <= got[w]
    <2>1. CASE FromCache(v, list)
      BY <2>1, <1>0, <1>1 DEF FromCache
    <2>2. ASSUME gen[v] = 0, Holds(v), NEW c \in Caches, c.queue = caches[0].queue,
                 caches' = [caches EXCEPT ![0] = Left(v, c)]
          PROVE  caches'[0].value = c.value
      <3>1. IsInjective(c.queue) /\ HeldBy(c.queue, v)
        BY <2>2, <1>0 DEF TypeOK, Holds
      <3>2. Left(v, c).value = c.value
        BY <2>2, <1>0, <3>1, LeftFacts
      <3>3. QED
        BY <2>2, <1>0, <3>2
    <2>3. CASE FromLock(v, list)
      <3>1. gen[v] = 0 /\ Holds(v) /\ caches[0] \in Caches
        BY <2>3, <1>0, <1>4 DEF FromLock
      <3>2. caches' = [caches EXCEPT ![0] = Left(v, caches[0])] /\ list = kept /\ list # None
        BY <2>3, <3>1 DEF FromLock
      <3>3. caches'[0].value = kept
        BY <2>2, <3>1, <3>2
      <3>4. QED
        BY <3>2, <3>3, <1>1
    <2>4. ASSUME Keep(v, list), pc[v] \in {"ask", "answer"}
          PROVE  /\ caches'[0].value = list
                 /\ \A w \in Viewers : w # v /\ pc[w] = "answer" => list <= got[w]
      <3> DEFINE c == [caches[gen[v]] EXCEPT !.value = list, !.young = TRUE]
      <3>1. gen[v] = 0 /\ Holds(v)
        BY <2>4, <1>4 DEF IInv, Locked
      <3>2. c \in Caches /\ c.queue = caches[gen[v]].queue /\ c.value = list
        BY <1>0, KeptFacts
      <3>3. caches' = [caches EXCEPT ![gen[v]] = Left(v, c)]
        BY <2>4 DEF Keep
      <3> HIDE DEF c
      <3>4. caches'[0].value = list
        BY <2>2, <3>1, <3>2, <3>3
      <3>5. \A w \in Viewers : w # v => pc[w] # "answer"
        BY <1>0, <3>1, OneReader
      <3>6. QED
        BY <3>4, <3>5
    <2>5. CASE FromAnswer(v, list)
      <3>1. Keep(v, list) /\ pc[v] = "answer" /\ list = got[v]
        BY <2>5 DEF FromAnswer
      <3>2. ShownBy(list) /\ list <= toys
        BY <3>1, <1>1 DEF IInv, Taken
      <3>3. QED
        BY <2>4, <3>1, <3>2
    <2>6. CASE FromFailure(v, list)
      <3>1. Keep(v, list) /\ pc[v] \in {"ask", "answer"}
        BY <2>6 DEF FromFailure
      <3>2. gen[v] = 0
        BY <1>4, <3>1
      <3>3. list # Empty => kept # None /\ list = kept
        BY <2>6, <3>2 DEF FromFailure
      <3>4. QED
        BY <2>4, <3>1, <3>3, <1>1
    <2>7. QED
      BY <2>1, <2>3, <2>5, <2>6 DEF Shows
  <1>6. list <= toys
    BY <1>0, <1>5, Bounds DEF Empty, TypeOK
  <1>7. \A n : ShownBy(n) /\ list <= n => ShownBy(n)'
    BY <1>0, ShownBuilt
  <1>8. Ordered'
    <2>1. ShownBy(toys)' /\ (list # Empty => ShownBy(list)')
      <3>1. ASSUME NEW t, t = toys PROVE ShownBy(t)'
        BY <3>1, <1>1, <1>6, <1>7
      <3>2. ShownBy(toys)'
        BY <1>0, <3>1
      <3>3. list # Empty => ShownBy(list)'
        BY <1>0, <1>5, <1>7
      <3>4. QED
        BY <3>2, <3>3
    <2>2. ASSUME NEW w \in Viewers, pc'[w] = "answer", NEW t, t = got'[w]
          PROVE  ShownBy(t)' /\ list <= t
      <3>1. w # v
        BY <2>2, <1>0, <1>2
      <3>2. pc[w] = "answer" /\ t = got[w] /\ list <= t
        BY <2>2, <3>1, <1>3, <1>5
      <3>3. QED
        BY <3>2, <1>1, <1>7
    <2>3. ASSUME NEW t, t = caches'[0].value, t \notin {None, Empty} PROVE ShownBy(t)'
      BY <2>1, <2>3, <1>5
    <2>4. QED
      BY <2>1, <2>2, <2>3, <1>0, <1>5, <1>6 DEF Ordered
  <1>9. Onward'
    <2>1. ASSUME NEW w \in Viewers, pc'[w] = "send"
          PROVE  /\ snap'[w] \in States
                 /\ last'[w] # None => snap'[w].toys >= last'[w].toys \/ snap'[w].toys = Empty
      <3>1. CASE w = v
        <4>1. snap'[v] = [toys |-> list, ids |-> Listed] /\ [toys |-> list, ids |-> Listed] \in States
          BY <2>1, <3>1, <1>0, <1>2, BuiltFacts
        <4>2. last[v] # None => last[v].toys \in Int
          BY <1>0, Bounds DEF TypeOK, States
        <4>3. list # Empty /\ last[v] # None => last[v].toys <= list
          BY <1>5 DEF ShownBy, ShownTo
        <4>4. QED
          BY <3>1, <4>1, <4>2, <4>3, <1>0
      <3>2. CASE w # v
        <4>1. pc[w] = "send" /\ snap'[w] = snap[w] /\ last'[w] = last[w]
          BY <2>1, <3>2, <1>0, <1>3
        <4>2. QED
          BY <4>1, <1>0 DEF Onward
      <3>3. QED
        BY <3>1, <3>2
    <2>2. QED
      BY <2>1 DEF Onward
  <1>10. QED
    BY <1>8, <1>9

LEMMA OrderedStep ==
  ASSUME IInv, OrderInv, TypeOK', [Next]_vars, cur = 0, cur' = 0
  PROVE  Ordered' /\ Onward'
  <1>0. /\ TypeOK /\ caches \in [Gens -> Caches] /\ toys \in Int /\ 0 \in Gens /\ gen \in [Viewers -> Gens]
        /\ pc \in [Viewers -> Places] /\ snap \in [Viewers -> States \cup {None}]
        /\ last \in [Viewers -> States \cup {None}] /\ got \in [Viewers -> 0 .. MaxToys]
    BY Bounds DEF IInv, TypeOK
  <1> DEFINE Quiet(w) == /\ pc'[w] = "send" => pc[w] = "send" /\ snap'[w] = snap[w]
                         /\ \/ last'[w] \in {last[w], None}
                            \/ pc[w] = "send" /\ last'[w] = snap[w] /\ pc'[w] # "send"
                         /\ pc'[w] = "answer" =>
                              (pc[w] = "answer" /\ got'[w] = got[w]) \/ got'[w] = toys
  <1>1. ASSUME toys <= toys', caches'[0].value \in {caches[0].value, None}, \A w \in Viewers : Quiet(w)
        PROVE  Ordered' /\ Onward'
    BY <1>1, <1>0, OrderedQuiet
  <1>2. CASE ToysChange
    <2> DEFINE d == [NoCache EXCEPT !.queue = caches[cur].queue]
    <2>1. d.value = None
      BY DEF NoCache
    <2>2. caches' = [caches EXCEPT ![cur] = d] \/ caches' = caches
      BY <1>2 DEF ToysChange
    <2> HIDE DEF d
    <2>3. caches'[0].value \in {caches[0].value, None}
      BY <1>0, <2>1, <2>2
    <2>4. toys <= toys' /\ \A w \in Viewers : Quiet(w)
      BY <1>0, <1>2 DEF ToysChange, workVars
    <2>5. QED
      BY <1>1, <2>3, <2>4
  <1>3. CASE Swap
    BY <1>3 DEF Swap
  <1>4. ASSUME NEW g \in Gens, Ages(g) PROVE Ordered' /\ Onward'
    <2>1. [caches[g] EXCEPT !.young = FALSE].value = caches[g].value
      BY <1>0 DEF Caches
    <2>2. caches'[0].value = caches[0].value
      BY <1>0, <1>4, <2>1 DEF Ages
    <2>3. toys <= toys' /\ \A w \in Viewers : Quiet(w)
      BY <1>0, <1>4 DEF Ages, workVars
    <2>4. QED
      BY <1>1, <2>2, <2>3
  <1>5. CASE Bumped \/ UNCHANGED vars \/ \E v \in Viewers : ReadEnds(v) \/ Refresh(v) \/ Leave(v)
    <2>1. UNCHANGED <<toys, caches, pc, snap, last, got>>
      BY <1>5 DEF Bumped, vars, ReadEnds, Refresh, Leave, cacheVars, workVars
    <2>2. toys <= toys' /\ \A w \in Viewers : Quiet(w)
      BY <1>0, <2>1
    <2>3. QED
      BY <1>1, <2>1, <2>2
  <1>6. ASSUME NEW v \in Viewers, Connect(v) \/ Replace(v) \/ Hello(v) \/ SendFails(v)
                                  \/ Wake(v) \/ Timeout(v) \/ LoopEnds(v) \/ Send(v) \/ Finish(v)
        PROVE  Ordered' /\ Onward'
    <2>1. UNCHANGED <<toys, caches, got>>
      BY <1>6 DEF Connect, Replace, Hello, SendFails, Wake, Timeout, LoopEnds, Send, Finish, cacheVars, workVars
    <2>2. \E x \in {"hello", "replacing", "loop", "lost", "wait", "closing", "ended"} : pc' = [pc EXCEPT ![v] = x]
      BY <1>6 DEF Connect, Replace, Register, Hello, Send, SendFails, Wake, Timeout, LoopEnds, Finish
    <2>3. \A w \in Viewers : /\ w # v => pc'[w] = pc[w]
                             /\ pc'[v] \notin {"send", "answer"}
      BY <1>0, <2>2
    <2>4. \A w \in Viewers : /\ w # v => last'[w] = last[w] /\ snap'[w] = snap[w]
                             /\ \/ last'[v] \in {last[v], None}
                                \/ pc[v] = "send" /\ last'[v] = snap[v]
      BY <1>0, <1>6 DEF Connect, Replace, Hello, SendFails, Wake, Timeout, LoopEnds, Send, Finish, workVars
    <2>5. \A w \in Viewers : Quiet(w)
      BY <2>1, <2>3, <2>4
    <2>6. QED
      BY <1>0, <1>1, <2>1, <2>5
  <1>7. ASSUME NEW v \in Viewers, Asked(v) PROVE Ordered' /\ Onward'
    <2>1. /\ UNCHANGED <<toys, caches, snap, last>> /\ pc' = [pc EXCEPT ![v] = "answer"]
          /\ got' = [got EXCEPT ![v] = toys]
      BY <1>7 DEF Asked, cacheVars
    <2>2. \A w \in Viewers : Quiet(w)
      BY <1>0, <2>1
    <2>3. QED
      BY <1>0, <1>1, <2>1, <2>2
  <1>8. ASSUME NEW v \in Viewers, Build(v) \/ Enter(v) \/ Answer(v) \/ AskFails(v)
        PROVE  Ordered' /\ Onward'
    <2>1. ASSUME Build(v), pc' = [pc EXCEPT ![v] = "queue"],
                 caches' = [caches EXCEPT ![cur].queue = Append(@, v)], UNCHANGED <<got, snap>>
          PROVE  Ordered' /\ Onward'
      <3>1. caches'[0].value = caches[0].value
        BY <1>0, <2>1 DEF Caches
      <3>2. UNCHANGED <<toys, last>>
        BY <2>1 DEF Build
      <3>3. \A w \in Viewers : Quiet(w)
        BY <1>0, <2>1, <3>2
      <3>4. QED
        BY <1>0, <1>1, <3>1, <3>2, <3>3
    <2>2. ASSUME Enter(v), pc' = [pc EXCEPT ![v] = "ask"], UNCHANGED <<caches, got, snap>>
          PROVE  Ordered' /\ Onward'
      <3>1. UNCHANGED <<toys, last>>
        BY <2>2 DEF Enter
      <3>2. \A w \in Viewers : Quiet(w)
        BY <1>0, <2>2, <3>1
      <3>3. QED
        BY <1>0, <1>1, <2>2, <3>1, <3>2
    <2>3. QED
      BY <1>0, <1>8, <2>1, <2>2, Showing, OrderedShows
  <1>9. QED
    BY <1>2, <1>3, <1>4, <1>5, <1>6, <1>7, <1>8 DEF Next, Handler

LEMMA OrderStart == Init => OrderInv
  <1> SUFFICES ASSUME Init PROVE OrderInv
    OBVIOUS
  <1>1. Reached
    BY DEF Init, Reached
  <1>2. \A n : ShownBy(n)
    BY DEF Init, ShownBy, ShownTo
  <1>3. caches[0].value = None /\ \A v \in Viewers : pc[v] = "new"
    BY Bounds DEF Init, NoCache
  <1>4. Ordered /\ Onward
    BY <1>2, <1>3 DEF Ordered, Onward
  <1>5. QED
    BY <1>1, <1>4 DEF OrderInv

LEMMA OrderNext ==
  ASSUME IInv, OrderInv, TypeOK', [Next]_vars
  PROVE  OrderInv'
  <1>1. Reached'
    BY ReachedStep DEF IInv, OrderInv
  <1>2. cur \in Nat /\ cur' \in {cur, cur + 1}
    <2>1. cur \in Nat
      BY Bounds DEF IInv, TypeOK, Gens
    <2>2. CASE Swap
      BY <2>1, <2>2 DEF Swap
    <2>3. CASE ~Swap
      BY <2>1, <2>3 DEF Next, Handler, ToysChange, Bumped, Ages, Replace, Hello, ReadEnds, Build, Enter, Asked,
                  Answer, AskFails, Send, Wake, Timeout, LoopEnds, Finish, Connect, Refresh, Leave,
                  SendFails, vars, cacheVars
    <2>4. QED
      BY <2>1, <2>2, <2>3
  <1>3. CASE cur' = 0
    BY <1>1, <1>2, <1>3, OrderedStep DEF OrderInv
  <1>4. CASE cur' # 0
    BY <1>1, <1>4 DEF OrderInv, Ordered, Onward
  <1>5. QED
    BY <1>3, <1>4

(* As long as one cache serves, what was shown, what the cache keeps and the answer a reader *)
(* holds are in the order in which they were read (toy_cache.py:54-71).                      *)
THEOREM OneOrder == Spec => [](IInv /\ OrderInv)
  <1>1. Init => IInv /\ OrderInv
    BY Start, OrderStart DEF IInv
  <1>2. IInv /\ IInv' /\ OrderInv /\ [Next]_vars => OrderInv'
    BY OrderNext DEF IInv
  <1>3. QED
    BY <1>1, <1>2, Invariance, PTL DEF Spec

(* As long as one cache serves, a viewer is never shown an older toy list than before, except *)
(* the empty one that a failed read leaves after an invalidation (toy_cache.py:57-71).         *)
THEOREM ShownNeverGoesBack == Spec => NeverBack
  <1>1. ASSUME IInv, OrderInv, [Next]_vars, NEW v \in Viewers, cur = 0, last[v] # None, last'[v] # None
        PROVE  last'[v].toys >= last[v].toys \/ last'[v].toys = Empty
    <2>1. last \in [Viewers -> States \cup {None}] /\ last[v].toys \in Int
      BY <1>1, Bounds DEF IInv, TypeOK, States
    <2>2. last'[v] = last[v] \/ (pc[v] = "send" /\ last'[v] = snap[v])
      <3>1. CASE \E w \in Viewers : Send(w)
        <4>1. PICK w \in Viewers : Send(w)
          BY <3>1
        <4>2. last' = [last EXCEPT ![w] = IF pc[w] = "send" THEN snap[w] ELSE last[w]]
          BY <4>1 DEF Send
        <4>3. QED
          BY <2>1, <4>2
      <3>2. CASE \E w \in Viewers : Finish(w)
        <4>1. PICK w \in Viewers : Finish(w)
          BY <3>2
        <4>2. last' = [last EXCEPT ![w] = None]
          BY <4>1 DEF Finish
        <4>3. w # v
          BY <1>1, <2>1, <4>2
        <4>4. QED
          BY <2>1, <4>2, <4>3
      <3>3. CASE ~\E w \in Viewers : Send(w) \/ Finish(w)
        <4>1. UNCHANGED last
          BY <1>1, <3>3 DEF Next, Handler, ToysChange, Bumped, Swap, Ages, Replace, Hello, ReadEnds, Build,
               Enter, Asked, Answer, AskFails, Wake, Timeout, LoopEnds, Connect, Refresh, Leave,
               SendFails, vars, workVars
        <4>2. QED
          BY <4>1
      <3>4. QED
        BY <3>1, <3>2, <3>3
    <2>3. pc[v] = "send" => snap[v].toys >= last[v].toys \/ snap[v].toys = Empty
      BY <1>1 DEF OrderInv, Onward
    <2>4. QED
      BY <2>1, <2>2, <2>3
  <1>2. IInv /\ OrderInv /\ [Next]_vars =>
          [\A v \in Viewers : cur = 0 /\ None \notin {last[v], last'[v]} =>
             last'[v].toys >= last[v].toys \/ last'[v].toys = Empty]_vars
    BY <1>1
  <1>3. QED
    BY <1>2, OneOrder, PTL DEF Spec, NeverBack
=============================================================================
