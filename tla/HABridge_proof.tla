---------------------------- MODULE HABridge_proof ----------------------------
(***************************************************************************)
(* Theorems about HABridge, for any motors, levels and numbers of commands *)
(* and reports: what the bridge believes and shows of the toy is what the  *)
(* toy does once everything under way has arrived, and a bridge that was   *)
(* stopped has said so.                                                    *)
(***************************************************************************)
EXTENDS HABridge, SequenceTheorems, FiniteSetTheorems, WellFoundedInduction, TLAPS

-----------------------------------------------------------------------------
(* The inductive invariant *)

Reports == [motor : Motors, level : Levels]
Refreshes == {"loop", "connect", "start"}
Runs == {"off", "starting", "scanning", "opening", "on", "failed", "idle", "stopping", "closing"}
Requests == [stage : {"free", "out", "done", "refused", "failed"},
             motor : Motors \cup {None}, sent : [Motors -> Levels], alone : BOOLEAN]

Typed ==
  /\ transport \in Transports /\ {control, begun, up, ready, cleared, published, disc, muddled, missed, gap} \subseteq BOOLEAN
  /\ run \in Runs
  /\ link \in {"on", "off", "gone"} /\ answer \in {None, "on", "off", "gone", "fail"}
  /\ row \in {"unknown", "on", "off"}
  /\ real \in [Motors -> Levels] /\ levels \in [Motors -> Levels] /\ shown \in [Motors -> Levels]
  /\ last \in [Motors -> Levels \cup {None}]
  /\ events \in Seq(Reports) /\ Len(events) <= MaxEvents
  /\ queue \in Seq(Refreshes) /\ (answer # None => queue # <<>>)
  /\ cmds \in [Commands -> Requests]
  /\ bridge \in {"none", "online", "offline"} /\ avail \in {"none", "online", "offline"}
  /\ odd \in 0 .. MaxOdd

\* a command that counts as alone is, and so is every one while nothing has overlapped
Single ==
  /\ \A c \in Commands : cmds[c].alone => Out = {c}
  /\ ~muddled => \A c, d \in Out : c = d

\* commands are for a toy that is known; of one that is not nothing is remembered
Known ==
  /\ Out # {} => row # "unknown"
  /\ row = "unknown" => levels = Zero /\ shown = Zero /\ ~begun /\ \A m \in Motors : last[m] = None

\* reports come while the bridge listens, which begins with nothing remembered of them
Heard ==
  /\ events # <<>> => Listening
  /\ run \in {"off", "starting"} => \A m \in Motors : last[m] = None
  /\ run \in {"scanning", "opening"} => transport = "scan"

\* the steps of start() and of the toy's list
AnyToyList == \E st \in {"on", "off"} : ToyList(st)

\* what stop() leaves
Left == run \in {"closing", "off"}
Ended ==
  /\ Left => ~up
  /\ run = "off" => \A c \in Out : cmds[c].stage = "failed"
  /\ Left /\ ~gap /\ bridge # "none" => bridge = "offline" /\ (row # "unknown" => avail = "offline")

\* a stop is sent as zeros; one that is alone finds the toy at zero when it is answered
Silences ==
  \A c \in Out : cmds[c].motor = None =>
    /\ cmds[c].sent = Zero
    /\ cmds[c].alone /\ cmds[c].stage = "done" => real = Zero

\* the report i is the first, the last of its motor; i and j follow one another
First(i)   == \A j \in 1 .. i - 1 : events[j].motor # events[i].motor
Final(i)   == \A j \in i + 1 .. Len(events) : events[j].motor # events[i].motor
Successive(i, j) == /\ i < j /\ events[i].motor = events[j].motor
               /\ \A k \in i + 1 .. j - 1 : events[k].motor # events[i].motor
Pending(m) == \E i \in DOMAIN events : events[i].motor = m

\* the last report of a motor says what the motor does
Arrives == \A i \in DOMAIN events : Final(i) => events[i].level = real[events[i].motor]
Echo(m) == \A i \in DOMAIN events : events[i].motor = m => events[i].level = levels[m]

\* the levels will be the toy's when the reports have come and the command is answered
Awaited ==
  /\ Arrives
  /\ \A c \in Out, m \in Motors : cmds[c].stage = "out" /\ cmds[c].motor # None =>
       Echo(m) /\ (m # cmds[c].motor => cmds[c].sent[m] = levels[m])
  /\ \A c \in Out : cmds[c].stage = "done" => real = cmds[c].sent
  /\ \A c \in Out, m \in Motors : cmds[c].stage = "done" /\ cmds[c].motor \notin {None, m} =>
       Echo(m) /\ cmds[c].sent[m] = levels[m]
  /\ (\A c \in Out : cmds[c].stage # "done") => \A m \in Motors : Pending(m) \/ levels[m] = real[m]

Follows == ~muddled => Awaited

\* each report of a motor is news, and the last one is what the motor does
Told ==
  /\ Arrives
  /\ \A i \in DOMAIN events : First(i) => events[i].level # last[events[i].motor]
  /\ \A i, j \in DOMAIN events : Successive(i, j) => events[i].level # events[j].level
  /\ \A m \in Motors : Pending(m) \/ last[m] \in {None, real[m]}

News == ~missed /\ Listening => Told

\* what was shown last is what the bridge believes
Shows == ~muddled /\ ~missed /\ row # "unknown" => shown = levels

IInv == Typed /\ Single /\ Known /\ Heard /\ Ended /\ Silences /\ Follows /\ News /\ Shows

-----------------------------------------------------------------------------
(* Reports that are sent and received *)

(* The reports of a turn: one of each motor that is turned.                  *)
LEMMA TurnedSeq ==
  ASSUME NEW to \in [Motors -> Levels]
  PROVE  /\ Turned(to) \in Seq(Reports)
         /\ \A i \in DOMAIN Turned(to) : LET r == Turned(to)[i] IN r.level = to[r.motor] /\ to[r.motor] # real[r.motor]
         /\ \A i, j \in DOMAIN Turned(to) : Turned(to)[i].motor = Turned(to)[j].motor => i = j
         /\ \A m \in Motors : to[m] # real[m] => \E i \in DOMAIN Turned(to) : Turned(to)[i].motor = m
  <1> DEFINE D == {n \in Motors : to[n] # real[n]}
             R == {[motor |-> m, level |-> to[m]] : m \in D}
             f == [m \in D |-> [motor |-> m, level |-> to[m]]]
             s == Turned(to)
  <1>1. IsFiniteSet(R)
    <2>1. IsFiniteSet(D)
      BY MotorAssumption, FS_Subset
    <2>2. f \in Surjection(D, R)
      BY DEF Surjection
    <2> HIDE DEF D, R, f
    <2> QED BY <2>1, <2>2, FS_Surjection
  <1>2. PICK n \in Nat : n = Cardinality(R)
    BY <1>1, FS_CardinalityType
  <1>3. s \in [1 .. n -> R] /\ IsInjective(s)
    <2>1. PICK g \in Bijection(1 .. n, R) : TRUE
      BY <1>1, <1>2, FS_CardinalityType DEF ExistsBijection
    <2>2. g \in [1 .. n -> R] /\ IsInjective(g)
      BY <2>1 DEF Bijection, Injection, IsInjective
    <2> HIDE DEF R
    <2>3. SetToSeq(R) \in [1 .. n -> R] /\ IsInjective(SetToSeq(R))
      BY <1>2, <2>2 DEF SetToSeq
    <2> QED BY <2>3 DEF Turned, R
  <1>4. \A r \in R : \E i \in 1 .. n : s[i] = r
    <2> HIDE DEF R, s
    <2>1. s \in Injection(1 .. n, R)
      BY <1>3 DEF Injection, IsInjective
    <2>2. Cardinality(1 .. n) = n
      BY FS_Interval
    <2>3. s \in Surjection(1 .. n, R)
      BY <1>1, <1>2, <2>1, <2>2, FS_Injection
    <2> QED BY <2>3 DEF Surjection
  <1> HIDE DEF s
  <1>5. DOMAIN s = 1 .. n /\ s \in Seq(Reports)
    <2>1. R \subseteq Reports
      BY DEF Reports
    <2> HIDE DEF R
    <2>2. s \in [1 .. n -> Reports]
      BY <1>3, <2>1
    <2> QED BY <2>2
  <1>6. \A i \in 1 .. n : s[i].level = to[s[i].motor] /\ to[s[i].motor] # real[s[i].motor]
    BY <1>3
  <1>7. \A i, j \in 1 .. n : s[i].motor = s[j].motor => i = j
    BY <1>3 DEF IsInjective
  <1>8. \A m \in Motors : to[m] # real[m] => \E i \in 1 .. n : s[i].motor = m
    <2> SUFFICES ASSUME NEW m \in Motors, to[m] # real[m] PROVE \E i \in 1 .. n : s[i].motor = m
      OBVIOUS
    <2>1. [motor |-> m, level |-> to[m]] \in R
      OBVIOUS
    <2>2. PICK i \in 1 .. n : s[i] = [motor |-> m, level |-> to[m]]
      BY <1>4, <2>1
    <2> QED BY <2>2
  <1> QED BY <1>5, <1>6, <1>7, <1>8 DEF s

(* What is turned while the bridge listens is reported behind what is under way. *)
LEMMA SendsReports ==
  ASSUME Typed, NEW to \in [Motors -> Levels], events' = events \o Turned(to)
  PROVE  LET n == Len(events) IN
         /\ events' \in Seq(Reports) /\ n \in Nat /\ DOMAIN events = 1 .. n /\ n <= Len(events')
         /\ DOMAIN events' = 1 .. Len(events') /\ Len(events') \in Nat
         /\ \A i \in 1 .. n : events'[i] = events[i]
         /\ \A i \in DOMAIN events' \ (1 .. n) :
              events'[i].level = to[events'[i].motor] /\ to[events'[i].motor] # real[events'[i].motor]
         /\ \A i, j \in DOMAIN events' \ (1 .. n) : events'[i].motor = events'[j].motor => i = j
         /\ \A m \in Motors : to[m] # real[m] => \E i \in DOMAIN events' \ (1 .. n) : events'[i].motor = m
  <1> DEFINE n == Len(events)
             s == Turned(to)
  <1>1. /\ s \in Seq(Reports)
        /\ \A i \in DOMAIN s : s[i].level = to[s[i].motor] /\ to[s[i].motor] # real[s[i].motor]
        /\ \A i, j \in DOMAIN s : s[i].motor = s[j].motor => i = j
        /\ \A m \in Motors : to[m] # real[m] => \E i \in DOMAIN s : s[i].motor = m
    BY TurnedSeq
  <1> HIDE DEF s
  <1>2. events \in Seq(Reports)
    BY DEF Typed
  <1>3. /\ events' \in Seq(Reports) /\ Len(events') = n + Len(s)
        /\ \A i \in 1 .. n + Len(s) : events'[i] = IF i <= n THEN events[i] ELSE s[i - n]
    <2>1. events' = events \o s
      BY DEF s
    <2> QED BY <1>1, <1>2, <2>1, ConcatProperties
  <1>4. n \in Nat /\ Len(s) \in Nat /\ DOMAIN events = 1 .. n /\ DOMAIN s = 1 .. Len(s) /\ DOMAIN events' = 1 .. n + Len(s)
    BY <1>1, <1>2, <1>3
  <1>5. \A i \in 1 .. n : i \in 1 .. n + Len(s) /\ i <= n
    BY <1>4
  <1>6. \A i \in DOMAIN events' \ (1 .. n) : i - n \in DOMAIN s /\ events'[i] = s[i - n]
    BY <1>3, <1>4
  <1>7. \A i \in DOMAIN s : i + n \in DOMAIN events' \ (1 .. n) /\ events'[i + n] = s[i]
    <2> HIDE DEF n
    <2> SUFFICES ASSUME NEW i \in 1 .. Len(s) PROVE i + n \in DOMAIN events' \ (1 .. n) /\ events'[i + n] = s[i]
      BY <1>4
    <2>1. i + n \in 1 .. n + Len(s) /\ ~(i + n <= n) /\ (i + n) - n = i
      BY <1>4
    <2> QED BY <1>3, <1>4, <2>1
  <1>8. \A i, j \in DOMAIN events' \ (1 .. n) : i - n = j - n => i = j
    BY <1>4
  <1>9. \A i \in 1 .. n : events'[i] = events[i]
    BY <1>3, <1>5
  <1>10. \A i \in DOMAIN events' \ (1 .. n) :
           events'[i].level = to[events'[i].motor] /\ to[events'[i].motor] # real[events'[i].motor]
    BY <1>1, <1>6
  <1>11. \A i, j \in DOMAIN events' \ (1 .. n) : events'[i].motor = events'[j].motor => i = j
    BY <1>1, <1>6, <1>8
  <1>12. \A m \in Motors : to[m] # real[m] => \E i \in DOMAIN events' \ (1 .. n) : events'[i].motor = m
    BY <1>1, <1>7
  <1>13. n <= Len(events') /\ DOMAIN events' = 1 .. Len(events') /\ Len(events') \in Nat
    BY <1>3, <1>4
  <1> HIDE DEF n
  <1> QED BY <1>3, <1>4, <1>9, <1>10, <1>11, <1>12, <1>13 DEF n

(* The last report of each motor says what it does, also after a turn.       *)
LEMMA SendsArrives ==
  ASSUME Typed, NEW to \in [Motors -> Levels], events' = events \o Turned(to), real' = to
  PROVE  /\ Arrives => Arrives'
         /\ \A m \in Motors : ~Pending(m)' => ~Pending(m) /\ to[m] = real[m]
         /\ \A i \in DOMAIN events' : \/ i \in DOMAIN events /\ events'[i] = events[i]
                                      \/ events'[i].level = to[events'[i].motor]
                                         /\ to[events'[i].motor] # real[events'[i].motor]
  <1> DEFINE n == Len(events)
  <1>1. /\ events' \in Seq(Reports) /\ n \in Nat /\ DOMAIN events = 1 .. n /\ n <= Len(events')
        /\ DOMAIN events' = 1 .. Len(events') /\ Len(events') \in Nat
        /\ \A i \in 1 .. n : events'[i] = events[i]
        /\ \A i \in DOMAIN events' \ (1 .. n) :
             events'[i].level = to[events'[i].motor] /\ to[events'[i].motor] # real[events'[i].motor]
        /\ \A m \in Motors : to[m] # real[m] => \E i \in DOMAIN events' \ (1 .. n) : events'[i].motor = m
    BY SendsReports
  <1>2. \A i \in 1 .. n : events[i].motor \in Motors
    <2>1. \A i \in 1 .. n : events[i] \in Reports
      BY <1>1 DEF Typed
    <2> QED BY <2>1 DEF Reports
  <1>3. ASSUME Arrives, NEW i \in DOMAIN events', Final(i)' PROVE events'[i].level = to[events'[i].motor]
    <2>1. CASE i \in 1 .. n
      <3>1. \A j \in i + 1 .. Len(events') : events'[j].motor # events'[i].motor
        BY <1>3 DEF Final
      <3>2. \A j \in i + 1 .. n : j \in i + 1 .. Len(events') /\ events'[j] = events[j]
        BY <1>1, <2>1
      <3>3. Final(i)
        BY <1>1, <2>1, <3>1, <3>2 DEF Final
      <3>4. \A j \in DOMAIN events' \ (1 .. n) : j \in i + 1 .. Len(events')
        BY <1>1, <2>1
      <3>5. to[events[i].motor] = real[events[i].motor]
        <4>1. events'[i] = events[i] /\ events[i].motor \in Motors
          BY <1>1, <1>2, <2>1
        <4>2. \A j \in DOMAIN events' \ (1 .. n) : events'[j].motor # events[i].motor
          BY <3>1, <3>4, <4>1
        <4> QED BY <1>1, <4>1, <4>2
      <3> QED BY <1>1, <1>3, <2>1, <3>3, <3>5 DEF Arrives
    <2>2. CASE i \notin 1 .. n
      BY <1>1, <1>3, <2>2
    <2> QED BY <2>1, <2>2
  <1>4. Arrives => Arrives'
    BY <1>3 DEF Arrives
  <1>5. ASSUME NEW m \in Motors, ~Pending(m)' PROVE ~Pending(m) /\ to[m] = real[m]
    <2>1. \A i \in DOMAIN events' : events'[i].motor # m
      BY <1>5 DEF Pending
    <2>2. 1 .. n \subseteq DOMAIN events'
      BY <1>1
    <2> QED BY <1>1, <2>1, <2>2 DEF Pending
  <1> QED BY <1>1, <1>4, <1>5

(* A turn is news.                                                           *)
LEMMA SendsTold ==
  ASSUME Typed, NEW to \in [Motors -> Levels], events' = events \o Turned(to), real' = to, last' = last, Told
  PROVE  Told'
  <1> DEFINE n == Len(events)
             New == DOMAIN events' \ (1 .. n)
  <1>1. /\ n \in Nat /\ DOMAIN events = 1 .. n /\ n <= Len(events')
        /\ DOMAIN events' = 1 .. Len(events') /\ Len(events') \in Nat
        /\ \A i \in 1 .. n : events'[i] = events[i]
        /\ \A i \in New : events'[i].level = to[events'[i].motor] /\ to[events'[i].motor] # real[events'[i].motor]
        /\ \A i, j \in New : events'[i].motor = events'[j].motor => i = j
    BY SendsReports
  <1>2. \A i \in DOMAIN events' : events'[i].motor \in Motors /\ events'[i].level \in Levels
    <2>1. events' \in Seq(Reports)
      BY SendsReports
    <2>2. \A i \in DOMAIN events' : events'[i] \in Reports
      BY <2>1
    <2> QED BY <2>2 DEF Reports
  <1>3. Arrives' /\ \A m \in Motors : ~Pending(m)' => ~Pending(m) /\ to[m] = real[m]
    BY SendsArrives DEF Told
  <1>4. \A i \in DOMAIN events', j \in 1 .. n : i \notin 1 .. n => j \in 1 .. i - 1
    BY <1>1
  <1> HIDE DEF n, New
  <1>5. ASSUME NEW i \in DOMAIN events', First(i)' PROVE events'[i].level # last'[events'[i].motor]
    <2>1. \A j \in 1 .. i - 1 : events'[j].motor # events'[i].motor
      BY <1>5 DEF First
    <2>2. CASE i \in 1 .. n
      <3>1. \A j \in 1 .. i - 1 : j \in 1 .. n
        BY <1>1, <2>2
      <3>2. First(i)
        BY <1>1, <2>1, <2>2, <3>1 DEF First
      <3> QED BY <1>1, <2>2, <3>2 DEF Told
    <2>3. CASE i \notin 1 .. n
      <3>1. ~Pending(events'[i].motor)
        BY <1>1, <1>4, <2>1, <2>3 DEF Pending
      <3>2. last[events'[i].motor] \in {None, real[events'[i].motor]}
        BY <1>2, <3>1 DEF Told
      <3>3. i \in New /\ events'[i].level # None
        BY <1>2, <2>3, NoneAssumption, BoundAssumption DEF New, Levels
      <3> QED BY <1>1, <3>2, <3>3
    <2> QED BY <2>2, <2>3
  <1>6. ASSUME NEW i \in DOMAIN events', NEW j \in DOMAIN events', Successive(i, j)'
        PROVE  events'[i].level # events'[j].level
    <2>1. /\ i < j /\ events'[i].motor = events'[j].motor
          /\ \A k \in i + 1 .. j - 1 : events'[k].motor # events'[i].motor
      BY <1>6 DEF Successive
    <2>2. CASE j \in 1 .. n
      <3>1. i \in 1 .. n /\ \A k \in i + 1 .. j - 1 : k \in 1 .. n
        BY <1>1, <2>1, <2>2
      <3>2. Successive(i, j)
        BY <1>1, <2>1, <2>2, <3>1 DEF Successive
      <3> QED BY <1>1, <2>2, <3>1, <3>2 DEF Told
    <2>3. CASE i \in 1 .. n /\ j \notin 1 .. n
      <3>1. \A k \in i + 1 .. n : k \in 1 .. n /\ k \in i + 1 .. j - 1
        BY <1>1, <2>1, <2>3
      <3>2. Final(i)
        BY <1>1, <2>1, <2>3, <3>1 DEF Final, n
      <3>3. events[i].level = real[events[i].motor]
        BY <1>1, <2>3, <3>2 DEF Told, Arrives
      <3>4. j \in New
        BY <2>3 DEF New
      <3> QED BY <1>1, <2>1, <2>3, <3>3, <3>4
    <2>4. CASE i \notin 1 .. n
      <3>1. i \in New /\ j \in New
        BY <1>1, <2>1, <2>4 DEF New
      <3> QED BY <1>1, <2>1, <3>1
    <2> QED BY <2>2, <2>3, <2>4
  <1>7. ASSUME NEW m \in Motors, ~Pending(m)' PROVE last'[m] \in {None, real'[m]}
    BY <1>3, <1>7 DEF Told
  <1> QED BY <1>3, <1>5, <1>6, <1>7 DEF Told

(* A report that is received was the first of its motor.                     *)
LEMMA TakesReports ==
  ASSUME Typed, NEW m, NEW v, Received([motor |-> m, level |-> v])
  PROVE  /\ events' \in Seq(Reports) /\ m \in Motors /\ v \in Levels /\ Len(events') < Len(events)
         /\ Len(events) \in Nat /\ DOMAIN events = 1 .. Len(events) /\ DOMAIN events' = 1 .. Len(events) - 1
         /\ 1 \in DOMAIN events /\ events[1] = [motor |-> m, level |-> v]
         /\ \A i \in DOMAIN events' : i + 1 \in DOMAIN events /\ events'[i] = events[i + 1]
         /\ \A i \in DOMAIN events : i # 1 => i - 1 \in DOMAIN events' /\ events'[i - 1] = events[i]
  <1>1. events \in Seq(Reports) /\ events # <<>> /\ events' = Tail(events) /\ Head(events) = [motor |-> m, level |-> v]
    BY DEF Typed, Received
  <1>2. /\ events' \in Seq(Reports) /\ Len(events') = Len(events) - 1 /\ Len(events) \in Nat /\ Len(events) >= 1
        /\ Head(events) = events[1] /\ \A i \in 1 .. Len(events) - 1 : events'[i] = events[i + 1]
    BY <1>1, HeadTailProperties
  <1>3. DOMAIN events = 1 .. Len(events) /\ DOMAIN events' = 1 .. Len(events) - 1
    BY <1>1, <1>2
  <1>4. 1 \in DOMAIN events /\ events[1] \in Reports
    BY <1>1, <1>2, <1>3
  <1>5. m \in Motors /\ v \in Levels
    BY <1>1, <1>2, <1>4 DEF Reports
  <1>6. \A i \in DOMAIN events' : i + 1 \in DOMAIN events /\ events'[i] = events[i + 1]
    BY <1>2, <1>3
  <1>7. \A i \in DOMAIN events : i # 1 => i - 1 \in DOMAIN events' /\ events'[i - 1] = events[i]
    BY <1>2, <1>3
  <1> QED BY <1>1, <1>2, <1>3, <1>4, <1>5, <1>6, <1>7

(* What a report leaves under way, and what is not under way any more.       *)
LEMMA TakesArrives ==
  ASSUME Typed, NEW m, NEW v, Received([motor |-> m, level |-> v]), real' = real
  PROVE  /\ Arrives => Arrives'
         /\ \A n \in Motors : ~Pending(n)' /\ n # m => ~Pending(n)
         /\ Arrives /\ ~Pending(m)' => v = real[m]
  <1>1. /\ Len(events) \in Nat /\ DOMAIN events = 1 .. Len(events) /\ DOMAIN events' = 1 .. Len(events) - 1
        /\ 1 \in DOMAIN events /\ events[1] = [motor |-> m, level |-> v] /\ Len(events') = Len(events) - 1
        /\ \A i \in DOMAIN events' : i + 1 \in DOMAIN events /\ events'[i] = events[i + 1]
        /\ \A i \in DOMAIN events : i # 1 => i - 1 \in DOMAIN events' /\ events'[i - 1] = events[i]
    <2>1. Len(events') = Len(events) - 1
      BY HeadTailProperties DEF Typed, Received
    <2> QED BY <2>1, TakesReports
  <1>2. ASSUME Arrives, NEW i \in DOMAIN events', Final(i)' PROVE events'[i].level = real[events'[i].motor]
    <2>1. \A j \in i + 1 .. Len(events) - 1 : events'[j].motor # events'[i].motor
      BY <1>1, <1>2 DEF Final
    <2>2. \A j \in i + 2 .. Len(events) : j - 1 \in i + 1 .. Len(events) - 1 /\ events[j] = events'[j - 1]
      <3>1. \A j \in i + 2 .. Len(events) : j \in DOMAIN events /\ j # 1 /\ j - 1 \in i + 1 .. Len(events) - 1
        BY <1>1
      <3> QED BY <1>1, <3>1
    <2>3. \A j \in i + 2 .. Len(events) : events[j].motor # events[i + 1].motor
      BY <1>1, <2>1, <2>2
    <2>4. Final(i + 1)
      BY <1>1, <2>3 DEF Final
    <2> QED BY <1>1, <1>2, <2>4 DEF Arrives
  <1>3. ASSUME NEW n \in Motors, ~Pending(n)', n # m PROVE ~Pending(n)
    BY <1>1, <1>3 DEF Pending
  <1>4. ASSUME Arrives, ~Pending(m)' PROVE v = real[m]
    <2>0. \A j \in 2 .. Len(events) : j - 1 \in DOMAIN events' /\ events'[j - 1] = events[j]
      BY <1>1
    <2>1. \A j \in 2 .. Len(events) : events[j].motor # m
      BY <2>0, <1>4 DEF Pending
    <2>2. Final(1)
      BY <1>1, <2>1 DEF Final
    <2> QED BY <1>1, <1>4, <2>2 DEF Arrives
  <1> QED BY <1>2, <1>3, <1>4 DEF Arrives

(* A report is news when it is received, and what comes behind it is news,   *)
(* also when nothing is remembered of it.                                    *)
LEMMA TakesTold ==
  ASSUME Typed, NEW m, NEW v, Received([motor |-> m, level |-> v]), real' = real, last \in [Motors -> Levels \cup {None}],
         last' = [last EXCEPT ![m] = v] \/ (last' = last /\ \A n \in Motors : last[n] = None), Told
  PROVE  Told' /\ last[m] # v
  <1>1. /\ Len(events) \in Nat /\ DOMAIN events = 1 .. Len(events) /\ DOMAIN events' = 1 .. Len(events) - 1
        /\ 1 \in DOMAIN events /\ events[1] = [motor |-> m, level |-> v]
        /\ \A i \in DOMAIN events' : i + 1 \in DOMAIN events /\ events'[i] = events[i + 1]
        /\ \A i \in DOMAIN events : i # 1 => i - 1 \in DOMAIN events' /\ events'[i - 1] = events[i]
        /\ m \in Motors /\ v \in Levels
    BY TakesReports
  <1>2. /\ Arrives' /\ (~Pending(m)' => v = real[m])
        /\ \A n \in Motors : ~Pending(n)' /\ n # m => ~Pending(n)
    BY TakesArrives DEF Told
  <1>3. last[m] # v
    BY <1>1 DEF Told, First
  <1>4. \/ \A n \in Motors : last'[n] = IF n = m THEN v ELSE last[n]
        \/ \A n \in Motors : last'[n] = None /\ last[n] = None
    BY <1>1
  <1>5. ASSUME NEW i \in DOMAIN events', First(i)' PROVE events'[i].level # last'[events'[i].motor]
    <2>1. \A j \in 1 .. i - 1 : events'[j].motor # events'[i].motor
      BY <1>5 DEF First
    <2>2. \A j \in 2 .. i : j - 1 \in 1 .. i - 1 /\ events[j] = events'[j - 1]
      BY <1>1
    <2>3. \A j \in 2 .. i : events[j].motor # events[i + 1].motor
      BY <1>1, <2>1, <2>2
    <2>0. events[i + 1].motor \in Motors /\ events[i + 1].level # None
      <3>1. events[i + 1] \in Reports
        BY <1>1 DEF Typed
      <3>2. events[i + 1].motor \in Motors /\ events[i + 1].level \in Levels
        BY <3>1 DEF Reports
      <3> QED BY <3>2, NoneAssumption, BoundAssumption DEF Levels
    <2>4. CASE events[i + 1].motor = m
      <3>1. Successive(1, i + 1)
        BY <1>1, <2>3, <2>4 DEF Successive
      <3>2. events[1].level # events[i + 1].level
        BY <1>1, <3>1 DEF Told
      <3> QED BY <1>1, <1>4, <2>0, <2>4, <3>2
    <2>5. CASE events[i + 1].motor # m
      <3>1. First(i + 1)
        BY <1>1, <2>3, <2>5 DEF First
      <3>2. events[i + 1].level # last[events[i + 1].motor]
        BY <1>1, <3>1 DEF Told
      <3> QED BY <1>1, <1>4, <2>0, <2>5, <3>2
    <2> QED BY <2>4, <2>5
  <1>6. ASSUME NEW i \in DOMAIN events', NEW j \in DOMAIN events', Successive(i, j)'
        PROVE  events'[i].level # events'[j].level
    <2>1. /\ i < j /\ events'[i].motor = events'[j].motor
          /\ \A k \in i + 1 .. j - 1 : events'[k].motor # events'[i].motor
      BY <1>6 DEF Successive
    <2>2. \A k \in i + 2 .. j : k - 1 \in i + 1 .. j - 1 /\ events[k] = events'[k - 1]
      BY <1>1
    <2>3. Successive(i + 1, j + 1)
      BY <1>1, <2>1, <2>2 DEF Successive
    <2> QED BY <1>1, <2>3 DEF Told
  <1>7. ASSUME NEW n \in Motors, ~Pending(n)' PROVE last'[n] \in {None, real'[n]}
    BY <1>2, <1>4, <1>7 DEF Told
  <1> QED BY <1>2, <1>3, <1>5, <1>6, <1>7 DEF Told

-----------------------------------------------------------------------------
(* Types *)

LEMMA Zeros == /\ Zero \in [Motors -> Levels] /\ 0 \in Levels /\ {MaxLevel, MaxEvents, MaxOdd} \subseteq Nat
               /\ None \notin Motors \cup Levels \cup {"on", "off", "gone", "fail"}
  <1>1. {MaxLevel, MaxEvents, MaxOdd} \subseteq Nat /\ 0 \in Levels
    BY BoundAssumption DEF Levels
  <1> QED BY <1>1, NoneAssumption DEF Zero, Levels

(* A cancelled refresh leaves the lock's queue, and its holder, as they are.  *)
LEMMA WithoutSeq ==
  ASSUME NEW S, NEW q \in Seq(S), NEW a \in Range(q)
  PROVE  Without(q, a) \in Seq(S) /\ (Head(q) # a => Without(q, a) # <<>>)
  <1> DEFINE k == CHOOSE i \in 1 .. Len(q) : q[i] = a
  <1>1. k \in 1 .. Len(q) /\ q[k] = a
    BY DEF Range
  <1>2. Without(q, a) = [i \in 1 .. Len(q) - 1 |-> IF i < k THEN q[i] ELSE q[i + 1]]
    BY DEF Without
  <1> HIDE DEF k
  <1>3. Without(q, a) \in Seq(S) /\ Len(Without(q, a)) = Len(q) - 1
    BY <1>1, <1>2
  <1>4. Head(q) # a => Len(q) - 1 >= 1
    BY <1>1
  <1> QED BY <1>3, <1>4

LEMMA TypedInit == Init => Typed
  <1> SUFFICES ASSUME Init PROVE Typed
    OBVIOUS
  <1>1. Zero \in [Motors -> Levels] /\ MaxEvents \in Nat /\ MaxOdd \in Nat
    BY Zeros
  <1>2. events \in Seq(Reports) /\ Len(events) <= MaxEvents /\ queue \in Seq(Refreshes)
    BY <1>1 DEF Init
  <1>3. cmds \in [Commands -> Requests]
    BY <1>1 DEF Init, Free, Requests
  <1>4. last \in [Motors -> Levels \cup {None}] /\ odd \in 0 .. MaxOdd
    BY <1>1 DEF Init
  <1> QED BY <1>1, <1>2, <1>3, <1>4 DEF Init, Typed, Runs

LEMMA ReportTyped ==
  ASSUME NEW ms, NEW values \in [Motors -> Levels], Report(ms, values), Typed
  PROVE  shown' \in [Motors -> Levels] /\ missed' \in BOOLEAN
  BY DEF Report, Typed

LEMMA DiscoverTyped ==
  ASSUME Discover, Typed
  PROVE  /\ shown' \in [Motors -> Levels] /\ missed' \in BOOLEAN /\ levels' \in [Motors -> Levels]
         /\ published' \in BOOLEAN /\ disc' \in BOOLEAN /\ begun' \in BOOLEAN /\ muddled' \in BOOLEAN
  <1>1. published' \in BOOLEAN /\ begun' \in BOOLEAN /\ disc' \in BOOLEAN /\ muddled' \in BOOLEAN
    BY DEF Discover, Typed
  <1>2. CASE ~begun
    BY <1>1, <1>2, Zeros, ReportTyped DEF Discover
  <1>3. CASE begun
    BY <1>1, <1>3 DEF Discover, Typed
  <1> QED BY <1>2, <1>3

LEMMA TurnTyped ==
  ASSUME NEW to \in [Motors -> Levels], Turn(to), Typed
  PROVE  real' \in [Motors -> Levels] /\ events' \in Seq(Reports) /\ Len(events') <= MaxEvents
  <1>1. CASE Listening
    BY <1>1, SendsReports DEF Turn
  <1>2. CASE ~Listening
    BY <1>2 DEF Turn, Typed
  <1> QED BY <1>1, <1>2 DEF Turn

(* A command goes to another stage, or is not alone any more.                *)
LEMMA Restaged ==
  ASSUME NEW r \in Requests, NEW st \in {"out", "done", "refused", "failed"}
  PROVE  LET q == [r EXCEPT !.stage = st] IN
         q \in Requests /\ q.stage = st /\ q.motor = r.motor /\ q.sent = r.sent /\ q.alone = r.alone
  BY DEF Requests

LEMMA Joined ==
  ASSUME NEW r \in Requests
  PROVE  LET q == [r EXCEPT !.alone = FALSE] IN
         q \in Requests /\ q.stage = r.stage /\ q.motor = r.motor /\ q.sent = r.sent /\ ~q.alone
  BY DEF Requests

(* What a request comes to.                                                  *)
LEMMA Reached ==
  ASSUME Typed, NEW c \in Commands, Reach(c)
  PROVE  /\ cmds[c].stage = "out" /\ cmds' \in [Commands -> Requests] /\ \A d \in Commands \ {c} : cmds'[d] = cmds[d]
         /\ cmds'[c].motor = cmds[c].motor /\ cmds'[c].sent = cmds[c].sent /\ cmds'[c].alone = cmds[c].alone
         /\ \/ cmds'[c].stage = "done" /\ Turn(cmds[c].sent) /\ UNCHANGED <<odd, muddled>>
            \/ cmds'[c].stage = "refused" /\ UNCHANGED <<real, events, odd, muddled>>
            \/ cmds'[c].stage = "failed" /\ Turn(cmds[c].sent) /\ Odd /\ muddled' = TRUE
  <1>1. cmds \in [Commands -> Requests]
    BY DEF Typed
  <1>2. ASSUME NEW st \in {"out", "done", "refused", "failed"}, cmds' = [cmds EXCEPT ![c].stage = st]
        PROVE  /\ cmds' \in [Commands -> Requests] /\ \A d \in Commands \ {c} : cmds'[d] = cmds[d]
               /\ cmds'[c].motor = cmds[c].motor /\ cmds'[c].sent = cmds[c].sent /\ cmds'[c].alone = cmds[c].alone
               /\ cmds'[c].stage = st
    <2>1. cmds' = [cmds EXCEPT ![c] = [cmds[c] EXCEPT !.stage = st]]
      BY <1>2
    <2>2. cmds[c] \in Requests
      BY <1>1
    <2> QED BY <1>1, <2>1, <2>2, Restaged
  <1>3. /\ cmds[c].stage = "out"
        /\ \/ cmds' = [cmds EXCEPT ![c].stage = "done"] /\ Turn(cmds[c].sent) /\ UNCHANGED <<odd, muddled>>
           \/ cmds' = [cmds EXCEPT ![c].stage = "refused"] /\ UNCHANGED <<real, events, odd, muddled>>
           \/ cmds' = [cmds EXCEPT ![c].stage = "failed"] /\ Turn(cmds[c].sent) /\ Odd /\ muddled' = TRUE
    BY DEF Reach
  <1> QED BY <1>2, <1>3

LEMMA TypedStep == Typed /\ [Next]_vars => Typed'
  <1> SUFFICES ASSUME Typed, [Next]_vars PROVE Typed'
    OBVIOUS
  <1>a. Zero \in [Motors -> Levels] /\ 0 \in Levels /\ MaxEvents \in Nat /\ MaxOdd \in Nat
    BY Zeros
  <1>b. events \in Seq(Reports) /\ queue \in Seq(Refreshes) /\ <<>> \in Seq(Reports) /\ Len(<<>>) = 0
    BY DEF Typed
  <1>1. CASE Start \/ StartFails \/ StartAgain \/ Disconnect
    <2>1. odd' \in 0 .. MaxOdd
      BY <1>1, <1>a DEF Start, StartFails, StartAgain, Disconnect, Odd, Typed
    <2>2. run' \in Runs /\ up' \in BOOLEAN /\ control' \in BOOLEAN
      BY <1>1 DEF Start, StartFails, StartAgain, Disconnect, Typed, Runs, way
    <2>3. UNCHANGED <<transport, toyVars, queue, answer, memory, cmds, busVars, history>>
      BY <1>1 DEF Start, StartFails, StartAgain, Disconnect, way
    <2> QED BY <2>1, <2>2, <2>3 DEF Typed, toyVars, memory, busVars, history
  <1>2. CASE Connect \/ RefreshDue \/ Scanned
    <2>1. \A k \in Refreshes : Append(queue, k) \in Seq(Refreshes) /\ Append(queue, k) # <<>>
      BY <1>b, AppendProperties
    <2>2. queue' \in Seq(Refreshes) /\ (queue' = queue \/ queue' # <<>>) /\ answer' = answer
      BY <1>2, <1>b, <2>1 DEF Connect, RefreshDue, Scanned, Refreshes
    <2>3. /\ run' \in Runs /\ up' \in BOOLEAN /\ control' \in BOOLEAN
          /\ bridge' \in {"none", "online", "offline"}
      BY <1>2 DEF Connect, RefreshDue, Scanned, Typed, busVars, Runs, way
    <2>4. UNCHANGED <<transport, toyVars, memory, cmds, avail, disc, shown, odd, history>>
      BY <1>2 DEF Connect, RefreshDue, Scanned, busVars, way
    <2> QED BY <2>2, <2>3, <2>4 DEF Typed, toyVars, memory, history
  <1>3. CASE Stop
    <2>1. /\ queue' \in Seq(Refreshes) /\ (answer' # None => queue' # <<>>)
          /\ answer' \in {None, "on", "off", "gone", "fail"}
      BY <1>3, <1>b, WithoutSeq DEF Stop, Released, Typed
    <2> QED BY <1>3, <1>a, <1>b, <2>1 DEF Stop, Odd, Farewell, Typed, memory, way, Runs
  <1>4. CASE StopEnds
    <2>1. \A c \in Commands : cmds[c] \in Requests
      BY DEF Typed
    <2>2. \A c \in Commands : [cmds[c] EXCEPT !.stage = "failed"] \in Requests
      BY <2>1, Restaged
    <2>3. Free \in Requests
      BY <1>a DEF Free, Requests
    <2>4. cmds' \in [Commands -> Requests]
      BY <1>4, <2>2, <2>3 DEF StopEnds
    <2>5. levels' \in [Motors -> Levels] /\ last' \in [Motors -> Levels \cup {None}]
      BY <1>4, <1>a DEF StopEnds, Typed
    <2>6. answer' \in {None, "fail"} /\ (answer' # None => queue' # <<>>)
      BY <1>4 DEF StopEnds, Typed
    <2> QED BY <1>4, <2>4, <2>5, <2>6 DEF StopEnds, Typed, toyVars, busVars, Runs
  <1>17. CASE Leave
    <2>1. bridge' \in {"none", "online", "offline"} /\ avail' \in {"none", "online", "offline"}
      BY <1>17 DEF Leave, Farewell, Offline, Typed
    <2> QED BY <1>17, <2>1 DEF Leave, Typed, toyVars, memory, way, Runs
  <1>5. CASE Inventory
    BY <1>5, <1>a DEF Inventory, Odd, Typed, toyVars, memory, busVars, history, way
  <1>6. CASE Refreshed
    <2>1. queue' \in Seq(Refreshes) /\ answer' = None
      BY <1>6, <1>b, HeadTailProperties DEF Refreshed
    <2>2. row' \in {"unknown", "on", "off"} /\ ready' \in BOOLEAN
      BY <1>6 DEF Refreshed, RowOf, Typed
    <2>3. avail' \in {"none", "online", "offline"}
      BY <1>6 DEF Refreshed, Seen, Show, Status, Typed
    <2>4. /\ shown' \in [Motors -> Levels] /\ missed' \in BOOLEAN /\ levels' \in [Motors -> Levels]
          /\ published' \in BOOLEAN /\ disc' \in BOOLEAN /\ begun' \in BOOLEAN /\ muddled' \in BOOLEAN
      BY <1>6, DiscoverTyped DEF Refreshed, Typed
    <2>5. run' \in Runs /\ gap' \in BOOLEAN
      BY <1>6 DEF Refreshed, Typed, Runs
    <2> QED BY <1>6, <2>1, <2>2, <2>3, <2>4, <2>5 DEF Refreshed, Typed, toyVars, way
  <1>7. CASE CommandUnknown
    BY <1>7 DEF CommandUnknown, Show, Typed, toyVars, history, way
  <1>8. CASE AnyToyList
    <2>1. row' \in {"unknown", "on", "off"} /\ avail' \in {"none", "online", "offline"}
      BY <1>8 DEF AnyToyList, ToyList, Seen, Show, Status, Typed
    <2>2. /\ shown' \in [Motors -> Levels] /\ missed' \in BOOLEAN /\ levels' \in [Motors -> Levels]
          /\ published' \in BOOLEAN /\ disc' \in BOOLEAN /\ begun' \in BOOLEAN /\ muddled' \in BOOLEAN
      BY <1>8, DiscoverTyped DEF AnyToyList, ToyList
    <2>3. odd' \in 0 .. MaxOdd
      BY <1>8, <1>a DEF AnyToyList, ToyList, Odd, Typed
    <2> QED BY <1>8, <2>1, <2>2, <2>3 DEF AnyToyList, ToyList, Typed, toyVars, way
  <1>9. CASE LoseEvents
    BY <1>9, <1>a, <1>b DEF LoseEvents, EventsLost, Odd, Typed, memory, busVars, way
  <1>10. ASSUME NEW c \in Commands, Reach(c) PROVE Typed'
    <2>1. cmds[c] \in Requests /\ cmds[c].sent \in [Motors -> Levels]
      BY DEF Typed, Requests
    <2>2. real' \in [Motors -> Levels] /\ events' \in Seq(Reports) /\ Len(events') <= MaxEvents
      BY <1>10, <2>1, TurnTyped DEF Reach, Typed
    <2>3. odd' \in 0 .. MaxOdd /\ muddled' \in BOOLEAN
      <3>1. \/ UNCHANGED <<odd, muddled>>
            \/ Odd /\ muddled' = TRUE
        BY <1>10, Reached
      <3>2. muddled \in BOOLEAN /\ odd \in 0 .. MaxOdd
        BY DEF Typed
      <3>3. odd' \in 0 .. MaxOdd
        BY <1>a, <3>1, <3>2 DEF Odd
      <3> QED BY <3>1, <3>2, <3>3
    <2>4. cmds' \in [Commands -> Requests]
      BY <1>10, Reached
    <2> QED BY <1>10, <2>2, <2>3, <2>4 DEF Reach, Typed, memory, busVars, way
  <1>11. ASSUME NEW c \in Commands, Return(c) PROVE Typed'
    <2>1. cmds[c].sent \in [Motors -> Levels]
      BY DEF Typed, Requests
    <2>2. levels' \in [Motors -> Levels] /\ shown' \in [Motors -> Levels] /\ missed' \in BOOLEAN
      BY <1>11, <2>1, ReportTyped DEF Return, Stopped, Typed
    <2>3. row' \in {"unknown", "on", "off"} /\ avail' \in {"none", "online", "offline"} /\ muddled' \in BOOLEAN
      BY <1>11 DEF Return, Show, Typed
    <2>4. cmds' \in [Commands -> Requests]
      BY <1>11, <1>a DEF Return, Free, Requests, Typed
    <2> QED BY <1>11, <2>2, <2>3, <2>4 DEF Return, Typed, toyVars, way
  <1>12. ASSUME NEW c \in Commands, NEW m \in Motors \cup {None}, NEW v \in Levels, Command(c, m, v) PROVE Typed'
    <2>1. Merged(m, v) \in [Motors -> Levels]
      BY DEF Merged, Typed
    <2>2. \A d \in Commands : cmds[d] \in Requests
      BY DEF Typed
    <2>3. \A d \in Commands : [cmds[d] EXCEPT !.alone = FALSE] \in Requests
      BY <2>2 DEF Requests
    <2>4. [stage |-> "out", motor |-> m, alone |-> Out = {}, sent |-> IF m = None THEN Zero ELSE Merged(m, v)] \in Requests
      BY <1>a, <2>1 DEF Requests
    <2>5. cmds' \in [Commands -> Requests]
      BY <1>12, <2>3, <2>4 DEF Command
    <2> QED BY <1>12, <1>a, <2>5 DEF Command, Odd, Typed, toyVars, memory, busVars, way
  <1>13. ASSUME NEW m \in Motors, NEW v \in Levels, TurnByHand(m, v) PROVE Typed'
    <2>1. [real EXCEPT ![m] = v] \in [Motors -> Levels]
      BY DEF Typed
    <2>2. real' \in [Motors -> Levels] /\ events' \in Seq(Reports) /\ Len(events') <= MaxEvents
      BY <1>13, <2>1, TurnTyped DEF TurnByHand
    <2>3. cmds' \in [Commands -> Requests]
      <3>1. \A d \in Commands : [cmds[d] EXCEPT !.alone = FALSE] \in Requests
        BY Joined DEF Typed
      <3> QED BY <1>13, <3>1 DEF TurnByHand
    <2> QED BY <1>13, <1>a, <2>2, <2>3 DEF TurnByHand, Odd, Typed, memory, busVars, way
  <1>14. ASSUME NEW m \in Motors, NEW v \in Levels, Event(m, v) PROVE Typed'
    <2>1. events' \in Seq(Reports) /\ Len(events') <= MaxEvents
      BY <1>14, <1>a, <1>b, TakesReports DEF Event, Typed
    <2>2. /\ levels' \in [Motors -> Levels] /\ last' \in [Motors -> Levels \cup {None}]
          /\ shown' \in [Motors -> Levels] /\ missed' \in BOOLEAN
      BY <1>14 DEF Event, Report, Typed
    <2> QED BY <1>14, <2>1, <2>2 DEF Event, Typed, way
  <1>15. ASSUME NEW l \in {"on", "off", "gone"}, LinkChanges(l) PROVE Typed'
    BY <1>15, <1>a DEF LinkChanges, Odd, Typed, memory, busVars, way
  <1>16. CASE UNCHANGED vars
    BY <1>16 DEF vars, Typed, toyVars, memory, busVars, history, way
  <1> QED BY <1>a, <1>1, <1>2, <1>3, <1>4, <1>5, <1>6, <1>7, <1>8, <1>9, <1>10, <1>11, <1>12, <1>13, <1>14, <1>15, <1>16, <1>17
          DEF Next, AnyToyList

-----------------------------------------------------------------------------
(* Commands under way *)

LEMMA OutIs == \A c : c \in Out <=> c \in Commands /\ cmds[c].stage # "free"
  BY DEF Out

(* One command changes, and not whether others are under way.                *)
LEMMA SingleStep == Typed /\ Single /\ [Next]_vars => Single'
  <1> SUFFICES ASSUME Typed, Single, [Next]_vars PROVE Single'
    OBVIOUS
  <1>1. \A c : c \in Out' <=> c \in Commands /\ cmds'[c].stage # "free"
    BY DEF Out
  <1>2. ASSUME UNCHANGED cmds, muddled' \in BOOLEAN, muddled => muddled' PROVE Single'
    BY <1>2 DEF Single, Out, Typed
  <1>3. CASE Start \/ StartFails \/ Scanned \/ StartAgain \/ Connect \/ Disconnect \/ Stop \/ Leave \/ RefreshDue \/ Inventory \/ Refreshed
             \/ CommandUnknown \/ AnyToyList \/ LoseEvents \/ UNCHANGED vars
    <2>1. UNCHANGED cmds
      BY <1>3 DEF Start, StartFails, Scanned, StartAgain, Connect, Disconnect, Stop, Leave, RefreshDue, Inventory, Refreshed,
             CommandUnknown, AnyToyList, ToyList, LoseEvents, vars
    <2>2. muddled' = muddled \/ muddled' = TRUE \/ Discover
      BY <1>3 DEF Start, StartFails, Scanned, StartAgain, Connect, Disconnect, Stop, Leave, RefreshDue, Inventory, Refreshed,
             CommandUnknown, AnyToyList, ToyList, LoseEvents, vars, history
    <2>3. Discover => (muddled => muddled')
      BY Zenon DEF Discover
    <2>4. muddled' \in BOOLEAN
      BY TypedStep DEF Typed
    <2>5. muddled => muddled'
      BY <2>2, <2>3
    <2> QED BY <1>2, <2>1, <2>4, <2>5
  <1>4. CASE StopEnds
    <2>1. \A c \in Commands : cmds'[c] = IF c \in Out THEN [cmds[c] EXCEPT !.stage = "failed"] ELSE Free
      BY <1>4 DEF StopEnds
    <2>2. \A c \in Commands : (c \in Out' <=> c \in Out) /\ (cmds'[c].alone => cmds[c].alone)
      <3> SUFFICES ASSUME NEW c \in Commands PROVE (c \in Out' <=> c \in Out) /\ (cmds'[c].alone => cmds[c].alone)
        OBVIOUS
      <3>1. cmds[c] \in Requests
        BY DEF Typed
      <3>2. CASE c \in Out
        <4>1. cmds'[c] = [cmds[c] EXCEPT !.stage = "failed"]
          BY <2>1, <3>2
        <4>2. cmds'[c].stage = "failed"
          BY <3>1, <4>1, Restaged
        <4>3. cmds'[c].alone = cmds[c].alone
          BY <3>1, <4>1, Restaged
        <4> QED BY <3>2, <4>2, <4>3 DEF Out
      <3>3. CASE c \notin Out
        <4>1. cmds'[c] = Free
          BY <2>1, <3>3
        <4>2. cmds'[c].stage = "free" /\ ~cmds'[c].alone
          BY <4>1 DEF Free
        <4> QED BY <3>3, <4>2 DEF Out
      <3> QED BY <3>2, <3>3
    <2>4. Out' = Out
      BY <2>2 DEF Out
    <2> QED BY <1>4, <2>2, <2>4 DEF Single, StopEnds
  <1>5. ASSUME NEW c \in Commands, Reach(c) PROVE Single'
    <2>2. \A d \in Commands : cmds'[d].alone = cmds[d].alone /\ (d \in Out' <=> d \in Out)
      BY <1>1, <1>5, Reached DEF Out
    <2>3. Out' = Out
      BY <2>2 DEF Out
    <2>4. muddled => muddled'
      BY <1>5 DEF Reach
    <2> QED BY <2>2, <2>3, <2>4 DEF Single
  <1>6. ASSUME NEW c \in Commands, Return(c) PROVE Single'
    <2>1. \A d \in Commands : cmds'[d] = IF d = c THEN Free ELSE cmds[d]
      BY <1>6 DEF Return, Typed
    <2>2. c \in Out
      BY <1>6 DEF Return, Out
    <2>3. Out' = Out \ {c}
      BY <1>1, <2>1 DEF Out, Free
    <2>4. \A d \in Commands : ~cmds'[d].alone
      BY <2>1, <2>2, <2>3 DEF Single, Free, Out
    <2>5. CASE ~muddled \/ muddled'
      BY <2>3, <2>4, <2>5 DEF Single
    <2>6. CASE muddled /\ ~muddled'
      <3>1. cmds[c].alone
        BY <1>6, <2>6 DEF Return
      <3> QED BY <2>3, <2>4, <3>1 DEF Single
    <2> QED BY <2>5, <2>6
  <1>7. ASSUME NEW c \in Commands, NEW m \in Motors \cup {None}, NEW v \in Levels, Command(c, m, v) PROVE Single'
    <2>1. /\ cmds'[c].stage = "out" /\ (cmds'[c].alone <=> Out = {})
          /\ \A d \in Commands \ {c} : ~cmds'[d].alone /\ cmds'[d].stage = cmds[d].stage
      BY <1>7 DEF Command, Typed, Requests
    <2>2. Out' = Out \cup {c}
      BY <1>1, <2>1 DEF Out
    <2> QED BY <1>7, <2>1, <2>2 DEF Single, Command
  <1>8. ASSUME NEW m \in Motors, NEW v \in Levels, TurnByHand(m, v) PROVE Single'
    <2>1. \A d \in Commands : ~cmds'[d].alone /\ cmds'[d].stage = cmds[d].stage
      BY <1>8 DEF TurnByHand, Typed, Requests
    <2>2. Out' = Out
      BY <1>1, <2>1 DEF Out
    <2> QED BY <1>8, <2>1, <2>2 DEF Single, TurnByHand
  <1>9. ASSUME NEW m \in Motors, NEW v \in Levels, Event(m, v) PROVE Single'
    BY <1>2, <1>9 DEF Event, Typed
  <1>10. ASSUME NEW l \in {"on", "off", "gone"}, LinkChanges(l) PROVE Single'
    BY <1>2, <1>10 DEF LinkChanges, Typed
  <1> QED BY Zeros, <1>3, <1>4, <1>5, <1>6, <1>7, <1>8, <1>9, <1>10 DEF Next, AnyToyList

(* What an operation does to the set of commands under way.                  *)
LEMMA OutOf ==
  ASSUME Typed
  PROVE  /\ \A c \in Commands : Reach(c) => Out' = Out
         /\ \A c \in Commands :
              Return(c) => Out' = Out \ {c} /\ c \in Out /\ \A d \in Commands \ {c} : cmds'[d] = cmds[d]
         /\ \A c \in Commands, m \in Motors \cup {None}, v \in Levels : Command(c, m, v) => Out' = Out \cup {c}
         /\ \A m \in Motors, v \in Levels : TurnByHand(m, v) => Out' = Out
  <1>1. \A d \in Commands : cmds[d] \in Requests
    BY DEF Typed
  <1>2. ASSUME NEW c \in Commands, Reach(c) PROVE Out' = Out
    BY <1>2, Reached DEF Out
  <1>3. ASSUME NEW c \in Commands, Return(c)
        PROVE  Out' = Out \ {c} /\ c \in Out /\ \A d \in Commands \ {c} : cmds'[d] = cmds[d]
    <2>1. \A d \in Commands : cmds'[d] = IF d = c THEN Free ELSE cmds[d]
      BY <1>3 DEF Return, Typed
    <2>2. Out' = Out \ {c}
      BY <2>1 DEF Out, Free
    <2>3. c \in Out
      BY <1>3 DEF Return, Out
    <2> QED BY <2>1, <2>2, <2>3
  <1>4. ASSUME NEW c \in Commands, NEW m \in Motors \cup {None}, NEW v \in Levels, Command(c, m, v) PROVE Out' = Out \cup {c}
    <2>1. cmds'[c].stage = "out"
      BY <1>4 DEF Command
    <2>2. \A d \in Commands \ {c} : cmds'[d] = [cmds[d] EXCEPT !.alone = FALSE]
      BY <1>4 DEF Command
    <2>3. \A d \in Commands \ {c} : cmds'[d].stage = cmds[d].stage
      BY <1>1, <2>2, Joined
    <2> QED BY <2>1, <2>3 DEF Out
  <1>5. ASSUME NEW m \in Motors, NEW v \in Levels, TurnByHand(m, v) PROVE Out' = Out
    <2>1. \A d \in Commands : cmds'[d] = [cmds[d] EXCEPT !.alone = FALSE]
      BY <1>5 DEF TurnByHand
    <2>2. \A d \in Commands : cmds'[d].stage = cmds[d].stage
      BY <1>1, <2>1, Joined
    <2> QED BY <2>2 DEF Out
  <1> QED BY <1>2, <1>3, <1>4, <1>5

(* What a step does to the set of commands under way, and to each of them.   *)
LEMMA OutStep ==
  ASSUME Typed, [Next]_vars
  PROVE  \/ UNCHANGED cmds
         \/ StopEnds /\ Out' = Out
         \/ \E c \in Commands : Reach(c) /\ Out' = Out
         \/ \E c \in Commands : Return(c) /\ Out' = Out \ {c} /\ c \in Out /\ \A d \in Commands \ {c} : cmds'[d] = cmds[d]
         \/ \E c \in Commands, m \in Motors \cup {None}, v \in Levels : Command(c, m, v) /\ Out' = Out \cup {c}
         \/ \E m \in Motors, v \in Levels : TurnByHand(m, v) /\ Out' = Out
  <1>1. \A d \in Commands : cmds[d] \in Requests
    BY DEF Typed
  <1>2. CASE Start \/ StartFails \/ Scanned \/ StartAgain \/ Connect \/ Disconnect \/ Stop \/ Leave \/ RefreshDue \/ Inventory \/ Refreshed
             \/ CommandUnknown \/ AnyToyList \/ LoseEvents \/ UNCHANGED vars
    BY <1>2 DEF Start, StartFails, Scanned, StartAgain, Connect, Disconnect, Stop, Leave, RefreshDue, Inventory, Refreshed,
           CommandUnknown, AnyToyList, ToyList, LoseEvents, vars
  <1>3. CASE StopEnds
    <2>1. \A c \in Commands : cmds'[c].stage # "free" <=> cmds[c].stage # "free"
      <3> SUFFICES ASSUME NEW c \in Commands PROVE cmds'[c].stage # "free" <=> cmds[c].stage # "free"
        OBVIOUS
      <3>1. CASE c \in Out
        <4>1. cmds'[c] = [cmds[c] EXCEPT !.stage = "failed"]
          BY <1>3, <3>1 DEF StopEnds
        <4>2. cmds'[c].stage = "failed"
          BY <1>1, <4>1, Restaged
        <4> QED BY <3>1, <4>2 DEF Out
      <3>2. CASE c \notin Out
        <4>1. cmds'[c] = Free
          BY <1>3, <3>2 DEF StopEnds
        <4> QED BY <3>2, <4>1 DEF Free, Out
      <3> QED BY <3>1, <3>2
    <2>2. Out' = Out
      BY <2>1 DEF Out
    <2> QED BY <1>3, <2>2
  <1>4. ASSUME NEW m \in Motors, NEW v \in Levels, Event(m, v) PROVE UNCHANGED cmds
    BY <1>4 DEF Event
  <1>5. ASSUME NEW l \in {"on", "off", "gone"}, LinkChanges(l) PROVE UNCHANGED cmds
    BY <1>5 DEF LinkChanges
  <1> QED BY Zeros, OutOf, <1>2, <1>3, <1>4, <1>5 DEF Next, AnyToyList

-----------------------------------------------------------------------------
(* What is remembered, and what stop() leaves *)

LEMMA KnownStep == Typed /\ Known /\ [Next]_vars => Known'
  <1> SUFFICES ASSUME Typed, Known, [Next]_vars PROVE Known'
    OBVIOUS
  <1>1. row # "unknown" => row' # "unknown"
    BY DEF Next, vars, Start, StartFails, Scanned, StartAgain, Connect, Disconnect, Stop, Leave, StopEnds, RefreshDue, Inventory, Refreshed,
           CommandUnknown, ToyList, LoseEvents, Reach, Return, Command, TurnByHand, Event, LinkChanges, memory, RowOf, Typed
  <1>2. Out' # {} => row' # "unknown"
    <2>1. CASE UNCHANGED cmds
      BY <1>1, <2>1 DEF Known, Out
    <2>2. ASSUME NEW c \in Commands, NEW m \in Motors \cup {None}, NEW v \in Levels, Command(c, m, v) PROVE row # "unknown"
      BY <2>2 DEF Command
    <2> QED BY <1>1, <2>1, <2>2, OutStep DEF Known
  <1>3. ASSUME row' = "unknown" PROVE levels' = Zero /\ shown' = Zero /\ ~begun' /\ \A m \in Motors : last'[m] = None
    <2>1. row = "unknown" /\ levels = Zero /\ shown = Zero /\ ~begun /\ \A m \in Motors : last[m] = None
      BY <1>1, <1>3 DEF Known
    <2>2. CASE UNCHANGED <<levels, shown, begun, last>>
      BY <2>1, <2>2
    <2>3. CASE StopEnds
      BY <2>1, <2>3 DEF StopEnds, busVars
    <2>4. CASE Start \/ StartFails \/ Scanned \/ StartAgain \/ Connect \/ Disconnect \/ Stop \/ Leave \/ RefreshDue \/ Inventory
               \/ CommandUnknown \/ LoseEvents \/ UNCHANGED vars
      BY <2>2, <2>4 DEF Start, StartFails, Scanned, StartAgain, Connect, Disconnect, Stop, Leave, RefreshDue, Inventory,
             CommandUnknown, LoseEvents, vars, memory, busVars
    <2>5. CASE Refreshed \/ AnyToyList
      BY <1>3, <2>2, <2>5 DEF Refreshed, AnyToyList, ToyList
    <2>6. ASSUME NEW c \in Commands, Return(c) PROVE FALSE
      <3>1. c \in Out
        BY <2>6 DEF Return, Out
      <3> QED BY <2>1, <3>1 DEF Known
    <2>7. ASSUME NEW c \in Commands, Reach(c) \/ \E m \in Motors \cup {None}, v \in Levels : Command(c, m, v)
          PROVE  UNCHANGED <<levels, shown, begun, last>>
      BY <2>7 DEF Reach, Command, memory, busVars
    <2>8. ASSUME NEW m \in Motors, NEW v \in Levels, TurnByHand(m, v) \/ Event(m, v)
          PROVE  UNCHANGED <<levels, shown, begun, last>>
      BY <2>1, <2>8 DEF TurnByHand, Event, memory, busVars
    <2>9. ASSUME NEW l \in {"on", "off", "gone"}, LinkChanges(l) PROVE UNCHANGED <<levels, shown, begun, last>>
      BY <2>9 DEF LinkChanges, memory, busVars
    <2> QED BY Zeros, <2>2, <2>3, <2>4, <2>5, <2>6, <2>7, <2>8, <2>9 DEF Next, AnyToyList
  <1> QED BY <1>2, <1>3 DEF Known

LEMMA HeardStep == Typed /\ Heard /\ [Next]_vars => Heard'
  <1> SUFFICES ASSUME Typed, Heard, [Next]_vars PROVE Heard'
    OBVIOUS
  <1>1. /\ transport' = transport /\ (run = "on" => run' = "on" \/ Stop)
        /\ run' \in {"scanning", "opening"} => run' = run \/ Scanned \/ (Connect /\ transport = "scan")
    BY DEF Next, vars, way, Start, StartFails, Scanned, StartAgain, Connect, Disconnect, Stop, Leave, StopEnds, RefreshDue,
           Inventory, Refreshed, CommandUnknown, ToyList, LoseEvents, Reach, Return, Command, TurnByHand, Event, LinkChanges
  <1>2. events' # <<>> => Listening'
    <2>1. CASE events' = events \/ events' = <<>>
      BY <1>1, <2>1 DEF Heard, Listening, Stop
    <2>2. ASSUME NEW c \in Commands, Reach(c) PROVE events' = events \/ (Listening /\ run' = run)
      BY <2>2 DEF Reach, Turn
    <2>3. ASSUME NEW m \in Motors, NEW v \in Levels, TurnByHand(m, v) PROVE events' = events \/ (Listening /\ run' = run)
      BY <2>3 DEF TurnByHand, Turn
    <2>4. ASSUME NEW m \in Motors, NEW v \in Levels, Event(m, v) PROVE Listening /\ run' = run
      BY <2>4 DEF Event, Received, Heard
    <2>5. events' = events \/ events' = <<>> \/ (Listening /\ run' = run)
      <3>1. CASE Start \/ StartFails \/ Scanned \/ StartAgain \/ Connect \/ Disconnect \/ Stop \/ Leave \/ StopEnds \/ RefreshDue \/ Inventory
                 \/ Refreshed \/ CommandUnknown \/ AnyToyList \/ LoseEvents \/ UNCHANGED vars
        BY <3>1 DEF Start, StartFails, Scanned, StartAgain, Connect, Disconnect, Stop, Leave, StopEnds, RefreshDue, Inventory, Refreshed,
               CommandUnknown, AnyToyList, ToyList, LoseEvents, EventsLost, vars, toyVars
      <3>2. ASSUME NEW c \in Commands, Return(c) \/ \E m \in Motors \cup {None}, v \in Levels : Command(c, m, v)
            PROVE  events' = events
        BY <3>2 DEF Return, Command, toyVars
      <3>3. ASSUME NEW l \in {"on", "off", "gone"}, LinkChanges(l) PROVE events' = events
        BY <3>3 DEF LinkChanges
      <3> QED BY Zeros, <2>2, <2>3, <2>4, <3>1, <3>2, <3>3 DEF Next, AnyToyList
    <2> QED BY <1>1, <2>1, <2>5 DEF Listening
  <1>3. ASSUME run' \in {"off", "starting"} PROVE \A m \in Motors : last'[m] = None
    <2>1. CASE StopEnds
      BY <2>1 DEF StopEnds
    <2>2. CASE ~StopEnds
      <3>1. run \in {"off", "starting"}
        BY <1>3, <2>2 DEF Next, vars, Start, StartFails, Scanned, StartAgain, Connect, Disconnect, Stop, Leave, RefreshDue, Inventory,
               Refreshed, CommandUnknown, ToyList, LoseEvents, Reach, Return, Command, TurnByHand, Event, LinkChanges
      <3>2. ASSUME NEW m \in Motors, NEW v \in Levels, Event(m, v) PROVE FALSE
        BY <3>1, <3>2 DEF Event, Received, Heard, Listening
      <3>3. UNCHANGED last
        BY <2>2, <3>2 DEF Next, vars, Start, StartFails, Scanned, StartAgain, Connect, Disconnect, Stop, Leave, RefreshDue, Inventory,
               Refreshed, CommandUnknown, ToyList, LoseEvents, Reach, Return, Command, TurnByHand, LinkChanges, memory
      <3> QED BY <3>1, <3>3 DEF Heard
    <2> QED BY <2>1, <2>2
  <1>4. run' \in {"scanning", "opening"} => transport' = "scan"
    BY <1>1 DEF Heard, Scanned
  <1> QED BY <1>2, <1>3, <1>4 DEF Heard

(* What stop() leaves stays until the next start(): there is no connection    *)
(* to publish on, and a toy that comes to be known now is a gap.              *)
LEMMA EndedStep == Typed /\ Known /\ Ended /\ [Next]_vars => Ended'
  <1> SUFFICES ASSUME Typed, Known, Ended, [Next]_vars, Left' PROVE Ended'
    BY DEF Ended, Left
  <1>1. CASE Leave
    BY <1>1 DEF Leave, Farewell, Offline, Ended, Left, Typed, memory
  <1>2. CASE StopEnds
    <2>1. \A c \in Commands : cmds'[c] = IF c \in Out THEN [cmds[c] EXCEPT !.stage = "failed"] ELSE Free
      BY <1>2 DEF StopEnds
    <2>2. ASSUME NEW c \in Out' PROVE cmds'[c].stage = "failed"
      <3>1. c \in Commands /\ cmds'[c].stage # "free" /\ cmds[c] \in Requests
        BY DEF Out, Typed
      <3>2. cmds'[c] = [cmds[c] EXCEPT !.stage = "failed"]
        BY <2>1, <3>1 DEF Free
      <3> QED BY <3>1, <3>2, Restaged
    <2> QED BY <1>2, <2>2 DEF StopEnds, Ended, Left, busVars
  <1>3. CASE ~Leave /\ ~StopEnds
    <2>1. Left /\ (run' = "off" => run = "off")
      BY <1>3 DEF Left, Next, vars, Start, StartFails, Scanned, StartAgain, Connect, Disconnect, Stop, RefreshDue, Inventory,
             Refreshed, CommandUnknown, ToyList, LoseEvents, Reach, Return, Command, TurnByHand, Event, LinkChanges
    <2>2. /\ ~up /\ (run = "off" => \A c \in Out : cmds[c].stage = "failed")
          /\ ~gap /\ bridge # "none" => bridge = "offline" /\ (row # "unknown" => avail = "offline")
      BY <2>1 DEF Ended
    <2>3. ASSUME NEW c \in Commands, NEW m \in Motors \cup {None}, NEW v \in Levels, Command(c, m, v) PROVE FALSE
      BY <2>2, <2>3 DEF Command
    <2>4. /\ UNCHANGED <<up, bridge, avail>> /\ (gap => gap')
          /\ row # "unknown" \/ row' = "unknown" \/ gap'
      <3>1. CASE Start \/ StartFails \/ Scanned \/ StartAgain \/ Connect \/ Disconnect \/ Stop \/ RefreshDue \/ Inventory
                 \/ CommandUnknown \/ AnyToyList \/ LoseEvents \/ UNCHANGED vars
        BY <2>1, <2>2, <3>1 DEF Left, Start, StartFails, Scanned, StartAgain, Connect, Disconnect, Stop, RefreshDue, Inventory,
               CommandUnknown, AnyToyList, ToyList, Listening, LoseEvents, vars, memory, busVars, history
      <3>2. CASE Refreshed
        BY <2>1, <2>2, <3>2 DEF Left, Refreshed, Seen, Show, Typed
      <3>3. ASSUME NEW c \in Commands, Return(c)
            PROVE  UNCHANGED <<up, bridge, avail, gap>> /\ (row # "unknown" \/ row' = "unknown")
        <4>1. UNCHANGED <<up, bridge, avail, gap>>
          BY <2>2, <3>3 DEF Return, Show
        <4>2. row # "unknown" \/ row' = "unknown"
          BY <3>3 DEF Return, Known, Out
        <4> QED BY <4>1, <4>2
      <3>4. ASSUME NEW c \in Commands, Reach(c) PROVE UNCHANGED <<up, bridge, avail, row, gap>>
        BY <3>4 DEF Reach, memory, busVars
      <3>5. ASSUME NEW m \in Motors, NEW v \in Levels, TurnByHand(m, v) \/ Event(m, v)
            PROVE  UNCHANGED <<up, bridge, avail, row, gap>>
        BY <3>5 DEF TurnByHand, Event, memory, busVars
      <3>6. ASSUME NEW l \in {"on", "off", "gone"}, LinkChanges(l) PROVE UNCHANGED <<up, bridge, avail, row, gap>>
        BY <3>6 DEF LinkChanges, memory, busVars
      <3> QED BY Zeros, <1>3, <2>3, <3>1, <3>2, <3>3, <3>4, <3>5, <3>6 DEF Next, AnyToyList
    <2>5. ASSUME run' = "off", NEW c \in Out' PROVE cmds'[c].stage = "failed"
      <3>0. \A d \in Out : cmds[d].stage = "failed"
        BY <2>1, <2>2, <2>5
      <3>1. CASE UNCHANGED cmds
        BY <2>5, <3>0, <3>1 DEF Out
      <3>2. ASSUME NEW d \in Commands, Return(d), Out' = Out \ {d}, \A e \in Commands \ {d} : cmds'[e] = cmds[e]
            PROVE  cmds'[c].stage = "failed"
        BY <2>5, <3>0, <3>2 DEF Out
      <3>3. ASSUME NEW m \in Motors, NEW v \in Levels, TurnByHand(m, v), Out' = Out PROVE cmds'[c].stage = "failed"
        <4>1. c \in Out /\ c \in Commands /\ cmds[c] \in Requests
          BY <2>5, <3>3 DEF Out, Typed
        <4>2. cmds'[c] = [cmds[c] EXCEPT !.alone = FALSE]
          BY <3>3, <4>1 DEF TurnByHand
        <4>3. cmds'[c].stage = cmds[c].stage
          BY <4>1, <4>2, Joined
        <4> QED BY <3>0, <4>1, <4>3
      <3>4. ASSUME NEW d \in Commands PROVE ~Reach(d)
        BY <3>0, OutIs DEF Reach
      <3> QED BY <1>3, <2>3, <3>1, <3>2, <3>3, <3>4, OutStep
    <2> QED BY <2>2, <2>4, <2>5 DEF Ended
  <1> QED BY <1>1, <1>2, <1>3

(* A stop that nothing joins has the motors at zero.                         *)
LEMMA SilencesStep == Typed /\ Single /\ Silences /\ [Next]_vars => Silences'
  <1> SUFFICES ASSUME Typed, Single, Silences, [Next]_vars, NEW c \in Out', cmds'[c].motor = None
               PROVE  /\ cmds'[c].sent = Zero
                      /\ cmds'[c].alone /\ cmds'[c].stage = "done" => real' = Zero
    BY DEF Silences
  <1>1. c \in Commands /\ cmds[c] \in Requests /\ cmds'[c].stage # "free"
    BY DEF Out, Typed
  <1>2. c \in Out /\ cmds[c].motor = None =>
          cmds[c].sent = Zero /\ (cmds[c].alone /\ cmds[c].stage = "done" => real = Zero)
    BY DEF Silences
  <1>3. CASE UNCHANGED cmds
    <2>1. real' = real \/ real' = Zero \/ ~cmds'[c].alone
      <3>1. ASSUME NEW d \in Commands, Reach(d) PROVE FALSE
        BY <1>3, <3>1, Reached
      <3>2. ASSUME NEW m \in Motors, NEW v \in Levels, TurnByHand(m, v) PROVE ~cmds'[c].alone
        <4>1. cmds'[c] = [cmds[c] EXCEPT !.alone = FALSE]
          BY <1>1, <3>2 DEF TurnByHand
        <4> QED BY <1>1, <4>1, Joined
      <3>3. CASE Start \/ StartFails \/ Scanned \/ StartAgain \/ Connect \/ Disconnect \/ Stop \/ Leave \/ StopEnds \/ RefreshDue \/ Inventory
                 \/ Refreshed \/ CommandUnknown \/ AnyToyList \/ LoseEvents \/ UNCHANGED vars
        BY <3>3 DEF Start, StartFails, Scanned, StartAgain, Connect, Disconnect, Stop, Leave, StopEnds, RefreshDue, Inventory, Refreshed,
               CommandUnknown, AnyToyList, ToyList, LoseEvents, vars, toyVars
      <3>4. ASSUME NEW d \in Commands, Return(d) \/ \E m \in Motors \cup {None}, v \in Levels : Command(d, m, v)
            PROVE  real' = real
        BY <3>4 DEF Return, Command, toyVars
      <3>5. ASSUME NEW m \in Motors, NEW v \in Levels, Event(m, v) PROVE real' = real
        BY <3>5 DEF Event
      <3>6. ASSUME NEW l \in {"on", "off", "gone"}, LinkChanges(l) PROVE real' = real \/ real' = Zero
        BY <3>6 DEF LinkChanges
      <3> QED BY Zeros, <3>1, <3>2, <3>3, <3>4, <3>5, <3>6 DEF Next, AnyToyList
    <2> QED BY <1>1, <1>2, <1>3, <2>1 DEF Out
  <1>4. CASE StopEnds
    <2>1. c \in Out /\ cmds'[c] = [cmds[c] EXCEPT !.stage = "failed"]
      BY <1>1, <1>4 DEF StopEnds, Free
    <2>2. cmds'[c].stage = "failed" /\ cmds'[c].motor = cmds[c].motor /\ cmds'[c].sent = cmds[c].sent
      BY <1>1, <2>1, Restaged
    <2> QED BY <1>2, <2>1, <2>2
  <1>5. ASSUME NEW d \in Commands, Reach(d), Out' = Out
        PROVE  cmds'[c].sent = Zero /\ (cmds'[c].alone /\ cmds'[c].stage = "done" => real' = Zero)
    <2>1. CASE d = c
      BY <1>1, <1>2, <1>5, <2>1, Reached DEF Turn
    <2>2. CASE d # c
      <3>1. cmds'[c] = cmds[c] /\ cmds[d].stage = "out"
        BY <1>1, <1>5, <2>2, Reached
      <3>2. ~cmds[c].alone
        BY <1>1, <2>2, <3>1 DEF Single, Out
      <3> QED BY <1>2, <1>5, <3>1, <3>2
    <2> QED BY <2>1, <2>2
  <1>6. ASSUME NEW d \in Commands, Return(d), Out' = Out \ {d}, \A e \in Commands \ {d} : cmds'[e] = cmds[e]
        PROVE  cmds'[c].sent = Zero /\ (cmds'[c].alone /\ cmds'[c].stage = "done" => real' = Zero)
    BY <1>1, <1>2, <1>6 DEF Return, toyVars
  <1>7. ASSUME NEW d \in Commands, NEW m \in Motors \cup {None}, NEW v \in Levels, Command(d, m, v), Out' = Out \cup {d}
        PROVE  cmds'[c].sent = Zero /\ (cmds'[c].alone /\ cmds'[c].stage = "done" => real' = Zero)
    <2>1. CASE d = c
      <3>1. cmds'[c] = [stage |-> "out", motor |-> m, alone |-> Out = {}, sent |-> IF m = None THEN Zero ELSE Merged(m, v)]
        BY <1>1, <1>7, <2>1 DEF Command
      <3> QED BY <3>1
    <2>2. CASE d # c
      <3>1. cmds'[c] = [cmds[c] EXCEPT !.alone = FALSE]
        BY <1>1, <1>7, <2>2 DEF Command
      <3>2. cmds'[c].motor = cmds[c].motor /\ cmds'[c].sent = cmds[c].sent /\ ~cmds'[c].alone
        BY <1>1, <3>1, Joined
      <3> QED BY <1>2, <1>7, <2>2, <3>2
    <2> QED BY <2>1, <2>2
  <1>8. ASSUME NEW m \in Motors, NEW v \in Levels, TurnByHand(m, v), Out' = Out
        PROVE  cmds'[c].sent = Zero /\ (cmds'[c].alone /\ cmds'[c].stage = "done" => real' = Zero)
    <2>1. cmds'[c] = [cmds[c] EXCEPT !.alone = FALSE]
      BY <1>1, <1>8 DEF TurnByHand
    <2>2. cmds'[c].motor = cmds[c].motor /\ cmds'[c].sent = cmds[c].sent /\ ~cmds'[c].alone
      BY <1>1, <2>1, Joined
    <2> QED BY <1>2, <1>8, <2>2
  <1> QED BY <1>3, <1>4, <1>5, <1>6, <1>7, <1>8, OutStep

-----------------------------------------------------------------------------
(* What is shown, and what will be *)

LEMMA SameTold == UNCHANGED <<real, events, last>> /\ Told => Told'
  BY DEF Told, Arrives, First, Final, Successive, Pending

LEMMA MissedStays == [Next]_vars => transport' = transport /\ (missed => missed')
  <1> SUFFICES ASSUME [Next]_vars PROVE transport' = transport /\ (missed => missed')
    OBVIOUS
  <1>1. transport' = transport
    BY DEF Next, vars, way, Start, StartFails, Scanned, StartAgain, Connect, Disconnect, Stop, Leave, StopEnds, RefreshDue, Inventory, Refreshed,
           CommandUnknown, ToyList, LoseEvents, Reach, Return, Command, TurnByHand, Event, LinkChanges
  <1>2. ASSUME NEW ms, NEW values, Report(ms, values) PROVE missed => missed'
    BY <1>2 DEF Report
  <1>3. Discover => (missed => missed')
    BY <1>2 DEF Discover
  <1>4. CASE Start \/ StartFails \/ Scanned \/ StartAgain \/ Connect \/ Disconnect \/ RefreshDue \/ Inventory \/ UNCHANGED vars
    BY <1>1, <1>4 DEF Start, StartFails, Scanned, StartAgain, Connect, Disconnect, RefreshDue, Inventory, vars, history
  <1>5. CASE Stop \/ Leave \/ StopEnds \/ CommandUnknown \/ LoseEvents
    <2>1. Stop => (missed => missed')
      BY Zenon DEF Stop
    <2>2. Leave \/ StopEnds \/ CommandUnknown \/ LoseEvents => (missed => missed')
      BY DEF Leave, StopEnds, CommandUnknown, LoseEvents, history
    <2> QED BY <1>1, <1>5, <2>1, <2>2
  <1>6. CASE Refreshed \/ AnyToyList
    <2>1. Discover \/ missed' = missed
      BY <1>6 DEF Refreshed, AnyToyList, ToyList
    <2> QED BY <1>1, <1>3, <2>1
  <1>7. ASSUME NEW c \in Commands, Reach(c) \/ \E m \in Motors \cup {None}, v \in Levels : Command(c, m, v)
        PROVE  missed => missed'
    BY <1>7 DEF Reach, Command
  <1>8. ASSUME NEW c \in Commands, Return(c) PROVE missed => missed'
    BY <1>2, <1>8 DEF Return
  <1>9. ASSUME NEW m \in Motors, NEW v \in Levels, TurnByHand(m, v) \/ Event(m, v) PROVE missed => missed'
    BY <1>2, <1>9 DEF TurnByHand, Event
  <1>10. ASSUME NEW l \in {"on", "off", "gone"}, LinkChanges(l) PROVE missed => missed'
    BY <1>10 DEF LinkChanges
  <1> QED BY Zeros, <1>1, <1>4, <1>5, <1>6, <1>7, <1>8, <1>9, <1>10 DEF Next, AnyToyList

(* The toy's reports are news unless a message was lost.                     *)
LEMMA NewsStep == Typed /\ Known /\ Heard /\ News /\ [Next]_vars => News'
  <1> SUFFICES ASSUME Typed, Known, Heard, News, [Next]_vars, ~missed', Listening' PROVE Told'
    BY DEF News
  <1>1. ~missed /\ transport' = transport
    BY MissedStays
  <1>2. CASE ~Listening
    <2>1. run = "starting" /\ Connect
      BY <1>1, <1>2 DEF Listening, Heard, Next, vars, Start, StartFails, Scanned, StartAgain, Connect, Disconnect, Stop, Leave, StopEnds,
             RefreshDue, Inventory, Refreshed, CommandUnknown, ToyList, LoseEvents, Reach, Return, Command, TurnByHand,
             Event, LinkChanges
    <2>2. events = <<>> /\ (\A m \in Motors : last[m] = None) /\ events' = events /\ last' = last
      BY <1>2, <2>1 DEF Heard, Connect, toyVars, memory
    <2>3. DOMAIN events' = {}
      BY <2>2
    <2> QED BY <2>2, <2>3 DEF Told, Arrives
  <1>3. CASE Listening
    <2>1. Told
      BY <1>1, <1>3 DEF News
    <2>2. ASSUME NEW to \in [Motors -> Levels], Turn(to), last' = last PROVE Told'
      BY <1>3, <2>1, <2>2, SendsTold DEF Turn
    <2>3. CASE Start \/ StartFails \/ Scanned \/ StartAgain \/ Connect \/ Disconnect \/ Stop \/ Leave \/ StopEnds \/ RefreshDue \/ Inventory
               \/ Refreshed \/ CommandUnknown \/ AnyToyList \/ LoseEvents \/ UNCHANGED vars
      <3>1. UNCHANGED <<real, events, last>>
        BY <1>3, <2>3 DEF Listening, Start, StartFails, Scanned, StartAgain, Connect, Disconnect, Stop, Leave, StopEnds, RefreshDue,
               Inventory, Refreshed, CommandUnknown, AnyToyList, ToyList, LoseEvents, vars, toyVars, memory
      <3> QED BY <2>1, <3>1, SameTold
    <2>4. ASSUME NEW c \in Commands, Reach(c) PROVE Told'
      <3>1. cmds[c].sent \in [Motors -> Levels] /\ last' = last
        BY <2>4 DEF Reach, memory, Typed, Requests
      <3> QED BY <2>1, <2>2, <2>4, <3>1, Reached, SameTold
    <2>5. ASSUME NEW c \in Commands, Return(c) \/ \E m \in Motors \cup {None}, v \in Levels : Command(c, m, v) PROVE Told'
      <3>1. UNCHANGED <<real, events, last>>
        BY <2>5 DEF Return, Command, toyVars, memory
      <3> QED BY <2>1, <3>1, SameTold
    <2>6. ASSUME NEW m \in Motors, NEW v \in Levels, TurnByHand(m, v) PROVE Told'
      <3>1. [real EXCEPT ![m] = v] \in [Motors -> Levels]
        BY DEF Typed
      <3> QED BY <2>2, <2>6, <3>1 DEF TurnByHand, memory
    <2>7. ASSUME NEW m \in Motors, NEW v \in Levels, Event(m, v) PROVE Told'
      <3>1. Received([motor |-> m, level |-> v]) /\ real' = real /\ last \in [Motors -> Levels \cup {None}]
        BY <2>7 DEF Event, Typed
      <3>2. last' = [last EXCEPT ![m] = v] \/ (last' = last /\ \A n \in Motors : last[n] = None)
        BY <2>7 DEF Event, Known
      <3> QED BY <2>1, <3>1, <3>2, TakesTold
    <2>8. ASSUME NEW l \in {"on", "off", "gone"}, LinkChanges(l) PROVE Told'
      <3>1. UNCHANGED <<real, events, last>>
        BY <2>8 DEF LinkChanges, memory
      <3> QED BY <2>1, <3>1, SameTold
    <2> QED BY Zeros, <2>3, <2>4, <2>5, <2>6, <2>7, <2>8 DEF Next, AnyToyList
  <1> QED BY <1>2, <1>3

(* What the bridge shows is what it believes, as long as nothing is missed.  *)
LEMMA ShowsStep == Typed /\ Known /\ Heard /\ Ended /\ Follows /\ News /\ Shows /\ [Next]_vars => Shows'
  <1> SUFFICES ASSUME Typed, Known, Heard, Ended, Follows, News, Shows, [Next]_vars, ~muddled', ~missed', row' # "unknown"
               PROVE  shown' = levels'
    BY DEF Shows
  <1>1. ~missed /\ levels \in [Motors -> Levels] /\ shown \in [Motors -> Levels]
    BY MissedStays DEF Typed
  <1>2. ASSUME NEW ms, NEW values, Report(ms, values)
        PROVE  shown' = [m \in Motors |-> IF m \in ms THEN values[m] ELSE shown[m]]
    BY <1>2, MissedStays DEF Report
  <1>3. CASE UNCHANGED <<levels, shown>> /\ (~muddled)
    BY <1>1, <1>3 DEF Shows, Known
  <1>4. CASE Start \/ StartFails \/ Scanned \/ StartAgain \/ Connect \/ Disconnect \/ Leave \/ RefreshDue \/ Inventory
             \/ CommandUnknown \/ UNCHANGED vars
    BY <1>3, <1>4 DEF Start, StartFails, Scanned, StartAgain, Connect, Disconnect, Leave, RefreshDue, Inventory, CommandUnknown,
           vars, memory, busVars, history
  <1>5. CASE Stop \/ StopEnds \/ LoseEvents
    BY <1>5 DEF Stop, StopEnds, LoseEvents
  <1>6. CASE Refreshed \/ AnyToyList
    <2>1. ~muddled
      BY <1>6 DEF Refreshed, AnyToyList, ToyList, Discover
    <2>2. UNCHANGED <<levels, shown>> \/ (Report(Motors, Zero) /\ levels' = Zero)
      BY <1>6 DEF Refreshed, AnyToyList, ToyList, Discover
    <2>3. ASSUME Report(Motors, Zero), levels' = Zero PROVE shown' = levels'
      <3>1. shown' = [m \in Motors |-> Zero[m]]
        BY <1>2, <2>3
      <3> QED BY <2>3, <3>1 DEF Zero
    <2> QED BY <1>3, <2>1, <2>2, <2>3
  <1>7. ASSUME NEW c \in Commands, Reach(c) PROVE shown' = levels'
    <2>1. UNCHANGED <<levels, shown>>
      BY <1>7 DEF Reach, memory, busVars
    <2>2. ~muddled
      BY <1>7, Reached
    <2> QED BY <1>3, <2>1, <2>2
  <1>8. ASSUME NEW c \in Commands, NEW m \in Motors \cup {None}, NEW v \in Levels, Command(c, m, v) PROVE shown' = levels'
    BY <1>3, <1>8 DEF Command, memory, busVars
  <1>9. ASSUME NEW c \in Commands, Return(c) PROVE shown' = levels'
    <2>1. c \in Out /\ cmds[c].sent \in [Motors -> Levels] /\ cmds[c].motor \in Motors \cup {None}
      BY <1>9 DEF Return, Out, Typed, Requests
    <2>2. CASE cmds[c].stage # "done"
      <3>1. UNCHANGED <<levels, shown, muddled>>
        BY <1>9, <2>2 DEF Return
      <3>2. row # "unknown"
        BY <2>1 DEF Known
      <3> QED BY <1>1, <3>1, <3>2 DEF Shows
    <2>3. CASE cmds[c].stage = "done" /\ cmds[c].motor = None
      <3>1. levels' = cmds[c].sent /\ Report(Motors, cmds[c].sent)
        BY <1>9, <2>3 DEF Return, Stopped
      <3>2. shown' = [m \in Motors |-> cmds[c].sent[m]]
        BY <1>2, <3>1
      <3> QED BY <2>1, <3>1, <3>2
    <2>4. CASE cmds[c].stage = "done" /\ cmds[c].motor # None
      <3>1. levels' = cmds[c].sent /\ Report({cmds[c].motor}, cmds[c].sent)
        BY <1>9, <2>4 DEF Return
      <3>2. shown' = [m \in Motors |-> IF m \in {cmds[c].motor} THEN cmds[c].sent[m] ELSE shown[m]]
        BY <1>2, <3>1
      <3>3. ~muddled /\ shown = levels
        <4>1. ~muddled
          BY <1>9, <2>4 DEF Return
        <4>2. row # "unknown"
          BY <2>1 DEF Known
        <4> QED BY <1>1, <4>1, <4>2 DEF Shows
      <3>4. \A m \in Motors : m # cmds[c].motor => cmds[c].sent[m] = levels[m]
        BY <2>1, <2>4, <3>3 DEF Follows, Awaited
      <3> QED BY <2>1, <3>1, <3>2, <3>3, <3>4
    <2> QED BY <2>2, <2>3, <2>4
  <1>10. ASSUME NEW m \in Motors, NEW v \in Levels, TurnByHand(m, v) PROVE shown' = levels'
    BY <1>3, <1>10 DEF TurnByHand, memory, busVars
  <1>11. ASSUME NEW m \in Motors, NEW v \in Levels, Event(m, v) PROVE shown' = levels'
    <2>1. row # "unknown" /\ ~muddled /\ shown = levels
      BY <1>1, <1>11 DEF Event, Shows
    <2>2. Told /\ Received([motor |-> m, level |-> v])
      BY <1>1, <1>11 DEF Event, Received, Heard, News
    <2>3. /\ last' = [last EXCEPT ![m] = v] /\ real' = real /\ last \in [Motors -> Levels \cup {None}]
          /\ levels' = [levels EXCEPT ![m] = v]
      BY <1>11, <2>1 DEF Event, Typed
    <2>4. last[m] # v
      BY <2>2, <2>3, TakesTold
    <2>5. Report({m}, [n \in Motors |-> v])
      BY <1>11, <2>1, <2>4 DEF Event
    <2>6. shown' = [n \in Motors |-> IF n \in {m} THEN [o \in Motors |-> v][n] ELSE shown[n]]
      BY <1>2, <2>5
    <2> QED BY <1>1, <2>1, <2>3, <2>6
  <1>12. ASSUME NEW l \in {"on", "off", "gone"}, LinkChanges(l) PROVE shown' = levels'
    BY <1>3, <1>12 DEF LinkChanges, memory, busVars
  <1> QED BY Zeros, <1>4, <1>5, <1>6, <1>7, <1>8, <1>9, <1>10, <1>11, <1>12 DEF Next, AnyToyList

-----------------------------------------------------------------------------
(* What the bridge believes *)

LEMMA SameAwaited == UNCHANGED <<real, events, levels, cmds>> /\ Awaited => Awaited'
  BY DEF Awaited, Arrives, Final, Echo, Pending, Out

(* With nothing under way but reports, the last ones count.                  *)
LEMMA NoneAwaited ==
  ASSUME Arrives, Out = {}, \A m \in Motors : Pending(m) \/ levels[m] = real[m]
  PROVE  Awaited
  BY DEF Awaited

(* The toy has carried out what it was sent: the motor of the command has    *)
(* turned, the other ones stay as they are believed to be.                   *)
LEMMA ReachAwaited ==
  ASSUME Typed, Single, Heard, ~muddled, Awaited, ~muddled', NEW c \in Commands, Reach(c), Out' = Out
  PROVE  Awaited'
  <1> DEFINE to == cmds[c].sent
  <1>1. /\ cmds[c].stage = "out" /\ cmds' \in [Commands -> Requests]
        /\ cmds'[c].motor = cmds[c].motor /\ cmds'[c].sent = to
        /\ \/ cmds'[c].stage = "done" /\ Turn(to)
           \/ cmds'[c].stage = "refused" /\ UNCHANGED <<real, events>>
    BY Reached
  <1>2. Out = {c} /\ Out' = {c} /\ to \in [Motors -> Levels] /\ levels' = levels
    BY <1>1 DEF Single, Out, Typed, Requests, Reach, memory
  <1>3. /\ Arrives
        /\ cmds[c].motor # None => \A m \in Motors : Echo(m) /\ (m # cmds[c].motor => to[m] = levels[m])
        /\ \A m \in Motors : Pending(m) \/ levels[m] = real[m]
    BY <1>1, <1>2 DEF Awaited
  <1> HIDE DEF to
  <1>4. CASE cmds'[c].stage = "refused" /\ UNCHANGED <<real, events>>
    <2>1. Arrives' /\ \A m \in Motors : Pending(m)' \/ levels'[m] = real'[m]
      BY <1>2, <1>3, <1>4 DEF Arrives, Final, Pending
    <2> QED BY <1>2, <1>4, <2>1 DEF Awaited
  <1>5. CASE cmds'[c].stage = "done" /\ Turn(to)
    <2>1. real' = to
      BY <1>5 DEF Turn
    <2>2. CASE Listening
      <3>1. /\ Arrives'
            /\ \A i \in DOMAIN events' : \/ i \in DOMAIN events /\ events'[i] = events[i]
                                         \/ events'[i].level = to[events'[i].motor]
        BY <1>2, <1>3, <1>5, <2>1, <2>2, SendsArrives DEF Turn
      <3>2. ASSUME NEW m \in Motors, cmds[c].motor \notin {None, m} PROVE Echo(m)' /\ to[m] = levels'[m]
        BY <1>2, <1>3, <3>1, <3>2 DEF Echo
      <3> QED BY <1>1, <1>2, <1>5, <2>1, <3>1, <3>2 DEF Awaited
    <2>3. CASE ~Listening
      <3>1. events' = <<>>
        BY <1>5, <2>3 DEF Turn, Heard
      <3>2. DOMAIN events' = {}
        BY <3>1
      <3>3. Arrives' /\ \A m \in Motors : Echo(m)'
        BY <3>2 DEF Arrives, Echo
      <3> QED BY <1>1, <1>2, <1>3, <1>5, <2>1, <3>3 DEF Awaited
    <2> QED BY <2>2, <2>3
  <1> QED BY <1>1, <1>4, <1>5

(* A command that is answered: what was sent is believed, and is so.  A stop *)
(* that nothing has joined puts everything right.                            *)
LEMMA ReturnAwaited ==
  ASSUME Typed, Single, Silences, Follows, ~muddled', NEW c \in Commands, Return(c), Out' = Out \ {c}, c \in Out
  PROVE  Awaited'
  <1>1. UNCHANGED <<real, events>> /\ cmds[c].stage \in {"done", "refused", "failed"}
    BY DEF Return, toyVars
  <1>2. CASE ~muddled
    <2>1. Out = {c} /\ Out' = {} /\ Awaited
      BY <1>2 DEF Single, Follows
    <2>2. Arrives'
      BY <1>1, <2>1 DEF Awaited, Arrives, Final
    <2>3. CASE cmds[c].stage = "done"
      <3>1. levels' = cmds[c].sent /\ real = cmds[c].sent
        BY <2>1, <2>3 DEF Return, Stopped, Awaited
      <3> QED BY <1>1, <2>1, <2>2, <3>1 DEF Awaited
    <2>4. CASE cmds[c].stage # "done"
      <3>1. levels' = levels /\ \A m \in Motors : Pending(m) \/ levels[m] = real[m]
        BY <2>1, <2>4 DEF Return, Awaited
      <3> QED BY <1>1, <2>1, <2>2, <3>1 DEF Awaited, Pending
    <2> QED BY <2>3, <2>4
  <1>3. CASE muddled
    <2>1. cmds[c].stage = "done" /\ cmds[c].motor = None /\ cmds[c].alone /\ EndAtZero /\ levels' = cmds[c].sent
      BY <1>3 DEF Return, Stopped
    <2>2. Out' = {} /\ real = Zero /\ levels' = Zero
      BY <2>1 DEF Single, Silences
    <2>3. ASSUME NEW i \in DOMAIN events, Final(i) PROVE events[i].level = real[events[i].motor]
      <3>1. events \in Seq(Reports)
        BY DEF Typed
      <3>2. events[i] \in Reports
        BY <3>1
      <3>3. events[i].motor \in Motors
        BY <3>2 DEF Reports
      <3>4. ASSUME events[i].level # 0 PROVE FALSE
        <4>1. PICK j \in i + 1 .. Len(events) : events[j] = [motor |-> events[i].motor, level |-> 0]
          BY <2>1, <3>4 DEF EndAtZero
        <4> QED BY <2>3, <4>1 DEF Final
      <3> QED BY <2>2, <3>3, <3>4 DEF Zero
    <2>4. Arrives'
      BY <1>1, <2>3 DEF Arrives, Final
    <2> QED BY <1>1, <2>2, <2>4 DEF Awaited
  <1> QED BY <1>2, <1>3

(* A report that is received: it was awaited.                                *)
LEMMA EventAwaited ==
  ASSUME Typed, Awaited, NEW m \in Motors, NEW v \in Levels, Event(m, v), row # "unknown"
  PROVE  Awaited'
  <1>1. /\ Received([motor |-> m, level |-> v]) /\ UNCHANGED <<real, cmds>> /\ levels' = [levels EXCEPT ![m] = v]
        /\ levels \in [Motors -> Levels]
    BY DEF Event, Typed
  <1>2. /\ 1 \in DOMAIN events /\ events[1] = [motor |-> m, level |-> v]
        /\ \A i \in DOMAIN events' : i + 1 \in DOMAIN events /\ events'[i] = events[i + 1]
    BY <1>1, TakesReports
  <1>3. /\ Arrives' /\ (~Pending(m)' => v = real[m])
        /\ \A n \in Motors : ~Pending(n)' /\ n # m => ~Pending(n)
    BY <1>1, TakesArrives DEF Awaited
  <1>4. \A n \in Motors : levels'[n] = IF n = m THEN v ELSE levels[n]
    BY <1>1
  <1>5. Echo(m) => levels' = levels
    BY <1>1, <1>2 DEF Echo
  <1>6. ASSUME NEW n \in Motors, Echo(n), levels'[n] = levels[n] PROVE Echo(n)'
    BY <1>2, <1>6 DEF Echo
  <1>7. Out' = Out /\ \A c \in Out : cmds'[c] = cmds[c]
    BY <1>1 DEF Out
  <1>8. ASSUME NEW c \in Out, NEW n \in Motors, cmds[c].stage = "out" /\ cmds[c].motor # None
        PROVE  Echo(n)' /\ (n # cmds[c].motor => cmds[c].sent[n] = levels'[n])
    <2>1. Echo(m) /\ Echo(n) /\ (n # cmds[c].motor => cmds[c].sent[n] = levels[n])
      BY <1>8 DEF Awaited
    <2> QED BY <1>5, <1>6, <2>1
  <1>9. ASSUME NEW c \in Out, NEW n \in Motors, cmds[c].stage = "done" /\ cmds[c].motor \notin {None, n}
        PROVE  Echo(n)' /\ cmds[c].sent[n] = levels'[n]
    <2>1. Echo(n) /\ cmds[c].sent[n] = levels[n]
      BY <1>9 DEF Awaited
    <2>2. levels'[n] = levels[n]
      BY <1>4, <1>5, <2>1
    <2> QED BY <1>6, <2>1, <2>2
  <1>10. ASSUME \A c \in Out : cmds[c].stage # "done", NEW n \in Motors PROVE Pending(n)' \/ levels'[n] = real'[n]
    <2>1. Pending(n) \/ levels[n] = real[n]
      BY <1>10 DEF Awaited
    <2> QED BY <1>1, <1>3, <1>4, <2>1
  <1>11. \A c \in Out : cmds[c].stage = "done" => real' = cmds[c].sent
    BY <1>1 DEF Awaited
  <1> QED BY <1>3, <1>7, <1>8, <1>9, <1>10, <1>11 DEF Awaited

LEMMA FollowsStep == Typed /\ Single /\ Known /\ Heard /\ Silences /\ Follows /\ [Next]_vars => Follows'
  <1> SUFFICES ASSUME Typed, Single, Known, Heard, Silences, Follows, [Next]_vars, ~muddled' PROVE Awaited'
    BY DEF Follows
  <1>1. ASSUME UNCHANGED <<real, events, levels, cmds>>, ~muddled PROVE Awaited'
    BY <1>1, SameAwaited DEF Follows
  <1>2. CASE Start \/ StartFails \/ Scanned \/ StartAgain \/ Connect \/ Disconnect \/ Leave \/ RefreshDue \/ Inventory
             \/ CommandUnknown \/ UNCHANGED vars
    BY <1>1, <1>2 DEF Start, StartFails, Scanned, StartAgain, Connect, Disconnect, Leave, RefreshDue, Inventory, CommandUnknown,
           vars, toyVars, memory, history
  <1>3. CASE Stop \/ StopEnds \/ LoseEvents
    BY <1>3 DEF Stop, StopEnds, LoseEvents
  <1>4. CASE Refreshed \/ AnyToyList
    <2>1. UNCHANGED <<real, events, cmds>> /\ ~muddled /\ (levels' = levels \/ Discover)
      BY <1>4 DEF Refreshed, AnyToyList, ToyList, Discover, toyVars
    <2>2. Discover => levels' = levels
      BY DEF Discover, Known
    <2> QED BY <1>1, <2>1, <2>2
  <1>5. ASSUME NEW c \in Commands, Reach(c) PROVE Awaited'
    <2>1. ~muddled
      BY <1>5, Reached
    <2> QED BY <1>5, <2>1, OutOf, ReachAwaited DEF Follows
  <1>6. ASSUME NEW c \in Commands, Return(c) PROVE Awaited'
    BY <1>6, OutOf, ReturnAwaited
  <1>7. ASSUME NEW c \in Commands, NEW m \in Motors \cup {None}, NEW v \in Levels, Command(c, m, v) PROVE Awaited'
    <2>1. /\ Out = {} /\ Out' = {c} /\ ~muddled /\ (m = None \/ Echoes) /\ UNCHANGED <<real, events, levels>>
          /\ cmds'[c].stage = "out" /\ cmds'[c].motor = m /\ (m # None => cmds'[c].sent = Merged(m, v))
      BY <1>7, OutOf DEF Command, toyVars, memory
    <2>2. Arrives /\ \A n \in Motors : Pending(n) \/ levels[n] = real[n]
      BY <2>1 DEF Follows, Awaited
    <2>3. Arrives' /\ \A n \in Motors : Pending(n)' \/ levels'[n] = real'[n]
      BY <2>1, <2>2 DEF Arrives, Final, Pending
    <2>4. ASSUME m # None, NEW n \in Motors PROVE Echo(n)' /\ (n # m => cmds'[c].sent[n] = levels'[n])
      BY <2>1, <2>4 DEF Echo, Echoes, Merged, Typed
    <2> QED BY <2>1, <2>3, <2>4 DEF Awaited
  <1>8. ASSUME NEW m \in Motors, NEW v \in Levels, TurnByHand(m, v) PROVE Awaited'
    <2>1. /\ Out = {} /\ ~muddled /\ Listening /\ Turn([real EXCEPT ![m] = v]) /\ levels' = levels
          /\ [real EXCEPT ![m] = v] \in [Motors -> Levels]
      BY <1>8 DEF TurnByHand, memory, Typed
    <2>2. Arrives /\ \A n \in Motors : Pending(n) \/ levels[n] = real[n]
      BY <2>1 DEF Follows, Awaited
    <2>3. Arrives' /\ \A n \in Motors : ~Pending(n)' => ~Pending(n) /\ real'[n] = real[n]
      BY <2>1, <2>2, SendsArrives DEF Turn
    <2> QED BY <1>8, OutOf, <2>1, <2>2, <2>3 DEF Awaited
  <1>9. ASSUME NEW m \in Motors, NEW v \in Levels, Event(m, v) PROVE Awaited'
    BY <1>9, EventAwaited DEF Event, Follows
  <1>10. ASSUME NEW l \in {"on", "off", "gone"}, LinkChanges(l) PROVE Awaited'
    BY <1>1, <1>10 DEF LinkChanges, memory
  <1> QED BY Zeros, <1>2, <1>3, <1>4, <1>5, <1>6, <1>7, <1>8, <1>9, <1>10 DEF Next, AnyToyList

-----------------------------------------------------------------------------
(* A motor that no command is for *)

LEMMA Least ==
  ASSUME NEW T, T \subseteq Nat, T # {}
  PROVE  \E x \in T : \A y \in T : x <= y
  <1> DEFINE R == OpToRel(<, Nat)
  <1>1. IsWellFoundedOn(R, Nat)
    BY NatLessThanWellFounded, Zenon
  <1>2. \A x, y \in T : y < x => <<y, x>> \in R
    BY DEF OpToRel
  <1> HIDE DEF R
  <1>3. PICK x \in T : \A y \in T : <<y, x>> \notin R
    BY <1>1, WFMin
  <1>4. \A y \in T : ~ (y < x) /\ x \in Nat /\ y \in Nat
    BY <1>2, <1>3
  <1> QED BY <1>4

(* Of the reports of a motor under way one is the last.                      *)
LEMMA FinalOf ==
  ASSUME Typed, NEW m, Pending(m)
  PROVE  \E i \in DOMAIN events : Final(i) /\ events[i].motor = m
  <1> DEFINE n == Len(events)
             T == {k \in Nat : \E i \in 1 .. n : events[i].motor = m /\ k = n - i}
  <1>1. n \in Nat /\ DOMAIN events = 1 .. n
    BY DEF Typed
  <1> HIDE DEF n
  <1>2. PICK k \in T : \A l \in T : k <= l
    <2>1. PICK i \in 1 .. n : events[i].motor = m
      BY <1>1 DEF Pending
    <2>2. n - i \in T
      BY <1>1, <2>1
    <2> HIDE DEF T
    <2>3. T \subseteq Nat
      BY DEF T
    <2> QED BY <2>2, <2>3, Least
  <1>3. PICK i \in 1 .. n : events[i].motor = m /\ k = n - i
    BY <1>2
  <1>4. ASSUME NEW j \in i + 1 .. n PROVE events[j].motor # m
    <2>1. n - j \in Nat /\ n - j < k /\ j \in 1 .. n
      BY <1>1, <1>3
    <2>2. n - j \notin T
      <3> HIDE DEF T
      <3>1. T \subseteq Nat
        BY DEF T
      <3> QED BY <1>2, <2>1, <3>1
    <2> QED BY <2>1, <2>2
  <1> QED BY <1>1, <1>3, <1>4 DEF Final, n

(* While nothing overlaps, a motor whose reports are echoes of what is       *)
(* believed does what is believed.                                           *)
LEMMA EchoIsReal ==
  ASSUME Typed, Arrives, NEW m \in Motors, Echo(m), Pending(m) \/ levels[m] = real[m]
  PROVE  levels[m] = real[m]
  <1>1. CASE Pending(m)
    <2>1. PICK i \in DOMAIN events : Final(i) /\ events[i].motor = m
      BY <1>1, FinalOf
    <2> QED BY <2>1 DEF Arrives, Echo
  <1> QED BY <1>1

LEMMA ApartStep ==
  ASSUME Typed, Single, Follows, [Next]_vars, NEW c \in Commands, NEW m \in Motors, NEW n \in Motors \ {m},
         cmds[c].stage = "out", cmds[c].motor = m, cmds'[c].stage = "done", ~muddled
  PROVE  real'[n] = real[n]
  <1>1. Reach(c) /\ real' = cmds[c].sent
    <2>1. cmds[c] \in Requests /\ c \in Out
      BY DEF Typed, Out
    <2>2. CASE StopEnds
      <3>1. cmds'[c] = [cmds[c] EXCEPT !.stage = "failed"]
        BY <2>1, <2>2 DEF StopEnds
      <3>2. cmds'[c].stage = "failed"
        BY <2>1, <3>1, Restaged
      <3> QED BY <3>2
    <2>3. ASSUME NEW d \in Commands, Reach(d) PROVE d = c
      BY <2>3, Reached
    <2>4. ASSUME NEW d \in Commands, Return(d) PROVE FALSE
      <3>1. d # c
        BY <2>4 DEF Return
      <3> QED BY <2>4, <3>1, OutOf
    <2>5. ASSUME NEW d \in Commands, NEW a \in Motors \cup {None}, NEW v \in Levels, Command(d, a, v) PROVE FALSE
      <3>1. d # c /\ cmds'[c] = [cmds[c] EXCEPT !.alone = FALSE]
        BY <2>5 DEF Command
      <3>2. cmds'[c].stage = cmds[c].stage
        BY <2>1, <3>1, Joined
      <3> QED BY <3>2
    <2>6. ASSUME NEW a \in Motors, NEW v \in Levels, TurnByHand(a, v) PROVE FALSE
      <3>1. cmds'[c] = [cmds[c] EXCEPT !.alone = FALSE]
        BY <2>6 DEF TurnByHand
      <3>2. cmds'[c].stage = cmds[c].stage
        BY <2>1, <3>1, Joined
      <3> QED BY <3>2
    <2>7. Reach(c)
      BY <2>2, <2>3, <2>4, <2>5, <2>6, OutStep
    <2> QED BY <2>7, Reached DEF Turn
  <1>2. Awaited /\ Out = {c}
    BY DEF Follows, Single, Out
  <1>3. Arrives /\ Echo(n) /\ cmds[c].sent[n] = levels[n] /\ (Pending(n) \/ levels[n] = real[n])
    BY <1>2, NoneAssumption DEF Awaited
  <1> QED BY <1>1, <1>3, EchoIsReal

-----------------------------------------------------------------------------
(* The theorems *)

LEMMA InitInv == Init => IInv
  <1> SUFFICES ASSUME Init PROVE IInv
    OBVIOUS
  <1>1. Typed
    BY TypedInit
  <1>2. Out = {}
    BY DEF Init, Out, Free
  <1>3. events = <<>> /\ DOMAIN events = {} /\ levels = Zero /\ real = Zero /\ shown = Zero
    BY DEF Init
  <1>4. Single /\ Known /\ Heard /\ Ended /\ Silences /\ Shows
    <2>1. Single
      BY <1>2 DEF Single, Init, Free
    <2>2. Known /\ Heard /\ Shows
      BY <1>2, <1>3 DEF Known, Heard, Shows, Init
    <2>3. Ended /\ Silences
      BY <1>2 DEF Ended, StopShowsOffline, Silences, Init
    <2> QED BY <2>1, <2>2, <2>3
  <1>5. Follows /\ News
    <2>1. Awaited
      BY <1>2, <1>3 DEF Awaited, Arrives
    <2>2. Told
      BY <1>3 DEF Told, Arrives, Init
    <2> QED BY <2>1, <2>2 DEF Follows, News
  <1> QED BY <1>1, <1>4, <1>5 DEF IInv

THEOREM Invariance == Spec => []IInv
  <1>1. IInv /\ [Next]_vars => IInv'
    BY TypedStep, SingleStep, KnownStep, HeardStep, EndedStep, SilencesStep, FollowsStep, NewsStep, ShowsStep DEF IInv
  <1> QED BY InitInv, <1>1, PTL DEF Spec

(* Every variable has its type: among other things reports never pile up     *)
(* beyond their bound, and no answer is left without a refresh                *)
(* (ha_bridge.py:275-294).                                                   *)
THEOREM TypeCorrect == Spec => []TypeOK
  <1>1. Typed => TypeOK
    <2> SUFFICES ASSUME Typed PROVE TypeOK
      OBVIOUS
    <2>1. Range(events) \subseteq [motor : Motors, level : Levels]
      <3>1. Range(events) \subseteq Reports
        BY DEF Typed, Range
      <3> QED BY <3>1 DEF Reports
    <2>2. Range(queue) \subseteq {"loop", "connect", "start"}
      BY DEF Typed, Refreshes, Range
    <2>3. {real, levels, shown} \subseteq [Motors -> Levels] /\ {bridge, avail} \subseteq {"none", "online", "offline"}
      BY DEF Typed
    <2>4. {control, begun, up, ready, cleared, published, disc, muddled, missed, gap} \subseteq BOOLEAN
      BY DEF Typed
    <2> QED BY <2>1, <2>2, <2>3, <2>4 DEF Typed, TypeOK, Requests, Runs
  <1> QED BY Invariance, <1>1, PTL DEF IInv

(* Once nothing is under way the bridge's levels are the toy's, and are      *)
(* shown (ha_bridge.py:689-704, 740-747, 780-789).                           *)
THEOREM LevelsAgreeInTheEnd == Spec => []LevelsAgree
  <1>1. IInv => LevelsAgree
    <2> SUFFICES ASSUME IInv, Quiet, row # "unknown", ~muddled PROVE levels = real /\ (~missed => shown = levels)
      BY DEF LevelsAgree
    <2>1. \A m \in Motors : Pending(m) \/ levels[m] = real[m]
      BY DEF IInv, Follows, Awaited, Quiet
    <2>2. \A m \in Motors : ~Pending(m)
      <3>1. DOMAIN events = {}
        BY DEF Quiet
      <3> QED BY <3>1 DEF Pending
    <2> QED BY <2>1, <2>2 DEF IInv, Typed, Shows
  <1> QED BY Invariance, <1>1, PTL

(* A bridge that was stopped over a connection is shown as offline, and its  *)
(* toy is (ha_bridge.py:434-471).                                            *)
THEOREM StopShows == Spec => []StopShowsOffline
  <1>1. IInv => StopShowsOffline
    BY DEF IInv, Ended, Left, StopShowsOffline
  <1> QED BY Invariance, <1>1, PTL

(* A command for one motor leaves the others as they are, unless commands    *)
(* have overlapped or something was lost (ha_bridge.py:780-787).             *)
THEOREM MotorsStayApart == Spec => MotorsApart
  <1> DEFINE Apart == \A c \in Commands, m \in Motors :
               cmds[c].stage = "out" /\ cmds[c].motor = m /\ cmds'[c].stage = "done" /\ ~muddled =>
                 \A n \in Motors \ {m} : real'[n] = real[n]
  <1>1. IInv /\ [Next]_vars => [Apart]_vars
    <2> SUFFICES ASSUME IInv, [Next]_vars PROVE Apart
      OBVIOUS
    <2> QED BY ApartStep DEF IInv
  <1> QED BY Invariance, <1>1, PTL DEF Spec, MotorsApart
==============================================================================
