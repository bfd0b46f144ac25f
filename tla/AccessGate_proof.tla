--------------------------- MODULE AccessGate_proof ---------------------------
(***************************************************************************)
(* Theorems about AccessGate, for every set of visitors, browsers and ids  *)
(* and every bound.                                                        *)
(***************************************************************************)
EXTENDS AccessGate, TLAPS

-----------------------------------------------------------------------------
(* The inductive invariant *)

\* what a page waits for, or is told it asked for, is a request
Addressed ==
  \A v \in Visitors : /\ pane[v] = "waiting" => req[v] \in Ids
                      /\ \A s \in Slots : net[v][s] # None /\ net[v][s].op = "ask" => net[v][s].arg \in Ids

\* while a code opens the gate, its failures are the wrong entries under it
CodeCounted == CodeLive => uses = 0 /\ wrong = code.failures

\* a request that was turned into a session is gone
Spent == \A i \in claimed : rows[i] = NoRow

IInv == TypeOK /\ Addressed /\ CodeCounted /\ Spent /\ AskedOnce

-----------------------------------------------------------------------------
(* The operators *)

LEMMA Bounds ==
  ApprovalTtl \in Nat \ {0} /\ GrantTtl \in Nat \ {0} /\ Keep \in Nat \ {0} /\ MaxFailures \in Nat \ {0}
  BY TtlAssumption

LEMMA TwoNumbers ==
  ASSUME NEW a \in Int, NEW b \in Int
  PROVE  /\ Max({a, b}) = IF a >= b THEN a ELSE b
         /\ Min({a, b}) = IF a <= b THEN a ELSE b
  <1> DEFINE top == IF a >= b THEN a ELSE b
             low == IF a <= b THEN a ELSE b
  <1>1. top \in {a, b} /\ \A y \in {a, b} : top >= y
    OBVIOUS
  <1>2. low \in {a, b} /\ \A y \in {a, b} : low <= y
    OBVIOUS
  <1>3. \A x \in {a, b} : (\A y \in {a, b} : x >= y) => x = top
    OBVIOUS
  <1>4. \A x \in {a, b} : (\A y \in {a, b} : x <= y) => x = low
    OBVIOUS
  <1> HIDE DEF top, low
  <1>5. Max({a, b}) = top
    BY <1>1, <1>3 DEF Max
  <1>6. Min({a, b}) = low
    BY <1>2, <1>4 DEF Min
  <1>7. QED
    BY <1>5, <1>6 DEF top, low

LEMMA Sizes ==
  /\ Max({ApprovalTtl, Keep}) \in Nat /\ Max({ApprovalTtl, Keep}) >= ApprovalTtl
  /\ Max({ApprovalTtl, Keep}) >= Keep
  /\ Min({GrantTtl, ApprovalTtl}) \in Nat /\ Min({GrantTtl, ApprovalTtl}) <= ApprovalTtl
  <1>1. ApprovalTtl \in Int /\ Keep \in Int /\ GrantTtl \in Int
    BY Bounds
  <1>2. /\ Max({ApprovalTtl, Keep}) = IF ApprovalTtl >= Keep THEN ApprovalTtl ELSE Keep
        /\ Min({GrantTtl, ApprovalTtl}) = IF GrantTtl <= ApprovalTtl THEN GrantTtl ELSE ApprovalTtl
    BY <1>1, TwoNumbers
  <1>3. QED
    BY <1>2, Bounds

(* What a purge keeps: it drops no request that waits and no grant whose     *)
(* time is not over, and it makes nothing of nothing.                        *)
LEMMA KeptFacts ==
  ASSUME TypeOK, NEW i \in Ids
  PROVE  /\ Kept \in [Ids -> Rows]
         /\ Kept[i].status \in {"pending", "approved", "denied"} => Kept[i] = rows[i]
         /\ Waits(rows[i]) => Kept[i] = rows[i]
         /\ rows[i] = NoRow => Kept[i] = NoRow
         /\ rows[i].status = "approved" /\ rows[i].keep > 0 => Kept[i] = rows[i]
         /\ Kept[i].status = "none" => Kept[i] = NoRow \/ Kept[i] = rows[i]
  <1>1. \A j \in Ids : rows[j] \in Rows
    BY DEF TypeOK
  <1>2. NoRow \in Rows
    BY Bounds, Sizes DEF NoRow, Rows
  <1>3. \A j \in Ids : Kept[j] = Purged(rows[j])
    BY DEF Kept
  <1>4. \A j \in Ids : Purged(rows[j]) \in Rows
    BY <1>1, <1>2 DEF Purged, Rows
  <1>5. Kept \in [Ids -> Rows]
    BY <1>4 DEF Kept
  <1>6. ~Gone(NoRow) /\ NoRow.status = "none"
    BY DEF Gone, NoRow
  <1>7. Waits(rows[i]) => ~Gone(rows[i])
    BY <1>1, Bounds DEF Waits, Gone, Rows
  <1>8. rows[i].status = "approved" /\ rows[i].keep > 0 => ~Gone(rows[i])
    BY <1>1 DEF Gone, Rows
  <1>9. \/ Gone(rows[i]) /\ Kept[i] = NoRow
        \/ /\ rows[i].status = "pending" /\ rows[i].left <= 0
           /\ Kept[i] = [rows[i] EXCEPT !.status = "expired"] /\ Kept[i].status = "expired"
        \/ Kept[i] = rows[i]
    BY <1>1, <1>3 DEF Purged, Rows
  <1>10. /\ Kept[i].status \in {"pending", "approved", "denied"} => Kept[i] = rows[i]
         /\ Kept[i].status = "none" => Kept[i] = NoRow \/ Kept[i] = rows[i]
    BY <1>9, <1>6
  <1>11. Waits(rows[i]) => Kept[i] = rows[i]
    BY <1>1, <1>7, <1>9 DEF Waits, Rows
  <1>12. rows[i] = NoRow => Kept[i] = NoRow
    BY <1>3, <1>6 DEF Purged
  <1>13. rows[i].status = "approved" /\ rows[i].keep > 0 => Kept[i] = rows[i]
    BY <1>3, <1>8 DEF Purged
  <1>14. QED
    BY <1>5, <1>10, <1>11, <1>12, <1>13

NewRow(v) == [status |-> "pending", print |-> Browser(v), left |-> ApprovalTtl, keep |-> 0]

(* An answer is put on its way to one page, in a slot that was empty.        *)
LEMMA AnswerFacts ==
  ASSUME TypeOK, NEW v \in Visitors, NEW op \in {"ask", "poll", "verify"},
         NEW arg \in Ids \cup {None}, NEW answer \in Answers, Answer(v, op, arg, answer)
  PROVE  /\ net' \in [Visitors -> [Slots -> Messages \cup {None}]]
         /\ \A u \in Visitors, s \in Slots : net'[u][s] # net[u][s] =>
              u = v /\ net[u][s] = None /\ net'[u][s] = Msg(op, arg, answer)
  <1>1. PICK s \in Slots : net[v][s] = None /\ net' = [net EXCEPT ![v][s] = Msg(op, arg, answer)]
    BY DEF Answer
  <1>2. Msg(op, arg, answer) \in Messages
    BY DEF Msg, Messages
  <1>3. net \in [Visitors -> [Slots -> Messages \cup {None}]]
    BY DEF TypeOK
  <1>4. QED
    BY <1>1, <1>2, <1>3

(* A code is in the state the type invariant allows, and a new one has no    *)
(* history.                                                                  *)
LEMMA NewCodeFacts ==
  ASSUME TypeOK, NEW rotate \in BOOLEAN, NewCode(rotate)
  PROVE  /\ code' \in [there : BOOLEAN, live : BOOLEAN, failures : 0 .. MaxFailures - 1]
         /\ uses' \in Nat /\ wrong' \in 0 .. MaxFailures
         /\ \/ UNCHANGED <<code, uses, wrong>>
            \/ code'.failures = 0 /\ uses' = 0 /\ wrong' = 0
  <1>1. CASE rotate \/ ~CodeLive
    <2>1. code' = [there |-> TRUE, live |-> TRUE, failures |-> 0] /\ uses' = 0 /\ wrong' = 0
      BY <1>1 DEF NewCode
    <2>2. 0 \in 0 .. MaxFailures - 1 /\ 0 \in 0 .. MaxFailures
      BY Bounds
    <2>3. QED
      BY <2>1, <2>2
  <1>2. CASE ~(rotate \/ ~CodeLive)
    BY <1>2 DEF NewCode, TypeOK
  <1>3. QED
    BY <1>1, <1>2

(* What asking the host does: the visitor is told of a request that waits.   *)
LEMMA AskFacts ==
  ASSUME TypeOK, NEW v \in Visitors, NEW prior, NEW load \in BOOLEAN, Ask(v, prior, load)
  PROVE  /\ NewCode(FALSE) \/ UNCHANGED <<code, uses, wrong>>
         /\ \E i \in Ids :
              /\ Answer(v, "ask", i, "pending") /\ rows'[i].status = "pending"
              /\ \/ rows' = Kept /\ UNCHANGED claimed
                 \/ /\ Kept[i] = NoRow /\ rows' = [Kept EXCEPT ![i] = NewRow(v)]
                    /\ claimed' = claimed \ {i}
                    /\ \A j \in Ids : Waits(Kept[j]) => Kept[j].print # Browser(v)
  <1> DEFINE own  == {i \in Ids : i = prior /\ Waits(Kept[i])}
             same == IF own # {} THEN own ELSE {i \in Ids : SamePrint(Kept[i], v)}
  <1>1. \A i \in same : i \in Ids /\ Waits(Kept[i])
    BY DEF SamePrint
  <1>2. CASE same # {}
    <2>1. PICK i \in same : Answer(v, "ask", i, "pending")
      BY <1>2 DEF Ask
    <2>2. rows' = Kept /\ UNCHANGED claimed /\ (NewCode(FALSE) \/ UNCHANGED <<code, uses, wrong>>)
      BY <1>2 DEF Ask, FirstContact
    <2>3. QED
      BY <1>1, <2>1, <2>2 DEF Waits
  <1>3. CASE same = {}
    <2> DEFINE i == CHOOSE j \in FreeIds : TRUE
    <2>1. i \in FreeIds
      BY <1>3 DEF Ask
    <2>2. i \in Ids /\ Kept[i] = NoRow
      BY <2>1 DEF FreeIds
    <2>3. /\ NewCode(FALSE) /\ Answer(v, "ask", i, "pending")
          /\ rows' = [Kept EXCEPT ![i] = NewRow(v)] /\ claimed' = claimed \ {i}
      BY <1>3 DEF Ask, NewRow
    <2>4. \A j \in Ids : Waits(Kept[j]) => Kept[j].print # Browser(v)
      BY <1>3 DEF SamePrint
    <2> HIDE DEF i
    <2>5. rows'[i].status = "pending"
      BY <2>2, <2>3, KeptFacts DEF NewRow
    <2>6. QED
      BY <2>2, <2>3, <2>4, <2>5
  <1>4. QED
    BY <1>2, <1>3

(* What a poll does: an approved request is claimed.                         *)
LEMMA PollFacts ==
  ASSUME TypeOK, NEW v \in Visitors, NEW i \in Ids, Poll(v, i)
  PROVE  /\ \E a \in Answers : Answer(v, "poll", None, a) /\ (a = "approved" => Kept[i].status = "approved")
         /\ \/ rows' = Kept /\ UNCHANGED claimed /\ Kept[i].status # "approved"
            \/ /\ Kept[i].status = "approved"
               /\ rows' = [Kept EXCEPT ![i] = NoRow] /\ claimed' = claimed \cup {i}
         /\ UNCHANGED <<code, uses, wrong>>
  <1>1. Kept[i] \in Rows
    BY KeptFacts
  <1>2. /\ ApprovalStatus(i) \in Answers
        /\ ApprovalStatus(i) = "approved" => Kept[i].status = "approved"
    BY <1>1 DEF ApprovalStatus, Answers, Rows
  <1>3. QED
    BY <1>2 DEF Poll, Claimed

(* What entering a code does.                                                *)
LEMMA VerifyFacts ==
  ASSUME TypeOK, NEW v \in Visitors, NEW right \in BOOLEAN, Verify(v, right)
  PROVE  /\ \E a \in Answers : Answer(v, "verify", None, a)
         /\ code' \in [there : BOOLEAN, live : BOOLEAN, failures : 0 .. MaxFailures - 1]
         /\ uses' \in Nat /\ wrong' \in 0 .. MaxFailures
         /\ rows' \in [Ids -> Rows] /\ UNCHANGED claimed
         /\ \A i \in Ids : rows'[i] # rows[i] => rows[i].status = "pending" /\ rows'[i] = NoRow
         /\ \/ UNCHANGED <<code, uses, wrong>>
            \/ ~CodeLive'
            \/ CodeLive /\ wrong' = Min({wrong + 1, MaxFailures}) /\ uses' = uses
               /\ code' = [code EXCEPT !.failures = @ + 1]
  <1>1. NoRow \in Rows
    BY Bounds, Sizes DEF NoRow, Rows
  <1>2. NoCode \in [there : BOOLEAN, live : BOOLEAN, failures : 0 .. MaxFailures - 1]
        /\ ~NoCode.live
    BY Bounds DEF NoCode
  <1>3. Min({wrong + 1, MaxFailures}) \in 0 .. MaxFailures
    <2>1. wrong \in 0 .. MaxFailures /\ wrong + 1 \in Int /\ MaxFailures \in Int
      BY Bounds DEF TypeOK
    <2>2. Min({wrong + 1, MaxFailures}) = IF wrong + 1 <= MaxFailures THEN wrong + 1 ELSE MaxFailures
      BY <2>1, TwoNumbers
    <2>3. QED
      BY <2>1, <2>2
  <1>4. "refused" \in Answers /\ "approved" \in Answers
    BY DEF Answers
  <1>5. CASE ~CodeLive
    BY <1>4, <1>5 DEF Verify, gateVars, history, TypeOK
  <1>6. CASE CodeLive /\ ~right
    <2>1. /\ code' = Failed(code) /\ wrong' = Min({wrong + 1, MaxFailures})
          /\ Answer(v, "verify", None, "refused") /\ UNCHANGED <<rows, claimed, uses>>
      BY <1>6 DEF Verify
    <2>2. code' = NoCode \/ (code' = [code EXCEPT !.failures = @ + 1] /\ code.failures + 1 < MaxFailures)
      BY <2>1, Bounds DEF Failed, TypeOK
    <2>3. code' \in [there : BOOLEAN, live : BOOLEAN, failures : 0 .. MaxFailures - 1]
      BY <1>2, <2>2, Bounds DEF TypeOK
    <2>4. ~CodeLive' \/ code' = [code EXCEPT !.failures = @ + 1]
      BY <1>2, <2>2 DEF CodeLive
    <2>5. QED
      BY <1>3, <1>4, <1>6, <2>1, <2>3, <2>4 DEF TypeOK
  <1>7. CASE CodeLive /\ right
    <2>1. /\ code' = NoCode /\ uses' = uses + 1 /\ Answer(v, "verify", None, "approved")
          /\ rows' = [i \in Ids |-> IF rows[i].status = "pending" THEN NoRow ELSE rows[i]]
          /\ UNCHANGED <<claimed, wrong>>
      BY <1>7 DEF Verify
    <2>2. ~CodeLive'
      BY <1>2, <2>1 DEF CodeLive
    <2>3. rows' \in [Ids -> Rows]
      BY <1>1, <2>1 DEF TypeOK
    <2>4. QED
      BY <1>2, <1>4, <2>1, <2>2, <2>3 DEF TypeOK
  <1>8. QED
    BY <1>5, <1>6, <1>7

-----------------------------------------------------------------------------
(* Types *)

LEMMA TypeInit == Init => TypeOK
  <1> SUFFICES ASSUME Init PROVE TypeOK
    OBVIOUS
  <1>1. NoRow \in Rows
    BY Bounds, Sizes DEF NoRow, Rows
  <1>2. code \in [there : BOOLEAN, live : BOOLEAN, failures : 0 .. MaxFailures - 1]
    BY Bounds DEF Init, NoCode
  <1>3. /\ rows \in [Ids -> Rows] /\ req \in [Visitors -> Ids \cup {None}]
        /\ net \in [Visitors -> [Slots -> Messages \cup {None}]]
        /\ polled \in [Visitors -> 0 .. 2] /\ cookie \in [Browsers -> BOOLEAN]
    BY <1>1 DEF Init
  <1>4. pane \in [Visitors -> {"away", "asking", "waiting", "denied", "expired", "in"}]
    BY DEF Init
  <1>5. /\ lost \in BOOLEAN /\ odd \in 0 .. MaxOdd /\ claimed \subseteq Ids
        /\ uses \in Nat /\ wrong \in 0 .. MaxFailures
    <2>1. lost = FALSE /\ odd = 0 /\ claimed = {} /\ uses = 0 /\ wrong = 0
      BY DEF Init
    <2>2. 0 \in 0 .. MaxOdd /\ 0 \in 0 .. MaxFailures
      BY Bounds, VisitorAssumption
    <2>3. QED
      BY <2>1, <2>2
  <1>6. QED
    BY <1>2, <1>3, <1>4, <1>5 DEF TypeOK

(* The pages' variables keep their types in every step; the gate's do by the *)
(* facts above.                                                              *)
LEMMA TypeStep ==
  ASSUME TypeOK, Addressed, [Next]_vars
  PROVE  TypeOK'
  <1> DEFINE CodeOK == /\ code' \in [there : BOOLEAN, live : BOOLEAN, failures : 0 .. MaxFailures - 1]
                       /\ uses' \in Nat /\ wrong' \in 0 .. MaxFailures
             NetOK  == net' \in [Visitors -> [Slots -> Messages \cup {None}]]
             RowsOK == rows' \in [Ids -> Rows] /\ claimed' \subseteq Ids
  <1>1. /\ code \in [there : BOOLEAN, live : BOOLEAN, failures : 0 .. MaxFailures - 1]
        /\ rows \in [Ids -> Rows] /\ uses \in Nat /\ wrong \in 0 .. MaxFailures /\ claimed \subseteq Ids
        /\ net \in [Visitors -> [Slots -> Messages \cup {None}]]
        /\ pane \in [Visitors -> {"away", "asking", "waiting", "denied", "expired", "in"}]
        /\ req \in [Visitors -> Ids \cup {None}]
        /\ polled \in [Visitors -> 0 .. 2] /\ cookie \in [Browsers -> BOOLEAN]
        /\ lost \in BOOLEAN /\ odd \in 0 .. MaxOdd
    BY DEF TypeOK
  <1>2. Kept \in [Ids -> Rows]
    BY KeptFacts DEF Kept
  <1>3. NoRow \in Rows
    BY Bounds, Sizes DEF NoRow, Rows
  <1>4. Odd => odd' \in 0 .. MaxOdd
    BY <1>1, VisitorAssumption DEF Odd
  <1>5. ASSUME NEW v \in Visitors, NEW prior, NEW load \in BOOLEAN, Ask(v, prior, load)
        PROVE  CodeOK /\ NetOK /\ RowsOK
    <2>1. CodeOK
      <3>1. CASE NewCode(FALSE)
        BY <3>1, NewCodeFacts
      <3>2. CASE UNCHANGED <<code, uses, wrong>>
        BY <1>1, <3>2
      <3>3. QED
        BY <1>5, <3>1, <3>2, AskFacts
    <2>2. PICK i \in Ids :
              /\ Answer(v, "ask", i, "pending")
              /\ \/ rows' = Kept /\ UNCHANGED claimed
                 \/ rows' = [Kept EXCEPT ![i] = NewRow(v)] /\ claimed' = claimed \ {i}
      BY <1>5, AskFacts
    <2>3. NewRow(v) \in Rows
      <3>1. Browser(v) \in Browsers
        BY DEF Browsers
      <3>2. ApprovalTtl \in -Keep .. Max({ApprovalTtl, Keep}) /\ 0 \in 0 .. Keep
        BY Bounds, Sizes
      <3>3. QED
        BY <3>1, <3>2 DEF NewRow, Rows
    <2>4. RowsOK
      BY <1>1, <1>2, <2>2, <2>3
    <2>5. NetOK
      BY <2>2, AnswerFacts DEF Answers
    <2>6. QED
      BY <2>1, <2>4, <2>5
  <1>6. CASE Look
    BY <1>1, <1>2, <1>6 DEF Look, pageVars, history, TypeOK
  <1>7. CASE Rotate
    BY <1>1, <1>4, <1>7, NewCodeFacts DEF Rotate, pageVars, TypeOK
  <1>8. CASE Tick
    <2>1. rows' \in [Ids -> Rows]
      <3>1. \A i \in Ids :
               /\ Max({rows[i].left - 1, -Keep}) \in -Keep .. Max({ApprovalTtl, Keep})
               /\ Max({rows[i].keep - 1, 0}) \in 0 .. Keep
        <4> TAKE i \in Ids
        <4>1. /\ rows[i].left \in -Keep .. Max({ApprovalTtl, Keep}) /\ rows[i].keep \in 0 .. Keep
              /\ rows[i].left - 1 \in Int /\ -Keep \in Int /\ rows[i].keep - 1 \in Int
          <5>1. rows[i].left \in -Keep .. Max({ApprovalTtl, Keep}) /\ rows[i].keep \in 0 .. Keep
            BY <1>1 DEF Rows
          <5>2. QED
            BY <5>1, Bounds, Sizes
        <4>2. /\ Max({rows[i].left - 1, -Keep}) = IF rows[i].left - 1 >= -Keep THEN rows[i].left - 1 ELSE -Keep
              /\ Max({rows[i].keep - 1, 0}) = IF rows[i].keep - 1 >= 0 THEN rows[i].keep - 1 ELSE 0
          BY <4>1, TwoNumbers
        <4>3. QED
          BY <4>1, <4>2, Bounds, Sizes
      <3>2. QED
        BY <1>1, <1>3, <1>8, <3>1 DEF Tick, Rows
    <2>2. code' \in [there : BOOLEAN, live : BOOLEAN, failures : 0 .. MaxFailures - 1]
      BY <1>1, <1>8 DEF Tick
    <2>3. polled' \in [Visitors -> 0 .. 2]
      <3>1. polled' = [v \in Visitors |-> 0]
        BY <1>8 DEF Tick
      <3>2. QED
        BY <3>1
    <2>4. QED
      BY <1>1, <1>8, <2>1, <2>2, <2>3 DEF Tick, history, TypeOK
  <1>9. ASSUME NEW b \in Browsers, Lapse(b) PROVE TypeOK'
    <2>1. pane' \in [Visitors -> {"away", "asking", "waiting", "denied", "expired", "in"}]
      BY <1>1, <1>9 DEF Lapse
    <2>2. QED
      BY <1>1, <1>9, <2>1 DEF Lapse, gateVars, history, TypeOK
  <1>10. ASSUME NEW i \in Ids, Approve(i) \/ Deny(i) PROVE TypeOK'
    <2>1. /\ Min({GrantTtl, ApprovalTtl}) \in -Keep .. Max({ApprovalTtl, Keep})
          /\ Keep \in -Keep .. Max({ApprovalTtl, Keep}) /\ Keep \in 0 .. Keep
      BY Bounds, Sizes
    <2>2. rows' \in [Ids -> Rows]
      <3>0. Kept[i] \in Rows
        BY <1>2
      <3>1. CASE Approve(i)
        <4>1. rows' = [Kept EXCEPT ![i] = [@ EXCEPT !.status = "approved", !.keep = Keep,
                                                    !.left = Min({GrantTtl, ApprovalTtl})]]
          BY <3>1 DEF Approve
        <4>2. [Kept[i] EXCEPT !.status = "approved", !.keep = Keep,
                              !.left = Min({GrantTtl, ApprovalTtl})] \in Rows
          BY <2>1, <3>0 DEF Rows
        <4>3. QED
          BY <1>2, <4>1, <4>2
      <3>2. CASE Deny(i)
        <4>1. rows' = [Kept EXCEPT ![i] = [@ EXCEPT !.status = "denied", !.keep = Keep, !.left = Keep]]
          BY <3>2 DEF Deny
        <4>2. [Kept[i] EXCEPT !.status = "denied", !.keep = Keep, !.left = Keep] \in Rows
          BY <2>1, <3>0 DEF Rows
        <4>3. QED
          BY <1>2, <4>1, <4>2
      <3>3. QED
        BY <1>10, <3>1, <3>2
    <2>3. QED
      BY <1>1, <1>10, <2>2 DEF Approve, Deny, pageVars, history, TypeOK
  <1>11. ASSUME NEW v \in Visitors, Open(v) PROVE TypeOK'
    <2>1. pane' \in [Visitors -> {"away", "asking", "waiting", "denied", "expired", "in"}]
      BY <1>1, <1>11 DEF Open
    <2>2. QED
      BY <1>1, <1>5, <1>11, <2>1 DEF Open, TypeOK
  <1>12. ASSUME NEW v \in Visitors, Close(v) PROVE TypeOK'
    <2>1. /\ pane' \in [Visitors -> {"away", "asking", "waiting", "denied", "expired", "in"}]
          /\ NetOK
      BY <1>1, <1>12 DEF Close
    <2>2. QED
      BY <1>1, <1>4, <1>12, <2>1 DEF Close, gateVars, history, TypeOK
  <1>13. ASSUME NEW v \in Visitors, PollOnce(v) PROVE TypeOK'
    <2>0. req[v] \in Ids
      BY <1>13 DEF PollOnce, Polling, Addressed
    <2>1. polled' \in [Visitors -> 0 .. 2]
      BY <1>1, <1>13 DEF PollOnce
    <2>2. NetOK /\ RowsOK /\ UNCHANGED <<code, uses, wrong>>
      <3>1. Poll(v, req[v])
        BY <1>13 DEF PollOnce
      <3>2. NetOK
        BY <2>0, <1>13, <3>1, PollFacts, AnswerFacts
      <3>3. \/ rows' = Kept /\ UNCHANGED claimed
            \/ rows' = [Kept EXCEPT ![req[v]] = NoRow] /\ claimed' = claimed \cup {req[v]}
        BY <2>0, <1>13, <3>1, PollFacts
      <3>4. RowsOK
        BY <1>1, <1>2, <1>3, <2>0, <3>3
      <3>5. QED
        BY <2>0, <1>13, <3>1, <3>2, <3>4, PollFacts
    <2>3. QED
      BY <1>1, <1>13, <2>1, <2>2 DEF PollOnce, TypeOK
  <1>14. ASSUME NEW v \in Visitors, Retry(v) PROVE TypeOK'
    <2>1. pane' \in [Visitors -> {"away", "asking", "waiting", "denied", "expired", "in"}]
      BY <1>1, <1>14 DEF Retry
    <2>2. QED
      BY <1>1, <1>4, <1>5, <1>14, <2>1 DEF Retry, TypeOK
  <1>15. ASSUME NEW v \in Visitors, EnterCode(v) PROVE TypeOK'
    <2>1. PICK right \in BOOLEAN : Verify(v, right)
      BY <1>15 DEF EnterCode
    <2>2. NetOK
      BY <2>1, VerifyFacts, AnswerFacts
    <2>3. QED
      BY <1>1, <1>4, <1>15, <2>1, <2>2, VerifyFacts DEF EnterCode, pageVars, TypeOK
  <1>16. ASSUME NEW v \in Visitors, NEW s \in Slots, Hear(v, s) PROVE TypeOK'
    <2>1. net[v][s] \in Messages
      BY <1>1, <1>16 DEF Hear
    <2>2. Shown(v, net[v][s]) \in {"away", "asking", "waiting", "denied", "expired", "in"}
      BY <1>1, <2>1 DEF Shown, Messages
    <2>3. /\ pane' \in [Visitors -> {"away", "asking", "waiting", "denied", "expired", "in"}]
          /\ req' \in [Visitors -> Ids \cup {None}]
      BY <1>1, <1>16, <2>1, <2>2 DEF Hear, Messages
    <2>4. NetOK
      BY <1>1, <1>16 DEF Hear
    <2>5. cookie' \in [Browsers -> BOOLEAN]
      BY <1>1, <1>16 DEF Hear
    <2>6. QED
      BY <1>1, <1>16, <2>3, <2>4, <2>5 DEF Hear, gateVars, history, TypeOK
  <1>17. ASSUME NEW v \in Visitors, NEW s \in Slots, Lose(v, s) PROVE TypeOK'
    <2>1. NetOK
      BY <1>1, <1>17 DEF Lose
    <2>2. QED
      BY <1>1, <1>4, <1>17, <2>1 DEF Lose, gateVars, pageVars, history, TypeOK
  <1>18. CASE UNCHANGED vars
    BY <1>1, <1>18 DEF vars, gateVars, pageVars, history, TypeOK
  <1>19. QED
    BY <1>6, <1>7, <1>8, <1>9, <1>10, <1>11, <1>12, <1>13, <1>14, <1>15, <1>16, <1>17, <1>18 DEF Next

-----------------------------------------------------------------------------
(* What a step does to a request *)

Stays(i)   == rows'[i] \in {rows[i], Kept[i]} /\ (i \in claimed' <=> i \in claimed)
Begins(i, v) == /\ Kept[i] = NoRow /\ rows'[i] = NewRow(v) /\ i \notin claimed'
                /\ \A j \in Ids : /\ j # i => rows'[j] = Kept[j]
                                  /\ Waits(Kept[j]) => Kept[j].print # Browser(v)
Claims(i)  == Kept[i].status = "approved" /\ rows'[i] = NoRow /\ i \in claimed'
Drops(i) == rows[i].status = "pending" /\ rows'[i] = NoRow /\ claimed' = claimed
Decides(i) == /\ Waits(Kept[i]) /\ claimed' = claimed
              /\ rows'[i].status \in {"approved", "denied"} /\ rows'[i].keep = Keep
Ages(i)    == /\ Tick /\ claimed' = claimed
              /\ rows[i] = NoRow => rows'[i] = NoRow
              /\ rows[i] # NoRow => /\ rows'[i].status = rows[i].status /\ rows'[i].print = rows[i].print
                                    /\ rows'[i].keep = IF rows[i].keep > 0 THEN rows[i].keep - 1 ELSE 0
                                    /\ rows'[i].left <= rows[i].left \/ rows'[i].left < 0

LEMMA TickStep ==
  ASSUME TypeOK, NEW i \in Ids, Tick
  PROVE  Ages(i)
  <1>1. /\ claimed' = claimed
        /\ rows'[i] = IF rows[i] = NoRow THEN NoRow ELSE
             [rows[i] EXCEPT !.left = Max({@ - 1, -Keep}), !.keep = Max({@ - 1, 0})]
    BY DEF Tick, history
  <1>2. rows[i].left \in Int /\ rows[i].left - 1 \in Int /\ -Keep \in Int /\ -Keep < 0
        /\ rows[i].keep \in Nat /\ rows[i].keep - 1 \in Int
    BY Bounds DEF TypeOK, Rows
  <1>3. /\ Max({rows[i].left - 1, -Keep}) <= rows[i].left \/ Max({rows[i].left - 1, -Keep}) < 0
        /\ Max({rows[i].keep - 1, 0}) = IF rows[i].keep > 0 THEN rows[i].keep - 1 ELSE 0
    <2>1. /\ Max({rows[i].left - 1, -Keep}) = IF rows[i].left - 1 >= -Keep THEN rows[i].left - 1 ELSE -Keep
          /\ Max({rows[i].keep - 1, 0}) = IF rows[i].keep - 1 >= 0 THEN rows[i].keep - 1 ELSE 0
      BY <1>2, TwoNumbers
    <2>2. QED
      BY <1>2, <2>1
  <1>4. rows[i] # NoRow => /\ rows'[i].status = rows[i].status /\ rows'[i].print = rows[i].print
                           /\ rows'[i].left = Max({rows[i].left - 1, -Keep})
                           /\ rows'[i].keep = Max({rows[i].keep - 1, 0})
    BY <1>1 DEF TypeOK, Rows
  <1>5. QED
    BY <1>1, <1>3, <1>4 DEF Ages

LEMMA RowStep ==
  ASSUME TypeOK, Addressed, [Next]_vars, NEW i \in Ids
  PROVE  \/ Stays(i) \/ Claims(i) \/ Drops(i) \/ Decides(i) \/ Ages(i)
         \/ \E v \in Visitors : Begins(i, v)
  <1>1. Kept \in [Ids -> Rows] /\ rows \in [Ids -> Rows]
    BY KeptFacts DEF TypeOK
  <1>2. ASSUME NEW v \in Visitors, NEW prior, NEW load \in BOOLEAN, Ask(v, prior, load)
        PROVE  Stays(i) \/ Begins(i, v)
    <2>1. PICK n \in Ids :
              \/ rows' = Kept /\ UNCHANGED claimed
              \/ /\ Kept[n] = NoRow /\ rows' = [Kept EXCEPT ![n] = NewRow(v)]
                 /\ claimed' = claimed \ {n}
                 /\ \A j \in Ids : Waits(Kept[j]) => Kept[j].print # Browser(v)
      BY <1>2, AskFacts
    <2>2. QED
      BY <1>1, <2>1 DEF Stays, Begins
  <1>3. CASE Look
    BY <1>3 DEF Look, history, Stays
  <1>4. CASE Rotate
    BY <1>4 DEF Rotate, Stays
  <1>5. CASE Tick
    BY <1>5, TickStep
  <1>6. ASSUME NEW b \in Browsers, Lapse(b) PROVE Stays(i)
    BY <1>6 DEF Lapse, gateVars, history, Stays
  <1>7. ASSUME NEW j \in Ids, Approve(j) \/ Deny(j) PROVE Stays(i) \/ Decides(i)
    <2>1. Waits(Kept[j]) /\ claimed' = claimed
      BY <1>7 DEF Approve, Deny, MayDecide, history
    <2>2. /\ rows'[j].status \in {"approved", "denied"} /\ rows'[j].keep = Keep
          /\ i # j => rows'[i] = Kept[i]
      <3>1. CASE Approve(j)
        BY <1>1, <3>1 DEF Approve, Rows
      <3>2. CASE Deny(j)
        BY <1>1, <3>2 DEF Deny, Rows
      <3>3. QED
        BY <1>7, <3>1, <3>2
    <2>3. QED
      BY <2>1, <2>2 DEF Stays, Decides
  <1>8. ASSUME NEW v \in Visitors, Open(v) \/ Retry(v) PROVE Stays(i) \/ Begins(i, v)
    BY <1>2, <1>8 DEF Open, Retry
  <1>9. ASSUME NEW v \in Visitors, Close(v) PROVE Stays(i)
    BY <1>9 DEF Close, gateVars, history, Stays
  <1>10. ASSUME NEW v \in Visitors, PollOnce(v) PROVE Stays(i) \/ Claims(i)
    <2>1. req[v] \in Ids /\ Poll(v, req[v])
      BY <1>10 DEF PollOnce, Polling, Addressed
    <2>2. \/ rows' = Kept /\ UNCHANGED claimed
          \/ /\ Kept[req[v]].status = "approved"
             /\ rows' = [Kept EXCEPT ![req[v]] = NoRow] /\ claimed' = claimed \cup {req[v]}
      BY <2>1, PollFacts
    <2>3. QED
      BY <1>1, <2>1, <2>2 DEF Stays, Claims
  <1>11. ASSUME NEW v \in Visitors, EnterCode(v) PROVE Stays(i) \/ Drops(i)
    <2>1. PICK right \in BOOLEAN : Verify(v, right)
      BY <1>11 DEF EnterCode
    <2>2. QED
      BY <2>1, VerifyFacts DEF Stays, Drops
  <1>12. ASSUME NEW v \in Visitors, NEW s \in Slots, Hear(v, s) \/ Lose(v, s) PROVE Stays(i)
    BY <1>12 DEF Hear, Lose, gateVars, history, Stays
  <1>13. CASE UNCHANGED vars
    BY <1>13 DEF vars, gateVars, history, Stays
  <1>14. QED
    BY <1>3, <1>4, <1>5, <1>6, <1>7, <1>8, <1>9, <1>10, <1>11, <1>12, <1>13 DEF Next

\* a page goes on waiting for the same request, or has heard what it asked for
WaitsOn(u) == pane[u] = "waiting" /\ req'[u] = req[u]
Told(u, i) == \E s \in Slots : net[u][s] # None /\ net[u][s].op = "ask" /\ net[u][s].arg = i

(* What a step does to a page: it waits for nothing it was not told of, and  *)
(* is told of nothing but a request that waits.                              *)
LEMMA PageStep ==
  ASSUME TypeOK, Addressed, [Next]_vars, NEW u \in Visitors
  PROVE  /\ pane'[u] = "waiting" => WaitsOn(u) \/ Told(u, req'[u])
         /\ \A r \in Slots : net'[u][r] # None /\ net'[u][r].op = "ask" =>
              \/ net'[u][r] = net[u][r]
              \/ net'[u][r].arg \in Ids /\ rows'[net'[u][r].arg].status = "pending"
         /\ polled'[u] = polled[u] \/ Tick \/ PollOnce(u)
  <1> DEFINE Same  == pane'[u] = "waiting" => WaitsOn(u)
             Fewer == \A r \in Slots : net'[u][r] = net[u][r] \/ net'[u][r] = None
  <1>1. /\ net \in [Visitors -> [Slots -> Messages \cup {None}]]
        /\ pane \in [Visitors -> {"away", "asking", "waiting", "denied", "expired", "in"}]
        /\ req \in [Visitors -> Ids \cup {None}] /\ polled \in [Visitors -> 0 .. 2]
    BY DEF TypeOK
  <1>2. CASE Look \/ Rotate \/ UNCHANGED vars
    BY <1>2 DEF Look, Rotate, pageVars, vars, WaitsOn
  <1>3. CASE Tick
    BY <1>3 DEF Tick, WaitsOn
  <1>4. ASSUME NEW b \in Browsers, Lapse(b) PROVE Same /\ Fewer /\ polled' = polled
    BY <1>1, <1>4 DEF Lapse, WaitsOn
  <1>5. ASSUME NEW j \in Ids, Approve(j) \/ Deny(j) PROVE Same /\ Fewer /\ polled' = polled
    BY <1>5 DEF Approve, Deny, pageVars, WaitsOn
  <1>6. ASSUME NEW v \in Visitors, Open(v) \/ Retry(v)
        PROVE  /\ Same /\ polled' = polled
               /\ \A r \in Slots : \/ net'[u][r] = net[u][r]
                                    \/ /\ net'[u][r].arg \in Ids
                                       /\ rows'[net'[u][r].arg].status = "pending"
    <2>1. Same /\ polled' = polled
      BY <1>1, <1>6 DEF Open, Retry, WaitsOn
    <2>2. PICK i \in Ids : Answer(v, "ask", i, "pending") /\ rows'[i].status = "pending"
      BY <1>6, AskFacts DEF Open, Retry
    <2>3. \A r \in Slots : net'[u][r] # net[u][r] => net'[u][r] = Msg("ask", i, "pending")
      BY <2>2, AnswerFacts DEF Answers
    <2>4. QED
      BY <2>1, <2>2, <2>3 DEF Msg
  <1>7. ASSUME NEW v \in Visitors, Close(v) PROVE Same /\ Fewer /\ polled' = polled
    BY <1>1, <1>7 DEF Close, WaitsOn
  <1>8. ASSUME NEW v \in Visitors, PollOnce(v) \/ EnterCode(v)
        PROVE  /\ Same
               /\ \A r \in Slots : net'[u][r] # net[u][r] => net'[u][r].op # "ask"
               /\ polled'[u] = polled[u] \/ PollOnce(u)
    <2>1. Same /\ (polled'[u] = polled[u] \/ PollOnce(u))
      BY <1>1, <1>8 DEF PollOnce, EnterCode, pageVars, WaitsOn
    <2>2. \E op \in {"poll", "verify"}, a \in Answers : Answer(v, op, None, a)
      <3>1. CASE PollOnce(v)
        BY <3>1, PollFacts DEF PollOnce, Polling, Addressed
      <3>2. CASE EnterCode(v)
        BY <3>2, VerifyFacts DEF EnterCode
      <3>3. QED
        BY <1>8, <3>1, <3>2
    <2>3. PICK op \in {"poll", "verify"}, a \in Answers : Answer(v, op, None, a)
      BY <2>2
    <2>4. \A r \in Slots : net'[u][r] # net[u][r] => net'[u][r] = Msg(op, None, a)
      BY <2>3, AnswerFacts
    <2>5. QED
      BY <2>1, <2>4 DEF Msg
  <1>9. ASSUME NEW v \in Visitors, NEW s \in Slots, Hear(v, s)
        PROVE  /\ pane'[u] = "waiting" => WaitsOn(u) \/ Told(u, req'[u])
               /\ Fewer /\ polled' = polled
    <2> DEFINE m == net[v][s]
    <2>1. m # None /\ m \in Messages
      BY <1>1, <1>9 DEF Hear
    <2>2. Fewer /\ polled' = polled
      BY <1>1, <1>9 DEF Hear
    <2>3. /\ pane' = [pane EXCEPT ![v] = Shown(v, m)]
          /\ req' = [req EXCEPT ![v] = IF m.op = "ask" THEN m.arg
                                       ELSE IF m.answer \in {"pending", "refused"} THEN req[v] ELSE None]
      BY <1>9 DEF Hear
    <2>4. CASE u = v /\ m.op = "ask"
      <3>1. Told(u, req'[u])
        BY <1>1, <2>1, <2>3, <2>4 DEF Told
      <3>2. QED
        BY <2>2, <3>1
    <2>5. CASE u = v /\ m.op # "ask"
      <3>1. Shown(v, m) = "waiting" => m.answer \in {"pending", "refused"} /\ pane[v] = "waiting"
        BY <2>1, <2>5 DEF Shown, Messages, Answers
      <3>2. QED
        BY <1>1, <2>2, <2>3, <2>5, <3>1 DEF WaitsOn
    <2>6. CASE u # v
      BY <1>1, <2>2, <2>3, <2>6 DEF WaitsOn
    <2>7. QED
      BY <2>4, <2>5, <2>6
  <1>10. ASSUME NEW v \in Visitors, NEW s \in Slots, Lose(v, s) PROVE Same /\ Fewer /\ polled' = polled
    BY <1>1, <1>10 DEF Lose, pageVars, WaitsOn
  <1>11. QED
    BY <1>2, <1>3, <1>4, <1>5, <1>6, <1>7, <1>8, <1>9, <1>10 DEF Next

-----------------------------------------------------------------------------
(* The invariant is inductive *)

LEMMA AddressedStep ==
  ASSUME TypeOK, Addressed, [Next]_vars
  PROVE  Addressed'
  <1> SUFFICES ASSUME NEW u \in Visitors
               PROVE  /\ pane'[u] = "waiting" => req'[u] \in Ids
                      /\ \A r \in Slots : net'[u][r] # None /\ net'[u][r].op = "ask" => net'[u][r].arg \in Ids
    BY DEF Addressed
  <1>1. /\ pane[u] = "waiting" => req[u] \in Ids
        /\ \A r \in Slots : net[u][r] # None /\ net[u][r].op = "ask" => net[u][r].arg \in Ids
    BY DEF Addressed
  <1>2. QED
    BY <1>1, PageStep DEF WaitsOn, Told

(* Which operation the step was matters no more: a new code has no history,  *)
(* a code in use changes only by a wrong entry or by its end.                *)
LEMMA CodeStep ==
  ASSUME TypeOK, Addressed, CodeCounted, [Next]_vars
  PROVE  CodeCounted'
  <1>1. CASE UNCHANGED <<code, uses, wrong>>
    BY <1>1 DEF CodeCounted, CodeLive
  <1>2. ASSUME NEW rotate \in BOOLEAN, NewCode(rotate) PROVE CodeCounted'
    BY <1>1, <1>2, NewCodeFacts DEF CodeCounted
  <1>3. CASE Look \/ UNCHANGED vars
    BY <1>1, <1>3 DEF Look, vars, gateVars, history
  <1>4. CASE Rotate
    BY <1>2, <1>4 DEF Rotate
  <1>5. CASE Tick
    BY <1>5 DEF Tick, history, CodeCounted, CodeLive, TypeOK
  <1>6. ASSUME NEW b \in Browsers, Lapse(b) PROVE CodeCounted'
    BY <1>1, <1>6 DEF Lapse, gateVars, history
  <1>7. ASSUME NEW j \in Ids, Approve(j) \/ Deny(j) PROVE CodeCounted'
    BY <1>1, <1>7 DEF Approve, Deny, history
  <1>8. ASSUME NEW v \in Visitors, Open(v) \/ Retry(v) PROVE CodeCounted'
    BY <1>1, <1>2, <1>8, AskFacts DEF Open, Retry
  <1>9. ASSUME NEW v \in Visitors, Close(v) PROVE CodeCounted'
    BY <1>1, <1>9 DEF Close, gateVars, history
  <1>10. ASSUME NEW v \in Visitors, PollOnce(v) PROVE CodeCounted'
    BY <1>1, <1>10, PollFacts DEF PollOnce, Polling, Addressed
  <1>11. ASSUME NEW v \in Visitors, EnterCode(v) PROVE CodeCounted'
    <2>1. PICK right \in BOOLEAN : Verify(v, right)
      BY <1>11 DEF EnterCode
    <2>2. CASE ~CodeLive'
      BY <2>2 DEF CodeCounted
    <2>3. CASE /\ CodeLive /\ wrong' = Min({wrong + 1, MaxFailures}) /\ uses' = uses
               /\ code' = [code EXCEPT !.failures = @ + 1]
      <3>1. /\ uses = 0 /\ wrong = code.failures /\ code'.failures = code.failures + 1
            /\ code.failures \in Nat
        BY <2>3 DEF CodeCounted, TypeOK
      <3>2. code'.failures < MaxFailures
        BY <2>1, VerifyFacts, Bounds
      <3>3. wrong + 1 \in Int /\ MaxFailures \in Int
        BY <3>1, Bounds
      <3>4. wrong' = wrong + 1
        <4>1. Min({wrong + 1, MaxFailures}) = IF wrong + 1 <= MaxFailures THEN wrong + 1 ELSE MaxFailures
          BY <3>3, TwoNumbers
        <4>2. QED
          BY <2>3, <3>1, <3>2, <3>3, <4>1
      <3>5. QED
        BY <2>3, <3>1, <3>4 DEF CodeCounted
    <2>4. QED
      BY <1>1, <2>1, <2>2, <2>3, VerifyFacts
  <1>12. ASSUME NEW v \in Visitors, NEW s \in Slots, Hear(v, s) \/ Lose(v, s) PROVE CodeCounted'
    BY <1>1, <1>12 DEF Hear, Lose, gateVars, history
  <1>13. QED
    BY <1>3, <1>4, <1>5, <1>6, <1>7, <1>8, <1>9, <1>10, <1>11, <1>12 DEF Next

LEMMA SpentStep ==
  ASSUME TypeOK, Addressed, Spent, [Next]_vars
  PROVE  Spent'
  <1> SUFFICES ASSUME NEW i \in claimed' PROVE rows'[i] = NoRow
    BY DEF Spent
  <1>1. i \in Ids
    BY TypeStep DEF TypeOK
  <1>2. i \in claimed => rows[i] = NoRow /\ Kept[i] = NoRow
    BY <1>1, KeptFacts DEF Spent
  <1>3. Claims(i) \/ i \in claimed
    BY <1>1, <1>2, RowStep DEF Stays, Drops, Decides, Ages, Begins
  <1>4. CASE i \in claimed
    BY <1>1, <1>2, <1>4, RowStep DEF Stays, Claims, Drops, Decides, Ages, Begins, Waits, NoRow
  <1>5. QED
    BY <1>3, <1>4 DEF Claims

LEMMA AskedOnceStep ==
  ASSUME TypeOK, Addressed, AskedOnce, [Next]_vars
  PROVE  AskedOnce'
  <1>1. rows \in [Ids -> Rows] /\ rows' \in [Ids -> Rows]
    BY TypeStep DEF TypeOK
  <1>2. ASSUME NEW i \in Ids, Waits(rows'[i]), \A v \in Visitors : ~Begins(i, v)
        PROVE  Waits(rows[i]) /\ rows[i].print = rows'[i].print
    <2>1. rows'[i] \in Rows /\ rows[i] \in Rows /\ ~Waits(NoRow)
      BY <1>1 DEF Waits, NoRow
    <2>2. Stays(i) \/ Ages(i)
      BY <1>2, <2>1, RowStep DEF Claims, Drops, Decides, Waits
    <2>3. CASE Stays(i)
      BY <1>2, <2>3, KeptFacts DEF Stays, Waits
    <2>4. CASE Ages(i)
      BY <1>2, <2>1, <2>4 DEF Ages, Waits, Rows
    <2>5. QED
      BY <2>2, <2>3, <2>4
  <1>3. ASSUME NEW i \in Ids, NEW j \in Ids, i # j, Waits(rows'[i]), Waits(rows'[j]),
               NEW v \in Visitors, Begins(i, v)
        PROVE  rows'[i].print # rows'[j].print
    BY <1>3 DEF Begins, NewRow
  <1>4. QED
    BY <1>2, <1>3 DEF AskedOnce

LEMMA IInvInit == Init => IInv
  <1> SUFFICES ASSUME Init PROVE IInv
    OBVIOUS
  <1>1. TypeOK
    BY TypeInit
  <1>2. Addressed
    BY DEF Init, Addressed
  <1>3. CodeCounted /\ Spent
    BY DEF Init, CodeCounted, CodeLive, NoCode, Spent
  <1>4. AskedOnce
    BY DEF Init, AskedOnce, Waits, NoRow
  <1>5. QED
    BY <1>1, <1>2, <1>3, <1>4 DEF IInv

LEMMA IInvStep == IInv /\ [Next]_vars => IInv'
  BY TypeStep, AddressedStep, CodeStep, SpentStep, AskedOnceStep DEF IInv

(* IInv holds in every state.                                               *)
THEOREM Invariance == Spec => []IInv
  BY IInvInit, IInvStep, PTL DEF Spec

-----------------------------------------------------------------------------
(* Theorems *)

(* Every variable has its type.                                              *)
THEOREM TypeCorrect == Spec => []TypeOK
  BY Invariance, PTL DEF IInv

(* A code opens one session, and none after MaxFailures wrong entries        *)
(* (access_gate.py:280-302).                                                 *)
THEOREM CodeOpensOnce == Spec => []CodeOnce
  <1>1. IInv => CodeOnce
    BY Bounds DEF IInv, CodeCounted, CodeOnce, CodeLive, TypeOK
  <1>2. QED
    BY <1>1, Invariance, PTL

(* The host is asked once for a visitor (access_gate.py:323-334).            *)
THEOREM HostAskedOnce == Spec => []AskedOnce
  BY Invariance, PTL DEF IInv

(* What was decided, or has expired, is not decided again                    *)
(* (access_gate.py:400-427).                                                 *)
THEOREM DecisionsStand == Spec => DecisionStands
  <1>1. ASSUME IInv, [Next]_vars, NEW i \in Ids, Kept[i].status \in {"approved", "denied", "expired"}
        PROVE  rows'[i].status \in {rows[i].status, Kept[i].status, "none"}
    <2>1. ~Waits(Kept[i]) /\ Kept[i] # NoRow /\ rows[i] # NoRow
      BY <1>1, KeptFacts DEF IInv, Waits, NoRow
    <2>2. QED
      BY <1>1, <2>1, RowStep DEF IInv, Stays, Claims, Drops, Decides, Ages, Begins, NoRow
  <1>2. IInv /\ [Next]_vars =>
          [\A i \in Ids : Kept[i].status \in {"approved", "denied", "expired"} =>
             rows'[i].status \in {rows[i].status, Kept[i].status, "none"}]_vars
    BY <1>1
  <1>3. QED
    BY <1>2, Invariance, PTL DEF Spec, DecisionStands

(* An approval makes one session (access_gate.py:387-398, 954-969).          *)
THEOREM GrantClaimedOnce == Spec => GrantOnce
  <1>1. ASSUME IInv, [Next]_vars, NEW v \in Visitors, NEW s \in Slots, net[v][s] = None, net'[v][s] # None,
               net'[v][s].op = "poll", net'[v][s].answer = "approved"
        PROVE  req[v] \notin claimed /\ rows[req[v]].status = "approved"
    <2>1. net'[v][s] # net[v][s]
      BY <1>1
    <2>2. ASSUME NEW u \in Visitors, PollOnce(u)
          PROVE  req[v] \notin claimed /\ rows[req[v]].status = "approved"
      <3>1. req[u] \in Ids /\ Poll(u, req[u])
        BY <1>1, <2>2 DEF IInv, PollOnce, Polling, Addressed
      <3>2. PICK a \in Answers : /\ Answer(u, "poll", None, a)
                                 /\ a = "approved" => Kept[req[u]].status = "approved"
        BY <1>1, <3>1, PollFacts DEF IInv
      <3>3. u = v /\ net'[v][s] = Msg("poll", None, a)
        BY <1>1, <2>1, <3>2, AnswerFacts DEF IInv
      <3>4. Kept[req[v]].status = "approved"
        BY <1>1, <3>2, <3>3 DEF Msg
      <3>5. rows[req[v]].status = "approved"
        BY <1>1, <3>1, <3>3, <3>4, KeptFacts DEF IInv
      <3>6. QED
        BY <1>1, <3>5 DEF IInv, Spent, NoRow
    <2>3. ASSUME NEW u \in Visitors, Open(u) \/ Retry(u) PROVE FALSE
      <3>1. PICK i \in Ids : Answer(u, "ask", i, "pending")
        BY <1>1, <2>3, AskFacts DEF IInv, Open, Retry
      <3>2. net'[v][s] = Msg("ask", i, "pending")
        BY <1>1, <2>1, <3>1, AnswerFacts DEF IInv, Answers
      <3>3. QED
        BY <1>1, <3>2 DEF Msg
    <2>4. ASSUME NEW u \in Visitors, EnterCode(u) PROVE FALSE
      <3>1. PICK a \in Answers : Answer(u, "verify", None, a)
        BY <1>1, <2>4, VerifyFacts DEF IInv, EnterCode
      <3>2. net'[v][s] = Msg("verify", None, a)
        BY <1>1, <2>1, <3>1, AnswerFacts DEF IInv
      <3>3. QED
        BY <1>1, <3>2 DEF Msg
    <2>5. ASSUME NEW u \in Visitors, Close(u) \/ \E r \in Slots : Hear(u, r) \/ Lose(u, r) PROVE FALSE
      BY <1>1, <2>1, <2>5 DEF IInv, TypeOK, Close, Hear, Lose
    <2>6. CASE net' = net
      BY <2>1, <2>6
    <2>7. QED
      BY <1>1, <2>2, <2>3, <2>4, <2>5, <2>6
         DEF Next, Look, Rotate, Tick, Lapse, Approve, Deny, vars
  <1>2. IInv /\ [Next]_vars =>
          [\A v \in Visitors, s \in Slots :
             net[v][s] = None /\ net'[v][s] # None /\ net'[v][s].op = "poll" /\ net'[v][s].answer = "approved"
             => req[v] \notin claimed /\ rows[req[v]].status = "approved"]_vars
    BY <1>1
  <1>3. QED
    BY <1>2, Invariance, PTL DEF Spec, GrantOnce

-----------------------------------------------------------------------------
(* Grants that wait *)

\* of what was granted to a page that is awake, no more than half a minute is over,
\* and then it has not polled in the current one
Timely ==
  \A v \in Awake, i \in Ids : rows[i].status = "approved" =>
    /\ pane[v] = "waiting" /\ req[v] = i => rows[i].keep = Keep \/ (rows[i].keep = Keep - 1 /\ polled[v] = 0)
    /\ Told(v, i) => rows[i].keep = Keep

LEMMA TimelyStep ==
  ASSUME Keep > 1, IInv, Timely, [Next]_vars
  PROVE  Timely'
  <1> SUFFICES ASSUME NEW v \in Awake, NEW i \in Ids, rows'[i].status = "approved"
               PROVE  /\ pane'[v] = "waiting" /\ req'[v] = i =>
                           rows'[i].keep = Keep \/ (rows'[i].keep = Keep - 1 /\ polled'[v] = 0)
                      /\ Told(v, i)' => rows'[i].keep = Keep
    BY DEF Timely
  <1>1. v \in Visitors /\ TypeOK /\ Addressed
    BY VisitorAssumption DEF IInv
  <1>2. rows[i].status = "approved" =>
          /\ pane[v] = "waiting" /\ req[v] = i => rows[i].keep = Keep \/ (rows[i].keep = Keep - 1 /\ polled[v] = 0)
          /\ Told(v, i) => rows[i].keep = Keep
    BY DEF Timely
  <1>3. CASE Decides(i)
    BY <1>3 DEF Decides
  <1>4. CASE Ages(i)
    <2>1. /\ Tick /\ rows[i].status = "approved"
          /\ rows'[i].keep = IF rows[i].keep > 0 THEN rows[i].keep - 1 ELSE 0
      BY <1>4 DEF Ages, NoRow
    <2>2. /\ UNCHANGED <<pane, req, net>> /\ polled'[v] = 0
          /\ \A s \in Slots : net[v][s] = None
          /\ pane[v] = "waiting" => polled[v] > 0
      BY <1>1, <2>1 DEF Tick, InTime, Polling
    <2>3. polled[v] > 0 => polled[v] # 0
      BY <1>1 DEF TypeOK
    <2>4. QED
      BY <1>2, <2>1, <2>2, <2>3, Bounds DEF Told
  <1>5. CASE Stays(i) /\ ~Tick
    <2>1. rows'[i] = rows[i]
      BY <1>1, <1>5, KeptFacts DEF Stays
    <2>2. Told(v, i)' => Told(v, i)
      <3>1. ASSUME NEW s \in Slots, net'[v][s] # None, net'[v][s].op = "ask", net'[v][s].arg = i
            PROVE  net[v][s] = net'[v][s]
        BY <1>1, <3>1, PageStep
      <3>2. QED
        BY <3>1 DEF Told
    <2>3. ASSUME PollOnce(v), req[v] = i, pane[v] = "waiting" PROVE FALSE
      <3>1. rows[i].status = "approved" /\ rows[i].keep > 0
        BY <1>2, <2>1, <2>3, Bounds
      <3>2. Poll(v, i) /\ Kept[i].status = "approved"
        BY <1>1, <2>3, <3>1, KeptFacts DEF PollOnce
      <3>3. rows' = [Kept EXCEPT ![i] = NoRow] /\ Kept \in [Ids -> Rows]
        BY <1>1, <3>2, PollFacts, KeptFacts
      <3>4. QED
        BY <3>3 DEF NoRow
    <2>4. pane'[v] = "waiting" => WaitsOn(v) \/ Told(v, req'[v])
      BY <1>1, PageStep
    <2>5. polled'[v] = polled[v] \/ PollOnce(v)
      BY <1>1, <1>5, PageStep
    <2>6. QED
      BY <1>2, <2>1, <2>2, <2>3, <2>4, <2>5 DEF WaitsOn
  <1>6. ASSUME Claims(i) \/ Drops(i) \/ \E u \in Visitors : Begins(i, u) PROVE FALSE
    <2>1. rows'[i] # NoRow /\ \A u \in Visitors : rows'[i] # NewRow(u)
      BY DEF NoRow, NewRow
    <2>2. QED
      BY <1>6, <2>1 DEF Claims, Drops, Begins
  <1>7. CASE Tick
    BY <1>1, <1>4, <1>7, TickStep
  <1>8. QED
    BY <1>1, <1>3, <1>4, <1>5, <1>6, <1>7, RowStep

(* A page that is awake and waits gets what the host allows: the purge does  *)
(* not drop its grant before it has claimed it.  Rows are kept for longer    *)
(* than half a minute (access_gate.py:406-410, 479-490, 746).                *)
THEOREM GrantsWait ==
  ASSUME Keep > 1
  PROVE  Spec => GrantWaits
  <1>1. Init => IInv /\ Timely
    BY IInvInit DEF Init, Timely, NoRow
  <1>2. IInv /\ Timely /\ [Next]_vars => IInv' /\ Timely'
    BY IInvStep, TimelyStep
  <1>3. ASSUME IInv, Timely, [Next]_vars, NEW v \in Awake, NEW i \in Ids,
               pane[v] = "waiting", req[v] = i, rows[i].status = "approved"
        PROVE  rows'[i].status # "none" \/ i \in claimed'
    <2>1. rows[i].keep > 0
      <3>1. rows[i].keep = Keep \/ rows[i].keep = Keep - 1
        BY <1>3 DEF Timely
      <3>2. QED
        BY <3>1, Bounds
    <2>2. Kept[i] = rows[i]
      BY <1>3, <2>1, KeptFacts DEF IInv
    <2>3. rows[i] # NoRow
      BY <1>3 DEF NoRow
    <2>4. QED
      BY <1>3, <2>2, <2>3, RowStep DEF IInv, Stays, Claims, Drops, Decides, Ages, Begins
  <1>4. IInv /\ Timely /\ [Next]_vars =>
          [\A v \in Awake, i \in Ids :
             pane[v] = "waiting" /\ req[v] = i /\ rows[i].status = "approved"
               => rows'[i].status # "none" \/ i \in claimed']_vars
    BY <1>3
  <1>5. QED
    BY <1>1, <1>2, <1>4, PTL DEF Spec, GrantWaits
=============================================================================
