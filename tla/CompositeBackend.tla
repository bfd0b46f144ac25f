--------------------------- MODULE CompositeBackend ---------------------------
(***************************************************************************)
(* A command on its way through CompositeLovenseControlBackend             *)
(* (multi_backend.py) to the parts that drive toys: the LAN client         *)
(* (async_lan.py), the BLE hub, the Socket backend (socket_backend.py).    *)
(*                                                                         *)
(* A command keeps the backend it was given to, also when the service has  *)
(* another one meanwhile.  For one toy the parts are asked first which of  *)
(* them list it; then all that do are given the command and awaited        *)
(* together.  With one part there is no composite.  What a part lists and  *)
(* whether its toy obeys is free; names, payloads and levels are left out. *)
(* BLE links are modelled in BleDirect.                                    *)
(***************************************************************************)
EXTENDS SocketClient, FiniteSets

CONSTANTS
  Backends,      \* 1 .. the number of Socket backends that may be made
  None

VARIABLES
  of, client,    \* of a Socket backend: its credentials, its client (0: none)
  cmd            \* the command under way

Parts == {"lan", "ble", "socket"}

\* The call of a backend: which parts still have to be asked, to be given the
\* command, and which have had it.
Given(parts, sock, account, wide, local) ==
  LET direct == wide \/ Cardinality(parts) = 1 IN
  [local |-> local, sock |-> sock, account |-> account, to |-> None,
   ask  |-> IF direct THEN {} ELSE parts,
   todo |-> IF direct THEN parts ELSE {},
   given |-> IF direct THEN parts ELSE {}, had |-> {}]

\* Patterns and presets go through a local client.
FunctionRequest(parts, sock, account, w) == Given(parts, sock, account, w, FALSE)
Stop(parts, sock, account, w)            == Given(parts, sock, account, w, FALSE)
PatternRequest(parts, sock, account, w)  == Given(parts, sock, account, w, TRUE)
PresetRequest(parts, sock, account, w)   == Given(parts, sock, account, w, TRUE)

\* _get_toys_index: a part that raises is left out; a toy nobody lists is an error.
Index ==
  /\ cmd # None /\ cmd.ask # {}
  /\ \E used \in SUBSET cmd.ask :
       cmd' = IF used = {} THEN None
              ELSE [cmd EXCEPT !.ask = {}, !.todo = used, !.given = used]
  /\ UNCHANGED <<of, client>>

\* A request over HTTP is answered, or fails; it may have reached the app in either case.
Posted == {"ok", "raised"}

\* send_command: the certificate, the request, and the answer's shape.
LanOutcomes == Posted \cup {"raised"}
HubOutcomes == {"ok", "raised"}

\* A command over the WebSocket: nothing is said of one that is not connected.
Sent == {"ok"}

SocketReadyWaits(b) == client[b] # 0          \* fault: a command waits for the session
SocketReady(b)      == TRUE

\* The Socket backend: no client, or no local one; the local client; the WebSocket.
SocketOutcomes(b) ==
  IF client[b] = 0 THEN {"raised"}
  ELSE IF lan[client[b]] THEN LanOutcomes
  ELSE IF cmd.local THEN {"raised"} ELSE Sent

Outcomes(p) == CASE p = "lan" -> LanOutcomes [] p = "ble" -> HubOutcomes
                 [] p = "socket" -> SocketOutcomes(cmd.sock)

\* The account whose session a command is sent to: that of the backend it was given to.
AccountNow(c, now) == of[IF now = 0 THEN c.sock ELSE now]  \* fault: the service's of the moment
Account(c, now)    == of[c.sock]

AbandonRest(c, p) == [c EXCEPT !.todo = {}]   \* fault: one that fails cancels the others
Absorb(c, p)      == [c EXCEPT !.todo = @ \ {p}]

\* A part of the gather has its result; an exception is kept as one.
Deliver(p, now) ==
  /\ cmd # None /\ p \in cmd.todo /\ (p = "socket" => SocketReady(cmd.sock))
  /\ \E r \in Outcomes(p) :
       LET c == IF r = "ok" THEN [cmd EXCEPT !.todo = @ \ {p}, !.had = @ \cup {p}]
                ELSE [Absorb(cmd, p) EXCEPT !.had = @ \cup {p}]
       IN cmd' = IF p = "socket" /\ r = "ok" THEN [c EXCEPT !.to = Account(c, now)] ELSE c
  /\ UNCHANGED <<of, client>>

\* The answer: code 200 from a composite, whatever its parts did.
Reply ==
  /\ cmd # None /\ cmd.ask = {} /\ cmd.todo = {}
  /\ cmd' = None
  /\ UNCHANGED <<of, client>>

CommandStep(now) == Index \/ Reply \/ \E p \in Parts : Deliver(p, now)
=============================================================================
