---------------------------- MODULE SocketClient ----------------------------
(***************************************************************************)
(* SocketAPIClient (socket_api/client.py) over its WsTransport             *)
(* (transport/ws.py): the loop of connect_with_retry, the tasks of a       *)
(* connection and their clean-up, disconnect().                            *)
(*                                                                         *)
(* Clients are numbered in the order they are made.  A client's task is    *)
(* about to test _stop_requested ("retry", also before its first step and  *)
(* during the delay), waits for the WebSocket to open, or for _closed.     *)
(* What the tasks of a cancelled connection still do takes a few turns of  *)
(* the loop and is over before the network answers: it is part of the      *)
(* step that cancels them.  Callbacks of the application are left out.     *)
(***************************************************************************)
EXTENDS Integers

CONSTANTS
  Clients,       \* 1 .. the number of clients that may be made
  MaxLosses      \* connections that are lost or do not open, together

VARIABLES
  task,          \* the task of start_background
  stop,          \* _stop_requested
  ws,            \* the WebSocket: none, up, or lost and not noticed yet
  io,            \* _socket_io_connected
  lan,           \* whether there is a _lan_client
  losses         \* counts what went wrong on the network

clientVars == <<task, stop, ws, io, lan, losses>>

ClientTypeOK ==
  /\ task \in [Clients -> {"new", "retry", "opening", "waiting", "cancelled", "over"}]
  /\ ws \in [Clients -> {"none", "up", "lost"}]
  /\ {stop, io, lan} \subseteq [Clients -> BOOLEAN]
  /\ losses \in 0 .. MaxLosses

ClientInit ==
  /\ task = [k \in Clients |-> "new"] /\ ws = [k \in Clients |-> "none"]
  /\ stop = [k \in Clients |-> FALSE] /\ io = stop /\ lan = stop
  /\ losses = 0

Loss == losses < MaxLosses /\ losses' = losses + 1

\* The client has a task that may still open or use a connection.
Alive(k) == task[k] \in {"retry", "opening", "waiting"}

\* The connection is gone and every flag that told of it.
Dropped(k) ==
  /\ ws' = [ws EXCEPT ![k] = "none"]
  /\ io' = [io EXCEPT ![k] = FALSE]
  /\ lan' = [lan EXCEPT ![k] = FALSE]

StartBackgroundNot(k) == task[k] = "new" /\ UNCHANGED task     \* fault: made and not started
\* __init__ and start_background(auto_reconnect=True).
StartBackground(k) ==
  /\ task[k] = "new"
  /\ task' = [task EXCEPT ![k] = "retry"]

\* The head of the loop of connect_with_retry, and connect() up to its await.
Loop(k) ==
  /\ task[k] = "retry"
  /\ task' = [task EXCEPT ![k] = IF stop[k] THEN "over" ELSE "opening"]
  /\ Dropped(k)
  /\ UNCHANGED <<stop, losses>>

\* The end of an attempt or of a connection: another try unless a stop was asked for.
Again(k) == IF stop[k] THEN "over" ELSE "retry"

\* connect() refused or timed out: _closed is still set from disconnect().
OpenFails(k) ==
  /\ task[k] = "opening" /\ Loss
  /\ task' = [task EXCEPT ![k] = Again(k)]
  /\ UNCHANGED <<stop, ws, io, lan>>

\* The WebSocket is open, _closed is cleared, the ping and receive tasks run.
Opened(k) ==
  /\ task[k] = "opening"
  /\ task' = [task EXCEPT ![k] = "waiting"]
  /\ ws' = [ws EXCEPT ![k] = "up"]
  /\ UNCHANGED <<stop, io, lan, losses>>

\* The server's "40".
Handshake(k) ==
  /\ ws[k] = "up" /\ ~io[k]
  /\ io' = [io EXCEPT ![k] = TRUE]
  /\ UNCHANGED <<task, stop, ws, lan, losses>>

\* An update of the device's information, with local commands in use.
DeviceInfo(k) ==
  /\ ws[k] = "up" /\ io[k] /\ ~lan[k]
  /\ lan' = [lan EXCEPT ![k] = TRUE]
  /\ UNCHANGED <<task, stop, ws, io, losses>>

\* The receive task ends; the gather waits for the ping task, the flags stay.
PeerCloses(k) ==
  /\ ws[k] = "up" /\ Loss
  /\ ws' = [ws EXCEPT ![k] = "lost"]
  /\ UNCHANGED <<task, stop, io, lan>>

CleanupQuiet(k) == Dropped(k) /\ UNCHANGED task     \* fault: _closed is not set
\* _cleanup: the connection is dropped, _closed is set, the task goes on.
Cleanup(k)      == Dropped(k) /\ task' = [task EXCEPT ![k] = Again(k)]

\* The next ping cannot be sent: _run_connection ends.
PingFails(k) ==
  /\ ws[k] = "lost"
  /\ Cleanup(k)
  /\ UNCHANGED <<stop, losses>>

\* disconnect(); a task that waits for _closed ends, one in connect() hears nothing of it.
Disconnect(k) ==
  /\ stop' = [stop EXCEPT ![k] = TRUE]
  /\ Dropped(k)
  /\ task' = [task EXCEPT ![k] = IF @ = "waiting" THEN "over" ELSE @]

\* disconnect() and the cancellation of the task, as a backend closes its client.
CloseHalf(k) == Disconnect(k)         \* fault: the task is not cancelled
Close(k) ==
  /\ stop' = [stop EXCEPT ![k] = TRUE]
  /\ Dropped(k)
  /\ task' = [task EXCEPT ![k] = IF Alive(k) THEN "cancelled" ELSE @]

\* The task handles its CancelledError, disconnects once more and is over.
Cancelled(k) ==
  /\ task[k] = "cancelled"
  /\ task' = [task EXCEPT ![k] = "over"]
  /\ UNCHANGED <<stop, ws, io, lan, losses>>

ClientStep(k) ==
  \/ Loop(k) \/ OpenFails(k) \/ Opened(k) \/ Handshake(k) \/ DeviceInfo(k)
  \/ PeerCloses(k) \/ PingFails(k) \/ Cancelled(k)

\* The loop runs; an open that is tried and a handshake that is due end; pings are sent.
ClientFair(k) ==
  Loop(k) \/ Opened(k) \/ Handshake(k) \/ PingFails(k) \/ Cancelled(k)

-----------------------------------------------------------------------------
(* A client on its own, in an application that calls disconnect(): the task is not cancelled *)

Call(k) ==
  \/ StartBackground(k) /\ UNCHANGED <<stop, ws, io, lan, losses>>
  \/ task[k] # "new" /\ ~stop[k] /\ Disconnect(k) /\ UNCHANGED losses

ClientSpec ==
  /\ ClientInit
  /\ [][\E k \in Clients : Call(k) \/ ClientStep(k)]_clientVars
  /\ \A k \in Clients : WF_clientVars(ClientFair(k))

\* "Stops when disconnect() is called." (client.py:171): a client that is told to stop ends.
DisconnectEnds == \A k \in Clients : stop[k] ~> task[k] = "over"
=============================================================================
