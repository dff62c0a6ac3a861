-------------------------------- MODULE Sockets --------------------------------
(***************************************************************************)
(* The open notification sockets of one server process:                    *)
(* NotificationConnectionManager (src/modules/notifications/ws_manager.py) *)
(* and the loop of notifications_websocket (src/api/v1/ws).                *)
(*                                                                         *)
(* registered[u] tells which kinds of sockets the manager holds for user   *)
(* u: "open" ones, and "dead" ones whose peer has vanished without closing *)
(* the connection, which the server finds out only when it sends.          *)
(***************************************************************************)
EXTENDS Naturals, FiniteSets

CONSTANTS
    Buyers,         \* the users behind the buyer's actor of a contract
    Suppliers       \* the users behind the supplier's actor

ASSUME SidesAssumption ==
    /\ Buyers # {} /\ Suppliers # {}
    /\ Buyers \cap Suppliers = {}

VARIABLE registered     \* NotificationConnectionManager._connections

Users == Buyers \cup Suppliers

\* _resolve_actor_user_ids of the other party: the individual, or every
\* member of its company.
OtherSide(u) == IF u \in Buyers THEN Suppliers ELSE Buyers

SocketsInit == registered = [u \in Users |-> {}]

\* is_any_online: a dead socket counts until it is found out.
AnyOnline(S) == \E u \in S : registered[u] # {}

\* Who receives what broadcast_to_users sends now.
Receivers == {u \in Users : "open" \in registered[u]}

\* Sending to a dead socket may fail, and the manager drops it, or fill a
\* buffer.
Broadcast(Failing) ==
    registered' = [u \in Users |->
        IF u \in Failing THEN registered[u] \ {"dead"} ELSE registered[u]]

SomeDead == {u \in Users : "dead" \in registered[u]}

\* An accepted token registers the socket.
Connect(u) ==
    /\ "open" \notin registered[u]
    /\ registered' = [registered EXCEPT ![u] = @ \cup {"open"}]

\* WebSocketDisconnect: the endpoint's "finally" takes the socket out.
Disconnect(u) ==
    /\ "open" \in registered[u]
    /\ registered' = [registered EXCEPT ![u] = @ \ {"open"}]

\* The peer is gone and nothing tells the server.
Vanish(u) ==
    /\ "open" \in registered[u]
    /\ registered' = [registered EXCEPT ![u] = (@ \ {"open"}) \cup {"dead"}]

\* No message for 30 seconds: the endpoint sends a ping, which fails on a dead
\* socket, and the "finally" takes it out.
AfterFailedPingFaulty(sockets) == sockets
AfterFailedPing(sockets) == sockets \ {"dead"}

Ping(u) ==
    /\ "dead" \in registered[u]
    /\ registered' = [registered EXCEPT ![u] = AfterFailedPing(@)]
=============================================================================
