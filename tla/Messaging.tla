------------------------------- MODULE Messaging -------------------------------
(***************************************************************************)
(* The chat of one contract and the events it pushes: ContractService      *)
(* .add_message, mark_message_delivered, mark_messages_read and            *)
(* _broadcast_message_event (src/modules/contracts/service.py), over the   *)
(* sockets of Sockets.                                                     *)
(*                                                                         *)
(* A handler loads, flushes, pushes to the open sockets and returns; only  *)
(* then does get_db commit.  So what is pushed is not stored yet, and may  *)
(* never be.  A flush locks the rows it writes until the commit or the     *)
(* rollback; the rows of one flush are updated in the order of their       *)
(* primary keys (SQLAlchemy's unit of work), each when its lock is free.   *)
(***************************************************************************)
EXTENDS Sockets

CONSTANTS
    Senders,        \* bound: the users who write messages
    Watchers,       \* bound: the users whose clients open a socket
    MaxMessages,    \* bound: the messages sent, those rolled back included
    Requests        \* the requests that may be in flight at the same time

ASSUME ChatAssumption ==
    /\ Senders \subseteq Users
    /\ Watchers \subseteq Users
    /\ MaxMessages \in Nat

VARIABLES
    conversation,   \* whether the contract has its conversations row
    message,        \* the committed messages rows, by id
    issued,         \* the last id the sequence of messages gave out
    shown,          \* history: the status of a message in the last event a user's
                    \* open socket got about it, unless that was rolled back
    req             \* the transactions in flight

vars == <<registered, conversation, message, issued, shown, req>>

-----------------------------------------------------------------------------
Messages == 1..MaxMessages
MessageDeliveryStatus == {"sent", "delivered", "viewed"}

\* sender, status, and whether delivered_at and viewed_at are set.  "none" is
\* a row that does not exist, or that a request has not changed.
NoRow == [sender |-> "nobody", status |-> "none", delivered_at |-> FALSE, viewed_at |-> FALSE]
NoRows == [m \in Messages |-> NoRow]

Row == [sender       : Users \cup {"nobody"},
        status       : MessageDeliveryStatus \cup {"none"},
        delivered_at : BOOLEAN,
        viewed_at    : BOOLEAN]

\* step: "begun", then "flushing", "flushed", "pushed".
Idle == [kind         |-> "idle",
         step         |-> "begun",
         user         |-> "nobody",
         conversation |-> "none",
         loaded       |-> NoRows,
         changed      |-> NoRows,
         flushed      |-> {}]

Transaction ==
    [kind         : {"idle", "send", "acknowledge", "read"},
     step         : {"begun", "flushing", "flushed", "pushed"},
     user         : Users \cup {"nobody"},
     conversation : {"none", "new", "stored"},
     loaded       : [Messages -> Row],
     changed      : [Messages -> Row],
     flushed      : SUBSET Messages]

Changed(q) == {m \in Messages : req[q].changed[m].status # "none"}
Unlocked(m) == \A q \in Requests : m \notin req[q].flushed
InFlight(q, step) == req[q].kind # "idle" /\ req[q].step = step

Init ==
    /\ SocketsInit
    /\ conversation \in BOOLEAN
    /\ message = NoRows
    /\ issued = 0
    /\ shown = [u \in Users |-> [m \in Messages |-> "none"]]
    /\ req = [q \in Requests |-> Idle]

-----------------------------------------------------------------------------
(***************************************************************************)
(* The transaction of a request.                                           *)
(***************************************************************************)
Continue(q, transaction) ==
    /\ req' = [req EXCEPT ![q] = transaction]
    /\ UNCHANGED <<registered, conversation, message, shown>>

\* The next row of the flush; an UPDATE waits for whoever holds the row.
NextRowFaulty(q) == Changed(q) \ req[q].flushed
NextRow(q) ==
    {m \in Changed(q) \ req[q].flushed :
        \A n \in Changed(q) \ req[q].flushed : m <= n}

FlushRow(q) ==
    /\ InFlight(q, "flushing")
    /\ \E m \in NextRow(q) :
          /\ Unlocked(m)
          /\ Continue(q, [req[q] EXCEPT !.flushed = @ \cup {m},
                             !.step = IF Cardinality(Changed(q) \ req[q].flushed) = 1
                                      THEN "flushed" ELSE @])
    /\ UNCHANGED issued

\* _message_payload: the event tells the row as the handler changed it.
PayloadFaulty(q, m) == req[q].loaded[m].status
Payload(q, m) == req[q].changed[m].status

\* _broadcast_message_event: the users of both parties.
Push(q) ==
    /\ InFlight(q, "flushed")
    /\ \E Failing \in SUBSET SomeDead : Broadcast(Failing)
    /\ shown' = [u \in Users |-> [m \in Messages |->
           IF u \in Receivers /\ m \in Changed(q) THEN Payload(q, m) ELSE shown[u][m]]]
    /\ req' = [req EXCEPT ![q].step = "pushed"]
    /\ UNCHANGED <<conversation, message, issued>>

\* Only the attributes that differ from the loaded ones are in the UPDATE.
Merged(current, loaded, changed) ==
    [a \in DOMAIN current |-> IF changed[a] = loaded[a] THEN current[a] ELSE changed[a]]

Commit(q) ==
    /\ InFlight(q, "pushed")
    /\ message' = [m \in Messages |->
           IF m \in Changed(q) THEN Merged(message[m], req[q].loaded[m], req[q].changed[m])
           ELSE message[m]]
    /\ conversation' = (conversation \/ req[q].conversation = "new")
    /\ req' = [req EXCEPT ![q] = Idle]
    /\ UNCHANGED <<registered, issued, shown>>

\* The handler raises, or its client goes away; if it has pushed, the event
\* told what is never stored.
Rollback(q) ==
    /\ req[q].kind # "idle"
    /\ shown' = [u \in Users |-> [m \in Messages |->
           IF InFlight(q, "pushed") /\ m \in Changed(q) THEN "none" ELSE shown[u][m]]]
    /\ req' = [req EXCEPT ![q] = Idle]
    /\ UNCHANGED <<registered, conversation, message, issued>>

-----------------------------------------------------------------------------
(***************************************************************************)
(* add_message.                                                            *)
(***************************************************************************)

BeginSend(q, u) ==
    /\ req[q].kind = "idle"
    /\ Continue(q, [Idle EXCEPT !.kind = "send", !.user = u,
                                !.conversation = IF conversation THEN "stored" ELSE "none"])
    /\ UNCHANGED issued

\* The first message makes the conversation; conversations.contract_id is
\* unique, so the INSERT waits for another one in flight.
NewConversation(q) ==
    /\ InFlight(q, "begun")
    /\ req[q].conversation = "none"
    /\ ~ conversation
    /\ \A p \in Requests : req[p].conversation # "new"
    /\ Continue(q, [req[q] EXCEPT !.conversation = "new"])
    /\ UNCHANGED issued

InsertMessage(q) ==
    /\ InFlight(q, "begun")
    /\ req[q].conversation # "none"
    /\ issued < MaxMessages
    /\ issued' = issued + 1
    /\ LET row == [NoRow EXCEPT !.sender = req[q].user, !.status = "sent"]
       IN  Continue(q, [req[q] EXCEPT !.changed[issued'] = row,
                                      !.flushed = {issued'}, !.step = "flushing"])

\* is_any_online, two queries before the push; delivered_at is set with it.
DeliveredRow(row) == [row EXCEPT !.status = "delivered", !.delivered_at = TRUE]

ReadPresence(q) ==
    /\ InFlight(q, "flushing")
    /\ req[q].kind = "send"
    /\ \E m \in Changed(q) :
          Continue(q, [req[q] EXCEPT !.step = "flushed",
                          !.changed[m] = IF AnyOnline(OtherSide(req[q].user))
                                         THEN DeliveredRow(@) ELSE @])
    /\ UNCHANGED issued

\* The unique index refuses a second conversation; or the bound is reached.
RefuseSend(q) ==
    /\ InFlight(q, "begun")
    /\ \/ req[q].conversation = "none" /\ conversation
       \/ issued = MaxMessages
    /\ req' = [req EXCEPT ![q] = Idle]
    /\ UNCHANGED <<registered, conversation, message, issued, shown>>

-----------------------------------------------------------------------------
(***************************************************************************)
(* mark_message_delivered and mark_messages_read.                          *)
(***************************************************************************)

\* _load of the messages and, with nothing in between, the change of those in
\* M; a request that has none to change returns or raises without effect.
LoadAndChange(q, kind, u, M, New(_)) ==
    /\ req[q].kind = "idle"
    /\ M # {}
    /\ Continue(q, [Idle EXCEPT !.kind = kind, !.user = u, !.step = "flushing",
          !.loaded  = [m \in Messages |-> IF m \in M THEN message[m] ELSE NoRow],
          !.changed = [m \in Messages |-> IF m \in M THEN New(message[m]) ELSE NoRow]])
    /\ UNCHANGED issued

\* "Cannot acknowledge own message"; a message past "sent" is left alone.
CanAcknowledgeFaulty(u, m) == message[m].status # "none" /\ message[m].sender # u
CanAcknowledge(u, m) == message[m].status = "sent" /\ message[m].sender # u

Acknowledge(q, u, m) ==
    LoadAndChange(q, "acknowledge", u, {n \in {m} : CanAcknowledge(u, n)}, DeliveredRow)

\* Every message of somebody else that is not loaded as viewed.
ToRead(u) ==
    {m \in Messages : message[m].status \in {"sent", "delivered"} /\ message[m].sender # u}

ViewedRow(row) == [row EXCEPT !.status = "viewed", !.viewed_at = TRUE, !.delivered_at = TRUE]

MarkRead(q, u) == LoadAndChange(q, "read", u, ToRead(u), ViewedRow)

-----------------------------------------------------------------------------
(***************************************************************************)
(* The sockets, and the crash of the process.                              *)
(***************************************************************************)

\* A user without an open socket sees no events.
Forgotten(open) ==
    [u \in Users |-> IF u \in open THEN shown[u] ELSE [m \in Messages |-> "none"]]

SocketStep(u) ==
    /\ Connect(u) \/ Disconnect(u) \/ Vanish(u) \/ Ping(u)
    /\ shown' = Forgotten({v \in Users : "open" \in registered'[v]})
    /\ UNCHANGED <<conversation, message, issued, req>>

\* The connections are in memory only, and the transactions are rolled back.
Restart ==
    /\ registered' = [u \in Users |-> {}]
    /\ shown' = Forgotten({})
    /\ req' = [q \in Requests |-> Idle]
    /\ UNCHANGED <<conversation, message, issued>>

\* What the server does by itself once a request has begun.
Serve(q) ==
    \/ NewConversation(q)
    \/ InsertMessage(q)
    \/ ReadPresence(q)
    \/ RefuseSend(q)
    \/ FlushRow(q)
    \/ Push(q)
    \/ Commit(q)

\* The endpoints, the same for buyer and supplier: post_message; and the two that
\* acknowledge, mark_messages_read and mark_message_delivered.
PostMessage(q) == \E u \in Senders : BeginSend(q, u)
Receipt(q) ==
    \/ \E u \in Users : MarkRead(q, u)
    \/ \E u \in Users, m \in Messages : Acknowledge(q, u, m)

MessageStep(q) == PostMessage(q) \/ Receipt(q)

Next ==
    \/ \E q \in Requests : MessageStep(q) \/ Serve(q) \/ Rollback(q)
    \/ \E u \in Watchers : SocketStep(u)
    \/ Restart

\* The event loop runs every coroutine that can go on; PostgreSQL queues those
\* that wait for a lock, so one that is free again and again is granted (SF).
\* The receive of every socket times out.  Nobody has to send a request, and
\* nothing has to fail.
Fairness ==
    /\ \A q \in Requests : SF_vars(Serve(q))
    /\ \A u \in Watchers : WF_vars(Ping(u) /\ SocketStep(u))

Spec == Init /\ [][Next]_vars /\ Fairness

-----------------------------------------------------------------------------
TypeOK ==
    /\ registered \in [Users -> SUBSET {"open", "dead"}]
    /\ conversation \in BOOLEAN
    /\ message \in [Messages -> Row]
    /\ issued \in 0..MaxMessages
    /\ shown \in [Users -> [Messages -> MessageDeliveryStatus \cup {"none"}]]
    /\ req \in [Requests -> Transaction]

\* Although events are pushed before the commit, an open socket ends up showing
\* what is stored: once nobody is changing a message, the last event about it
\* tells its status, unless that event's transaction was rolled back.  It rests
\* on the row lock, which spans the push (_broadcast_message_event after flush).
EventsTellTheStore ==
    \A u \in Users, m \in Messages :
        shown[u][m] # "none" /\ Unlocked(m) =>
            shown[u][m] = message[m].status

\* A message that was read loses that status only to an acknowledgement that
\* loaded it as sent, before it was read (mark_message_delivered).
ReadIsLostToStaleAcknowledgement ==
    [][\A m \in Messages :
          message[m].status = "viewed" /\ message'[m].status # "viewed" =>
              \E q \in Requests : /\ req[q].kind = "acknowledge"
                                  /\ req[q].loaded[m].status = "sent"
                                  /\ req'[q].kind = "idle"]_vars

\* No two requests wait for each other's rows: every request the server has
\* begun ends (the flush order of mark_messages_read, the unique conversation).
EveryRequestEnds ==
    \A q \in Requests : req[q].kind # "idle" ~> req[q].kind = "idle"

\* A user whose client has vanished does not stay online
\* (notifications_websocket: timeout, ping, "finally").
VanishedGoesOffline ==
    \A u \in Users : "dead" \in registered[u] ~> "dead" \notin registered[u]
=============================================================================
