---------------------------- MODULE MessagingProofs ----------------------------
(***************************************************************************)
(* Theorems about Messaging, for any users, messages and requests: what    *)
(* the sockets showed is what is stored, and what loses the status of a    *)
(* message that was read.                                                  *)
(***************************************************************************)
EXTENDS Messaging, FiniteSetTheorems, TLAPS

-----------------------------------------------------------------------------
(***************************************************************************)
(* The state of one transaction.                                           *)
(***************************************************************************)

ChangedIn(t) == {m \in Messages : t.changed[m].status # "none"}

\* Nothing is changed before the flush begins, rows are locked in the course of
\* the flush, all of them by its end; each row that is changed gets a status it
\* was not loaded with, and the kind of the request tells which.
Shape(t) ==
    /\ t.kind = "idle" => t.step = "begun"
    /\ t.step = "begun" => ChangedIn(t) = {}
    /\ t.flushed \subseteq ChangedIn(t)
    /\ t.step \in {"flushed", "pushed"} => t.flushed = ChangedIn(t)
    /\ \A m \in ChangedIn(t) : t.changed[m].status # t.loaded[m].status

KindTells(t) ==
    /\ t.step = "begun" => t.kind \in {"idle", "send"}
    /\ t.kind = "send" => /\ t.loaded = NoRows
                          /\ t.step # "begun" => t.flushed = ChangedIn(t)
    /\ t.kind = "acknowledge" => \A m \in ChangedIn(t) : t.loaded[m].status = "sent"
    /\ t.kind = "read" => \A m \in ChangedIn(t) : t.changed[m].status = "viewed"

Known(t) == \A m \in ChangedIn(t) : m <= issued

Sound(t) == t \in Transaction /\ Shape(t) /\ KindTells(t)

LEMMA ChangedInIs == \A q : Changed(q) = ChangedIn(req[q])
  BY DEF Changed, ChangedIn

LEMMA NoRowIsRow == NoRow \in Row /\ NoRows \in [Messages -> Row]
  BY DEF NoRow, NoRows, Row

LEMMA IdleIsSound == Sound(Idle) /\ ChangedIn(Idle) = {} /\ Idle.flushed = {} /\ Idle.kind = "idle"
<1>1. Idle \in Transaction
  BY NoRowIsRow DEF Idle, Transaction
<1>2. ChangedIn(Idle) = {}
  BY DEF Idle, ChangedIn, NoRows, NoRow
<1> QED
  BY <1>1, <1>2 DEF Idle, Sound, Shape, KindTells

LEMMA MessagesAreFinite == \A S \in SUBSET Messages : IsFiniteSet(S)
<1>1. IsFiniteSet(Messages)
  BY ChatAssumption, FS_Interval DEF Messages
<1> QED
  BY <1>1, FS_Subset

-----------------------------------------------------------------------------
(***************************************************************************)
(* The steps of a transaction keep it sound.  t is the transaction as it   *)
(* was, n what the step makes of it.                                       *)
(***************************************************************************)

LEMMA NewConversationIsSound ==
    ASSUME NEW q \in Requests, Sound(req[q]), NewConversation(q),
           NEW n, n = [req[q] EXCEPT !.conversation = "new"]
    PROVE  Sound(n) /\ ChangedIn(n) = ChangedIn(req[q]) /\ n.flushed = req[q].flushed
<1>1. n \in Transaction
  BY DEF Sound, Transaction
<1>2. /\ n.kind = req[q].kind /\ n.step = req[q].step /\ n.loaded = req[q].loaded
      /\ n.changed = req[q].changed /\ n.flushed = req[q].flushed
  BY DEF Sound, Transaction
<1>3. ChangedIn(n) = ChangedIn(req[q])
  BY <1>2 DEF ChangedIn
<1> QED
  BY <1>1, <1>2, <1>3 DEF Sound, Shape, KindTells

LEMMA StepIsSound ==
    ASSUME NEW t, Sound(t), t.flushed = ChangedIn(t), t.step # "begun",
           NEW step \in {"flushed", "pushed"}, NEW n, n = [t EXCEPT !.step = step]
    PROVE  Sound(n) /\ ChangedIn(n) = ChangedIn(t) /\ n.flushed = t.flushed /\ n.kind = t.kind
<1>1. n \in Transaction
  BY DEF Sound, Transaction
<1>2. /\ n.kind = t.kind /\ n.step = step /\ n.loaded = t.loaded
      /\ n.changed = t.changed /\ n.flushed = t.flushed
  BY DEF Sound, Transaction
<1>3. ChangedIn(n) = ChangedIn(t)
  BY <1>2 DEF ChangedIn
<1> QED
  BY <1>1, <1>2, <1>3 DEF Sound, Shape, KindTells

WithFlushed(t, m) ==
    [t EXCEPT !.flushed = @ \cup {m},
              !.step = IF Cardinality(ChangedIn(t) \ t.flushed) = 1 THEN "flushed" ELSE @]

LEMMA FlushIsSound ==
    ASSUME NEW t, Sound(t), t.step = "flushing", NEW m \in ChangedIn(t) \ t.flushed,
           NEW n, n = WithFlushed(t, m)
    PROVE  Sound(n) /\ ChangedIn(n) = ChangedIn(t) /\ n.flushed = t.flushed \cup {m}
           /\ n.kind = t.kind /\ n.step # "pushed"
<1>1. m \in Messages
  BY DEF ChangedIn
<1>2. n \in Transaction
  BY <1>1 DEF WithFlushed, Sound, Transaction
<1>3. /\ n.kind = t.kind /\ n.loaded = t.loaded /\ n.changed = t.changed
      /\ n.flushed = t.flushed \cup {m}
      /\ n.step = IF Cardinality(ChangedIn(t) \ t.flushed) = 1 THEN "flushed" ELSE "flushing"
  BY DEF WithFlushed, Sound, Transaction
<1>4. ChangedIn(n) = ChangedIn(t)
  BY <1>3 DEF ChangedIn
<1>5. Cardinality(ChangedIn(t) \ t.flushed) = 1 => n.flushed = ChangedIn(t)
  <2> SUFFICES ASSUME Cardinality(ChangedIn(t) \ t.flushed) = 1 PROVE n.flushed = ChangedIn(t)
    OBVIOUS
  <2>1. ChangedIn(t) \ t.flushed \in SUBSET Messages
    BY DEF ChangedIn
  <2>2. PICK x : ChangedIn(t) \ t.flushed = {x}
    BY <2>1, MessagesAreFinite, FS_Singleton
  <2> QED
    BY <1>3, <2>2 DEF Sound, Shape
<1>6. t.kind # "send"
  BY DEF Sound, KindTells
<1>7. t.kind # "idle"
  BY DEF Sound, Shape
<1>8. n.step # "pushed" /\ n.step # "begun" /\ (n.step = "flushed" => n.flushed = ChangedIn(t))
  BY <1>3, <1>5
<1>9. Shape(n)
  <2> HIDE DEF ChangedIn
  <2>1. \A k \in ChangedIn(n) : n.changed[k].status # n.loaded[k].status
    BY <1>3, <1>4 DEF Sound, Shape
  <2>2. n.flushed \subseteq ChangedIn(n)
    BY <1>3, <1>4 DEF Sound, Shape
  <2> QED
    BY <2>1, <2>2, <1>3, <1>4, <1>7, <1>8 DEF Shape
<1>10. KindTells(n)
  BY <1>3, <1>4, <1>6 DEF Sound, KindTells
<1> QED
  BY <1>2, <1>3, <1>4, <1>8, <1>9, <1>10 DEF Sound

WithInserted(t, m) ==
    [t EXCEPT !.changed[m] = [NoRow EXCEPT !.sender = t.user, !.status = "sent"],
              !.flushed = {m}, !.step = "flushing"]

LEMMA InsertIsSound ==
    ASSUME NEW t, Sound(t), t.kind # "idle", t.step = "begun", NEW m \in Messages,
           NEW n, n = WithInserted(t, m)
    PROVE  Sound(n) /\ ChangedIn(n) = {m} /\ n.flushed = {m} /\ n.kind = "send" /\ n.step = "flushing"
<1> DEFINE row == [NoRow EXCEPT !.sender = t.user, !.status = "sent"]
<1>1. row \in Row /\ row.status = "sent"
  BY DEF Sound, Transaction, Row, NoRow, MessageDeliveryStatus
<1> HIDE DEF row
<1>2. t.kind = "send" /\ t.loaded = NoRows /\ ChangedIn(t) = {} /\ t \in Transaction
  BY DEF Sound, Shape, KindTells, Transaction
<1>3. n = [t EXCEPT !.changed[m] = row, !.flushed = {m}, !.step = "flushing"]
  BY DEF row, WithInserted
<1>4. n \in Transaction
  <2>1. [t.changed EXCEPT ![m] = row] \in [Messages -> Row]
    BY <1>1, <1>2 DEF Transaction
  <2>2. n = [t EXCEPT !.changed = [t.changed EXCEPT ![m] = row], !.flushed = {m},
                      !.step = "flushing"]
    BY <1>2, <1>3 DEF Transaction
  <2>3. ASSUME NEW c \in [Messages -> Row]
        PROVE  [t EXCEPT !.changed = c, !.flushed = {m}, !.step = "flushing"] \in Transaction
    BY <1>2 DEF Transaction
  <2> QED
    BY <2>1, <2>2, <2>3
<1>5. /\ n.kind = t.kind /\ n.step = "flushing" /\ n.loaded = t.loaded /\ n.flushed = {m}
      /\ n.changed = [t.changed EXCEPT ![m] = row]
  BY <1>2, <1>3 DEF Transaction
<1>6. ChangedIn(n) = {m}
  BY <1>1, <1>2, <1>5 DEF ChangedIn, Transaction
<1>7. n.changed[m].status # n.loaded[m].status
  BY <1>1, <1>2, <1>5 DEF Transaction, NoRows, NoRow
<1>8. Shape(n)
  BY <1>2, <1>5, <1>6, <1>7 DEF Shape
<1>9. KindTells(n)
  BY <1>2, <1>5, <1>6 DEF KindTells
<1> QED
  BY <1>2, <1>4, <1>5, <1>6, <1>8, <1>9 DEF Sound

WithPresence(t, m, online) ==
    [t EXCEPT !.step = "flushed", !.changed[m] = IF online THEN DeliveredRow(@) ELSE @]

LEMMA PresenceIsSound ==
    ASSUME NEW t, Sound(t), t.kind = "send", t.step = "flushing", NEW m \in ChangedIn(t),
           NEW online \in BOOLEAN, NEW n, n = WithPresence(t, m, online)
    PROVE  Sound(n) /\ ChangedIn(n) = ChangedIn(t) /\ n.flushed = t.flushed /\ n.kind = "send"
           /\ n.step = "flushed"
<1> DEFINE row == IF online THEN DeliveredRow(t.changed[m]) ELSE t.changed[m]
<1>1. m \in Messages /\ t \in Transaction /\ t.changed[m] \in Row /\ t.changed[m].status # "none"
  BY DEF ChangedIn, Sound, Transaction
<1>2. row \in Row /\ row.status # "none"
  BY <1>1 DEF DeliveredRow, Row, MessageDeliveryStatus
<1>3. n = [t EXCEPT !.step = "flushed", !.changed[m] = row]
  BY <1>1 DEF WithPresence, Transaction
<1> HIDE DEF row
<1>4. n \in Transaction
  <2>1. [t.changed EXCEPT ![m] = row] \in [Messages -> Row]
    BY <1>1, <1>2 DEF Transaction
  <2>2. n = [t EXCEPT !.step = "flushed", !.changed = [t.changed EXCEPT ![m] = row]]
    BY <1>1, <1>3 DEF Transaction
  <2> QED
    BY <1>1, <2>1, <2>2 DEF Transaction
<1>5. /\ n.kind = t.kind /\ n.step = "flushed" /\ n.loaded = t.loaded /\ n.flushed = t.flushed
      /\ n.changed = [t.changed EXCEPT ![m] = row]
  BY <1>1, <1>3 DEF Transaction
<1>6. ChangedIn(n) = ChangedIn(t)
  BY <1>1, <1>2, <1>5 DEF ChangedIn, Transaction
<1>7. t.flushed = ChangedIn(t) /\ t.loaded = NoRows
  BY DEF Sound, KindTells
<1>8. \A k \in ChangedIn(n) : n.changed[k].status # n.loaded[k].status
  BY <1>5, <1>7 DEF ChangedIn, NoRows, NoRow
<1>9. Shape(n)
  BY <1>5, <1>6, <1>7, <1>8 DEF Shape
<1>10. KindTells(n)
  BY <1>5, <1>6, <1>7 DEF KindTells
<1> QED
  BY <1>4, <1>5, <1>6, <1>9, <1>10 DEF Sound

LEMMA SendIsSound ==
    ASSUME NEW u \in Users, NEW n,
           n = [Idle EXCEPT !.kind = "send", !.user = u,
                            !.conversation = IF conversation THEN "stored" ELSE "none"]
    PROVE  Sound(n) /\ ChangedIn(n) = {} /\ n.flushed = {} /\ n.step = "begun"
<1>1. n \in Transaction
  BY NoRowIsRow DEF Idle, Transaction
<1>2. /\ n.kind = "send" /\ n.step = "begun" /\ n.loaded = NoRows
      /\ n.changed = NoRows /\ n.flushed = {}
  BY DEF Idle
<1>3. ChangedIn(n) = {}
  BY <1>2 DEF ChangedIn, NoRows, NoRow
<1> QED
  BY <1>1, <1>2, <1>3 DEF Sound, Shape, KindTells

LEMMA AcknowledgeIsSound ==
    ASSUME TypeOK, NEW q \in Requests, NEW u \in Users, NEW m \in Messages, Acknowledge(q, u, m)
    PROVE  /\ Sound(req'[q]) /\ req'[q].flushed = {} /\ req'[q].kind = "acknowledge"
           /\ req'[q].step = "flushing"
           /\ \A k \in ChangedIn(req'[q]) : message[k].status # "none"
<1> DEFINE M == {n \in {m} : CanAcknowledge(u, n)}
           loaded == [k \in Messages |-> IF k \in M THEN message[k] ELSE NoRow]
           changed == [k \in Messages |-> IF k \in M THEN DeliveredRow(message[k]) ELSE NoRow]
           n == req'[q]
<1>1. /\ n = [Idle EXCEPT !.kind = "acknowledge", !.user = u, !.step = "flushing",
                          !.loaded = loaded, !.changed = changed]
  BY DEF Acknowledge, LoadAndChange, Continue, TypeOK
<1>2. \A k \in M : /\ k \in Messages /\ message[k] \in Row /\ message[k].status = "sent"
                   /\ DeliveredRow(message[k]) \in Row
                   /\ DeliveredRow(message[k]).status = "delivered"
  BY DEF CanAcknowledge, TypeOK, DeliveredRow, Row, MessageDeliveryStatus
<1> HIDE DEF M
<1>3. loaded \in [Messages -> Row] /\ changed \in [Messages -> Row]
  BY <1>2, NoRowIsRow
<1>4. \A k \in Messages : /\ changed[k].status # "none" => k \in M
                          /\ k \in M => loaded[k] = message[k] /\ changed[k].status = "delivered"
  BY <1>2 DEF NoRow
<1> HIDE DEF loaded, changed
<1>5. /\ n.kind = "acknowledge" /\ n.step = "flushing" /\ n.loaded = loaded
      /\ n.changed = changed /\ n.flushed = {}
  BY <1>1 DEF Idle
<1>6. n \in Transaction
  BY <1>1, <1>3, NoRowIsRow DEF Idle, Transaction
<1>7. \A k \in ChangedIn(n) : /\ k \in M /\ n.loaded[k].status = "sent"
                             /\ n.changed[k].status = "delivered" /\ message[k].status = "sent"
  BY <1>2, <1>4, <1>5 DEF ChangedIn
<1> HIDE DEF n
<1>8. Shape(n)
  BY <1>5, <1>7 DEF Shape
<1>9. KindTells(n)
  BY <1>5, <1>7 DEF KindTells
<1>10. \A k \in ChangedIn(n) : message[k].status # "none"
  BY <1>7
<1>11. Sound(n)
  BY <1>6, <1>8, <1>9 DEF Sound
<1> QED
  BY <1>5, <1>10, <1>11 DEF n

LEMMA MarkReadIsSound ==
    ASSUME TypeOK, NEW q \in Requests, NEW u \in Users, MarkRead(q, u)
    PROVE  /\ Sound(req'[q]) /\ req'[q].flushed = {} /\ req'[q].kind = "read"
           /\ req'[q].step = "flushing"
           /\ \A k \in ChangedIn(req'[q]) : message[k].status # "none"
<1> DEFINE M == ToRead(u)
           loaded == [k \in Messages |-> IF k \in M THEN message[k] ELSE NoRow]
           changed == [k \in Messages |-> IF k \in M THEN ViewedRow(message[k]) ELSE NoRow]
           n == req'[q]
<1>1. /\ n = [Idle EXCEPT !.kind = "read", !.user = u, !.step = "flushing",
                          !.loaded = loaded, !.changed = changed]
  BY DEF MarkRead, LoadAndChange, Continue, TypeOK
<1>2. \A k \in M : /\ k \in Messages /\ message[k] \in Row
                   /\ message[k].status \in {"sent", "delivered"}
                   /\ ViewedRow(message[k]) \in Row
                   /\ ViewedRow(message[k]).status = "viewed"
  BY DEF ToRead, TypeOK, ViewedRow, Row, MessageDeliveryStatus
<1> HIDE DEF M
<1>3. loaded \in [Messages -> Row] /\ changed \in [Messages -> Row]
  BY <1>2, NoRowIsRow
<1>4. \A k \in Messages : /\ changed[k].status # "none" => k \in M
                          /\ k \in M => loaded[k] = message[k] /\ changed[k].status = "viewed"
  BY <1>2 DEF NoRow
<1> HIDE DEF loaded, changed
<1>5. /\ n.kind = "read" /\ n.step = "flushing" /\ n.loaded = loaded
      /\ n.changed = changed /\ n.flushed = {}
  BY <1>1 DEF Idle
<1>6. n \in Transaction
  BY <1>1, <1>3, NoRowIsRow DEF Idle, Transaction
<1>7. \A k \in ChangedIn(n) : /\ k \in M /\ n.loaded[k].status \in {"sent", "delivered"}
                             /\ n.changed[k].status = "viewed"
                             /\ message[k].status \in {"sent", "delivered"}
  BY <1>2, <1>4, <1>5 DEF ChangedIn
<1> HIDE DEF n
<1>8. Shape(n)
  BY <1>5, <1>7 DEF Shape
<1>9. KindTells(n)
  BY <1>5, <1>7 DEF KindTells
<1>10. \A k \in ChangedIn(n) : message[k].status # "none"
  BY <1>7
<1>11. Sound(n)
  BY <1>6, <1>8, <1>9 DEF Sound
<1> QED
  BY <1>5, <1>10, <1>11 DEF n

-----------------------------------------------------------------------------
(***************************************************************************)
(* The inductive invariant.  A row that is written is locked by one        *)
(* transaction only, a message being sent is nobody else's, and what a     *)
(* socket shows is what a transaction that has pushed and not ended has    *)
(* written, or what is stored.                                             *)
(***************************************************************************)

SoundInv == \A q \in Requests : Sound(req[q])

KnownInv ==
    /\ \A q \in Requests : Known(req[q])
    /\ \A m \in Messages : message[m].status # "none" => m <= issued

LockInv ==
    \A p, q \in Requests : p # q => req[p].flushed \cap req[q].flushed = {}

SendInv ==
    \A q \in Requests : req[q].kind = "send" =>
        \A m \in ChangedIn(req[q]) : message[m].status = "none"

HasPushed(q, m) == req[q].step = "pushed" /\ m \in ChangedIn(req[q])

ShownInv ==
    \A u \in Users, m \in Messages : shown[u][m] # "none" =>
        /\ "open" \in registered[u]
        /\ \A q \in Requests : HasPushed(q, m) => shown[u][m] = req[q].changed[m].status
        /\ (\A q \in Requests : ~ HasPushed(q, m)) => shown[u][m] = message[m].status

IInv ==
    /\ TypeOK
    /\ SoundInv
    /\ KnownInv
    /\ LockInv
    /\ SendInv
    /\ ShownInv

LEMMA InitHolds == Init => IInv
<1> SUFFICES ASSUME Init PROVE IInv
  OBVIOUS
<1>1. \A q \in Requests : req[q] = Idle
  BY DEF Init
<1>2. TypeOK
  BY <1>1, NoRowIsRow, IdleIsSound, ChatAssumption
     DEF Init, SocketsInit, TypeOK, Sound, MessageDeliveryStatus
<1>3. SoundInv
  BY <1>1, IdleIsSound DEF SoundInv
<1>4. KnownInv
  BY <1>1, IdleIsSound DEF KnownInv, Known, Init, NoRows, NoRow
<1>5. LockInv
  BY <1>1, IdleIsSound DEF LockInv
<1>6. SendInv
  BY <1>1, IdleIsSound DEF SendInv
<1>7. ShownInv
  BY DEF ShownInv, Init
<1> QED
  BY <1>2, <1>3, <1>4, <1>5, <1>6, <1>7 DEF IInv

LEMMA PushedIsLocked ==
    ASSUME IInv, NEW q \in Requests, NEW m, HasPushed(q, m)
    PROVE  m \in req[q].flushed
  BY DEF IInv, SoundInv, Sound, Shape, HasPushed

\* What request q does when it pushes nothing, stores nothing and does not undo
\* a push: its transaction becomes n.
Works(q, n) ==
    /\ Sound(n)
    /\ req[q].step # "pushed" /\ n.step # "pushed"
    /\ issued' \in 0..MaxMessages /\ issued <= issued'
    /\ \A m \in ChangedIn(n) : m <= issued'
    /\ \A p \in Requests : p # q => n.flushed \cap req[p].flushed = {}
    /\ n.kind = "send" => \A m \in ChangedIn(n) : message[m].status = "none"
    /\ req' = [req EXCEPT ![q] = n]
    /\ UNCHANGED <<registered, conversation, message, shown>>

LEMMA WorkKeepsInv ==
    ASSUME IInv, NEW q \in Requests, NEW n, Works(q, n)
    PROVE  IInv'
<1>1. req'[q] = n /\ \A p \in Requests : p # q => req'[p] = req[p]
  BY DEF Works, IInv, TypeOK
<1>2. n \in Transaction /\ Sound(n)
  BY DEF Works, Sound
<1>3. TypeOK'
  BY <1>2 DEF Works, IInv, TypeOK
<1>4. SoundInv'
  BY <1>1, <1>2 DEF IInv, SoundInv, Sound, Shape, KindTells, ChangedIn
<1>5. KnownInv'
  <2>1. ASSUME NEW p \in Requests, NEW m \in ChangedIn(req'[p]) PROVE m <= issued'
    <3>1. CASE p = q
      BY <1>1, <2>1, <3>1 DEF Works
    <3>2. CASE p # q
      <4>1. m \in ChangedIn(req[p]) /\ m \in Messages
        BY <1>1, <2>1, <3>2 DEF ChangedIn
      <4> QED
        BY <4>1, ChatAssumption DEF IInv, KnownInv, Known, Works, TypeOK, Messages
    <3> QED
      BY <3>1, <3>2
  <2>2. ASSUME NEW m \in Messages, message'[m].status # "none" PROVE m <= issued'
    BY <2>2, ChatAssumption DEF IInv, KnownInv, Works, TypeOK, Messages
  <2> QED
    BY <2>1, <2>2 DEF KnownInv, Known, ChangedIn
<1>6. LockInv'
  BY <1>1 DEF IInv, LockInv, Works
<1>7. SendInv'
  BY <1>1 DEF IInv, SendInv, Works, ChangedIn
<1>8. ShownInv'
  <2>1. \A p \in Requests, m \in Messages :
          /\ HasPushed(p, m)' <=> HasPushed(p, m)
          /\ HasPushed(p, m) => req'[p] = req[p]
    BY <1>1 DEF HasPushed, Works, ChangedIn
  <2> QED
    BY <2>1 DEF IInv, ShownInv, Works
<1> QED
  BY <1>3, <1>4, <1>5, <1>6, <1>7, <1>8 DEF IInv

-----------------------------------------------------------------------------
(***************************************************************************)
(* The steps that only work on the transaction of their request.           *)
(***************************************************************************)

LEMMA BeginSendWorks ==
    ASSUME IInv, NEW q \in Requests, NEW u \in Users, BeginSend(q, u)
    PROVE  \E n : Works(q, n)
<1>0. PICK n : n = [Idle EXCEPT !.kind = "send", !.user = u,
                             !.conversation = IF conversation THEN "stored" ELSE "none"]
  OBVIOUS
<1>1. Sound(n) /\ ChangedIn(n) = {} /\ n.flushed = {} /\ n.step = "begun"
  BY <1>0, SendIsSound
<1>2. req[q].step = "begun"
  BY DEF BeginSend, IInv, SoundInv, Sound, Shape
<1>3. req' = [req EXCEPT ![q] = n] /\ UNCHANGED <<registered, conversation, message, shown, issued>>
  BY <1>0 DEF BeginSend, Continue
<1>4. issued' \in 0..MaxMessages /\ issued <= issued'
  BY <1>3, ChatAssumption DEF IInv, TypeOK
<1> QED
  BY <1>1, <1>2, <1>3, <1>4 DEF Works

LEMMA NewConversationWorks ==
    ASSUME IInv, NEW q \in Requests, NewConversation(q)
    PROVE  \E n : Works(q, n)
<1>0. PICK n : n = [req[q] EXCEPT !.conversation = "new"]
  OBVIOUS
<1>1. Sound(n) /\ ChangedIn(n) = ChangedIn(req[q]) /\ n.flushed = req[q].flushed
  BY <1>0, NewConversationIsSound DEF IInv, SoundInv
<1>2. req[q].step = "begun" /\ n.step = "begun" /\ ChangedIn(req[q]) = {}
  BY <1>0 DEF NewConversation, InFlight, IInv, SoundInv, Sound, Shape, Transaction
<1>3. req' = [req EXCEPT ![q] = n] /\ UNCHANGED <<registered, conversation, message, shown, issued>>
  BY <1>0 DEF NewConversation, Continue
<1>4. issued' \in 0..MaxMessages /\ issued <= issued'
  BY <1>3, ChatAssumption DEF IInv, TypeOK
<1> QED
  BY <1>1, <1>2, <1>3, <1>4 DEF Works, IInv, LockInv

LEMMA InsertMessageWorks ==
    ASSUME IInv, NEW q \in Requests, InsertMessage(q)
    PROVE  \E n : Works(q, n)
<1>a. PICK m : m = issued + 1
  OBVIOUS
<1>t. PICK t : t = req[q]
  OBVIOUS
<1>0. PICK n : n = WithInserted(t, m)
  OBVIOUS
<1>1. issued \in Nat /\ issued < MaxMessages /\ MaxMessages \in Nat /\ issued' = m
  BY <1>a, ChatAssumption DEF InsertMessage, IInv, TypeOK
<1>2. m \in Messages
  BY <1>a, <1>1 DEF Messages
<1>3. t.step = "begun" /\ t.kind # "idle" /\ Sound(t)
  BY <1>t DEF InsertMessage, InFlight, IInv, SoundInv
<1>4. /\ Sound(n) /\ ChangedIn(n) = {m} /\ n.flushed = {m} /\ n.step = "flushing"
  BY <1>0, <1>2, <1>3, InsertIsSound
<1>5. req' = [req EXCEPT ![q] = n] /\ UNCHANGED <<registered, conversation, message, shown>>
  BY <1>0, <1>1, <1>t, <1>a DEF InsertMessage, Continue, WithInserted
<1>6. \A p \in Requests : m \notin req[p].flushed
  <2> SUFFICES ASSUME NEW p \in Requests, m \in req[p].flushed PROVE FALSE
    OBVIOUS
  <2>1. m \in ChangedIn(req[p])
    BY DEF IInv, SoundInv, Sound, Shape
  <2>2. m <= issued
    BY <2>1 DEF IInv, KnownInv, Known
  <2> QED
    BY <2>2, <1>a, <1>1
<1>7. message[m].status = "none"
  BY <1>a, <1>1, <1>2 DEF IInv, KnownInv
<1>8. issued' \in 0..MaxMessages /\ issued <= issued' /\ m <= issued'
  BY <1>a, <1>1
<1> QED
  BY <1>t, <1>3, <1>4, <1>5, <1>6, <1>7, <1>8 DEF Works

LEMMA ReadPresenceWorks ==
    ASSUME IInv, NEW q \in Requests, ReadPresence(q)
    PROVE  \E n : Works(q, n)
<1>1. PICK m \in Changed(q) :
        Continue(q, [req[q] EXCEPT !.step = "flushed",
                        !.changed[m] = IF AnyOnline(OtherSide(req[q].user))
                                       THEN DeliveredRow(@) ELSE @])
  BY DEF ReadPresence
<1>b. PICK online : online = AnyOnline(OtherSide(req[q].user))
  OBVIOUS
<1>t. PICK t : t = req[q]
  OBVIOUS
<1>0. PICK n : n = WithPresence(t, m, online)
  OBVIOUS
<1>2. m \in ChangedIn(t) /\ online \in BOOLEAN
  BY <1>b, <1>t, ChangedInIs DEF AnyOnline
<1>3. t.step = "flushing" /\ t.kind = "send" /\ Sound(t)
  BY <1>t DEF ReadPresence, InFlight, IInv, SoundInv
<1>4. req' = [req EXCEPT ![q] = n] /\ UNCHANGED <<registered, conversation, message, shown, issued>>
  BY <1>0, <1>1, <1>b, <1>t DEF Continue, ReadPresence, WithPresence
<1>5. /\ Sound(n) /\ ChangedIn(n) = ChangedIn(t) /\ n.flushed = t.flushed
      /\ n.step = "flushed"
  BY <1>0, <1>2, <1>3, PresenceIsSound
<1>6. \A k \in ChangedIn(n) : k <= issued' /\ message[k].status = "none"
  BY <1>t, <1>3, <1>4, <1>5 DEF IInv, KnownInv, Known, SendInv
<1>7. issued' \in 0..MaxMessages /\ issued <= issued'
  BY <1>4, ChatAssumption DEF IInv, TypeOK
<1> QED
  BY <1>t, <1>3, <1>4, <1>5, <1>6, <1>7 DEF Works, IInv, LockInv

LEMMA FlushRowWorks ==
    ASSUME IInv, NEW q \in Requests, FlushRow(q)
    PROVE  \E n : Works(q, n)
<1>1. PICK m \in NextRow(q) :
        /\ Unlocked(m)
        /\ Continue(q, [req[q] EXCEPT !.flushed = @ \cup {m},
                           !.step = IF Cardinality(Changed(q) \ req[q].flushed) = 1
                                    THEN "flushed" ELSE @])
  BY DEF FlushRow
<1>t. PICK t : t = req[q]
  OBVIOUS
<1>0. PICK n : n = WithFlushed(t, m)
  OBVIOUS
<1>2. m \in ChangedIn(t) \ t.flushed
  BY <1>t, ChangedInIs DEF NextRow
<1>3. t.step = "flushing" /\ Sound(t)
  BY <1>t DEF FlushRow, InFlight, IInv, SoundInv
<1>4. req' = [req EXCEPT ![q] = n] /\ UNCHANGED <<registered, conversation, message, shown, issued>>
  BY <1>0, <1>1, <1>t, ChangedInIs DEF Continue, FlushRow, WithFlushed
<1>5. /\ Sound(n) /\ ChangedIn(n) = ChangedIn(t) /\ n.flushed = t.flushed \cup {m}
      /\ n.kind = t.kind /\ n.step # "pushed"
  BY <1>0, <1>2, <1>3, FlushIsSound
<1>6. /\ \A k \in ChangedIn(n) : k <= issued'
      /\ n.kind = "send" => \A k \in ChangedIn(n) : message[k].status = "none"
  BY <1>t, <1>4, <1>5 DEF IInv, KnownInv, Known, SendInv
<1>7. issued' \in 0..MaxMessages /\ issued <= issued'
  BY <1>4, ChatAssumption DEF IInv, TypeOK
<1>8. \A p \in Requests : p # q => n.flushed \cap req[p].flushed = {}
  BY <1>t, <1>1, <1>5 DEF IInv, LockInv, Unlocked
<1> QED
  BY <1>t, <1>3, <1>4, <1>5, <1>6, <1>7, <1>8 DEF Works

LEMMA RefuseSendWorks ==
    ASSUME IInv, NEW q \in Requests, RefuseSend(q)
    PROVE  Works(q, Idle)
<1>1. Idle.step = "begun"
  BY DEF Idle
<1> QED
  BY <1>1, IdleIsSound, ChatAssumption DEF RefuseSend, InFlight, Works, IInv, TypeOK

LEMMA ReceiptWorks ==
    ASSUME IInv, NEW q \in Requests, Receipt(q)
    PROVE  \E n : Works(q, n)
<1> DEFINE n == req'[q]
<1> USE DEF IInv
<1>1. /\ req[q].kind = "idle" /\ req' = [req EXCEPT ![q] = n]
      /\ UNCHANGED <<registered, conversation, message, shown, issued>>
  BY DEF Receipt, MarkRead, Acknowledge, LoadAndChange, Continue, TypeOK
<1>2. /\ Sound(n) /\ n.flushed = {} /\ n.kind # "send" /\ n.step = "flushing"
      /\ \A k \in ChangedIn(n) : message[k].status # "none"
  BY AcknowledgeIsSound, MarkReadIsSound DEF Receipt
<1>3. req[q].step = "begun"
  BY <1>1 DEF SoundInv, Sound, Shape
<1> HIDE DEF n
<1>4. \A k \in ChangedIn(n) : k <= issued'
  BY <1>1, <1>2 DEF KnownInv, ChangedIn
<1>5. issued' \in 0..MaxMessages /\ issued <= issued'
  BY <1>1, ChatAssumption DEF TypeOK
<1> QED
  BY <1>1, <1>2, <1>3, <1>4, <1>5 DEF Works

-----------------------------------------------------------------------------
(***************************************************************************)
(* The push, the commit and the rollback, the sockets and the crash.       *)
(***************************************************************************)

LEMMA PushKeepsInv ==
    ASSUME IInv, NEW q \in Requests, Push(q)
    PROVE  IInv'
<1> USE DEF IInv
<1>t. PICK t : t = req[q]
  OBVIOUS
<1>0. PICK n : n = [t EXCEPT !.step = "pushed"]
  OBVIOUS
<1>1. t.step = "flushed" /\ t.flushed = ChangedIn(t) /\ Sound(t)
  BY <1>t DEF Push, InFlight, SoundInv, Sound, Shape
<1>2. req' = [req EXCEPT ![q] = n]
  BY <1>t, <1>0 DEF Push
<1>3. req'[q] = n /\ \A p \in Requests : p # q => req'[p] = req[p]
  BY <1>2 DEF TypeOK
<1>4. /\ Sound(n) /\ ChangedIn(n) = ChangedIn(t) /\ n.flushed = t.flushed /\ n.kind = t.kind
  BY <1>0, <1>1, StepIsSound
<1>5. n.changed = t.changed /\ n.step = "pushed"
  BY <1>0, <1>1 DEF Sound, Transaction
<1>6. registered' \in [Users -> SUBSET {"open", "dead"}]
      /\ \A u \in Users : "open" \in registered'[u] <=> "open" \in registered[u]
  BY DEF Push, Broadcast, TypeOK
<1>7. UNCHANGED <<conversation, message, issued>>
  BY DEF Push
<1>8. \A u \in Users, m \in Messages :
        shown'[u][m] = IF u \in Receivers /\ m \in ChangedIn(t) THEN n.changed[m].status
                       ELSE shown[u][m]
  BY <1>t, <1>5, ChangedInIs DEF Push, Payload
<1>9. \A m \in ChangedIn(t) : m \in Messages /\ n.changed[m].status \in MessageDeliveryStatus
  BY <1>4, <1>5 DEF ChangedIn, Sound, Transaction, Row
<1>10. TypeOK'
  <2>1. shown' \in [Users -> [Messages -> MessageDeliveryStatus \cup {"none"}]]
    BY <1>t, <1>5, <1>9, ChangedInIs DEF Push, Payload, TypeOK
  <2>2. req' \in [Requests -> Transaction]
    BY <1>2, <1>4 DEF Sound, TypeOK
  <2> QED
    BY <1>6, <1>7, <2>1, <2>2 DEF TypeOK
<1>11. SoundInv'
  BY <1>3, <1>4 DEF SoundInv, Sound, Shape, KindTells, ChangedIn
<1>12. \A p \in Requests : /\ ChangedIn(req'[p]) = ChangedIn(req[p])
                          /\ req'[p].flushed = req[p].flushed
                          /\ req'[p].kind = req[p].kind
  BY <1>t, <1>3, <1>4
<1>13. KnownInv'
  BY <1>7, <1>12 DEF KnownInv, Known, ChangedIn
<1>14. LockInv'
  BY <1>12 DEF LockInv
<1>15. SendInv'
  BY <1>7, <1>12 DEF SendInv, ChangedIn
<1>16. ShownInv'
  <2> SUFFICES ASSUME NEW u \in Users, NEW m \in Messages, shown'[u][m] # "none"
               PROVE  /\ "open" \in registered'[u]
                      /\ \A p \in Requests : HasPushed(p, m)' => shown'[u][m] = req'[p].changed[m].status
                      /\ (\A p \in Requests : ~ HasPushed(p, m)') => shown'[u][m] = message'[m].status
    BY DEF ShownInv
  <2>1. HasPushed(q, m)' <=> m \in ChangedIn(t)
    BY <1>t, <1>3, <1>4, <1>5, <1>12 DEF HasPushed
  <2>2. \A p \in Requests : p # q => /\ HasPushed(p, m)' <=> HasPushed(p, m)
                                     /\ req'[p] = req[p]
    BY <1>3, <1>12 DEF HasPushed
  <2>3. CASE m \in ChangedIn(t)
    <3>1. u \in Receivers
      BY <1>8 DEF ShownInv, Receivers
    <3>2. shown'[u][m] = req'[q].changed[m].status
      BY <2>3, <3>1, <1>3, <1>8
    <3>3. \A p \in Requests : p # q => ~ HasPushed(p, m)
      BY <2>3, <1>t, <1>1, PushedIsLocked DEF LockInv
    <3> QED
      BY <2>1, <2>2, <2>3, <3>1, <3>2, <3>3, <1>6 DEF Receivers
  <2>4. CASE m \notin ChangedIn(t)
    <3>1. shown'[u][m] = shown[u][m]
      BY <2>4, <1>8
    <3>2. ~ HasPushed(q, m)
      BY <2>4, <1>t DEF HasPushed
    <3> QED
      BY <2>1, <2>2, <2>4, <3>1, <3>2, <1>6, <1>7 DEF ShownInv
  <2> QED
    BY <2>3, <2>4
<1> QED
  BY <1>10, <1>11, <1>13, <1>14, <1>15, <1>16

\* What the end of a transaction leaves of the invariant, whatever it stores.
LEMMA EndKeepsSound ==
    ASSUME IInv, NEW q \in Requests, req' = [req EXCEPT ![q] = Idle]
    PROVE  /\ req'[q] = Idle /\ \A p \in Requests : p # q => req'[p] = req[p]
           /\ req' \in [Requests -> Transaction]
           /\ SoundInv' /\ LockInv'
           /\ \A m : ~ HasPushed(q, m)'
           /\ \A p \in Requests : p # q => \A m : HasPushed(p, m)' <=> HasPushed(p, m)
<1> USE DEF IInv
<1>1. req'[q] = Idle /\ \A p \in Requests : p # q => req'[p] = req[p]
  BY DEF TypeOK
<1>2. req' \in [Requests -> Transaction]
  BY IdleIsSound DEF TypeOK, Sound
<1>3. SoundInv'
  BY <1>1, IdleIsSound DEF SoundInv, Sound, Shape, KindTells, ChangedIn
<1>4. LockInv'
  BY <1>1, IdleIsSound DEF LockInv
<1>5. \A m : ~ HasPushed(q, m)'
  BY <1>1 DEF HasPushed, Idle
<1>6. \A p \in Requests : p # q => \A m : HasPushed(p, m)' <=> HasPushed(p, m)
  BY <1>1 DEF HasPushed, ChangedIn
<1> QED
  BY <1>1, <1>2, <1>3, <1>4, <1>5, <1>6

\* A commit stores every status its request has changed, and no other.
LEMMA CommitStores ==
    ASSUME IInv, NEW q \in Requests, Commit(q), NEW m \in Messages
    PROVE  message'[m].status = IF m \in ChangedIn(req[q]) THEN req[q].changed[m].status
                                ELSE message[m].status
<1>1. CASE m \in ChangedIn(req[q])
  <2>1. message'[m] = Merged(message[m], req[q].loaded[m], req[q].changed[m])
    BY <1>1, ChangedInIs DEF Commit
  <2>2. message[m] \in Row
    BY DEF IInv, TypeOK
  <2>3. req[q].changed[m].status # req[q].loaded[m].status
    BY <1>1 DEF IInv, SoundInv, Sound, Shape
  <2> QED
    BY <1>1, <2>1, <2>2, <2>3 DEF Merged, Row
<1>2. CASE m \notin ChangedIn(req[q])
  BY <1>2, ChangedInIs DEF Commit
<1> QED
  BY <1>1, <1>2

LEMMA CommitKeepsInv ==
    ASSUME IInv, NEW q \in Requests, Commit(q)
    PROVE  IInv'
<1> USE DEF IInv
<1>t. PICK t : t = req[q]
  OBVIOUS
<1>1. t.step = "pushed" /\ t.flushed = ChangedIn(t) /\ Sound(t)
  BY <1>t DEF Commit, InFlight, SoundInv, Sound, Shape
<1>2. req' = [req EXCEPT ![q] = Idle] /\ UNCHANGED <<registered, issued, shown>>
  BY DEF Commit
<1>3. /\ req'[q] = Idle /\ \A p \in Requests : p # q => req'[p] = req[p]
      /\ req' \in [Requests -> Transaction]
      /\ SoundInv' /\ LockInv'
      /\ \A m : ~ HasPushed(q, m)'
      /\ \A p \in Requests : p # q => \A m : HasPushed(p, m)' <=> HasPushed(p, m)
  BY <1>2, EndKeepsSound
<1>4. \A m \in Messages : message'[m].status = IF m \in ChangedIn(t) THEN t.changed[m].status
                                               ELSE message[m].status
  BY <1>t, CommitStores
<1>5. TypeOK'
  <2>1. message' \in [Messages -> Row]
    <3>1. ASSUME NEW m \in Messages PROVE message'[m] \in Row
      <4>1. message[m] \in Row /\ t.loaded[m] \in Row /\ t.changed[m] \in Row
        BY <1>1 DEF TypeOK, Sound, Transaction
      <4>2. Merged(message[m], t.loaded[m], t.changed[m]) \in Row
        BY <4>1 DEF Merged, Row
      <4> QED
        BY <1>t, <4>1, <4>2 DEF Commit
    <3> QED
      BY <3>1 DEF Commit
  <2>2. conversation' \in BOOLEAN
    BY DEF Commit, TypeOK
  <2> QED
    BY <1>2, <1>3, <2>1, <2>2 DEF TypeOK
<1>6. \A p \in Requests : Known(req[p])'
  BY <1>2, <1>3, IdleIsSound DEF KnownInv, Known, ChangedIn
<1>7. KnownInv'
  <2>1. \A m \in Messages : message'[m].status # "none" => m <= issued'
    BY <1>t, <1>2, <1>4 DEF KnownInv, Known
  <2> QED
    BY <1>6, <2>1 DEF KnownInv
<1>8. \A p \in Requests : p # q => req[p].flushed \cap ChangedIn(t) = {}
  BY <1>t, <1>1 DEF LockInv
<1>9. SendInv'
  <2> SUFFICES ASSUME NEW p \in Requests, req'[p].kind = "send", NEW m \in ChangedIn(req'[p])
               PROVE  message'[m].status = "none"
    BY DEF SendInv, ChangedIn
  <2>1. p # q /\ req'[p] = req[p] /\ m \in Messages
    BY <1>3, IdleIsSound DEF ChangedIn
  <2>2. m \in req[p].flushed
    BY <2>1 DEF SoundInv, Sound, Shape, KindTells
  <2>3. m \notin ChangedIn(t)
    BY <1>8, <2>1, <2>2
  <2> QED
    BY <1>4, <2>1, <2>3 DEF SendInv
<1>10. ShownInv'
  <2> SUFFICES ASSUME NEW u \in Users, NEW m \in Messages, shown[u][m] # "none"
               PROVE  /\ "open" \in registered[u]
                      /\ \A p \in Requests : HasPushed(p, m)' => shown[u][m] = req'[p].changed[m].status
                      /\ (\A p \in Requests : ~ HasPushed(p, m)') => shown[u][m] = message'[m].status
    BY <1>2 DEF ShownInv
  <2>1. CASE m \in ChangedIn(t)
    <3>1. HasPushed(q, m)
      BY <2>1, <1>1, <1>t DEF HasPushed
    <3>2. shown[u][m] = message'[m].status
      BY <3>1, <2>1, <1>4, <1>t DEF ShownInv
    <3>3. \A p \in Requests : p # q => ~ HasPushed(p, m)
      BY <2>1, <1>8, PushedIsLocked
    <3> QED
      BY <3>2, <3>3, <1>3 DEF ShownInv
  <2>2. CASE m \notin ChangedIn(t)
    <3>1. ~ HasPushed(q, m)
      BY <2>2, <1>t DEF HasPushed
    <3>2. message'[m].status = message[m].status
      BY <2>2, <1>4
    <3> QED
      BY <3>1, <3>2, <1>3 DEF ShownInv
  <2> QED
    BY <2>1, <2>2
<1> QED
  BY <1>3, <1>5, <1>7, <1>9, <1>10

LEMMA RollbackKeepsInv ==
    ASSUME IInv, NEW q \in Requests, Rollback(q)
    PROVE  IInv'
<1> USE DEF IInv
<1>1. req' = [req EXCEPT ![q] = Idle] /\ UNCHANGED <<registered, conversation, message, issued>>
  BY DEF Rollback
<1>2. /\ req'[q] = Idle /\ \A p \in Requests : p # q => req'[p] = req[p]
      /\ req' \in [Requests -> Transaction]
      /\ SoundInv' /\ LockInv'
      /\ \A m : ~ HasPushed(q, m)'
      /\ \A p \in Requests : p # q => \A m : HasPushed(p, m)' <=> HasPushed(p, m)
  BY <1>1, EndKeepsSound
<1>3. \A u \in Users, m \in Messages :
        shown'[u][m] = IF HasPushed(q, m) THEN "none" ELSE shown[u][m]
  BY ChangedInIs, IdleIsSound DEF Rollback, InFlight, HasPushed
<1>4. TypeOK'
  BY <1>1, <1>2 DEF Rollback, TypeOK
<1>5. KnownInv'
  BY <1>1, <1>2, IdleIsSound DEF KnownInv, Known, ChangedIn
<1>6. SendInv'
  BY <1>1, <1>2, IdleIsSound DEF SendInv, ChangedIn
<1>7. ShownInv'
  BY <1>1, <1>2, <1>3 DEF ShownInv
<1> QED
  BY <1>2, <1>4, <1>5, <1>6, <1>7

\* A user whose open socket goes sees no more events, and the others see the same.
LEMMA ForgettingKeepsShown ==
    ASSUME IInv, NEW open \in SUBSET Users, open = {v \in Users : "open" \in registered'[v]},
           shown' = Forgotten(open), UNCHANGED <<message, req>>
    PROVE  /\ shown' \in [Users -> [Messages -> MessageDeliveryStatus \cup {"none"}]]
           /\ ShownInv'
<1> USE DEF IInv
<1>1. \A u \in Users, m \in Messages : shown'[u][m] = IF u \in open THEN shown[u][m] ELSE "none"
  BY DEF Forgotten
<1>2. shown' \in [Users -> [Messages -> MessageDeliveryStatus \cup {"none"}]]
  BY DEF Forgotten, TypeOK
<1>3. ShownInv'
  BY <1>1 DEF ShownInv, HasPushed, ChangedIn
<1> QED
  BY <1>2, <1>3

LEMMA SocketStepKeepsInv ==
    ASSUME IInv, NEW u \in Users, SocketStep(u)
    PROVE  IInv'
<1> USE DEF IInv
<1>1. registered' \in [Users -> SUBSET {"open", "dead"}]
  BY DEF SocketStep, Connect, Disconnect, Vanish, Ping, AfterFailedPing, TypeOK
<1>2. UNCHANGED <<conversation, message, issued, req>>
  BY DEF SocketStep
<1>3. /\ shown' \in [Users -> [Messages -> MessageDeliveryStatus \cup {"none"}]]
      /\ ShownInv'
  BY <1>2, ForgettingKeepsShown DEF SocketStep
<1>4. TypeOK'
  BY <1>1, <1>2, <1>3 DEF TypeOK
<1>5. SoundInv' /\ KnownInv' /\ LockInv' /\ SendInv'
  BY <1>2 DEF SoundInv, Sound, Shape, KindTells, ChangedIn, KnownInv, Known, LockInv, SendInv
<1> QED
  BY <1>3, <1>4, <1>5

LEMMA RestartKeepsInv ==
    ASSUME IInv, Restart
    PROVE  IInv'
<1> USE DEF IInv
<1>1. /\ \A q \in Requests : req'[q] = Idle
      /\ req' \in [Requests -> Transaction]
      /\ UNCHANGED <<conversation, message, issued>>
  BY IdleIsSound DEF Restart, Sound
<1>2. \A u \in Users, m \in Messages : shown'[u][m] = "none"
  BY DEF Restart, Forgotten
<1>3. TypeOK'
  BY <1>1 DEF Restart, Forgotten, TypeOK
<1>4. SoundInv'
  BY <1>1, IdleIsSound DEF SoundInv, Sound, Shape, KindTells, ChangedIn
<1>5. KnownInv'
  BY <1>1, IdleIsSound DEF KnownInv, Known, ChangedIn
<1>6. LockInv'
  BY <1>1, IdleIsSound DEF LockInv
<1>7. SendInv'
  BY <1>1, IdleIsSound DEF SendInv
<1>8. ShownInv'
  BY <1>2 DEF ShownInv
<1> QED
  BY <1>3, <1>4, <1>5, <1>6, <1>7, <1>8

LEMMA StepKeepsInv == IInv /\ [Next]_vars => IInv'
<1> SUFFICES ASSUME IInv, [Next]_vars PROVE IInv'
  OBVIOUS
<1>1. ASSUME NEW q \in Requests, MessageStep(q) PROVE IInv'
  <2>1. CASE PostMessage(q)
    BY <2>1, BeginSendWorks, WorkKeepsInv, ChatAssumption DEF PostMessage
  <2>2. CASE Receipt(q)
    BY <2>2, ReceiptWorks, WorkKeepsInv
  <2> QED
    BY <1>1, <2>1, <2>2 DEF MessageStep
<1>2. ASSUME NEW q \in Requests, Serve(q) PROVE IInv'
  <2>1. CASE NewConversation(q)
    BY <2>1, NewConversationWorks, WorkKeepsInv
  <2>2. CASE InsertMessage(q)
    BY <2>2, InsertMessageWorks, WorkKeepsInv
  <2>3. CASE ReadPresence(q)
    BY <2>3, ReadPresenceWorks, WorkKeepsInv
  <2>4. CASE RefuseSend(q)
    BY <2>4, RefuseSendWorks, WorkKeepsInv
  <2>5. CASE FlushRow(q)
    BY <2>5, FlushRowWorks, WorkKeepsInv
  <2>6. CASE Push(q)
    BY <2>6, PushKeepsInv
  <2>7. CASE Commit(q)
    BY <2>7, CommitKeepsInv
  <2> QED
    BY <1>2, <2>1, <2>2, <2>3, <2>4, <2>5, <2>6, <2>7 DEF Serve
<1>3. ASSUME NEW q \in Requests, Rollback(q) PROVE IInv'
  BY <1>3, RollbackKeepsInv
<1>4. ASSUME NEW u \in Watchers, SocketStep(u) PROVE IInv'
  BY <1>4, SocketStepKeepsInv, ChatAssumption
<1>5. CASE Restart
  BY <1>5, RestartKeepsInv
<1>6. CASE UNCHANGED vars
  <2> USE <1>6 DEF vars, IInv
  <2>1. TypeOK'
    BY DEF TypeOK
  <2>2. SoundInv' /\ KnownInv' /\ LockInv' /\ SendInv'
    BY DEF SoundInv, Sound, Shape, KindTells, ChangedIn, KnownInv, Known, LockInv, SendInv
  <2>3. ShownInv'
    BY DEF ShownInv, HasPushed, ChangedIn
  <2> QED
    BY <2>1, <2>2, <2>3
<1> QED
  BY <1>1, <1>2, <1>3, <1>4, <1>5, <1>6 DEF Next

LEMMA InvHolds == Spec => []IInv
  BY InitHolds, StepKeepsInv, PTL DEF Spec

-----------------------------------------------------------------------------
(***************************************************************************)
(* The theorems.                                                           *)
(***************************************************************************)

\* The chat, its transactions and its sockets stay within their types
\* (add_message, mark_message_delivered, mark_messages_read, the sockets).
THEOREM TypeCorrect == Spec => []TypeOK
  BY InvHolds, PTL DEF IInv

\* Whatever the number of users, messages and requests in flight, what an open
\* socket shows of a message nobody is changing is what is stored, although
\* _broadcast_message_event pushes before get_db commits.
THEOREM ShownIsStored == Spec => []EventsTellTheStore
<1>1. IInv => EventsTellTheStore
  <2> SUFFICES ASSUME IInv, NEW u \in Users, NEW m \in Messages,
                      shown[u][m] # "none", Unlocked(m)
               PROVE  shown[u][m] = message[m].status
    BY DEF EventsTellTheStore
  <2>1. \A q \in Requests : ~ HasPushed(q, m)
    BY PushedIsLocked DEF Unlocked
  <2> QED
    BY <2>1 DEF IInv, ShownInv
<1> QED
  BY <1>1, InvHolds, PTL

\* Only the commit of an acknowledgement that loaded the message as sent takes
\* the status "viewed" from it (mark_message_delivered).
THEOREM ReadIsLostOnlyToAcknowledgement == Spec => ReadIsLostToStaleAcknowledgement
<1> DEFINE Lost == \A m \in Messages :
             message[m].status = "viewed" /\ message'[m].status # "viewed" =>
                 \E q \in Requests : /\ req[q].kind = "acknowledge"
                                     /\ req[q].loaded[m].status = "sent"
                                     /\ req'[q].kind = "idle"
<1>1. IInv /\ [Next]_vars => [Lost]_vars
  <2> SUFFICES ASSUME IInv, Next, NEW m \in Messages,
                      message[m].status = "viewed", message'[m].status # "viewed"
               PROVE  \E q \in Requests : /\ req[q].kind = "acknowledge"
                                          /\ req[q].loaded[m].status = "sent"
                                          /\ req'[q].kind = "idle"
    OBVIOUS
  <2>1. PICK q \in Requests : Commit(q)
    <3>1. \A q \in Requests : MessageStep(q) => UNCHANGED message
      BY DEF MessageStep, PostMessage, Receipt, BeginSend, MarkRead, Acknowledge,
             LoadAndChange, Continue
    <3>2. \A q \in Requests : Serve(q) => UNCHANGED message \/ Commit(q)
      BY DEF Serve, NewConversation, InsertMessage, ReadPresence, RefuseSend, FlushRow,
             Push, Continue
    <3>3. \A q \in Requests : Rollback(q) => UNCHANGED message
      BY DEF Rollback
    <3>4. \A u \in Watchers : SocketStep(u) => UNCHANGED message
      BY DEF SocketStep
    <3>5. Restart => UNCHANGED message
      BY DEF Restart
    <3> QED
      BY <3>1, <3>2, <3>3, <3>4, <3>5 DEF Next
  <2>2. m \in ChangedIn(req[q]) /\ req[q].changed[m].status # "viewed"
    BY <2>1, CommitStores
  <2>3. Sound(req[q]) /\ req[q].kind # "idle" /\ req'[q] = Idle
    BY <2>1 DEF Commit, InFlight, IInv, SoundInv, TypeOK
  <2>4. req[q].kind # "send"
    BY <2>2 DEF IInv, SendInv
  <2>5. req[q].kind # "read"
    BY <2>2, <2>3 DEF Sound, KindTells
  <2>6. req[q].kind = "acknowledge"
    BY <2>3, <2>4, <2>5 DEF Sound, Transaction
  <2>7. req[q].loaded[m].status = "sent"
    BY <2>2, <2>3, <2>6 DEF Sound, KindTells
  <2> QED
    BY <2>3, <2>6, <2>7, IdleIsSound
<1> QED
  BY <1>1, InvHolds, PTL DEF Spec, ReadIsLostToStaleAcknowledgement
=============================================================================
