------------------------ MODULE TaskBroadcastProofs ------------------------
(***************************************************************************)
(* Proofs about TaskBroadcast for any connections, users and events, and   *)
(* about IdempotentRequests after them. Of TaskBroadcast, one              *)
(* inductive invariant, TypeInv, says what the rounds, the connections and *)
(* the inbox rely on; each property adds its own on top of it.             *)
(***************************************************************************)
EXTENDS TaskBroadcast, IdempotentRequests, FiniteSetTheorems, SequenceTheorems, TLAPS

Before == {"new", "asking", "admitted"}

(* The endpoints a registered connection may have, and those of a snapshot. *)
Registered == {"serving", "failed"}
Known == {"serving", "done", "failed"}

(* The number of the event that is handed to the subscription next.        *)
Coming == published - Len(subscription.inbox) + 1

(* A round is for the event taken last; whoever it is over was registered, *)
(* and a refused connection leaves the registry before anything is sent.   *)
RoundFits ==
  /\ round.stage = "idle" => round = NoRound
  /\ round.stage # "idle" => /\ round.event \in Events /\ round.event = Coming - 1
                             /\ subscription.state = "listening"
  /\ round.revoked \subseteq round.snapshot
  /\ round.snapshot \subseteq {s \in Sockets : socket[s].pc \in Known}
  /\ round.stage = "closing" => registry \intersect round.revoked \subseteq round.left
  /\ round.stage = "sending" => registry \intersect round.revoked = {}

SocketFits ==
  \A s \in Sockets : /\ socket[s].pc \in Before => socket[s].sent = <<>>
                     /\ socket[s].pc # "new" => socket[s].user \in Users

(* A run of numbers without a gap that ends with p.                        *)
EndsWith(q, p) == \A k \in 1..Len(q) : q[k] = p - Len(q) + k

(* The inbox holds the newest events, none missing.                        *)
InboxFits ==
  /\ subscription.state # "listening" => subscription.inbox = <<>>
  /\ EndsWith(subscription.inbox, published)

TypeInv == TypeOK /\ RoundFits /\ SocketFits /\ InboxFits
-----------------------------------------------------------------------------
(* What a loop of _broadcast makes way for.                                *)
LEMMA Advances ==
  ASSUME NEW r \in Round, r.stage # "idle"
  PROVE  \/ /\ Advance(r) = r
            /\ r.left # {} \/ r.stage = "sending"
         \/ /\ r.stage = "checking" /\ r.left = {} /\ r.revoked # {}
            /\ Advance(r) = [r EXCEPT !.stage = "closing", !.left = r.revoked]
         \/ /\ r.stage = "checking" /\ r.left = {} /\ r.revoked = {}
            /\ Advance(r) = [r EXCEPT !.stage = "sending", !.left = r.snapshot]
         \/ /\ r.stage = "closing" /\ r.left = {}
            /\ Advance(r) = [r EXCEPT !.stage = "sending", !.left = r.snapshot]
<1>1. r.stage \in {"checking", "closing", "sending"}
  BY DEF Round
<1>2. CASE r.left # {} \/ r.stage = "sending"
  BY <1>2 DEF Advance
<1>3. CASE r.left = {} /\ r.stage = "checking" /\ r.revoked # {}
  BY <1>3 DEF Advance
<1>4. CASE r.left = {} /\ r.stage = "checking" /\ r.revoked = {}
  BY <1>4 DEF Advance
<1>5. CASE r.left = {} /\ r.stage = "closing"
  BY <1>5 DEF Advance
<1> QED BY <1>1, <1>2, <1>3, <1>4, <1>5

(* The end of a check, seen from what comes of the round.                  *)
LEMMA Checked ==
  ASSUME TypeInv, NEW s \in Sockets, Check(s)
  PROVE  /\ round.stage = "checking" /\ s \in round.left
         /\ round' \in Round /\ round'.event = round.event /\ round'.stage # "idle"
         /\ round'.snapshot = round.snapshot /\ round'.dead = round.dead
         /\ round.revoked \subseteq round'.revoked
         /\ round'.revoked \subseteq round.revoked \union {s}
         /\ s \in round'.revoked \/ Verifies(s)
         /\ round'.stage = "checking" => round'.left = round.left \ {s}
         /\ round'.stage # "checking" => round.left \subseteq {s}
         /\ round'.stage = "closing" => round'.left = round'.revoked
         /\ round'.stage = "sending" => round'.revoked = {} /\ round'.left = round.snapshot
         /\ round'.left \subseteq round.snapshot
<1> DEFINE old == round
<1>1. /\ old \in Round /\ old.stage = "checking" /\ s \in old.left
      /\ old.left \subseteq old.snapshot /\ old.revoked \subseteq old.snapshot
  BY DEF TypeInv, TypeOK, RoundFits, Check
<1>2. PICK x \in {{s}} \union (IF Verifies(s) THEN {{}} ELSE {}) :
        round' = Advance([old EXCEPT !.left = @ \ {s}, !.revoked = @ \union x])
  BY DEF Check
<1> DEFINE r == [old EXCEPT !.left = old.left \ {s}, !.revoked = old.revoked \union x]
<1>3. round' = Advance(r)
  BY <1>2
<1>4. x = {s} \/ (x = {} /\ Verifies(s))
  BY <1>2
<1>5. /\ r \in Round /\ r.stage = "checking" /\ r.event = old.event /\ r.snapshot = old.snapshot
      /\ r.dead = old.dead /\ r.left = old.left \ {s} /\ r.revoked = old.revoked \union x
  BY <1>1, <1>4 DEF Round
<1> HIDE DEF r, old
<1>6. \/ round' = r /\ r.left # {}
      \/ /\ r.left = {} /\ r.revoked # {}
         /\ round' = [r EXCEPT !.stage = "closing", !.left = r.revoked]
      \/ /\ r.left = {} /\ r.revoked = {}
         /\ round' = [r EXCEPT !.stage = "sending", !.left = r.snapshot]
  BY <1>3, <1>5, Advances
<1>7. /\ round' \in Round /\ round'.event = r.event /\ round'.stage # "idle"
      /\ round'.snapshot = r.snapshot /\ round'.dead = r.dead /\ round'.revoked = r.revoked
      /\ round'.stage = "checking" => round'.left = r.left
      /\ round'.stage # "checking" => r.left = {}
      /\ round'.stage = "closing" => round'.left = r.revoked
      /\ round'.stage = "sending" => r.revoked = {} /\ round'.left = r.snapshot
  BY <1>5, <1>6 DEF Round
<1> QED BY <1>1, <1>4, <1>5, <1>7 DEF old, Round

(* The same for a refused connection that was closed.                      *)
LEMMA Closed ==
  ASSUME TypeInv, NEW s \in Sockets, Close(s)
  PROVE  /\ round.stage = "closing" /\ s \in round.left
         /\ round' \in Round /\ round'.event = round.event
         /\ round'.snapshot = round.snapshot /\ round'.dead = round.dead
         /\ round'.revoked = round.revoked
         /\ \/ round'.stage = "closing" /\ round'.left = round.left \ {s}
            \/ round'.stage = "sending" /\ round'.left = round.snapshot /\ round.left \subseteq {s}
         /\ round'.left \subseteq round.snapshot
<1> DEFINE old == round
           r == [old EXCEPT !.left = old.left \ {s}]
<1>1. /\ old \in Round /\ old.stage = "closing" /\ s \in old.left
      /\ old.left \subseteq old.snapshot
  BY DEF TypeInv, TypeOK, Close
<1>2. round' = Advance(r)
  BY DEF Close
<1>3. /\ r \in Round /\ r.stage = "closing" /\ r.event = old.event /\ r.snapshot = old.snapshot
      /\ r.dead = old.dead /\ r.left = old.left \ {s} /\ r.revoked = old.revoked
  BY <1>1 DEF Round
<1> HIDE DEF r, old
<1>4. \/ round' = r /\ r.left # {}
      \/ r.left = {} /\ round' = [r EXCEPT !.stage = "sending", !.left = r.snapshot]
  BY <1>2, <1>3, Advances
<1>5. /\ round' \in Round /\ round'.event = r.event
      /\ round'.snapshot = r.snapshot /\ round'.dead = r.dead /\ round'.revoked = r.revoked
      /\ \/ round'.stage = "closing" /\ round'.left = r.left
         \/ round'.stage = "sending" /\ round'.left = r.snapshot /\ r.left = {}
  BY <1>3, <1>4 DEF Round
<1> QED BY <1>1, <1>3, <1>5 DEF old

(* What a write comes to.                                                  *)
LEMMA Sent ==
  ASSUME TypeInv, NEW s \in Sockets, Send(s)
  PROVE  /\ round.stage = "sending" /\ s \in round.left /\ s \in round.snapshot
         /\ round' \in Round /\ round'.stage = "sending" /\ round'.event = round.event
         /\ round'.snapshot = round.snapshot /\ round'.revoked = round.revoked
         /\ round'.left = round.left \ {s}
         /\ \/ /\ s \in registry /\ socket[s].pc # "failed" /\ round'.dead = round.dead
               /\ socket' = [socket EXCEPT ![s].sent = Append(@, round.event)]
            \/ /\ s \in registry /\ socket[s].gone /\ UNCHANGED socket
               /\ round'.dead = round.dead \union {s}
            \/ s \notin registry /\ UNCHANGED socket /\ round'.dead = round.dead
<1> DEFINE old == round
<1>1. /\ old \in Round /\ old.stage = "sending" /\ s \in old.left
      /\ old.left \subseteq old.snapshot
  BY DEF TypeInv, TypeOK, Send
<1>2. \/ /\ s \in registry /\ socket[s].pc # "failed"
         /\ round' = [old EXCEPT !.left = old.left \ {s}]
         /\ socket' = [socket EXCEPT ![s].sent = Append(@, old.event)]
      \/ /\ s \in registry /\ socket[s].gone /\ UNCHANGED socket
         /\ round' = [old EXCEPT !.left = old.left \ {s}, !.dead = old.dead \union {s}]
      \/ /\ s \notin registry /\ UNCHANGED socket
         /\ round' = [old EXCEPT !.left = old.left \ {s}]
  BY DEF Send
<1> HIDE DEF old
<1> DEFINE x == [old EXCEPT !.left = old.left \ {s}]
           y == [old EXCEPT !.left = old.left \ {s}, !.dead = old.dead \union {s}]
<1>3. /\ x \in Round /\ x.stage = old.stage /\ x.event = old.event /\ x.dead = old.dead
      /\ x.snapshot = old.snapshot /\ x.revoked = old.revoked /\ x.left = old.left \ {s}
  BY <1>1 DEF Round
<1>4. /\ y \in Round /\ y.stage = old.stage /\ y.event = old.event
      /\ y.dead = old.dead \union {s}
      /\ y.snapshot = old.snapshot /\ y.revoked = old.revoked /\ y.left = old.left \ {s}
  BY <1>1 DEF Round
<1>5. \/ /\ s \in registry /\ socket[s].pc # "failed" /\ round' = x
         /\ socket' = [socket EXCEPT ![s].sent = Append(@, old.event)]
      \/ /\ s \in registry /\ socket[s].gone /\ UNCHANGED socket /\ round' = y
      \/ /\ s \notin registry /\ round' = x /\ UNCHANGED socket
  BY <1>2
<1> HIDE DEF x, y
<1>6. /\ round.stage = "sending" /\ s \in round.left /\ s \in round.snapshot
      /\ round' \in Round /\ round'.stage = "sending" /\ round'.event = round.event
      /\ round'.snapshot = round.snapshot /\ round'.revoked = round.revoked
      /\ round'.left = round.left \ {s}
  BY <1>1, <1>3, <1>4, <1>5 DEF old
<1> QED BY <1>3, <1>4, <1>5, <1>6 DEF old
-----------------------------------------------------------------------------
(* One connection becomes x.                                               *)
LEMMA Becomes ==
  ASSUME TypeInv, NEW s \in Sockets, NEW x \in Socket, socket' = [socket EXCEPT ![s] = x]
  PROVE  /\ socket' \in [Sockets -> Socket] /\ socket'[s] = x
         /\ \A q \in Sockets \ {s} : socket'[q] = socket[q]
  BY DEF TypeInv, TypeOK

(* An endpoint goes on to pc.                                              *)
LEMMA EndpointMoves ==
  ASSUME TypeInv, NEW s \in Sockets, SetSocket(s, "admitted") \/ SetSocket(s, "serving")
                                     \/ SetSocket(s, "done")
  PROVE  /\ socket' \in [Sockets -> Socket]
         /\ SetSocket(s, "admitted") => socket'[s].pc = "admitted"
         /\ SetSocket(s, "serving") => socket'[s].pc = "serving"
         /\ SetSocket(s, "done") => socket'[s].pc = "done"
         /\ socket'[s].user = socket[s].user /\ socket'[s].gone = socket[s].gone
         /\ socket'[s].sent = socket[s].sent
         /\ \A q \in Sockets \ {s} : socket'[q] = socket[q]
<1>1. ASSUME NEW pc \in {"admitted", "serving", "done"}, SetSocket(s, pc)
      PROVE  /\ socket' \in [Sockets -> Socket] /\ socket'[s].pc = pc
             /\ socket'[s].user = socket[s].user /\ socket'[s].gone = socket[s].gone
             /\ socket'[s].sent = socket[s].sent
             /\ \A q \in Sockets \ {s} : socket'[q] = socket[q]
  <2> DEFINE old == socket[s]
             x == [old EXCEPT !.pc = pc]
  <2>1. old \in Socket /\ socket' = [socket EXCEPT ![s] = x]
    BY <1>1 DEF TypeInv, TypeOK, SetSocket
  <2> HIDE DEF old
  <2>2. x \in Socket /\ x.pc = pc /\ x.user = old.user /\ x.gone = old.gone /\ x.sent = old.sent
    BY <2>1 DEF Socket
  <2> HIDE DEF x
  <2> QED BY <2>1, <2>2, Becomes DEF old
<1> QED BY <1>1

(* What the other steps do to a connection.                                *)
LEMMA Opened ==
  ASSUME TypeInv, NEW s \in Sockets, Open(s)
  PROVE  /\ socket' \in [Sockets -> Socket] /\ socket[s].pc = "new"
         /\ socket'[s].pc = "asking" /\ socket'[s].user \in Users
         /\ socket'[s].gone = socket[s].gone /\ socket'[s].sent = socket[s].sent
         /\ \A q \in Sockets \ {s} : socket'[q] = socket[q]
<1> DEFINE old == socket[s]
<1>1. PICK u \in Users : socket' = [socket EXCEPT ![s] = [old EXCEPT !.pc = "asking", !.user = u]]
  BY DEF Open, TypeInv, TypeOK
<1> DEFINE x == [old EXCEPT !.pc = "asking", !.user = u]
<1>2. old \in Socket /\ old.pc = "new"
  BY DEF TypeInv, TypeOK, Open
<1> HIDE DEF old
<1>3. x \in Socket /\ x.pc = "asking" /\ x.user = u /\ x.gone = old.gone /\ x.sent = old.sent
  BY <1>2 DEF Socket
<1>4. socket' = [socket EXCEPT ![s] = x]
  BY <1>1
<1> HIDE DEF x
<1> QED BY <1>2, <1>3, <1>4, Becomes DEF old

LEMMA Ends ==
  ASSUME TypeInv, NEW s \in Sockets, NEW b \in BOOLEAN,
         socket' = [socket EXCEPT ![s].gone = b]
  PROVE  /\ socket' \in [Sockets -> Socket] /\ socket'[s].gone = b
         /\ socket'[s].pc = socket[s].pc /\ socket'[s].user = socket[s].user
         /\ socket'[s].sent = socket[s].sent
         /\ \A q \in Sockets \ {s} : socket'[q] = socket[q]
<1> DEFINE old == socket[s]
           x == [old EXCEPT !.gone = b]
<1>1. old \in Socket /\ socket' = [socket EXCEPT ![s] = x]
  BY DEF TypeInv, TypeOK
<1> HIDE DEF old
<1>2. x \in Socket /\ x.pc = old.pc /\ x.user = old.user /\ x.gone = b /\ x.sent = old.sent
  BY <1>1 DEF Socket
<1> HIDE DEF x
<1> QED BY <1>1, <1>2, Becomes DEF old

LEMMA Fails ==
  ASSUME TypeInv, NEW s \in Sockets, EndpointFails(s)
  PROVE  /\ socket' \in [Sockets -> Socket] /\ socket[s].pc = "serving"
         /\ socket'[s].pc = "failed" /\ socket'[s].gone
         /\ socket'[s].user = socket[s].user /\ socket'[s].sent = socket[s].sent
         /\ \A q \in Sockets \ {s} : socket'[q] = socket[q]
         /\ UNCHANGED <<removed, published, registry, subscription, round>>
<1> DEFINE old == socket[s]
           x == [old EXCEPT !.pc = "failed", !.gone = TRUE]
<1>1. /\ old \in Socket /\ old.pc = "serving" /\ socket' = [socket EXCEPT ![s] = x]
      /\ UNCHANGED <<removed, published, registry, subscription, round>>
  BY DEF TypeInv, TypeOK, EndpointFails
<1> HIDE DEF old
<1>2. x \in Socket /\ x.pc = "failed" /\ x.user = old.user /\ x.gone /\ x.sent = old.sent
  BY <1>1 DEF Socket
<1> HIDE DEF x
<1> QED BY <1>1, <1>2, Becomes DEF old

LEMMA Written ==
  ASSUME TypeInv, NEW s \in Sockets, NEW e \in Events,
         socket' = [socket EXCEPT ![s].sent = Append(@, e)]
  PROVE  /\ socket' \in [Sockets -> Socket] /\ socket'[s].sent = Append(socket[s].sent, e)
         /\ socket'[s].pc = socket[s].pc /\ socket'[s].user = socket[s].user
         /\ socket'[s].gone = socket[s].gone
         /\ \A q \in Sockets \ {s} : socket'[q] = socket[q]
<1> DEFINE old == socket[s]
           x == [old EXCEPT !.sent = Append(old.sent, e)]
<1>1. old \in Socket /\ socket' = [socket EXCEPT ![s] = x]
  BY DEF TypeInv, TypeOK
<1> HIDE DEF old
<1>2. Append(old.sent, e) \in Seq(Events)
  BY <1>1 DEF Socket
<1>3. x \in Socket /\ x.pc = old.pc /\ x.user = old.user /\ x.gone = old.gone
      /\ x.sent = Append(old.sent, e)
  BY <1>1, <1>2 DEF Socket
<1> HIDE DEF x
<1> QED BY <1>1, <1>3, Becomes DEF old

(* The closing of a connection, whether the browser notices or not.        *)
LEMMA CloseEnds ==
  ASSUME TypeInv, NEW s \in Sockets, Close(s)
  PROVE  /\ socket' \in [Sockets -> Socket] /\ socket'[s].gone = (socket[s].gone \/ s \in registry)
         /\ socket'[s].pc = socket[s].pc /\ socket'[s].user = socket[s].user
         /\ socket'[s].sent = socket[s].sent
         /\ \A q \in Sockets \ {s} : socket'[q] = socket[q]
<1> DEFINE b == socket[s].gone \/ s \in registry
<1>1. b \in BOOLEAN /\ socket' = [socket EXCEPT ![s].gone = b]
  BY DEF TypeInv, TypeOK, Close, Socket
<1> HIDE DEF b
<1>2. /\ socket' \in [Sockets -> Socket] /\ socket'[s].gone = b
      /\ socket'[s].pc = socket[s].pc /\ socket'[s].user = socket[s].user
      /\ socket'[s].sent = socket[s].sent
      /\ \A q \in Sockets \ {s} : socket'[q] = socket[q]
  BY <1>1, Ends
<1> QED BY <1>2 DEF b
-----------------------------------------------------------------------------
(* A step that leaves the broadcast alone: only endpoints move.            *)
LEMMA OnlyEndpoints ==
  ASSUME TypeInv, NEW s \in Sockets, UNCHANGED <<removed, published, subscription, round>>,
         socket' \in [Sockets -> Socket], \A q \in Sockets \ {s} : socket'[q] = socket[q],
         registry' \subseteq registry \union {s},
         s \in registry' => socket'[s].pc \in Registered,
         s \in registry' => s \in registry \/ s \notin round.snapshot,
         s \in round.snapshot => socket'[s].pc \in Known,
         socket'[s].pc \in Before => socket'[s].sent = <<>>,
         socket'[s].pc # "new" => socket'[s].user \in Users
  PROVE  TypeInv'
<1>1. TypeOK'
  BY DEF TypeInv, TypeOK, Registered
<1>2. RoundFits'
  BY DEF TypeInv, RoundFits, Coming, Known
<1>3. SocketFits'
  BY DEF TypeInv, SocketFits
<1>4. InboxFits'
  BY DEF TypeInv, InboxFits
<1> QED BY <1>1, <1>2, <1>3, <1>4 DEF TypeInv

LEMMA EndpointsKeepTypes ==
  ASSUME TypeInv, NEW s \in Sockets, Open(s) \/ Authorize(s) \/ Leave(s) \/ EndpointFails(s)
  PROVE  TypeInv'
<1>1. \A q \in round.snapshot : socket[q].pc \in Known
  BY DEF TypeInv, RoundFits
<1>2. \A q \in registry : socket[q].pc \in Registered
  BY DEF TypeInv, TypeOK, Registered
<1>3. CASE Open(s)
  <2>1. s \notin registry /\ s \notin round.snapshot /\ socket[s].sent = <<>>
    BY <1>1, <1>2, <1>3, Opened DEF TypeInv, SocketFits, Before, Known, Registered
  <2>2. UNCHANGED <<removed, published, registry, subscription, round>>
    BY <1>3 DEF Open
  <2>3. /\ socket' \in [Sockets -> Socket] /\ socket'[s].user \in Users
        /\ socket'[s].sent = socket[s].sent
        /\ \A q \in Sockets \ {s} : socket'[q] = socket[q]
    BY <1>3, Opened
  <2> QED BY <2>1, <2>2, <2>3, OnlyEndpoints
<1>4. CASE Authorize(s)
  <2>1. /\ s \notin registry /\ s \notin round.snapshot
        /\ socket[s].sent = <<>> /\ socket[s].user \in Users
    BY <1>1, <1>2, <1>4 DEF TypeInv, SocketFits, Before, Authorize, Known, Registered
  <2>2. SetSocket(s, "admitted") \/ SetSocket(s, "done")
    BY <1>4 DEF Authorize
  <2>3. UNCHANGED <<removed, published, registry, subscription, round>>
    BY <1>4 DEF Authorize
  <2> QED BY <2>1, <2>2, <2>3, EndpointMoves, OnlyEndpoints
<1>5. CASE Leave(s)
  <2>1. /\ socket[s].pc \in Before => socket[s].sent = <<>>
        /\ socket[s].user \in Users
    BY <1>5 DEF TypeInv, SocketFits, Leave
  <2>2. TRUE \in BOOLEAN /\ socket' = [socket EXCEPT ![s].gone = TRUE]
    BY <1>5 DEF Leave
  <2>3. /\ socket' \in [Sockets -> Socket]
        /\ socket'[s].pc = socket[s].pc /\ socket'[s].user = socket[s].user
        /\ socket'[s].sent = socket[s].sent
        /\ \A q \in Sockets \ {s} : socket'[q] = socket[q]
    BY <2>2, Ends
  <2>4. UNCHANGED <<removed, published, registry, subscription, round>>
    BY <1>5 DEF Leave
  <2> QED BY <1>1, <1>2, <2>1, <2>3, <2>4, OnlyEndpoints
<1>6. CASE EndpointFails(s)
  <2>1. socket[s].user \in Users
    BY <1>6 DEF TypeInv, SocketFits, EndpointFails
  <2>2. /\ socket' \in [Sockets -> Socket] /\ socket'[s].pc = "failed"
        /\ socket'[s].user = socket[s].user
        /\ \A q \in Sockets \ {s} : socket'[q] = socket[q]
        /\ UNCHANGED <<removed, published, registry, subscription, round>>
    BY <1>6, Fails
  <2> QED BY <2>1, <2>2, OnlyEndpoints DEF Known, Registered, Before
<1> QED BY <1>3, <1>4, <1>5, <1>6

LEMMA EmptyRun == \A p : EndsWith(<<>>, p)
  BY DEF EndsWith

LEMMA RunGrows ==
  ASSUME NEW q \in Seq(Events), NEW p \in Int, p + 1 \in Events, EndsWith(q, p)
  PROVE  EndsWith(Append(q, p + 1), p + 1)
<1>1. Len(q) \in Nat /\ Len(Append(q, p + 1)) = Len(q) + 1
  BY AppendProperties, LenProperties
<1> SUFFICES ASSUME NEW k \in 1..(Len(q) + 1)
             PROVE  Append(q, p + 1)[k] = (p + 1) - (Len(q) + 1) + k
  BY <1>1 DEF EndsWith
<1>2. CASE k \in 1..Len(q)
  <2>1. Append(q, p + 1)[k] = p - Len(q) + k
    BY <1>2, AppendProperties DEF EndsWith
  <2> QED BY <1>1, <2>1
<1>3. CASE k = Len(q) + 1
  <2>1. Append(q, p + 1)[k] = p + 1
    BY <1>3, AppendProperties
  <2> QED BY <1>1, <1>3, <2>1
<1> QED BY <1>1, <1>2, <1>3

LEMMA RunShrinks ==
  ASSUME NEW q \in Seq(Events), NEW p \in Int, q # <<>>, EndsWith(q, p)
  PROVE  /\ EndsWith(Tail(q), p) /\ Head(q) = p - Len(q) + 1
         /\ Len(Tail(q)) = Len(q) - 1 /\ Tail(q) \in Seq(Events) /\ Head(q) \in Events
<1>1. /\ Len(q) \in Nat /\ Len(q) > 0 /\ Tail(q) \in Seq(Events) /\ Head(q) \in Events
      /\ Len(Tail(q)) = Len(q) - 1 /\ Head(q) = q[1]
      /\ \A k \in 1..(Len(q) - 1) : Tail(q)[k] = q[k + 1]
  BY LenProperties
<1>2. Head(q) = p - Len(q) + 1
  BY <1>1 DEF EndsWith
<1> SUFFICES ASSUME NEW k \in 1..(Len(q) - 1)
             PROVE  Tail(q)[k] = p - (Len(q) - 1) + k
  BY <1>1, <1>2 DEF EndsWith
<1>3. k + 1 \in 1..Len(q) /\ Tail(q)[k] = q[k + 1]
  BY <1>1
<1>4. q[k + 1] = p - Len(q) + (k + 1)
  BY <1>3 DEF EndsWith
<1> QED BY <1>1, <1>3, <1>4

LEMMA ConnectKeepsTypes ==
  ASSUME TypeInv, NEW s \in Sockets, Connect(s)
  PROVE  TypeInv'
<1>1. /\ s \notin registry /\ s \notin round.snapshot
      /\ socket[s].sent = <<>> /\ socket[s].user \in Users
  BY DEF TypeInv, TypeOK, RoundFits, SocketFits, Before, Connect, Known
<1>2. UNCHANGED <<removed, published, round>>
  BY DEF Connect
<1>3. CASE SetSocket(s, "done") /\ UNCHANGED <<registry, subscription>>
  BY <1>1, <1>2, <1>3, EndpointMoves, OnlyEndpoints
<1>4. CASE /\ SetSocket(s, "serving") /\ registry' = registry \union {s}
           /\ subscription.state # "none" /\ UNCHANGED subscription
  BY <1>1, <1>2, <1>4, EndpointMoves, OnlyEndpoints DEF Known, Registered, Before
<1>5. CASE /\ SetSocket(s, "serving") /\ registry' = registry \union {s}
           /\ subscription.state = "none"
           /\ subscription' = [NoSubscription EXCEPT !.state = "starting"]
  <2>1. round = NoRound /\ subscription.inbox = <<>>
    BY <1>5 DEF TypeInv, RoundFits, InboxFits
  <2>2. subscription' = [state |-> "starting", inbox |-> <<>>]
    BY <1>5 DEF NoSubscription
  <2>3. subscription' \in Subscription
    BY <2>2 DEF Subscription
  <2>4. socket' \in [Sockets -> Socket]
        /\ registry' \subseteq {q \in Sockets : socket'[q].pc \in {"serving", "failed"}}
    BY <1>1, <1>5, EndpointMoves DEF TypeInv, TypeOK
  <2>5. TypeOK'
    BY <1>2, <2>3, <2>4 DEF TypeInv, TypeOK
  <2>6. RoundFits'
    BY <1>2, <2>1 DEF RoundFits, NoRound
  <2>7. SocketFits'
    BY <1>1, <1>5, EndpointMoves DEF TypeInv, SocketFits, Before
  <2>8. InboxFits'
    BY <2>2, EmptyRun DEF InboxFits
  <2> QED BY <2>5, <2>6, <2>7, <2>8 DEF TypeInv
<1> QED BY <1>3, <1>4, <1>5 DEF Connect

LEMMA DisconnectKeepsTypes ==
  ASSUME TypeInv, NEW s \in Sockets, Disconnect(s)
  PROVE  TypeInv'
<1>1. /\ registry' = registry \ {s} /\ SetSocket(s, "done") /\ socket[s].user \in Users
      /\ UNCHANGED <<removed, published>>
  BY DEF TypeInv, SocketFits, Disconnect
<1>2. CASE UNCHANGED <<subscription, round>>
  BY <1>1, <1>2, EndpointMoves, OnlyEndpoints DEF Before, Known
<1>3. CASE subscription' = NoSubscription /\ round' = NoRound
  <2>1. TypeOK'
    BY <1>1, <1>3, EndpointMoves
       DEF TypeInv, TypeOK, NoSubscription, Subscription, NoRound, Round
  <2>2. RoundFits'
    BY <1>3 DEF RoundFits, NoRound
  <2>3. SocketFits'
    BY <1>1, EndpointMoves DEF TypeInv, SocketFits, Before
  <2>4. InboxFits'
    BY <1>3, EmptyRun DEF InboxFits, NoSubscription
  <2> QED BY <2>1, <2>2, <2>3, <2>4 DEF TypeInv
<1> QED BY <1>2, <1>3 DEF Disconnect

(* The subscription's own steps.                                           *)
LEMMA SubscriptionKeepsTypes ==
  ASSUME TypeInv, Publish \/ Listen \/ Take
  PROVE  TypeInv'
<1> DEFINE inbox == subscription.inbox
<1>1. /\ inbox \in Seq(Events) /\ published \in 0..MaxEvents /\ MaxEvents \in Nat
      /\ EndsWith(inbox, published)
      /\ subscription \in Subscription /\ Len(inbox) \in Nat
  BY BroadcastAssumption, LenProperties DEF TypeInv, TypeOK, Subscription, InboxFits
<1>2. UNCHANGED <<socket, removed, registry>>
  BY DEF Publish, Listen, Take
<1>3. SocketFits'
  BY <1>2 DEF TypeInv, SocketFits
<1>4. CASE Publish
  <2>1. published' = published + 1 /\ published' \in Events /\ UNCHANGED round
    BY <1>1, <1>4 DEF Publish, Events
  <2>2. CASE subscription.state = "listening"
    <3>1. subscription' = [state |-> "listening", inbox |-> Append(inbox, published')]
      BY <1>1, <1>4, <2>2 DEF Publish, Subscription
    <3>2. Append(inbox, published') \in Seq(Events) /\ Len(Append(inbox, published')) = Len(inbox) + 1
      BY <1>1, <2>1
    <3>3. subscription' \in Subscription
      BY <3>1, <3>2 DEF Subscription
    <3>4. TypeOK'
      BY <1>2, <2>1, <3>3 DEF TypeInv, TypeOK, Events
    <3>5. Coming' = Coming
      <4>1. Coming' = (published + 1) - (Len(inbox) + 1) + 1
        BY <2>1, <3>1, <3>2 DEF Coming
      <4>2. Coming = published - Len(inbox) + 1
        BY DEF Coming
      <4>3. published \in Int
        BY <1>1
      <4> HIDE DEF inbox
      <4> QED BY <1>1, <4>1, <4>2, <4>3
    <3>6. RoundFits'
      BY <1>2, <2>1, <3>1, <3>5 DEF TypeInv, RoundFits, NoRound
    <3>7. EndsWith(Append(inbox, published'), published')
      <4>1. EndsWith(Append(inbox, published + 1), published + 1)
        BY <1>1, <2>1, RunGrows
      <4> QED BY <2>1, <4>1
    <3>8. InboxFits'
      BY <3>1, <3>7 DEF InboxFits
    <3> QED BY <1>3, <3>4, <3>6, <3>8 DEF TypeInv
  <2>3. CASE subscription.state # "listening"
    <3>1. UNCHANGED subscription /\ inbox = <<>>
      BY <1>4, <2>3 DEF Publish, TypeInv, InboxFits
    <3>2. TypeOK'
      BY <1>2, <2>1, <3>1 DEF TypeInv, TypeOK, Events
    <3>3. RoundFits'
      BY <1>2, <2>1, <2>3, <3>1 DEF TypeInv, RoundFits, NoRound
    <3>4. InboxFits'
      BY <2>3, <3>1, EmptyRun DEF InboxFits
    <3> QED BY <1>3, <3>2, <3>3, <3>4 DEF TypeInv
  <2> QED BY <2>2, <2>3
<1>5. CASE Listen
  <2>1. subscription' = [state |-> "listening", inbox |-> <<>>] /\ UNCHANGED <<published, round>>
    BY <1>1, <1>5 DEF Listen, Subscription, TypeInv, InboxFits
  <2>2. subscription' \in Subscription
    BY <2>1 DEF Subscription
  <2>3. TypeOK'
    BY <1>2, <2>1, <2>2 DEF TypeInv, TypeOK
  <2>4. round = NoRound
    BY <1>5 DEF Listen, TypeInv, RoundFits
  <2>5. RoundFits' /\ InboxFits'
    BY <2>1, <2>4, EmptyRun DEF RoundFits, NoRound, InboxFits
  <2> QED BY <1>3, <2>3, <2>5 DEF TypeInv
<1>6. CASE Take
  <2>1. /\ inbox # <<>> /\ subscription' = [subscription EXCEPT !.inbox = Tail(inbox)]
        /\ UNCHANGED published
    BY <1>6 DEF Take
  <2>2. subscription.state = "listening"
    BY <2>1 DEF TypeInv, InboxFits
  <2>3. subscription' = [state |-> "listening", inbox |-> Tail(inbox)]
    BY <1>1, <2>1, <2>2 DEF Subscription
  <2>4. /\ Tail(inbox) \in Seq(Events) /\ Len(Tail(inbox)) = Len(inbox) - 1
        /\ Head(inbox) \in Events /\ Head(inbox) = published - Len(inbox) + 1
        /\ EndsWith(Tail(inbox), published)
    BY <1>1, <2>1, RunShrinks
  <2>6. subscription' \in Subscription
    BY <2>3, <2>4 DEF Subscription
  <2>7. InboxFits'
    BY <2>1, <2>3, <2>4 DEF InboxFits
  <2>8. Head(inbox) = Coming /\ Coming' = Coming + 1 /\ Coming \in Int
    BY <1>1, <2>1, <2>3, <2>4 DEF Coming
  <2>9. CASE registry = {}
    BY <1>2, <1>3, <1>6, <2>1, <2>6, <2>7, <2>9
       DEF Take, TypeInv, TypeOK, RoundFits, NoRound, Round
  <2>10. CASE registry # {}
    <3> DEFINE r == [event |-> Head(inbox), stage |-> "checking", snapshot |-> registry,
                     left |-> registry, revoked |-> {}, dead |-> {}]
    <3>1. round' = r
      BY <1>6, <2>10 DEF Take, NoRound
    <3>2. registry \subseteq Sockets /\ \A s \in registry : socket[s].pc \in Registered
      BY DEF TypeInv, TypeOK, Registered
    <3>3. r \in Round
      BY <2>4, <3>2 DEF Round
    <3>4. TypeOK'
      BY <1>2, <2>1, <2>6, <3>1, <3>3 DEF TypeInv, TypeOK
    <3>5. RoundFits'
      BY <1>2, <2>3, <2>4, <2>8, <3>1, <3>2 DEF RoundFits, Known, Registered
    <3> QED BY <1>3, <2>7, <3>4, <3>5 DEF TypeInv
  <2> QED BY <2>9, <2>10
<1> QED BY <1>4, <1>5, <1>6

(* The steps of a round.                                                   *)
LEMMA RoundKeepsTypes ==
  ASSUME TypeInv, NEW s \in Sockets, Check(s) \/ Close(s) \/ Send(s)
  PROVE  TypeInv'
<1>1. UNCHANGED <<removed, published, subscription>>
  BY DEF Check, Close, Send
<1>2. InboxFits' /\ Coming' = Coming
  BY <1>1 DEF TypeInv, InboxFits, Coming
<1>3. CASE Check(s)
  <2>1. UNCHANGED <<socket, registry>>
    BY <1>3 DEF Check
  <2>2. SocketFits' /\ TypeOK'
    BY <1>1, <1>3, <2>1, Checked DEF TypeInv, SocketFits, TypeOK
  <2>3. RoundFits'
    BY <1>1, <1>2, <1>3, <2>1, Checked DEF TypeInv, RoundFits, TypeOK
  <2> QED BY <1>2, <2>2, <2>3 DEF TypeInv
<1>4. CASE Close(s)
  <2>1. registry' = registry \ {s}
    BY <1>4 DEF Close
  <2>2. SocketFits' /\ TypeOK'
    BY <1>1, <1>4, <2>1, Closed, CloseEnds DEF TypeInv, SocketFits, TypeOK
  <2>3. \A q \in Sockets : socket'[q].pc = socket[q].pc
    BY <1>4, CloseEnds
  <2>4. RoundFits'
    BY <1>1, <1>2, <1>4, <2>1, <2>3, Closed DEF TypeInv, RoundFits, TypeOK
  <2> QED BY <1>2, <2>2, <2>4 DEF TypeInv
<1>5. CASE Send(s)
  <2>1. registry' = registry /\ round.event \in Events
    BY <1>5 DEF Send, TypeInv, RoundFits
  <2>2. /\ \A q \in Sockets : socket'[q].pc = socket[q].pc /\ socket'[q].user = socket[q].user
        /\ socket' \in [Sockets -> Socket]
        /\ \A q \in Sockets \ registry : socket'[q] = socket[q]
    BY <1>5, <2>1, Sent, Written DEF TypeInv, TypeOK
  <2>3. SocketFits'
    BY <2>2 DEF TypeInv, TypeOK, SocketFits, Before
  <2>4. TypeOK'
    BY <1>1, <1>5, <2>1, <2>2, Sent DEF TypeInv, TypeOK
  <2>5. RoundFits'
    BY <1>1, <1>2, <1>5, <2>1, <2>2, Sent DEF TypeInv, RoundFits, TypeOK
  <2> QED BY <1>2, <2>3, <2>4, <2>5 DEF TypeInv
<1> QED BY <1>3, <1>4, <1>5

LEMMA FinishKeepsTypes ==
  ASSUME TypeInv, Finish
  PROVE  TypeInv'
<1>1. UNCHANGED <<socket, removed, published, subscription>> /\ round' = NoRound
      /\ registry' \subseteq registry
  BY DEF Finish, Survivors
<1>2. TypeOK'
  BY <1>1 DEF TypeInv, TypeOK, NoRound, Round
<1> QED BY <1>1, <1>2 DEF TypeInv, RoundFits, SocketFits, InboxFits, NoRound, Coming

LEMMA RemoveKeepsTypes ==
  ASSUME TypeInv, NEW u \in Users, RemoveUser(u)
  PROVE  TypeInv'
<1>1. UNCHANGED <<socket, published, registry, subscription, round>>
      /\ removed' \in [Users -> 0..MaxEvents \union {None}]
  BY DEF TypeInv, TypeOK, RemoveUser
<1> QED BY <1>1 DEF TypeInv, TypeOK, RoundFits, SocketFits, InboxFits, NoRound, Coming

LEMMA TypesKept == TypeInv /\ [Next]_vars => TypeInv'
<1> SUFFICES ASSUME TypeInv, [Next]_vars PROVE TypeInv'
  OBVIOUS
<1>1. CASE UNCHANGED vars
  BY <1>1 DEF vars, TypeInv, TypeOK, RoundFits, SocketFits, InboxFits, NoRound, Coming
<1> QED BY <1>1, EndpointsKeepTypes, ConnectKeepsTypes, DisconnectKeepsTypes,
           SubscriptionKeepsTypes, RoundKeepsTypes, FinishKeepsTypes, RemoveKeepsTypes
        DEF Next

LEMMA TypesHold == Spec => []TypeInv
<1>1. Init => TypeInv
  <2> SUFFICES ASSUME Init PROVE TypeInv
    OBVIOUS
  <2>1. socket \in [Sockets -> Socket] /\ \A s \in Sockets : socket[s].sent = <<>> /\ socket[s].pc = "new"
    BY DEF Init, Socket
  <2>2. NoSubscription \in Subscription /\ NoRound \in Round
    BY DEF NoSubscription, Subscription, NoRound, Round
  <2>3. published \in 0..MaxEvents /\ removed \in [Users -> 0..MaxEvents \union {None}]
    BY BroadcastAssumption DEF Init
  <2>4. TypeOK
    BY <2>1, <2>2, <2>3 DEF Init, TypeOK, NoRound
  <2>5. RoundFits /\ SocketFits
    BY <2>1 DEF Init, RoundFits, SocketFits, NoRound
  <2>6. InboxFits
    BY EmptyRun DEF Init, InboxFits, NoSubscription
  <2> QED BY <2>4, <2>5, <2>6 DEF TypeInv
<1> QED BY <1>1, TypesKept, PTL DEF Spec

(* The types of the connections, the subscription and the round, and that  *)
(* a registered connection is one whose endpoint serves it or failed: one  *)
(* that was told of the end of its connection is not left there.           *)
THEOREM TypeCorrect == Spec => []TypeOK
<1>1. TypeInv => TypeOK
  BY DEF TypeInv
<1> QED BY <1>1, TypesHold, PTL
-----------------------------------------------------------------------------
(* What the steps of an endpoint have in common.                           *)
LEMMA EndpointSteps ==
  ASSUME TypeInv, NEW s \in Sockets,
         Open(s) \/ Authorize(s) \/ Connect(s) \/ Disconnect(s) \/ Leave(s)
         \/ EndpointFails(s)
  PROVE  /\ UNCHANGED <<removed, published>>
         /\ \A q \in Sockets : /\ socket'[q].sent = socket[q].sent
                               /\ socket[q].gone => socket'[q].gone
                               /\ \/ socket'[q].user = socket[q].user
                                  \/ socket[q].sent = <<>> /\ q \notin round.snapshot
         /\ UNCHANGED round \/ (round' = NoRound /\ registry' = {})
         /\ \/ registry' \subseteq registry
            \/ registry' = registry \union {s} /\ socket[s].sent = <<>>
         /\ UNCHANGED subscription \/ registry' = {} \/ subscription.state = "none"
<1>1. /\ \A q \in round.snapshot : socket[q].pc \in Known
      /\ socket[s].pc \in Before => socket[s].sent = <<>>
  BY DEF TypeInv, RoundFits, SocketFits
<1>2. CASE Open(s)
  BY <1>1, <1>2, Opened DEF Open, Before, Known
<1>3. CASE Authorize(s)
  <2>1. SetSocket(s, "admitted") \/ SetSocket(s, "done")
    BY <1>3 DEF Authorize
  <2> QED BY <1>3, <2>1, EndpointMoves DEF Authorize
<1>4. CASE Connect(s)
  <2>1. SetSocket(s, "serving") \/ SetSocket(s, "done")
    BY <1>4 DEF Connect
  <2>2. /\ UNCHANGED <<removed, published, round>>
        /\ registry' = registry \/ registry' = registry \union {s}
        /\ UNCHANGED subscription \/ subscription.state = "none"
        /\ socket[s].pc = "admitted"
    BY <1>4 DEF Connect
  <2> QED BY <1>1, <2>1, <2>2, EndpointMoves DEF Before
<1>5. CASE Disconnect(s)
  <2>1. /\ SetSocket(s, "done") /\ registry' = registry \ {s}
        /\ UNCHANGED <<removed, published>>
        /\ UNCHANGED <<subscription, round>> \/ (round' = NoRound /\ registry' = {})
    BY <1>5 DEF Disconnect, WasLast
  <2> QED BY <2>1, EndpointMoves
<1>6. CASE Leave(s)
  <2>1. TRUE \in BOOLEAN /\ socket' = [socket EXCEPT ![s].gone = TRUE]
    BY <1>6 DEF Leave
  <2>2. /\ socket'[s].gone /\ socket'[s].user = socket[s].user
        /\ socket'[s].sent = socket[s].sent
        /\ \A q \in Sockets \ {s} : socket'[q] = socket[q]
    BY <2>1, Ends
  <2> QED BY <1>6, <2>2 DEF Leave
<1>7. CASE EndpointFails(s)
  BY <1>7, Fails
<1> QED BY <1>2, <1>3, <1>4, <1>5, <1>6, <1>7

(* The event of a round and the inbox only hold what was published.        *)
LEMMA EventIsPast ==
  ASSUME TypeInv, round.stage # "idle"
  PROVE  round.event \in Events /\ round.event <= published
<1> DEFINE n == Len(subscription.inbox)
<1>1. n \in Nat /\ published \in Int
  BY LenProperties DEF TypeInv, TypeOK, Subscription
<1>2. round.event \in Events /\ round.event = (published - n + 1) - 1
  BY DEF TypeInv, RoundFits, Coming
<1>3. round.event \in Int
  BY <1>2, BroadcastAssumption DEF Events
<1> HIDE DEF n
<1> QED BY <1>1, <1>2, <1>3

(* Nothing sent is younger than the last event; whoever a round has let    *)
(* through may view the project or was removed after its event.            *)
Cleared(s) == MayView(s) \/ round.event <= removed[socket[s].user]

Given ==
  /\ NothingAfterRemoval
  /\ \A s \in Sockets : \A k \in DOMAIN socket[s].sent : socket[s].sent[k] <= published
  /\ \A s \in round.snapshot \ round.revoked :
       (round.stage = "checking" => s \notin round.left) => Cleared(s)

LEMMA GivenKept ==
  ASSUME TypeInv, Given, [Next]_vars
  PROVE  Given'
<1> USE DEF Given, NothingAfterRemoval, Cleared, MayView
<1>1. /\ \A q \in Sockets : \A k \in DOMAIN socket[q].sent : socket[q].sent[k] \in Int
      /\ published \in Int /\ \A u \in Users : removed[u] = None \/ removed[u] \in Int
      /\ round.snapshot \subseteq Sockets
  BY BroadcastAssumption DEF TypeInv, TypeOK, Socket, Events, Round
<1>2. ASSUME NEW s \in Sockets,
             Open(s) \/ Authorize(s) \/ Connect(s) \/ Disconnect(s) \/ Leave(s)
             \/ EndpointFails(s)
      PROVE  Given'
  <2>1. UNCHANGED round \/ round'.snapshot = {}
    BY <1>2, EndpointSteps DEF NoRound
  <2>2. \A q \in Sockets : \A k \in DOMAIN socket'[q].sent :
          MayView(q)' \/ socket'[q].sent[k] <= removed'[socket'[q].user]
    BY <1>2, EndpointSteps
  <2>3. \A q \in Sockets : \A k \in DOMAIN socket'[q].sent : socket'[q].sent[k] <= published'
    BY <1>2, EndpointSteps
  <2>4. \A q \in round'.snapshot \ round'.revoked :
          (round'.stage = "checking" => q \notin round'.left) => Cleared(q)'
    BY <1>1, <1>2, <2>1, EndpointSteps
  <2> QED BY <2>2, <2>3, <2>4
<1>3. ASSUME NEW u \in Users, RemoveUser(u)
      PROVE  Given'
  <2>1. /\ UNCHANGED <<socket, published, registry, subscription, round>>
        /\ removed[u] = None /\ removed'[u] = published
        /\ \A v \in Users \ {u} : removed'[v] = removed[v]
    BY <1>3 DEF RemoveUser, TypeInv, TypeOK
  <2>2. \A q \in Sockets : socket[q].user \in Users \/ socket[q].sent = <<>>
    BY DEF TypeInv, SocketFits, Before
  <2>3. \A q \in round.snapshot : socket[q].user \in Users
    BY <1>1 DEF TypeInv, RoundFits, SocketFits, Known
  <2>4. round.snapshot # {} => round.event <= published
    BY EventIsPast DEF TypeInv, RoundFits, NoRound
  <2>5. \A q \in Sockets : \A k \in DOMAIN socket'[q].sent :
          MayView(q)' \/ socket'[q].sent[k] <= removed'[socket'[q].user]
    BY <2>1, <2>2
  <2>6. \A q \in round'.snapshot \ round'.revoked :
          (round'.stage = "checking" => q \notin round'.left) => Cleared(q)'
    BY <1>1, <2>1, <2>3, <2>4
  <2> QED BY <2>1, <2>5, <2>6
<1>4. CASE Publish \/ Listen
  <2>1. UNCHANGED <<socket, removed, registry, round>> /\ published' \in {published, published + 1}
    BY <1>4 DEF Publish, Listen
  <2> QED BY <1>1, <2>1
<1>5. CASE Take
  <2>1. /\ UNCHANGED <<socket, removed, published, registry>>
        /\ \/ round'.snapshot = {}
           \/ round'.stage = "checking" /\ round'.left = round'.snapshot
    BY <1>5 DEF Take, NoRound
  <2> QED BY <2>1
<1>6. ASSUME NEW s \in Sockets, Check(s)
      PROVE  Given'
  <2>1. UNCHANGED <<socket, removed, published, registry, subscription>>
    BY <1>6 DEF Check
  <2>2. \A q \in round'.snapshot \ round'.revoked :
          (round'.stage = "checking" => q \notin round'.left) => Cleared(q)'
    BY <1>6, <2>1, Checked DEF Verifies
  <2> QED BY <2>1, <2>2
<1>7. ASSUME NEW s \in Sockets, Close(s)
      PROVE  Given'
  <2>1. UNCHANGED <<removed, published, subscription>>
    BY <1>7 DEF Close
  <2>2. \A q \in Sockets : socket'[q].user = socket[q].user /\ socket'[q].sent = socket[q].sent
    BY <1>7, CloseEnds
  <2>3. \A q \in round'.snapshot \ round'.revoked : Cleared(q)'
    BY <1>1, <1>7, <2>1, <2>2, Closed
  <2> QED BY <2>1, <2>2, <2>3
<1>8. ASSUME NEW s \in Sockets, Send(s)
      PROVE  Given'
  <2>1. UNCHANGED <<removed, published, registry, subscription>>
    BY <1>8 DEF Send
  <2>2. round.event \in Events /\ round.event <= published /\ round.event \in Int
    BY <1>8, EventIsPast, BroadcastAssumption DEF Send, Events
  <2>3. \A q \in Sockets : socket'[q].user = socket[q].user
    BY <1>8, <2>2, Sent, Written
  <2>4. \A q \in round'.snapshot \ round'.revoked : Cleared(q)'
    BY <1>1, <1>8, <2>1, <2>3, Sent
  <2>5. CASE UNCHANGED socket
    BY <2>1, <2>4, <2>5
  <2>6. CASE s \in registry /\ socket' = [socket EXCEPT ![s].sent = Append(@, round.event)]
    <3> DEFINE new == socket'[s].sent
               old == socket[s].sent
    <3>1. /\ new = Append(old, round.event) /\ old \in Seq(Events)
          /\ \A q \in Sockets \ {s} : socket'[q] = socket[q]
      BY <2>2, <2>6, Written DEF TypeInv, TypeOK, Socket
    <3>2. s \notin round.revoked /\ s \in round.snapshot
      BY <1>8, <2>6, Sent DEF TypeInv, RoundFits
    <3>3. Cleared(s)
      BY <1>8, <3>2, Sent
    <3> HIDE DEF new, old
    <3>4. \A k \in DOMAIN new : (k \in DOMAIN old /\ new[k] = old[k]) \/ new[k] = round.event
      <4>1. Len(old) \in Nat /\ DOMAIN old = 1..Len(old) /\ DOMAIN new = 1..(Len(old) + 1)
        BY <2>2, <3>1, AppendProperties, LenProperties
      <4>2. \A k \in 1..Len(old) : new[k] = old[k]
        BY <2>2, <3>1, AppendProperties
      <4>3. new[Len(old) + 1] = round.event
        BY <2>2, <3>1, AppendProperties
      <4> QED BY <4>1, <4>2, <4>3
    <3>5. \A q \in Sockets : \A k \in DOMAIN socket'[q].sent :
            /\ MayView(q)' \/ socket'[q].sent[k] <= removed'[socket'[q].user]
            /\ socket'[q].sent[k] <= published'
      <4> SUFFICES ASSUME NEW q \in Sockets, NEW k \in DOMAIN socket'[q].sent
                   PROVE  /\ MayView(q)' \/ socket'[q].sent[k] <= removed'[socket'[q].user]
                          /\ socket'[q].sent[k] <= published'
        OBVIOUS
      <4>1. CASE q # s
        BY <2>1, <3>1, <4>1
      <4>2. CASE q = s
        BY <2>1, <2>2, <2>3, <3>3, <3>4, <4>2 DEF new, old
      <4> QED BY <4>1, <4>2
    <3> QED BY <2>4, <3>5
  <2> QED BY <1>8, <2>5, <2>6, Sent
<1>9. CASE Finish
  <2>1. UNCHANGED <<socket, removed, published, subscription>> /\ round'.snapshot = {}
    BY <1>9 DEF Finish, NoRound
  <2> QED BY <2>1
<1>10. CASE UNCHANGED vars
  BY <1>10 DEF vars
<1> QED BY <1>2, <1>3, <1>4, <1>5, <1>6, <1>7, <1>8, <1>9, <1>10 DEF Next

(* task_ws.py: what was published after a user was removed is never sent   *)
(* to that user, for any number of connections, users and events.          *)
THEOREM NothingAfterRemovalHolds == Spec => []NothingAfterRemoval
<1>1. Init => Given
  <2> SUFFICES ASSUME Init PROVE Given
    OBVIOUS
  <2>1. \A s \in Sockets : socket[s].sent = <<>>
    BY DEF Init
  <2>2. round.snapshot = {}
    BY DEF Init, NoRound
  <2> QED BY <2>1, <2>2 DEF Given, NothingAfterRemoval
<1>2. Given => NothingAfterRemoval
  BY DEF Given
<1>3. TypeInv /\ Given /\ [Next]_vars => Given'
  BY GivenKept
<1> QED BY <1>1, <1>2, <1>3, TypesHold, PTL DEF Spec
-----------------------------------------------------------------------------
(* Whoever was found dead in this round has gone.                          *)
DeadGone == \A s \in round.dead : socket[s].gone

Matched == SubscriptionMatches /\ DeadGone

LEMMA MatchedKept ==
  ASSUME TypeInv, Matched, [Next]_vars
  PROVE  Matched'
<1> USE DEF Matched, SubscriptionMatches, DeadGone, Registered
<1>1. /\ \A q \in registry : q \in Sockets /\ socket[q].pc \in Registered
      /\ round.dead \subseteq Sockets
  BY DEF TypeInv, TypeOK, Round, Registered
<1>2. ASSUME NEW s \in Sockets, Open(s) \/ Authorize(s) \/ Leave(s)
      PROVE  Matched'
  <2>1. UNCHANGED <<registry, subscription, round>>
    BY <1>2 DEF Open, Authorize, Leave
  <2>2. \A q \in Sockets : /\ socket'[q].pc = "serving" <=> socket[q].pc = "serving"
                           /\ socket'[q].pc = "failed" <=> socket[q].pc = "failed"
    <3>1. CASE Open(s)
      BY <3>1, Opened
    <3>2. CASE Authorize(s)
      <4>1. socket[s].pc = "asking" /\ (SetSocket(s, "admitted") \/ SetSocket(s, "done"))
        BY <3>2 DEF Authorize
      <4> QED BY <4>1, EndpointMoves
    <3>3. CASE Leave(s)
      <4>1. TRUE \in BOOLEAN /\ socket' = [socket EXCEPT ![s].gone = TRUE]
        BY <3>3 DEF Leave
      <4> QED BY <4>1, Ends
    <3> QED BY <1>2, <3>1, <3>2, <3>3
  <2>3. \A q \in Sockets : socket[q].gone => socket'[q].gone
    BY <1>2, EndpointSteps
  <2> QED BY <1>1, <2>1, <2>2, <2>3
<1>3. ASSUME NEW s \in Sockets, Connect(s)
      PROVE  Matched'
  <2>1. UNCHANGED round /\ \A q \in Sockets : socket[q].gone => socket'[q].gone
    BY <1>3, EndpointSteps DEF Connect
  <2>2. CASE /\ SetSocket(s, "serving") /\ registry' = registry \union {s}
             /\ subscription'.state # "none"
    BY <1>1, <2>1, <2>2, EndpointMoves
  <2>3. CASE SetSocket(s, "done") /\ UNCHANGED <<registry, subscription>>
    <3>1. socket[s].pc = "admitted"
      BY <1>3 DEF Connect
    <3> QED BY <1>1, <2>1, <2>3, <3>1, EndpointMoves
  <2>4. subscription.state = "none" => subscription'.state = "starting" \/ UNCHANGED subscription
    BY <1>3 DEF Connect, NoSubscription
  <2> QED BY <1>3, <2>2, <2>3 DEF Connect, NoSubscription
<1>4. ASSUME NEW s \in Sockets, Disconnect(s)
      PROVE  Matched'
  <2>1. SetSocket(s, "done") /\ registry' = registry \ {s}
    BY <1>4 DEF Disconnect
  <2>2. \A q \in Sockets : socket[q].gone => socket'[q].gone
    BY <1>4, EndpointSteps
  <2>3. CASE registry \subseteq {s} /\ subscription' = NoSubscription /\ round' = NoRound
    BY <1>1, <2>1, <2>2, <2>3, EndpointMoves DEF NoSubscription, NoRound
  <2>4. CASE ~(registry \subseteq {s}) /\ UNCHANGED <<subscription, round>>
    <3>1. PICK q \in registry : q # s
      BY <2>4
    <3>2. q \in Sockets \ {s} /\ socket'[q].pc \in Registered
      BY <1>1, <2>1, <3>1, EndpointMoves
    <3> QED BY <1>1, <2>1, <2>2, <2>4, <3>2, EndpointMoves
  <2> QED BY <1>4, <2>3, <2>4 DEF Disconnect, WasLast
<1>5. ASSUME NEW u \in Users, RemoveUser(u)
      PROVE  Matched'
  BY <1>5 DEF RemoveUser
<1>6. CASE Publish \/ Listen \/ Take
  <2>1. UNCHANGED <<socket, registry>> /\ (UNCHANGED round \/ round'.dead = {})
    <3>1. CASE Take
      <4> DEFINE e == Head(subscription.inbox)
      <4>1. \/ round' = NoRound
            \/ round' = [NoRound EXCEPT !.event = e, !.stage = "checking",
                                       !.snapshot = registry, !.left = registry]
        BY <3>1 DEF Take
      <4> HIDE DEF e
      <4>2. NoRound.dead = {}
        BY DEF NoRound
      <4>3. [NoRound EXCEPT !.event = e, !.stage = "checking", !.snapshot = registry,
                            !.left = registry].dead = {}
        BY DEF NoRound
      <4>4. round'.dead = {}
        BY <4>1, <4>2, <4>3
      <4> QED BY <3>1, <4>4 DEF Take
    <3> QED BY <1>6, <3>1 DEF Publish, Listen
  <2>2. subscription'.state = "none" <=> subscription.state = "none"
    BY <1>6 DEF Publish, Listen, Take, TypeInv, TypeOK, Subscription
  <2> QED BY <2>1, <2>2
<1>7. ASSUME NEW s \in Sockets, Check(s)
      PROVE  Matched'
  BY <1>7, Checked DEF Check
<1>8. ASSUME NEW s \in Sockets, Close(s)
      PROVE  Matched'
  <2>1. registry' = registry \ {s} /\ UNCHANGED subscription
    BY <1>8 DEF Close
  <2>2. \A q \in Sockets : /\ socket'[q].pc = socket[q].pc
                           /\ socket'[q].gone = (socket[q].gone \/ (q = s /\ q \in registry))
    BY <1>8, CloseEnds DEF TypeInv, TypeOK, Socket
  <2>3. round'.dead = round.dead
    BY <1>8, Closed
  <2> QED BY <1>1, <2>1, <2>2, <2>3
<1>9. ASSUME NEW s \in Sockets, Send(s)
      PROVE  Matched'
  <2>1. UNCHANGED <<registry, subscription>> /\ round.event \in Events
    BY <1>9, EventIsPast DEF Send
  <2>2. \A q \in Sockets : socket'[q].pc = socket[q].pc /\ socket'[q].gone = socket[q].gone
    BY <1>9, <2>1, Sent, Written
  <2>3. \A q \in round'.dead : q \in Sockets /\ (q \in round.dead \/ socket[q].gone)
    BY <1>1, <1>9, Sent
  <2>4. \A q \in round'.dead : socket'[q].gone
    BY <2>2, <2>3
  <2>5. SubscriptionMatches'
    BY <1>1, <2>1, <2>2
  <2> QED BY <2>4, <2>5
<1>10. CASE Finish
  BY <1>1, <1>10 DEF Finish, Survivors, NoRound
<1>11. CASE UNCHANGED vars
  BY <1>11 DEF vars
<1>12. ASSUME NEW s \in Sockets, EndpointFails(s)
       PROVE  Matched'
  BY <1>1, <1>12, Fails
<1> QED BY <1>2, <1>3, <1>4, <1>5, <1>6, <1>7, <1>8, <1>9, <1>10, <1>11, <1>12 DEF Next

(* task_ws.py: an open connection is never lost from the registry, the     *)
(* project is subscribed to as long as one is registered, whoever          *)
(* disconnects and whatever endpoints failed, and the subscription ends    *)
(* with the last endpoint unless an endpoint failed.                       *)
THEOREM SubscriptionMatchesHolds == Spec => []SubscriptionMatches
<1>1. Init => Matched
  BY DEF Init, Matched, SubscriptionMatches, DeadGone, NoSubscription, NoRound
<1>2. Matched => SubscriptionMatches
  BY DEF Matched
<1>3. TypeInv /\ Matched /\ [Next]_vars => Matched'
  BY MatchedKept
<1> QED BY <1>1, <1>2, <1>3, TypesHold, PTL DEF Spec
-----------------------------------------------------------------------------
(* The event a registered connection that has been sent any is due next.   *)
Expected(s) == IF round.stage = "idle" THEN Coming
               ELSE IF round.stage = "sending" /\ s \notin round.left THEN round.event + 1
               ELSE round.event

OnTime(s) == socket[s].sent # <<>> =>
               /\ socket[s].sent[Len(socket[s].sent)] = Expected(s) - 1
               /\ subscription.state = "listening"
               /\ round.stage # "idle" => s \in round.snapshot

Ordered == /\ InSequence
           /\ \A s \in registry \ round.dead : OnTime(s)
           /\ round.dead \intersect round.left = {}
           /\ round.stage # "sending" => round.dead = {}

LEMMA RunIsExtended ==
  ASSUME NEW q \in Seq(Events), NEW e \in Events,
         \A k \in 2..Len(q) : q[k] = q[k - 1] + 1, q = <<>> \/ q[Len(q)] = e - 1
  PROVE  /\ \A k \in 2..Len(Append(q, e)) : Append(q, e)[k] = Append(q, e)[k - 1] + 1
         /\ Append(q, e)[Len(Append(q, e))] = e /\ Append(q, e) # <<>>
<1> DEFINE n == Append(q, e)
<1>1. Len(q) \in Nat /\ Len(n) = Len(q) + 1 /\ n[Len(q) + 1] = e /\ e \in Int
  BY AppendProperties, LenProperties, BroadcastAssumption DEF Events
<1>2. \A k \in 1..Len(q) : n[k] = q[k]
  BY AppendProperties
<1>3. q = <<>> \/ Len(q) >= 1
  BY LenProperties
<1>4. q = <<>> => Len(q) = 0
  OBVIOUS
<1>5. n # <<>>
  BY AppendProperties
<1> HIDE DEF n
<1>6. ASSUME NEW k \in 2..Len(n)
      PROVE  n[k] = n[k - 1] + 1
  <2>1. CASE k \in 2..Len(q)
    <3>1. k \in 1..Len(q) /\ k - 1 \in 1..Len(q) /\ q[k] = q[k - 1] + 1
      BY <1>1, <2>1
    <3> QED BY <1>2, <3>1
  <2>2. CASE k = Len(q) + 1
    <3>1. Len(q) >= 1 /\ q[Len(q)] = e - 1 /\ k - 1 = Len(q) /\ Len(q) \in 1..Len(q)
      BY <1>1, <1>3, <1>4, <2>2
    <3>2. n[k - 1] = e - 1 /\ n[k] = e
      BY <1>1, <1>2, <2>2, <3>1
    <3> QED BY <1>1, <3>2
  <2> QED BY <1>1, <2>1, <2>2
<1> QED BY <1>1, <1>5, <1>6 DEF n

(* An event that is published waits behind the others in the inbox.        *)
LEMMA ComingStays ==
  ASSUME TypeInv, Publish, subscription.state = "listening"
  PROVE  Coming' = Coming /\ subscription'.state = "listening"
<1> DEFINE inbox == subscription.inbox
<1>1. inbox \in Seq(Events) /\ published \in 0..MaxEvents /\ subscription \in Subscription
      /\ MaxEvents \in Nat
  BY BroadcastAssumption DEF TypeInv, TypeOK, Subscription
<1>2. published' = published + 1 /\ published' \in Events
  BY <1>1 DEF Publish, Events
<1>3. subscription' = [state |-> "listening", inbox |-> Append(inbox, published')]
  BY <1>1 DEF Publish, Subscription
<1>4. Len(Append(inbox, published')) = Len(inbox) + 1 /\ Len(inbox) \in Nat
  BY <1>1, <1>2, AppendProperties, LenProperties
<1>5. Coming' = (published + 1) - (Len(inbox) + 1) + 1 /\ Coming = published - Len(inbox) + 1
  BY <1>2, <1>3, <1>4 DEF Coming
<1>6. published \in Int
  BY <1>1
<1> HIDE DEF inbox
<1> QED BY <1>3, <1>4, <1>5, <1>6

(* The first event of the inbox, when somebody is there to get it.         *)
LEMMA Taken ==
  ASSUME TypeInv, Take, registry # {}
  PROVE  /\ round'.event = Coming /\ round'.stage = "checking" /\ round'.snapshot = registry
         /\ round'.left = registry /\ round'.revoked = {} /\ round'.dead = {}
         /\ subscription'.state = subscription.state
<1> DEFINE e == Head(subscription.inbox)
<1>1. e = Coming
  BY RunShrinks DEF Take, TypeInv, TypeOK, InboxFits, Subscription, Coming
<1>2. round' = [NoRound EXCEPT !.event = e, !.stage = "checking",
                               !.snapshot = registry, !.left = registry]
  BY DEF Take
<1>3. subscription'.state = subscription.state
  BY DEF Take, TypeInv, TypeOK, Subscription
<1> HIDE DEF e
<1> QED BY <1>1, <1>2, <1>3 DEF NoRound

LEMMA OrderedKept ==
  ASSUME TypeInv, Ordered, [Next]_vars
  PROVE  Ordered'
<1>1. /\ registry \subseteq Sockets /\ round.dead \subseteq round.snapshot
      /\ round.stage = "idle" => round = NoRound
  BY DEF TypeInv, TypeOK, RoundFits
<1>2. ASSUME NEW s \in Sockets,
             Open(s) \/ Authorize(s) \/ Connect(s) \/ Disconnect(s) \/ Leave(s)
             \/ EndpointFails(s)
      PROVE  Ordered'
  <2>1. /\ UNCHANGED published
        /\ \A q \in Sockets : socket'[q].sent = socket[q].sent
    BY <1>2, EndpointSteps
  <2>2. InSequence'
    BY <2>1 DEF Ordered, InSequence
  <2>3. CASE registry' = {} /\ round' = NoRound
    BY <2>2, <2>3 DEF Ordered, NoRound
  <2>4. CASE UNCHANGED round /\ registry' # {}
    <3>1. UNCHANGED subscription \/ subscription.state = "none"
      BY <1>2, <2>4, EndpointSteps
    <3>2. \A q \in registry' \ round'.dead : q \in registry \/ socket'[q].sent = <<>>
      BY <1>2, <2>1, EndpointSteps
    <3>3. \A q \in registry' \ round'.dead : socket'[q].sent = <<>> \/ (OnTime(q) /\ q \in Sockets)
      BY <1>1, <2>4, <3>2 DEF Ordered
    <3>4. \A q \in registry' \ round'.dead : OnTime(q)'
      BY <2>1, <2>4, <3>1, <3>3 DEF OnTime, Expected, Coming
    <3> QED BY <2>2, <2>4, <3>4 DEF Ordered
  <2>5. CASE UNCHANGED round /\ registry' = {}
    BY <2>2, <2>5 DEF Ordered
  <2> QED BY <1>2, <2>3, <2>4, <2>5, EndpointSteps
<1>3. ASSUME NEW u \in Users, RemoveUser(u)
      PROVE  Ordered'
  BY <1>3 DEF RemoveUser, Ordered, InSequence, OnTime, Expected, Coming
<1>4. CASE Publish \/ Listen
  <2>1. UNCHANGED <<socket, registry, round>>
    BY <1>4 DEF Publish, Listen
  <2>2. subscription.state = "listening" => Coming' = Coming /\ subscription'.state = "listening"
    <3> SUFFICES ASSUME Publish, subscription.state = "listening"
                 PROVE  Coming' = Coming /\ subscription'.state = "listening"
      BY <1>4 DEF Listen
    <3> QED BY ComingStays
  <2> QED BY <1>1, <2>1, <2>2 DEF Ordered, InSequence, OnTime, Expected
<1>5. CASE Take
  <2>1. UNCHANGED <<socket, registry>> /\ round = NoRound
    BY <1>1, <1>5 DEF Take
  <2>2. InSequence'
    BY <2>1 DEF Ordered, InSequence
  <2>3. CASE registry = {}
    BY <1>5, <2>1, <2>2, <2>3 DEF Take, Ordered, NoRound
  <2>4. CASE registry # {}
    <3>1. /\ round'.event = Coming /\ round'.stage = "checking" /\ round'.snapshot = registry
          /\ round'.dead = {} /\ subscription'.state = subscription.state
      BY <1>5, <2>4, Taken
    <3>2. \A q \in registry : OnTime(q)
      BY <2>1 DEF Ordered, NoRound
    <3>3. \A q \in registry : OnTime(q)'
      BY <2>1, <3>1, <3>2 DEF OnTime, Expected, NoRound
    <3> QED BY <2>1, <2>2, <3>1, <3>3 DEF Ordered
  <2> QED BY <2>3, <2>4
<1>6. ASSUME NEW s \in Sockets, Check(s) \/ Close(s)
      PROVE  Ordered'
  <2>1. UNCHANGED <<published, subscription>> /\ registry' \subseteq registry
    BY <1>6 DEF Check, Close
  <2>2. \A q \in Sockets : socket'[q].sent = socket[q].sent
    BY <1>6, CloseEnds DEF Check
  <2>3. /\ round.stage \notin {"idle", "sending"} /\ round'.stage # "idle"
        /\ round'.event = round.event /\ round'.snapshot = round.snapshot
        /\ round'.dead = {}
        /\ round'.stage = "sending" => round'.left = round.snapshot
    BY <1>6, Checked, Closed DEF Ordered
  <2>4. InSequence'
    BY <2>2 DEF Ordered, InSequence
  <2>5. \A q \in registry' : OnTime(q) /\ q \in Sockets
    BY <1>1, <2>1, <2>3 DEF Ordered
  <2>6. \A q \in registry' : OnTime(q)'
    BY <2>1, <2>2, <2>3, <2>5 DEF OnTime, Expected
  <2> QED BY <2>3, <2>4, <2>6 DEF Ordered
<1>7. ASSUME NEW s \in Sockets, Send(s)
      PROVE  Ordered'
  <2>1. UNCHANGED <<published, registry, subscription>>
    BY <1>7 DEF Send
  <2>2. /\ round.event \in Events /\ round.event \in Int /\ subscription.state = "listening"
        /\ \A q \in Sockets : socket[q].sent \in Seq(Events)
    BY <1>7, EventIsPast, BroadcastAssumption
       DEF Send, Events, TypeInv, TypeOK, RoundFits, Socket
  <2>3. /\ round.stage = "sending" /\ round'.stage = "sending" /\ round'.event = round.event
        /\ round'.snapshot = round.snapshot /\ round'.left = round.left \ {s}
        /\ s \in round.left /\ s \in round.snapshot
        /\ round'.dead = round.dead \/ round'.dead = round.dead \union {s}
    BY <1>7, Sent
  <2>4. round'.dead \intersect round'.left = {}
    BY <2>3 DEF Ordered
  <2>5. CASE UNCHANGED socket /\ (s \notin registry \/ s \in round'.dead)
    <3>1. \A q \in registry' \ round'.dead : OnTime(q) /\ q # s
      BY <2>1, <2>3, <2>5 DEF Ordered
    <3>2. \A q \in registry' \ round'.dead : OnTime(q)'
      BY <2>1, <2>3, <2>5, <3>1 DEF OnTime, Expected
    <3> QED BY <2>3, <2>4, <2>5, <3>2 DEF Ordered, InSequence
  <2>6. CASE /\ s \in registry /\ round'.dead = round.dead
             /\ socket' = [socket EXCEPT ![s].sent = Append(@, round.event)]
    <3>1. /\ socket'[s].sent = Append(socket[s].sent, round.event)
          /\ \A q \in Sockets \ {s} : socket'[q] = socket[q]
      BY <2>2, <2>6, Written
    <3>2. s \notin round.dead
      BY <2>3 DEF Ordered
    <3>3. socket[s].sent = <<>> \/ socket[s].sent[Len(socket[s].sent)] = round.event - 1
      BY <2>3, <2>6, <3>2 DEF Ordered, OnTime, Expected
    <3>4. /\ \A k \in 2..Len(socket'[s].sent) : socket'[s].sent[k] = socket'[s].sent[k - 1] + 1
          /\ socket'[s].sent[Len(socket'[s].sent)] = round.event
      <4> DEFINE old == socket[s].sent
                 new == socket'[s].sent
      <4>1. /\ old \in Seq(Events) /\ \A k \in 2..Len(old) : old[k] = old[k - 1] + 1
            /\ old = <<>> \/ old[Len(old)] = round.event - 1
            /\ new = Append(old, round.event)
        BY <2>2, <3>1, <3>3 DEF Ordered, InSequence
      <4> HIDE DEF old, new
      <4>2. /\ \A k \in 2..Len(new) : new[k] = new[k - 1] + 1
            /\ new[Len(new)] = round.event
        BY <2>2, <4>1, RunIsExtended
      <4> QED BY <4>2 DEF new
    <3>5. InSequence'
      <4> SUFFICES ASSUME NEW q \in Sockets
                   PROVE  \A k \in 2..Len(socket'[q].sent) :
                            socket'[q].sent[k] = socket'[q].sent[k - 1] + 1
        BY DEF InSequence
      <4>1. CASE q = s
        BY <3>4, <4>1
      <4>2. CASE q # s
        <5>1. socket'[q].sent = socket[q].sent
          BY <3>1, <4>2
        <5> QED BY <5>1 DEF Ordered, InSequence
      <4> QED BY <4>1, <4>2
    <3>6. OnTime(s)'
      BY <2>1, <2>2, <2>3, <3>4 DEF OnTime, Expected
    <3>7. \A q \in (registry' \ round'.dead) \ {s} : OnTime(q) /\ q \in Sockets \ {s}
      BY <1>1, <2>1, <2>6 DEF Ordered
    <3>8. \A q \in (registry' \ round'.dead) \ {s} : OnTime(q)'
      BY <2>1, <2>3, <3>1, <3>7 DEF OnTime, Expected
    <3> QED BY <2>3, <2>4, <3>5, <3>6, <3>8 DEF Ordered
  <2> QED BY <1>7, <2>5, <2>6, Sent
<1>8. CASE Finish
  <2>1. /\ UNCHANGED <<socket, subscription, published>> /\ registry' = registry \ round.dead
        /\ round' = NoRound /\ round.stage = "sending" /\ round.left = {}
    BY <1>8 DEF Finish, Survivors
  <2>2. Coming' = round.event + 1
    <3>1. round.event = Coming - 1 /\ Coming' = Coming /\ Coming \in Int
      <4>1. published \in Int /\ Len(subscription.inbox) \in Int
        BY LenProperties DEF TypeInv, TypeOK, Subscription
      <4> QED BY <2>1, <4>1 DEF TypeInv, RoundFits, Coming
    <3> QED BY <3>1
  <2>3. \A q \in registry' : OnTime(q)
    BY <2>1 DEF Ordered
  <2>4. \A q \in registry' : OnTime(q)'
    BY <2>1, <2>2, <2>3 DEF OnTime, Expected, NoRound
  <2> QED BY <2>1, <2>4 DEF Ordered, InSequence, NoRound
<1>9. CASE UNCHANGED vars
  BY <1>9 DEF vars, Ordered, InSequence, OnTime, Expected, Coming
<1> QED BY <1>2, <1>3, <1>4, <1>5, <1>6, <1>7, <1>8, <1>9 DEF Next

(* A connection is sent the events in the order of their publication, each *)
(* once and none missing in between.                                       *)
THEOREM InSequenceHolds == Spec => []InSequence
<1>1. Init => Ordered
  BY DEF Init, Ordered, InSequence, NoRound
<1>2. Ordered => InSequence
  BY DEF Ordered
<1>3. TypeInv /\ Ordered /\ [Next]_vars => Ordered'
  BY OrderedKept
<1> QED BY <1>1, <1>2, <1>3, TypesHold, PTL DEF Spec
-----------------------------------------------------------------------------
(***************************************************************************)
(* IdempotentRequests, for any number of requests, keys and contents. One  *)
(* inductive invariant, RequestInv: the identifier of a row that is not    *)
(* committed is in no other row; a request that commits a task of its own  *)
(* is the only one with its key, and a cleaning holds the document alone,  *)
(* so that what it did not find is still not there, unless a retry brought *)
(* it about.                                                               *)
(***************************************************************************)
(* A request that is about to insert its rows, or has inserted them.       *)
Drawing == {"creating", "inserting", "committing"}

KeyOf(me) == CompositeKey(me.key, me.content, me.job)

(* It will commit a task of its own.                                       *)
CreatesTask(me) == me.pc = "committing" /\ me.task = me.job

StageFits(me) ==
  /\ me.pc \in {"idle", "asked", "locked"} => me.job = 0
  /\ me.pc \in {"inserting", "committing"} => me.job # 0
  /\ me.reply # "none" => me.pc = "answered"
  /\ me.pc = "locked" => endpoint = "clean"

(* The identifier of a row that is not committed is in no other row.       *)
IdIsFresh(r, me) ==
  (me.pc \in Drawing /\ me.job # 0) =>
    /\ \A j \in jobs : j.id # me.job
    /\ \A q \in Requests \ {r} : request[q].pc \in Drawing => request[q].job # me.job

(* A request that commits its task is the only one with this key; one that *)
(* does not has found the task with its key, which only a parse can.       *)
KeyIsFresh(r, me) ==
  /\ CreatesTask(me) /\ KeyOf(me) # NoKey =>
       /\ \A t \in tasks : t.key # KeyOf(me)
       /\ \A q \in Requests \ {r} : CreatesTask(request[q]) => KeyOf(request[q]) # KeyOf(me)
  /\ me.pc = "committing" /\ me.task # me.job =>
       endpoint = "parse" /\ \E t \in tasks : /\ t.key # NoKey /\ t.key = KeyOf(me)
                                              /\ t.job = me.task

(* One cleaning request at a time holds the document, and what it did not  *)
(* find is still not there, but for what a retry created.                  *)
LockFits(r, me) ==
  endpoint = "clean" =>
    /\ me.pc \in InTransaction =>
         \A q \in Requests \ {r} : request[q].pc \notin InTransaction
    /\ me.pc \in Drawing => \A j \in Reusable(me.content) : j.retries # 0
    /\ me.pc \in {"inserting", "committing"} => \A t \in FoundBy(me.key) : t.try # 0

AnswerFits(me) ==
  me.reply = "accepted" => \E t \in tasks : t.job = me.task /\ t.content = me.content

Fits(r, me) == /\ StageFits(me)
               /\ IdIsFresh(r, me)
               /\ KeyIsFresh(r, me)
               /\ LockFits(r, me)
               /\ AnswerFits(me)

(* The key of a retry is what its client sent.                             *)
KeyFits(t) ==
  \/ t.try = 0 /\ \E k \in Keys \union {NoKey} : t.key = CompositeKey(k, t.content, t.job)
  \/ t.try # 0 /\ t.key \in Keys

IdsDrawn ==
  /\ \A j \in jobs : j.id # 0 /\ j.id <= drawn
  /\ \A i, j \in jobs : i.id = j.id => i = j
  /\ \A r \in Requests : request[r].job <= drawn

KeysUnique ==
  /\ \A t \in tasks : KeyFits(t)
  /\ \A t, u \in tasks : t.key # NoKey /\ t.key = u.key => t = u

(* Never retried, and live or completed.                                   *)
Works(j) == j.retries = 0 /\ j.status \in {"live", "completed"}

(* What the lock on the document gives, retries aside: one job that works  *)
(* for a content, one task for a client key, and a task for every job.     *)
WorkbenchFits ==
  endpoint = "clean" =>
    /\ \A i, j \in jobs : (i.content = j.content /\ Works(i) /\ Works(j)) => i = j
    /\ \A t, u \in Originals : (t.key # NoKey /\ u.key # NoKey /\ Front(t.key) = Front(u.key))
                             => t = u
    /\ \A j \in jobs : \E t \in tasks : t.job = j.id

RequestInv == /\ RequestTypeOK
              /\ IdsDrawn
              /\ KeysUnique
              /\ WorkbenchFits
              /\ \A r \in Requests : Fits(r, request[r])
-----------------------------------------------------------------------------
(* What the elements of a stored key are: parts and, at the end, a digest. *)
Elements == Parts \union Seq(Contents \union Nat)

LEMMA DigestType ==
  ASSUME NEW c \in Contents, NEW n \in Nat
  PROVE  Digest(c, n) \in Elements
<1>1. <<c>> \in Seq(Contents \union Nat) /\ <<c, n>> \in Seq(Contents \union Nat)
  OBVIOUS
<1> QED BY <1>1 DEF Digest, Elements

LEMMA KeyType ==
  ASSUME NEW k \in Keys
  PROVE  k \in Seq(Elements) /\ k # <<>> /\ k \in Seq(Parts)
<1>1. k \in Seq(Parts) /\ k # <<>>
  BY RequestAssumption
<1> QED BY <1>1 DEF Elements

(* Two digests are the same only for the same content, and with the job in *)
(* them only for the same job.                                             *)
LEMMA DigestInjective ==
  ASSUME NEW c, NEW d, NEW m, NEW n, Digest(c, m) = Digest(d, n)
  PROVE  c = d /\ (endpoint # "parse" => m = n)
<1>1. CASE endpoint = "parse"
  <2>1. <<c>> = <<d>>
    BY <1>1 DEF Digest
  <2> QED BY <1>1, <2>1
<1>2. CASE endpoint # "parse"
  <2>1. <<c, m>> = <<d, n>>
    BY <1>2 DEF Digest
  <2> QED BY <2>1
<1> QED BY <1>1, <1>2

(* The composite key of a client key begins with it.                       *)
LEMMA Composite ==
  ASSUME NEW k \in Keys, NEW c \in Contents, NEW n \in Nat
  PROVE  /\ CompositeKey(k, c, n) = Append(k, Digest(c, n))
         /\ CompositeKey(k, c, n) \in Seq(Elements)
         /\ CompositeKey(k, c, n) # NoKey
         /\ Front(CompositeKey(k, c, n)) = k
         /\ IsStrictPrefix(k, CompositeKey(k, c, n))
<1>1. k \in Seq(Elements) /\ k # <<>> /\ Digest(c, n) \in Elements
  BY KeyType, DigestType
<1> DEFINE s == Append(k, Digest(c, n))
<1>2. CompositeKey(k, c, n) = s
  BY <1>1 DEF CompositeKey, NoKey
<1>3. /\ s \in Seq(Elements) /\ s # <<>> /\ Len(s) = Len(k) + 1
      /\ \A i \in 1..Len(k) : s[i] = k[i]
  BY <1>1, AppendProperties
<1> HIDE DEF s
<1>4. Len(k) \in Nat
  BY <1>1
<1>5. SubSeq(s, 1, Len(k)) = k
  BY <1>1, <1>3, <1>4
<1>6. SubSeq(k, 1, Len(k)) = k
  BY <1>1, SubSeqFull
<1>7. Front(s) = k
  BY <1>3, <1>4, <1>5 DEF Front
<1>8. IsStrictPrefix(k, s)
  BY <1>3, <1>4, <1>5, <1>6 DEF IsStrictPrefix, IsPrefix
<1> QED BY <1>2, <1>3, <1>7, <1>8 DEF s, NoKey

(* Equal composite keys are of the same client key and digest.             *)
LEMMA CompositeInjective ==
  ASSUME NEW k \in Keys \union {NoKey}, NEW c \in Contents, NEW m \in Nat,
         NEW l \in Keys \union {NoKey}, NEW d \in Contents, NEW n \in Nat,
         CompositeKey(k, c, m) = CompositeKey(l, d, n), CompositeKey(k, c, m) # NoKey
  PROVE  k \in Keys /\ k = l /\ Digest(c, m) = Digest(d, n)
<1>1. k # NoKey /\ l # NoKey
  BY DEF CompositeKey
<1>2. k \in Keys /\ l \in Keys
  BY <1>1
<1>3. Append(k, Digest(c, m)) = Append(l, Digest(d, n))
  BY <1>1 DEF CompositeKey
<1>4. /\ k \in Seq(Elements) /\ Digest(c, m) \in Elements
      /\ l \in Seq(Elements) /\ Digest(d, n) \in Elements
  BY <1>2, KeyType, DigestType
<1>5. k = l /\ Digest(c, m) = Digest(d, n)
  BY <1>3, <1>4, AppendInjective
<1> QED BY <1>2, <1>5

(* What follows the first colon is the digest only if no colon is in it.   *)
LEMMA SameTail ==
  ASSUME NEW k \in Keys, NEW c \in Contents, NEW m \in Nat, NEW e,
         Tail(CompositeKey(k, c, m)) = <<e>>
  PROVE  Digest(c, m) = e
<1> DEFINE d == Digest(c, m)
<1>1. k \in Seq(Elements) /\ k # <<>> /\ d \in Elements
  BY KeyType, DigestType
<1>2. CompositeKey(k, c, m) = Append(k, d)
  BY Composite
<1> HIDE DEF d
<1>3. Append(Tail(k), d) = <<e>>
  BY <1>1, <1>2, HeadTailAppend
<1>4. Tail(k) \in Seq(Elements)
  BY <1>1
<1>5. Len(Append(Tail(k), d)) = Len(Tail(k)) + 1 /\ Append(Tail(k), d)[Len(Tail(k)) + 1] = d
  BY <1>1, <1>4, AppendProperties
<1>6. Len(Tail(k)) + 1 = 1
  BY <1>3, <1>5
<1>7. d = <<e>>[1]
  BY <1>3, <1>5, <1>6
<1>8. d = e
  BY <1>7
<1> QED BY <1>8 DEF d

(* A task that begins with a client key has a key.                         *)
LEMMA FoundHasKey ==
  ASSUME NEW k \in Keys \union {NoKey}, NEW t \in FoundBy(k)
  PROVE  t \in tasks /\ k \in Keys /\ t.key # NoKey
<1>1. t \in tasks /\ k # NoKey /\ IsStrictPrefix(k, t.key)
  BY DEF FoundBy
<1>2. k \in Seq(Elements) /\ k # <<>>
  BY <1>1, KeyType
<1>3. Len(k) \in Nat /\ Len(k) # 0
  BY <1>2
<1>4. Len(k) <= Len(t.key)
  BY <1>1 DEF IsStrictPrefix, IsPrefix
<1>5. t.key # <<>>
  BY <1>3, <1>4
<1> QED BY <1>1, <1>5 DEF NoKey
-----------------------------------------------------------------------------
LEMMA RequestInitially ==
  ASSUME RequestInit
  PROVE  RequestInv
<1>1. Idle \in RequestState
  BY RequestAssumption DEF Idle, RequestState
<1>2. \A r \in Requests : request[r] = Idle
  BY DEF RequestInit
<1>3. Idle.pc = "idle" /\ Idle.job = 0 /\ Idle.reply = "none"
  BY DEF Idle
<1>4. RequestTypeOK /\ IdsDrawn /\ KeysUnique /\ WorkbenchFits
  BY <1>1, <1>3 DEF RequestInit, RequestTypeOK, IdsDrawn, KeysUnique, WorkbenchFits, Originals
<1>5. \A r \in Requests : Fits(r, request[r])
  BY <1>2, <1>3 DEF Fits, StageFits, IdIsFresh, KeyIsFresh, CreatesTask, LockFits, AnswerFits,
                    InTransaction, Drawing
<1> QED BY <1>4, <1>5 DEF RequestInv

(* A request moves and commits nothing: it must fit, and it must not hold  *)
(* what another one holds.                                                 *)
LEMMA RequestMoves ==
  ASSUME RequestInv, NEW r \in Requests, NEW new \in RequestState,
         request' = [request EXCEPT ![r] = new],
         endpoint' = endpoint, jobs' = jobs, tasks' = tasks,
         drawn' \in Nat, drawn <= drawn', new.job <= drawn', Fits(r, new)
  PROVE  RequestInv'
<1>1. /\ request'[r] = new
      /\ \A q \in Requests \ {r} : request'[q] = request[q]
      /\ request' \in [Requests -> RequestState]
  BY DEF RequestInv, RequestTypeOK
<1>2. RequestTypeOK' /\ KeysUnique' /\ WorkbenchFits'
  BY <1>1 DEF RequestInv, RequestTypeOK, KeysUnique, KeyFits, CompositeKey, Digest, WorkbenchFits,
                       Originals
<1>3. IdsDrawn'
  <2>1. \A j \in jobs : j.id \in Nat
    BY DEF RequestInv, RequestTypeOK, JobRow
  <2>2. \A q \in Requests : request[q].job \in Nat
    BY DEF RequestInv, RequestTypeOK, RequestState
  <2>3. drawn \in Nat
    BY DEF RequestInv, RequestTypeOK
  <2> QED BY <1>1, <2>1, <2>2, <2>3 DEF RequestInv, IdsDrawn
<1>4. ASSUME NEW q \in Requests
      PROVE  Fits(q, request[q])'
  <2>1. CASE q = r
    BY <1>1, <2>1 DEF Fits, StageFits, IdIsFresh, KeyIsFresh, KeyOf, CreatesTask, LockFits,
                      AnswerFits, Reusable, FoundBy, CompositeKey, Digest
  <2>2. CASE q # r
    <3>1. request'[q] = request[q] /\ Fits(q, request[q])
      BY <1>1, <2>2 DEF RequestInv
    <3>2. StageFits(request[q])' /\ AnswerFits(request[q])'
      BY <3>1 DEF Fits, StageFits, AnswerFits
    <3>3. IdIsFresh(q, request[q])'
      BY <1>1, <2>2, <3>1 DEF Fits, IdIsFresh
    <3>4. KeyIsFresh(q, request[q])'
      BY <1>1, <2>2, <3>1 DEF Fits, KeyIsFresh, KeyOf, CreatesTask, CompositeKey, Digest
    <3>5. LockFits(q, request[q])'
      BY <1>1, <2>2, <3>1 DEF Fits, LockFits, Reusable, FoundBy
    <3> QED BY <3>2, <3>3, <3>4, <3>5 DEF Fits
  <2> QED BY <2>1, <2>2
<1> QED BY <1>2, <1>3, <1>4 DEF RequestInv

LEMMA StepKeeps ==
  ASSUME RequestInv, NEW r \in Requests, NEW new \in RequestState,
         Step(r, new), UNCHANGED <<endpoint, stored>>, new.job <= drawn, Fits(r, new)
  PROVE  RequestInv'
<1>1. endpoint' = endpoint /\ jobs' = jobs /\ tasks' = tasks /\ drawn' = drawn
  BY DEF stored
<1>2. drawn \in Nat
  BY DEF RequestInv, RequestTypeOK
<1>3. drawn' \in Nat /\ drawn <= drawn' /\ new.job <= drawn'
  BY <1>1, <1>2
<1>4. request' = [request EXCEPT ![r] = new]
  BY DEF Step
<1> QED BY <1>1, <1>3, <1>4, RequestMoves

LEMMA Current ==
  ASSUME RequestInv, NEW r \in Requests
  PROVE  /\ request[r] \in RequestState
         /\ Fits(r, request[r])
         /\ request[r].job <= drawn /\ request[r].job \in Nat
         /\ request[r].content \in Contents
         /\ request[r].key \in Keys \union {NoKey}
         /\ drawn \in Nat
BY DEF RequestInv, RequestTypeOK, IdsDrawn, RequestState

LEMMA TaskTypes ==
  ASSUME RequestInv, NEW t \in tasks
  PROVE  /\ t.job \in Nat /\ t.try \in Nat /\ t.content \in Contents
         /\ KeyFits(t) /\ t \in TaskRow
BY DEF RequestInv, RequestTypeOK, KeysUnique, TaskRow

(* The raw key of a retry ends with no digest.                             *)
LEMMA RawKey ==
  ASSUME NEW k \in Keys, NEW l \in Keys, NEW c \in Contents, NEW n \in Nat
  PROVE  k # CompositeKey(l, c, n) /\ Tail(k) # <<Digest(c, n)>>
<1> DEFINE d == Digest(c, n)
<1>1. d \notin Parts
  <2>1. <<c>> \in Seq(Contents \union Nat) /\ <<c, n>> \in Seq(Contents \union Nat)
    OBVIOUS
  <2> QED BY <2>1, RequestAssumption DEF Digest
<1>2. /\ k \in Seq(Parts) /\ k # <<>> /\ l \in Seq(Elements) /\ d \in Elements
      /\ CompositeKey(l, c, n) = Append(l, d)
  BY KeyType, DigestType, Composite
<1> HIDE DEF d
<1>3. k # Append(l, d)
  <2>1. Len(l) \in Nat /\ Len(Append(l, d)) = Len(l) + 1 /\ Append(l, d)[Len(l) + 1] = d
    BY <1>2, AppendProperties
  <2>2. \A i \in 1..Len(k) : k[i] \in Parts
    BY <1>2
  <2>3. SUFFICES ASSUME k = Append(l, d) PROVE FALSE
    OBVIOUS
  <2>4. Len(k) = Len(l) + 1 /\ k[Len(l) + 1] = d
    BY <2>1, <2>3
  <2>5. Len(l) + 1 \in 1..Len(k)
    BY <2>1, <2>4
  <2> QED BY <1>1, <2>2, <2>4, <2>5
<1>4. Tail(k) # <<d>>
  <2>1. Tail(k) \in Seq(Parts)
    BY <1>2
  <2>2. SUFFICES ASSUME Tail(k) = <<d>> PROVE FALSE
    OBVIOUS
  <2>3. <<d>> \in Seq(Parts) /\ Len(<<d>>) = 1 /\ <<d>>[1] = d
    BY <2>1, <2>2
  <2>4. d \in Parts
    BY <2>3
  <2> QED BY <1>1, <2>4
<1> QED BY <1>2, <1>3, <1>4 DEF d

(* A task with a composite key is no retry.                                *)
LEMMA CompositeIsOriginal ==
  ASSUME RequestInv, NEW t \in tasks, t.key # NoKey,
         NEW k \in Keys \union {NoKey}, NEW c \in Contents, NEW n \in Nat,
         t.key = CompositeKey(k, c, n)
  PROVE  t.try = 0
<1>1. k \in Keys
  BY DEF CompositeKey
<1> QED BY <1>1, TaskTypes, RawKey DEF KeyFits

(* An answer: the transaction is over and holds nothing.                   *)
LEMMA AnswerKeeps ==
  ASSUME RequestInv, NEW r \in Requests, UNCHANGED <<endpoint, stored>>,
         NEW new \in RequestState, Step(r, new), new.pc = "answered", new.job = request[r].job,
         AnswerFits(new)
  PROVE  RequestInv'
<1>1. new.job <= drawn
  BY Current
<1>2. Fits(r, new)
  BY DEF Fits, StageFits, IdIsFresh, KeyIsFresh, CreatesTask, LockFits, InTransaction, Drawing
<1> QED BY <1>1, <1>2, StepKeeps

LEMMA RefuseKeeps ==
  ASSUME RequestInv, NEW r \in Requests, UNCHANGED <<endpoint, stored>>,
         NEW why \in {"conflict", "error"}, Refuse(r, why)
  PROVE  RequestInv'
<1> DEFINE new == [request[r] EXCEPT !.pc = "answered", !.reply = why]
<1>1. request[r] \in RequestState
  BY Current
<1>2. new \in RequestState /\ new.pc = "answered" /\ new.reply = why /\ new.job = request[r].job
  BY <1>1 DEF RequestState
<1>3. Step(r, new)
  BY DEF Refuse
<1> HIDE DEF new
<1>4. AnswerFits(new)
  BY <1>2 DEF AnswerFits
<1> QED BY <1>2, <1>3, <1>4, AnswerKeeps

LEMMA AcceptKeeps ==
  ASSUME RequestInv, NEW r \in Requests, UNCHANGED <<endpoint, stored>>,
         NEW t \in tasks, t.content = request[r].content, Accept(r, t.job)
  PROVE  RequestInv'
<1> DEFINE new == [request[r] EXCEPT !.pc = "answered", !.task = t.job, !.reply = "accepted"]
<1>1. request[r] \in RequestState /\ t.job \in Nat
  BY Current, TaskTypes
<1>2. /\ new \in RequestState /\ new.pc = "answered" /\ new.task = t.job
      /\ new.job = request[r].job /\ new.content = request[r].content
  BY <1>1 DEF RequestState
<1>3. Step(r, new)
  BY DEF Accept
<1> HIDE DEF new
<1>4. AnswerFits(new)
  BY <1>2 DEF AnswerFits
<1> QED BY <1>2, <1>3, <1>4, AnswerKeeps

(* A replay is answered with the task that its key leads to: what follows  *)
(* the first colon of that task's key is the digest of what it does.       *)
LEMMA ReplayKeeps ==
  ASSUME RequestInv, NEW r \in Requests, UNCHANGED <<endpoint, stored>>,
         NEW job \in Nat, NEW t \in FoundBy(request[r].key),
         IF SameDigest(t, request[r].content, job)
         THEN Accept(r, t.job) ELSE Refuse(r, "conflict")
  PROVE  RequestInv'
<1>1. CASE SameDigest(t, request[r].content, job)
  <2>1. t \in tasks /\ t.key # NoKey
    BY Current, FoundHasKey
  <2>2. PICK k \in Keys \union {NoKey} : t.key = CompositeKey(k, t.content, t.job)
    <3>1. request[r].content \in Contents
      BY Current
    <3>2. PICK n \in Nat : Tail(t.key) = <<Digest(request[r].content, n)>>
      BY <1>1 DEF SameDigest
    <3> QED BY <2>1, <3>1, <3>2, TaskTypes, RawKey DEF KeyFits
  <2>3. k \in Keys
    BY <2>1, <2>2 DEF CompositeKey
  <2>4. Tail(CompositeKey(k, t.content, t.job)) = <<Digest(request[r].content, job)>>
    BY <1>1, <2>2 DEF SameDigest
  <2>5. t.content \in Contents /\ t.job \in Nat
    BY <2>1, TaskTypes
  <2>6. Digest(t.content, t.job) = Digest(request[r].content, job)
    BY <2>3, <2>4, <2>5, SameTail
  <2>7. t.content = request[r].content
    BY <2>6, DigestInjective
  <2> QED BY <1>1, <2>1, <2>7, AcceptKeeps
<1>2. CASE ~SameDigest(t, request[r].content, job)
  BY <1>2, RefuseKeeps
<1> QED BY <1>1, <1>2

(* The lookup by the client's key: it leads on, or the answer is given.    *)
LEMMA IdempotentKeeps ==
  ASSUME RequestInv, NEW r \in Requests, UNCHANGED <<endpoint, stored>>,
         NEW job \in Nat, NEW ACTION create, Idempotent(r, job, create),
         (FoundBy(request[r].key) = {} /\ create) => RequestInv'
  PROVE  RequestInv'
<1>1. CASE FoundBy(request[r].key) = {} /\ create
  BY <1>1
<1>2. ASSUME NEW t \in FoundBy(request[r].key),
             IF SameDigest(t, request[r].content, job)
             THEN Accept(r, t.job) ELSE Refuse(r, "conflict")
      PROVE  RequestInv'
  BY <1>2, ReplayKeeps
<1>3. CASE Refuse(r, "error")
  BY <1>3, RefuseKeeps
<1> QED BY <1>1, <1>2, <1>3 DEF Idempotent
-----------------------------------------------------------------------------
LEMMA ForgetKeeps ==
  ASSUME RequestInv, NEW r \in Requests, Forget(r)
  PROVE  RequestInv'
<1>1. UNCHANGED <<endpoint, stored>> /\ Step(r, Idle)
  BY DEF Forget
<1>2. Idle \in RequestState
  BY RequestAssumption DEF Idle, RequestState
<1>3. Idle.pc = "idle" /\ Idle.job = 0 /\ Idle.reply = "none"
  BY DEF Idle
<1>4. Fits(r, Idle)
  BY <1>3 DEF Fits, StageFits, IdIsFresh, KeyIsFresh, CreatesTask, LockFits, AnswerFits,
              InTransaction, Drawing
<1>5. Idle.job <= drawn
  BY <1>3, Current
<1> QED BY <1>1, <1>2, <1>4, <1>5, StepKeeps

LEMMA AskKeeps ==
  ASSUME RequestInv, NEW r \in Requests, Ask(r)
  PROVE  RequestInv'
<1>1. PICK ask \in Asks : Step(r, [Idle EXCEPT !.pc = "asked", !.key = ask[1],
                                                !.content = ask[2]])
  BY DEF Ask
<1> DEFINE new == [Idle EXCEPT !.pc = "asked", !.key = ask[1], !.content = ask[2]]
<1>2. UNCHANGED <<endpoint, stored>> /\ Step(r, new)
  BY <1>1 DEF Ask
<1>3. Idle \in RequestState
  BY RequestAssumption DEF Idle, RequestState
<1>4. ask[1] \in Keys \union {NoKey} /\ ask[2] \in Contents
  BY RequestAssumption
<1>5. new \in RequestState
  BY <1>3, <1>4 DEF RequestState
<1>6. new.pc = "asked" /\ new.job = 0 /\ new.reply = "none"
  BY DEF Idle
<1> HIDE DEF new
<1>7. Fits(r, new)
  BY <1>6 DEF Fits, StageFits, IdIsFresh, KeyIsFresh, CreatesTask, LockFits, AnswerFits,
              InTransaction, Drawing
<1>8. new.job <= drawn
  BY <1>6, Current
<1> QED BY <1>2, <1>5, <1>7, <1>8, StepKeeps

LEMMA ProceedKeeps ==
  ASSUME RequestInv, NEW r \in Requests, UNCHANGED <<endpoint, stored>>, Proceed(r),
         request[r].pc \in {"asked", "locked"},
         endpoint = "clean" => /\ request[r].pc = "locked"
                               /\ Reusable(request[r].content) = {}
  PROVE  RequestInv'
<1> DEFINE new == [request[r] EXCEPT !.pc = "creating"]
<1>1. request[r] \in RequestState /\ Fits(r, request[r]) /\ request[r].job <= drawn
  BY Current
<1>2. request[r].job = 0 /\ request[r].reply = "none"
  BY <1>1 DEF Fits, StageFits, RequestState
<1>3. /\ new \in RequestState /\ new.pc = "creating" /\ new.job = 0 /\ new.reply = "none"
      /\ new.content = request[r].content
  BY <1>1, <1>2 DEF RequestState
<1>4. Step(r, new)
  BY DEF Proceed
<1> HIDE DEF new
<1>5. LockFits(r, new)
  BY <1>1, <1>3 DEF Fits, LockFits, InTransaction
<1>6. Fits(r, new)
  BY <1>3, <1>5 DEF Fits, StageFits, IdIsFresh, KeyIsFresh, CreatesTask, AnswerFits
<1>7. new.job <= drawn
  BY <1>1, <1>2, <1>3
<1> QED BY <1>3, <1>4, <1>6, <1>7, StepKeeps

LEMMA ParseFindKeeps ==
  ASSUME RequestInv, NEW r \in Requests, ParseFind(r)
  PROVE  RequestInv'
<1>1. /\ endpoint = "parse" /\ request[r].pc = "asked"
      /\ Idempotent(r, 0, Proceed(r)) /\ UNCHANGED <<endpoint, stored>>
  BY DEF ParseFind
<1>2. Proceed(r) => RequestInv'
  BY <1>1, ProceedKeeps
<1>3. 0 \in Nat
  OBVIOUS
<1> QED BY <1>1, <1>2, <1>3, IdempotentKeeps

LEMMA ExportFindKeeps ==
  ASSUME RequestInv, NEW r \in Requests, ExportFind(r)
  PROVE  RequestInv'
<1> DEFINE found == {j \in jobs : \E t \in FoundBy(request[r].key) : IsCurrent(t, j)}
<1>1. /\ endpoint = "export" /\ request[r].pc = "asked" /\ UNCHANGED <<endpoint, stored>>
      /\ \/ Proceed(r)
         \/ \E j \in found : IF SameFingerprint(j, request[r].content)
                             THEN Accept(r, j.id) ELSE Refuse(r, "conflict")
  BY DEF ExportFind
<1>2. CASE Proceed(r)
  BY <1>1, <1>2, ProceedKeeps
<1>3. ASSUME NEW j \in found, IF SameFingerprint(j, request[r].content)
                              THEN Accept(r, j.id) ELSE Refuse(r, "conflict")
      PROVE  RequestInv'
  <2>1. CASE SameFingerprint(j, request[r].content)
    <3>1. PICK t \in FoundBy(request[r].key) : t.job = j.id
      BY DEF IsCurrent
    <3>2. t \in tasks
      BY DEF FoundBy
    <3>3. PICK i \in jobs : i.id = t.job /\ i.content = t.content
      BY <3>2 DEF RequestInv, RequestTypeOK
    <3>4. i = j
      BY <3>1, <3>3 DEF RequestInv, IdsDrawn
    <3>5. t.content = request[r].content /\ Accept(r, t.job)
      BY <1>3, <2>1, <3>1, <3>3, <3>4 DEF SameFingerprint
    <3> QED BY <1>1, <3>2, <3>5, AcceptKeeps
  <2>2. CASE ~SameFingerprint(j, request[r].content)
    BY <1>1, <1>3, <2>2, RefuseKeeps
  <2> QED BY <2>1, <2>2
<1> QED BY <1>1, <1>2, <1>3

LEMMA CleanLockKeeps ==
  ASSUME RequestInv, NEW r \in Requests, CleanLock(r)
  PROVE  RequestInv'
<1> DEFINE new == [request[r] EXCEPT !.pc = "locked"]
<1>1. /\ endpoint = "clean" /\ request[r].pc = "asked" /\ DocumentFree
      /\ Step(r, new) /\ UNCHANGED <<endpoint, stored>>
  BY DEF CleanLock
<1>2. request[r] \in RequestState /\ Fits(r, request[r]) /\ request[r].job <= drawn
  BY Current
<1>3. request[r].job = 0 /\ request[r].reply = "none"
  BY <1>1, <1>2 DEF Fits, StageFits, RequestState
<1>4. new \in RequestState /\ new.pc = "locked" /\ new.job = 0 /\ new.reply = "none"
  BY <1>2, <1>3 DEF RequestState
<1> HIDE DEF new
<1>5. LockFits(r, new)
  BY <1>1, <1>4 DEF LockFits, DocumentFree, Drawing
<1>6. Fits(r, new)
  BY <1>1, <1>4, <1>5 DEF Fits, StageFits, IdIsFresh, KeyIsFresh, CreatesTask, AnswerFits, Drawing
<1>7. new.job <= drawn
  BY <1>2, <1>3, <1>4
<1> QED BY <1>1, <1>4, <1>6, <1>7, StepKeeps

LEMMA CleanFindKeeps ==
  ASSUME RequestInv, NEW r \in Requests, CleanFind(r)
  PROVE  RequestInv'
<1>1. /\ request[r].pc = "locked" /\ UNCHANGED <<endpoint, stored>>
      /\ \/ \E j \in Reusable(request[r].content) : Accept(r, j.id)
         \/ Reusable(request[r].content) = {} /\ Proceed(r)
  BY DEF CleanFind
<1>2. endpoint = "clean"
  BY <1>1, Current DEF Fits, StageFits
<1>3. CASE Reusable(request[r].content) = {} /\ Proceed(r)
  BY <1>1, <1>3, ProceedKeeps
<1>4. ASSUME NEW j \in Reusable(request[r].content), Accept(r, j.id)
      PROVE  RequestInv'
  <2>1. j \in jobs /\ j.content = request[r].content
    BY DEF Reusable
  <2>2. PICK t \in tasks : t.job = j.id
    BY <1>2, <2>1 DEF RequestInv, WorkbenchFits, Originals
  <2>3. PICK i \in jobs : i.id = t.job /\ i.content = t.content
    BY <2>2 DEF RequestInv, RequestTypeOK
  <2>4. i = j
    BY <2>1, <2>2, <2>3 DEF RequestInv, IdsDrawn
  <2>5. t.content = request[r].content /\ Accept(r, t.job)
    BY <1>4, <2>1, <2>2, <2>3, <2>4
  <2> QED BY <1>1, <2>2, <2>5, AcceptKeeps
<1> QED BY <1>1, <1>3, <1>4

LEMMA InsertJobKeeps ==
  ASSUME RequestInv, NEW r \in Requests, InsertJob(r)
  PROVE  RequestInv'
<1> DEFINE new == [request[r] EXCEPT !.job = drawn + 1]
<1>1. /\ request[r].pc = "creating" /\ request[r].job = 0 /\ drawn' = drawn + 1
      /\ request' = [request EXCEPT ![r] = new]
      /\ endpoint' = endpoint /\ jobs' = jobs /\ tasks' = tasks
  BY DEF InsertJob, Step
<1>2. request[r] \in RequestState /\ Fits(r, request[r]) /\ drawn \in Nat
  BY Current
<1>3. /\ new \in RequestState /\ new.pc = "creating" /\ new.job = drawn + 1
      /\ new.reply = request[r].reply /\ new.content = request[r].content
  BY <1>1, <1>2 DEF RequestState
<1> HIDE DEF new
<1>4. StageFits(new) /\ AnswerFits(new)
  BY <1>1, <1>2, <1>3 DEF Fits, StageFits, AnswerFits
<1>5. IdIsFresh(r, new)
  <2>1. \A j \in jobs : j.id \in Nat /\ j.id <= drawn
    BY DEF RequestInv, RequestTypeOK, JobRow, IdsDrawn
  <2>2. \A q \in Requests : request[q].job \in Nat /\ request[q].job <= drawn
    BY Current
  <2> QED BY <1>2, <1>3, <2>1, <2>2 DEF IdIsFresh
<1>6. KeyIsFresh(r, new)
  BY <1>3 DEF KeyIsFresh, CreatesTask
<1>7. LockFits(r, new)
  BY <1>1, <1>2, <1>3 DEF Fits, LockFits
<1>8. Fits(r, new)
  BY <1>4, <1>5, <1>6, <1>7 DEF Fits
<1>9. drawn' \in Nat /\ drawn <= drawn' /\ new.job <= drawn'
  BY <1>1, <1>2, <1>3
<1> QED BY <1>1, <1>3, <1>8, <1>9, RequestMoves

LEMMA InsertingKeeps ==
  ASSUME RequestInv, NEW r \in Requests, UNCHANGED <<endpoint, stored>>,
         request[r].pc = "creating", request[r].job # 0,
         endpoint # "parse" => FoundBy(request[r].key) = {},
         Step(r, [request[r] EXCEPT !.pc = "inserting"])
  PROVE  RequestInv'
<1> DEFINE new == [request[r] EXCEPT !.pc = "inserting"]
<1>1. request[r] \in RequestState /\ Fits(r, request[r]) /\ request[r].job <= drawn
  BY Current
<1>2. /\ new \in RequestState /\ new.pc = "inserting" /\ new.job = request[r].job
      /\ new.reply = request[r].reply /\ new.content = request[r].content
      /\ new.key = request[r].key
  BY <1>1 DEF RequestState
<1>3. Step(r, new)
  OBVIOUS
<1> HIDE DEF new
<1>4. StageFits(new) /\ AnswerFits(new) /\ KeyIsFresh(r, new)
  BY <1>1, <1>2 DEF Fits, StageFits, AnswerFits, KeyIsFresh, CreatesTask
<1>5. IdIsFresh(r, new)
  BY <1>1, <1>2 DEF Fits, IdIsFresh, Drawing
<1>6. LockFits(r, new)
  BY <1>1, <1>2 DEF Fits, LockFits, Drawing, InTransaction
<1>7. Fits(r, new)
  BY <1>4, <1>5, <1>6 DEF Fits
<1>8. new.job <= drawn
  BY <1>1, <1>2
<1> QED BY <1>2, <1>3, <1>7, <1>8, StepKeeps

(* A parse finds a committed task with its key and is going to commit      *)
(* its job without a task of its own.                                      *)
LEMMA TwinKeeps ==
  ASSUME RequestInv, NEW r \in Requests, UNCHANGED <<endpoint, stored>>,
         request[r].pc = "creating", request[r].job # 0, endpoint = "parse",
         NEW t \in Twins(r),
         Step(r, [request[r] EXCEPT !.pc = "committing", !.task = t.job])
  PROVE  RequestInv'
<1> DEFINE new == [request[r] EXCEPT !.pc = "committing", !.task = t.job]
<1>1. /\ request[r] \in RequestState /\ Fits(r, request[r]) /\ request[r].job <= drawn
  BY Current
<1>2. t \in tasks /\ t.key # NoKey /\ t.key = KeyOf(request[r])
  BY DEF Twins, OwnKey, KeyOf
<1>3. t.job \in Nat
  BY <1>2, TaskTypes
<1>4. /\ new \in RequestState /\ new.pc = "committing" /\ new.job = request[r].job
      /\ new.reply = request[r].reply /\ new.content = request[r].content
      /\ new.key = request[r].key /\ new.task = t.job
  BY <1>1, <1>3 DEF RequestState
<1>5. Step(r, new)
  OBVIOUS
<1> HIDE DEF new
<1>6. StageFits(new) /\ AnswerFits(new)
  BY <1>1, <1>4 DEF Fits, StageFits, AnswerFits
<1>7. IdIsFresh(r, new)
  BY <1>1, <1>4 DEF Fits, IdIsFresh, Drawing
<1>8. KeyIsFresh(r, new)
  <2>1. PICK j \in jobs : j.id = t.job
    BY <1>2 DEF RequestInv, RequestTypeOK
  <2>2. new.task # new.job
    BY <1>1, <1>4, <2>1 DEF Fits, IdIsFresh, Drawing
  <2>3. KeyOf(new) = t.key
    BY <1>2, <1>4 DEF KeyOf
  <2> QED BY <1>2, <1>4, <2>2, <2>3 DEF KeyIsFresh, CreatesTask
<1>9. LockFits(r, new)
  BY DEF LockFits
<1>10. Fits(r, new)
  BY <1>6, <1>7, <1>8, <1>9 DEF Fits
<1>11. new.job <= drawn
  BY <1>1, <1>4
<1> QED BY <1>4, <1>5, <1>10, <1>11, StepKeeps

LEMMA FindTaskKeeps ==
  ASSUME RequestInv, NEW r \in Requests, FindTask(r)
  PROVE  RequestInv'
<1> DEFINE insert == Step(r, [request[r] EXCEPT !.pc = "inserting"])
<1>1. /\ request[r].pc = "creating" /\ request[r].job # 0 /\ UNCHANGED <<endpoint, stored>>
      /\ IF endpoint = "parse"
         THEN \/ Twins(r) = {} /\ insert
              \/ \E t \in Twins(r) :
                   Step(r, [request[r] EXCEPT !.pc = "committing", !.task = t.job])
         ELSE Idempotent(r, request[r].job, insert)
  BY DEF FindTask
<1>2. CASE endpoint = "parse"
  BY <1>1, <1>2, InsertingKeeps, TwinKeeps
<1>3. CASE endpoint # "parse"
  <2>1. (FoundBy(request[r].key) = {} /\ insert) => RequestInv'
    BY <1>1, InsertingKeeps
  <2>2. request[r].job \in Nat
    BY Current
  <2> HIDE DEF insert
  <2> QED BY <1>1, <1>3, <2>1, <2>2, IdempotentKeeps
<1> QED BY <1>2, <1>3

LEMMA InsertTaskKeeps ==
  ASSUME RequestInv, NEW r \in Requests, InsertTask(r)
  PROVE  RequestInv'
<1> DEFINE new == [request[r] EXCEPT !.pc = "committing", !.task = request[r].job]
<1>1. /\ request[r].pc = "inserting" /\ ~InsertedByAnother(r) /\ UNCHANGED <<endpoint, stored>>
      /\ IF Twins(r) = {} THEN Step(r, new) ELSE Refuse(r, "error")
  BY DEF InsertTask
<1>2. CASE Twins(r) # {}
  BY <1>1, <1>2, RefuseKeeps
<1>3. CASE Twins(r) = {}
  <2>1. request[r] \in RequestState /\ Fits(r, request[r]) /\ request[r].job <= drawn
    BY Current
  <2>2. /\ new \in RequestState /\ new.pc = "committing" /\ new.job = request[r].job
        /\ new.reply = request[r].reply /\ new.content = request[r].content
        /\ new.key = request[r].key /\ new.task = request[r].job
    BY <2>1 DEF RequestState
  <2>3. Step(r, new)
    BY <1>1, <1>3
  <2> HIDE DEF new
  <2>4. StageFits(new) /\ AnswerFits(new)
    BY <1>1, <2>1, <2>2 DEF Fits, StageFits, AnswerFits
  <2>5. IdIsFresh(r, new)
    BY <1>1, <2>1, <2>2 DEF Fits, IdIsFresh, Drawing
  <2>6. KeyIsFresh(r, new)
    <3>1. KeyOf(new) = KeyOf(request[r])
      BY <2>2 DEF KeyOf
    <3>2. \A q \in Requests : OwnKey(q) = KeyOf(request[q])
      BY DEF OwnKey, KeyOf
    <3>3. KeyOf(new) # NoKey => \A t \in tasks : t.key # KeyOf(new)
      BY <1>3, <3>1, <3>2 DEF Twins
    <3>4. KeyOf(new) # NoKey =>
            \A q \in Requests \ {r} : CreatesTask(request[q]) => KeyOf(request[q]) # KeyOf(new)
      BY <1>1, <3>1, <3>2 DEF InsertedByAnother, CreatesTask
    <3> QED BY <2>2, <3>3, <3>4 DEF KeyIsFresh
  <2>7. LockFits(r, new)
    BY <1>1, <2>1, <2>2 DEF Fits, LockFits, Drawing, InTransaction
  <2>8. Fits(r, new)
    BY <2>4, <2>5, <2>6, <2>7 DEF Fits
  <2>9. new.job <= drawn
    BY <2>1, <2>2
  <2> QED BY <1>1, <2>2, <2>3, <2>8, <2>9, StepKeeps
<1> QED BY <1>2, <1>3
-----------------------------------------------------------------------------
(* Client keys with the same front are the same key.                       *)
LEMMA FrontFound ==
  ASSUME RequestInv, NEW t \in Originals, t.key # NoKey
  PROVE  Front(t.key) \in Keys /\ t \in FoundBy(Front(t.key))
<1>0. t \in tasks /\ t.try = 0
  BY DEF Originals
<1>1. PICK k \in Keys \union {NoKey} : t.key = CompositeKey(k, t.content, t.job)
  BY <1>0, TaskTypes DEF KeyFits
<1>2. k \in Keys
  BY <1>1 DEF CompositeKey
<1>3. t.content \in Contents /\ t.job \in Nat
  BY <1>0, TaskTypes
<1>4. Front(t.key) = k /\ IsStrictPrefix(k, t.key)
  BY <1>1, <1>2, <1>3, Composite
<1>5. k # NoKey
  BY <1>2, KeyType DEF NoKey
<1> QED BY <1>0, <1>2, <1>4, <1>5 DEF FoundBy

(* The commit of a request that creates its task: its key is not taken.    *)
LEMMA CommitCreates ==
  ASSUME RequestInv, NEW r \in Requests, Commit(r), request[r].task = request[r].job
  PROVE  RequestInv'
<1>1. PICK me : me = request[r]
  OBVIOUS
<1> DEFINE row == [id |-> me.job, content |-> me.content, retries |-> 0, status |-> "live"]
           own == [job |-> me.job, try |-> 0, key |-> KeyOf(me), content |-> me.content]
           new == [me EXCEPT !.pc = "answered", !.task = me.task, !.reply = "accepted"]
<1>2. /\ me.pc = "committing" /\ jobs' = jobs \union {row} /\ endpoint' = endpoint
      /\ drawn' = drawn /\ request' = [request EXCEPT ![r] = new]
      /\ tasks' = tasks \union {[job |-> me.job, try |-> 0, key |-> OwnKey(r),
                                  content |-> me.content]}
  BY <1>1 DEF Commit, Accept, Step
<1>3. tasks' = tasks \union {own}
  BY <1>1, <1>2 DEF OwnKey, KeyOf
<1>4. /\ me \in RequestState /\ Fits(r, me) /\ me.job <= drawn /\ me.job \in Nat
      /\ me.content \in Contents /\ me.key \in Keys \union {NoKey} /\ me.task = me.job
  BY <1>1, Current
<1>5. CreatesTask(me) /\ me.job # 0
  BY <1>2, <1>4 DEF CreatesTask, Fits, StageFits
<1>6. /\ new \in RequestState /\ new.pc = "answered" /\ new.job = me.job /\ new.task = me.job
      /\ new.content = me.content
  BY <1>4 DEF RequestState
<1>7. row \in JobRow /\ row.id = me.job /\ row.content = me.content
  BY <1>4 DEF JobRow
<1>8. own.job = me.job /\ own.try = 0 /\ own.key = KeyOf(me) /\ own.content = me.content
  OBVIOUS
<1>9. KeyOf(me) # NoKey => me.key \in Keys
  BY <1>4 DEF KeyOf, CompositeKey
<1>10. KeyOf(me) \in Seq(Elements)
  <2>1. CASE KeyOf(me) = NoKey
    BY <2>1 DEF NoKey
  <2>2. CASE KeyOf(me) # NoKey
    BY <1>4, <1>9, <2>2, Composite DEF KeyOf
  <2> QED BY <2>1, <2>2
<1>11. own \in TaskRow
  BY <1>4, <1>10 DEF TaskRow, Elements
<1>12. /\ request'[r] = new
       /\ \A q \in Requests \ {r} : request'[q] = request[q]
       /\ request' \in [Requests -> RequestState]
  BY <1>2, <1>6 DEF RequestInv, RequestTypeOK
<1>13. KeyFits(own)
  BY <1>4, <1>8 DEF KeyFits, KeyOf
<1> HIDE DEF row, own, new
<1>14. RequestTypeOK'
  BY <1>2, <1>3, <1>7, <1>8, <1>11, <1>12 DEF RequestInv, RequestTypeOK
<1>15. IdsDrawn'
  <2>1. \A j \in jobs : j.id # me.job
    BY <1>2, <1>4, <1>5 DEF Fits, IdIsFresh, Drawing
  <2>2. \A i, j \in jobs' : i.id = j.id => i = j
    BY <1>2, <1>7, <2>1 DEF RequestInv, IdsDrawn
  <2>3. \A q \in Requests : request'[q].job <= drawn
    BY <1>4, <1>6, <1>12 DEF RequestInv, IdsDrawn
  <2> QED BY <1>2, <1>4, <1>5, <1>7, <2>2, <2>3 DEF RequestInv, IdsDrawn
<1>16. KeysUnique'
  <2>1. \A t \in tasks' : KeyFits(t)
    BY <1>3, <1>13 DEF RequestInv, KeysUnique
  <2>2. (\A t \in tasks : KeyFits(t))'
    BY <1>2, <2>1 DEF KeyFits, CompositeKey, Digest
  <2>3. own.key # NoKey => \A t \in tasks : t.key # own.key
    BY <1>4, <1>5, <1>8 DEF Fits, KeyIsFresh
  <2>4. \A t, u \in tasks' : t.key # NoKey /\ t.key = u.key => t = u
    BY <1>3, <2>3 DEF RequestInv, KeysUnique
  <2> QED BY <2>2, <2>4 DEF KeysUnique
<1>17. WorkbenchFits'
  <2>1. SUFFICES ASSUME endpoint = "clean"
                 PROVE  WorkbenchFits'
    BY <1>2 DEF WorkbenchFits
  <2>2. /\ \A j \in Reusable(me.content) : j.retries # 0
        /\ \A t \in FoundBy(me.key) : t.try # 0
    BY <1>2, <1>4, <2>1 DEF Fits, LockFits, Drawing
  <2>3. \A j \in jobs : j.content = me.content => ~Works(j)
    BY <2>2 DEF Reusable, Works
  <2>4. \A i, j \in jobs' : (i.content = j.content /\ Works(i) /\ Works(j)) => i = j
    BY <1>2, <1>7, <2>1, <2>3 DEF RequestInv, WorkbenchFits
  <2>5. ASSUME NEW t \in Originals, t.key # NoKey, own.key # NoKey
        PROVE  Front(t.key) # Front(own.key)
    <3>1. me.key \in Keys /\ Front(own.key) = me.key
      BY <1>4, <1>8, <1>9, <2>5, Composite DEF KeyOf
    <3>2. t \in FoundBy(Front(t.key)) /\ t.try = 0
      BY <2>5, FrontFound DEF Originals
    <3> QED BY <2>2, <3>1, <3>2
  <2>6. \A t, u \in Originals' :
          (t.key # NoKey /\ u.key # NoKey /\ Front(t.key) = Front(u.key)) => t = u
    <3>1. Originals' = Originals \union {own}
      BY <1>3, <1>8 DEF Originals
    <3> QED BY <2>1, <2>5, <3>1 DEF RequestInv, WorkbenchFits
  <2>7. \A j \in jobs' : \E t \in tasks' : t.job = j.id
    BY <1>2, <1>3, <1>7, <1>8, <2>1 DEF RequestInv, WorkbenchFits
  <2> QED BY <2>4, <2>6, <2>7 DEF WorkbenchFits
<1>18. ASSUME NEW q \in Requests
       PROVE  Fits(q, request[q])'
  <2>1. CASE q = r
    <3>1. AnswerFits(request[r])'
      BY <1>3, <1>6, <1>8, <1>12 DEF AnswerFits
    <3> QED BY <1>6, <1>12, <2>1, <3>1
            DEF Fits, StageFits, IdIsFresh, KeyIsFresh, CreatesTask, LockFits, InTransaction, Drawing
  <2>2. CASE q # r
    <3>1. request'[q] = request[q] /\ Fits(q, request[q])
      BY <1>12, <2>2 DEF RequestInv
    <3>2. StageFits(request[q])' /\ AnswerFits(request[q])'
      BY <1>2, <1>3, <3>1 DEF Fits, StageFits, AnswerFits
    <3>3. IdIsFresh(q, request[q])'
      <4>1. request[q].pc \in Drawing => request[q].job # me.job
        BY <1>2, <1>4, <1>5, <2>2 DEF Fits, IdIsFresh, Drawing
      <4> QED BY <1>2, <1>6, <1>7, <1>12, <3>1, <4>1 DEF Fits, IdIsFresh, Drawing
    <3>4. KeyIsFresh(q, request[q])'
      <4>1. (CreatesTask(request[q]) /\ KeyOf(request[q]) # NoKey) => KeyOf(request[q]) # own.key
        BY <1>1, <1>5, <1>8, <2>2, <3>1 DEF Fits, KeyIsFresh
      <4>2. KeyOf(request[q])' = KeyOf(request[q]) /\ CreatesTask(request[q])' = CreatesTask(request[q])
        BY <1>2, <3>1 DEF KeyOf, CompositeKey, Digest, CreatesTask
      <4>3. \A p \in Requests \ {q} : CreatesTask(request'[p]) =>
               p # r /\ request'[p] = request[p]
        BY <1>6, <1>12 DEF CreatesTask
      <4>4. \A p \in Requests \ {q} : CreatesTask(request'[p]) =>
               CreatesTask(request[p]) /\ KeyOf(request[p])' = KeyOf(request[p])
        BY <1>2, <4>3 DEF KeyOf, CompositeKey, Digest
      <4>5. (CreatesTask(request[q]) /\ KeyOf(request[q]) # NoKey) =>
              \A t \in tasks' : t.key # KeyOf(request[q])
        BY <1>3, <3>1, <4>1 DEF Fits, KeyIsFresh
      <4>6. (CreatesTask(request[q]) /\ KeyOf(request[q]) # NoKey) =>
              \A p \in Requests \ {q} : CreatesTask(request[p]) => KeyOf(request[p]) # KeyOf(request[q])
        BY <3>1 DEF Fits, KeyIsFresh
      <4>7. (request[q].pc = "committing" /\ request[q].task # request[q].job) =>
              endpoint = "parse" /\ \E t \in tasks' : /\ t.key # NoKey /\ t.key = KeyOf(request[q])
                                                      /\ t.job = request[q].task
        BY <1>3, <3>1 DEF Fits, KeyIsFresh
      <4> QED BY <1>2, <3>1, <4>2, <4>4, <4>5, <4>6, <4>7 DEF KeyIsFresh, CreatesTask
    <3>5. LockFits(q, request[q])'
      <4>1. SUFFICES ASSUME endpoint = "clean"
                     PROVE  LockFits(q, request[q])'
        BY <1>2 DEF LockFits
      <4>2. request[q].pc \notin InTransaction
        BY <1>2, <1>4, <2>2, <4>1 DEF Fits, LockFits, InTransaction
      <4> QED BY <3>1, <4>2 DEF LockFits, InTransaction, Drawing
    <3> QED BY <3>2, <3>3, <3>4, <3>5 DEF Fits
  <2> QED BY <2>1, <2>2
<1> QED BY <1>14, <1>15, <1>16, <1>17, <1>18 DEF RequestInv

(* A task with the key of a request does what the request asks for.        *)
LEMMA TwinIsEqual ==
  ASSUME RequestInv, NEW t \in tasks, t.key # NoKey,
         NEW k \in Keys \union {NoKey}, NEW c \in Contents, NEW n \in Nat,
         t.key = CompositeKey(k, c, n)
  PROVE  t.content = c
<1>1. PICK l \in Keys \union {NoKey} : t.key = CompositeKey(l, t.content, t.job)
  BY TaskTypes, CompositeIsOriginal DEF KeyFits
<1>2. PICK d, m : d = t.content /\ m = t.job
  OBVIOUS
<1>3. d \in Contents /\ m \in Nat
  BY <1>2, TaskTypes
<1>4. CompositeKey(k, c, n) = CompositeKey(l, d, m) /\ CompositeKey(k, c, n) # NoKey
  BY <1>1, <1>2
<1>5. Digest(c, n) = Digest(d, m)
  BY <1>3, <1>4, CompositeInjective
<1>6. c = d
  BY <1>5, DigestInjective
<1> QED BY <1>2, <1>6

(* The commit of a parse that found its task: a job without a task.        *)
LEMMA CommitFinds ==
  ASSUME RequestInv, NEW r \in Requests, Commit(r), request[r].task # request[r].job
  PROVE  RequestInv'
<1>1. PICK me : me = request[r]
  OBVIOUS
<1> DEFINE row == [id |-> me.job, content |-> me.content, retries |-> 0, status |-> "live"]
           new == [me EXCEPT !.pc = "answered", !.task = me.task, !.reply = "accepted"]
<1>2. /\ me.pc = "committing" /\ jobs' = jobs \union {row} /\ endpoint' = endpoint
      /\ drawn' = drawn /\ request' = [request EXCEPT ![r] = new] /\ tasks' = tasks
  BY <1>1 DEF Commit, Accept, Step
<1>3. /\ me \in RequestState /\ Fits(r, me) /\ me.job <= drawn /\ me.job \in Nat
      /\ me.content \in Contents /\ me.key \in Keys \union {NoKey} /\ me.task # me.job
      /\ me.job # 0
  BY <1>1, <1>2, Current DEF Fits, StageFits
<1>4. PICK t \in tasks : t.key # NoKey /\ t.key = KeyOf(me) /\ t.job = me.task
  BY <1>2, <1>3 DEF Fits, KeyIsFresh
<1>5. endpoint = "parse"
  BY <1>2, <1>3 DEF Fits, KeyIsFresh
<1>6. t.content = me.content
  BY <1>3, <1>4, TwinIsEqual DEF KeyOf
<1>7. /\ new \in RequestState /\ new.pc = "answered" /\ new.job = me.job /\ new.task = me.task
      /\ new.content = me.content
  BY <1>3 DEF RequestState
<1>8. row \in JobRow /\ row.id = me.job
  BY <1>3 DEF JobRow
<1>9. /\ request'[r] = new
      /\ \A q \in Requests \ {r} : request'[q] = request[q]
      /\ request' \in [Requests -> RequestState]
  BY <1>2, <1>7 DEF RequestInv, RequestTypeOK
<1> HIDE DEF row, new
<1>10. RequestTypeOK' /\ KeysUnique' /\ WorkbenchFits'
  BY <1>2, <1>5, <1>8, <1>9
     DEF RequestInv, RequestTypeOK, KeysUnique, KeyFits, CompositeKey, Digest, WorkbenchFits
<1>11. IdsDrawn'
  <2>1. \A j \in jobs : j.id # me.job
    BY <1>2, <1>3 DEF Fits, IdIsFresh, Drawing
  <2>2. \A i, j \in jobs' : i.id = j.id => i = j
    BY <1>2, <1>8, <2>1 DEF RequestInv, IdsDrawn
  <2>3. \A q \in Requests : request'[q].job <= drawn
    BY <1>3, <1>7, <1>9 DEF RequestInv, IdsDrawn
  <2> QED BY <1>2, <1>3, <1>8, <2>2, <2>3 DEF RequestInv, IdsDrawn
<1>12. ASSUME NEW q \in Requests
       PROVE  Fits(q, request[q])'
  <2>1. LockFits(q, request[q])'
    BY <1>2, <1>5 DEF LockFits
  <2>2. CASE q = r
    <3>1. AnswerFits(request[r])'
      BY <1>2, <1>4, <1>6, <1>7, <1>9 DEF AnswerFits
    <3> QED BY <1>7, <1>9, <2>1, <2>2, <3>1
            DEF Fits, StageFits, IdIsFresh, KeyIsFresh, CreatesTask, Drawing
  <2>3. CASE q # r
    <3>1. request'[q] = request[q] /\ Fits(q, request[q])
      BY <1>9, <2>3 DEF RequestInv
    <3>2. StageFits(request[q])' /\ AnswerFits(request[q])'
      BY <1>2, <3>1 DEF Fits, StageFits, AnswerFits
    <3>3. request[q].pc \in Drawing => request[q].job # me.job
      BY <1>2, <1>3, <2>3 DEF Fits, IdIsFresh, Drawing
    <3>4. IdIsFresh(q, request[q])'
      BY <1>2, <1>7, <1>8, <1>9, <3>1, <3>3 DEF Fits, IdIsFresh, Drawing
    <3>5. KeyIsFresh(q, request[q])'
      BY <1>2, <1>7, <1>9, <2>3, <3>1
         DEF Fits, KeyIsFresh, CreatesTask, KeyOf, CompositeKey, Digest
    <3> QED BY <2>1, <3>2, <3>4, <3>5 DEF Fits
  <2> QED BY <2>2, <2>3
<1> QED BY <1>10, <1>11, <1>12 DEF RequestInv

LEMMA JobEndsKeeps ==
  ASSUME RequestInv, JobEnds
  PROVE  RequestInv'
<1>1. PICK j \in jobs, outcome \in {"completed", "failed", "cancelled"} :
        j.status = "live" /\ jobs' = (jobs \ {j}) \union {[j EXCEPT !.status = outcome]}
  BY DEF JobEnds
<1> DEFINE ended == [j EXCEPT !.status = outcome]
<1>2. /\ jobs' = (jobs \ {j}) \union {ended}
      /\ endpoint' = endpoint /\ tasks' = tasks /\ drawn' = drawn /\ request' = request
  BY <1>1 DEF JobEnds
<1>3. /\ ended \in JobRow /\ ended.id = j.id /\ ended.content = j.content
      /\ ended.retries = j.retries /\ j.status = "live"
  BY <1>1 DEF RequestInv, RequestTypeOK, JobRow
<1> HIDE DEF ended
<1>4. RequestTypeOK'
  BY <1>2, <1>3 DEF RequestInv, RequestTypeOK
<1>5. IdsDrawn'
  BY <1>2, <1>3 DEF RequestInv, IdsDrawn
<1>6. KeysUnique'
  BY <1>2 DEF RequestInv, KeysUnique, KeyFits, CompositeKey, Digest
<1>7. WorkbenchFits'
  <2>1. Works(ended) => Works(j)
    BY <1>3 DEF Works
  <2> QED BY <1>1, <1>2, <1>3, <2>1 DEF RequestInv, WorkbenchFits, Originals
<1>8. ASSUME NEW q \in Requests
      PROVE  Fits(q, request[q])'
  <2>1. Fits(q, request[q]) /\ request'[q] = request[q]
    BY <1>2 DEF RequestInv
  <2>2. StageFits(request[q])' /\ AnswerFits(request[q])'
    BY <1>2, <2>1 DEF Fits, StageFits, AnswerFits
  <2>3. IdIsFresh(q, request[q])'
    BY <1>2, <1>3, <2>1 DEF Fits, IdIsFresh
  <2>4. KeyIsFresh(q, request[q])'
    BY <1>2, <2>1 DEF Fits, KeyIsFresh, CreatesTask, KeyOf, CompositeKey, Digest
  <2>5. LockFits(q, request[q])'
    BY <1>1, <1>2, <1>3, <2>1 DEF Fits, LockFits, Reusable, FoundBy
  <2> QED BY <2>2, <2>3, <2>4, <2>5 DEF Fits
<1> QED BY <1>4, <1>5, <1>6, <1>7, <1>8 DEF RequestInv

(* A retry adds a task with a key that no task has and that is no request's *)
(* composite key, and its job counts no longer as one never retried.       *)
LEMMA RetryKeeps ==
  ASSUME RequestInv, NEW j \in jobs, NEW key \in Keys, Retry(j, key)
  PROVE  RequestInv'
<1> DEFINE queued == [j EXCEPT !.status = "live", !.retries = j.retries + 1]
           own == [job |-> j.id, try |-> j.retries + 1, key |-> key, content |-> j.content]
<1>1. /\ j.status = "failed" /\ jobs' = (jobs \ {j}) \union {queued}
      /\ tasks' = tasks \union {own} /\ \A t \in tasks : t.key # key
      /\ endpoint' = endpoint /\ drawn' = drawn /\ request' = request
  BY DEF Retry
<1>2. j \in JobRow /\ j.id \in Nat /\ j.retries \in Nat /\ j.content \in Contents
  BY DEF RequestInv, RequestTypeOK, JobRow
<1>3. /\ queued \in JobRow /\ queued.id = j.id /\ queued.content = j.content
      /\ queued.retries # 0
  <2>1. PICK n : n = j.retries + 1
    OBVIOUS
  <2>2. n \in Nat /\ n # 0
    BY <1>2, <2>1
  <2>3. queued = [j EXCEPT !.status = "live", !.retries = n]
    BY <2>1
  <2> HIDE DEF queued
  <2> QED BY <1>2, <2>2, <2>3 DEF JobRow
<1>4. /\ own.job = j.id /\ own.try # 0 /\ own.key = key /\ own.content = j.content
      /\ own \in TaskRow
  <2>1. key \in Seq(Elements)
    BY KeyType
  <2> QED BY <1>2, <2>1 DEF TaskRow, Elements
<1> HIDE DEF queued, own
<1>5. RequestTypeOK'
  BY <1>1, <1>3, <1>4 DEF RequestInv, RequestTypeOK
<1>6. IdsDrawn'
  BY <1>1, <1>3 DEF RequestInv, IdsDrawn
<1>7. KeysUnique'
  <2>1. \A t \in tasks' : KeyFits(t)
    BY <1>1, <1>4 DEF RequestInv, KeysUnique, KeyFits
  <2>2. (\A t \in tasks : KeyFits(t))'
    BY <1>1, <2>1 DEF KeyFits, CompositeKey, Digest
  <2>3. \A t, u \in tasks' : t.key # NoKey /\ t.key = u.key => t = u
    BY <1>1, <1>4 DEF RequestInv, KeysUnique
  <2> QED BY <2>2, <2>3 DEF KeysUnique
<1>8. Originals' = Originals
  BY <1>1, <1>4 DEF Originals
<1>9. WorkbenchFits'
  <2>1. ~Works(queued)
    BY <1>3 DEF Works
  <2> QED BY <1>1, <1>3, <1>8, <2>1 DEF RequestInv, WorkbenchFits
<1>10. ASSUME NEW q \in Requests
       PROVE  Fits(q, request[q])'
  <2>1. Fits(q, request[q]) /\ request'[q] = request[q]
    BY <1>1 DEF RequestInv
  <2>2. StageFits(request[q])' /\ AnswerFits(request[q])'
    BY <1>1, <2>1 DEF Fits, StageFits, AnswerFits
  <2>3. IdIsFresh(q, request[q])'
    BY <1>1, <1>3, <2>1 DEF Fits, IdIsFresh
  <2>4. KeyOf(request[q]) # key
    <3>1. /\ request[q].key \in Keys \union {NoKey} /\ request[q].content \in Contents
          /\ request[q].job \in Nat
      BY Current
    <3>2. CASE request[q].key = NoKey
      BY <3>2, KeyType DEF KeyOf, CompositeKey, NoKey
    <3>3. CASE request[q].key \in Keys
      BY <3>1, <3>3, RawKey DEF KeyOf
    <3> QED BY <3>1, <3>2, <3>3
  <2>5. KeyIsFresh(q, request[q])'
    BY <1>1, <1>4, <2>1, <2>4 DEF Fits, KeyIsFresh, CreatesTask, KeyOf, CompositeKey, Digest
  <2>6. LockFits(q, request[q])'
    BY <1>1, <1>3, <1>4, <2>1 DEF Fits, LockFits, Reusable, FoundBy
  <2> QED BY <2>2, <2>3, <2>5, <2>6 DEF Fits
<1> QED BY <1>5, <1>6, <1>7, <1>9, <1>10 DEF RequestInv

LEMMA RequestInductive == RequestSpec => []RequestInv
<1>1. RequestInit => RequestInv
  BY RequestInitially
<1>2. RequestInv /\ [RequestNext]_requestVars => RequestInv'
  <2> SUFFICES ASSUME RequestInv, [RequestNext]_requestVars
               PROVE  RequestInv'
    OBVIOUS
  <2>1. ASSUME NEW r \in Requests, Ask(r) PROVE RequestInv'
    BY <2>1, AskKeeps
  <2>2. ASSUME NEW r \in Requests, Forget(r) PROVE RequestInv'
    BY <2>2, ForgetKeeps
  <2>3. ASSUME NEW r \in Requests, ParseFind(r) PROVE RequestInv'
    BY <2>3, ParseFindKeeps
  <2>4. ASSUME NEW r \in Requests, ExportFind(r) PROVE RequestInv'
    BY <2>4, ExportFindKeeps
  <2>5. ASSUME NEW r \in Requests, CleanLock(r) PROVE RequestInv'
    BY <2>5, CleanLockKeeps
  <2>6. ASSUME NEW r \in Requests, CleanFind(r) PROVE RequestInv'
    BY <2>6, CleanFindKeeps
  <2>7. ASSUME NEW r \in Requests, InsertJob(r) PROVE RequestInv'
    BY <2>7, InsertJobKeeps
  <2>8. ASSUME NEW r \in Requests, FindTask(r) PROVE RequestInv'
    BY <2>8, FindTaskKeeps
  <2>9. ASSUME NEW r \in Requests, InsertTask(r) PROVE RequestInv'
    BY <2>9, InsertTaskKeeps
  <2>10. ASSUME NEW r \in Requests, Commit(r) PROVE RequestInv'
    BY <2>10, CommitCreates, CommitFinds
  <2>11. CASE JobEnds
    BY <2>11, JobEndsKeeps
  <2>12. CASE UNCHANGED requestVars
    <3>1. /\ endpoint' = endpoint /\ jobs' = jobs /\ tasks' = tasks /\ drawn' = drawn
          /\ request' = request
      BY <2>12 DEF requestVars, stored
    <3>2. RequestTypeOK' /\ IdsDrawn' /\ KeysUnique' /\ WorkbenchFits'
      BY <3>1 DEF RequestInv, RequestTypeOK, IdsDrawn, KeysUnique, KeyFits, WorkbenchFits,
                  CompositeKey, Digest, Originals
    <3>3. ASSUME NEW q \in Requests
          PROVE  Fits(q, request[q])'
      BY <3>1 DEF RequestInv, Fits, StageFits, IdIsFresh, KeyIsFresh, CreatesTask, KeyOf, LockFits,
                  AnswerFits, Reusable, FoundBy, CompositeKey, Digest
    <3> QED BY <3>2, <3>3 DEF RequestInv
  <2>13. ASSUME NEW j \in jobs, NEW key \in Keys, Retry(j, key) PROVE RequestInv'
    BY <2>13, RetryKeeps
  <2> QED BY <2>1, <2>2, <2>3, <2>4, <2>5, <2>6, <2>7, <2>8, <2>9, <2>10, <2>11, <2>12, <2>13
          DEF RequestNext
<1> QED BY <1>1, <1>2, PTL DEF RequestSpec

(* However many requests run at the same time and are repeated, equal      *)
(* requests with one key create one task, unless they are exports          *)
(* (services/idempotency.py:3): the unique key decides for parses, whose   *)
(* digest is the same for equal requests, and the lock on the document for *)
(* cleanings, whose digest never is.                                       *)
THEOREM OneTaskButForExportsHolds == RequestSpec => []OneTaskButForExports
<1>1. RequestInv => OneTaskButForExports
  <2> SUFFICES ASSUME RequestInv, endpoint # "export", NEW t \in Originals, NEW u \in Originals,
                      t.key # NoKey, u.key # NoKey, Front(t.key) = Front(u.key),
                      t.content = u.content
               PROVE  t = u
    BY DEF OneTaskButForExports, SameRequestOneTask
  <2>1. endpoint = "parse" \/ endpoint = "clean"
    BY RequestAssumption DEF RequestInv, RequestTypeOK
  <2>2. CASE endpoint = "clean"
    BY <2>2 DEF RequestInv, WorkbenchFits
  <2>3. CASE endpoint = "parse"
    <3>0. t \in tasks /\ u \in tasks /\ t.try = 0 /\ u.try = 0
      BY DEF Originals
    <3>1. PICK k \in Keys \union {NoKey} : t.key = CompositeKey(k, t.content, t.job)
      BY <3>0, TaskTypes DEF KeyFits
    <3>2. PICK l \in Keys \union {NoKey} : u.key = CompositeKey(l, u.content, u.job)
      BY <3>0, TaskTypes DEF KeyFits
    <3>3. k \in Keys /\ l \in Keys
      BY <3>1, <3>2 DEF CompositeKey
    <3>4. Front(t.key) = k /\ Front(u.key) = l
      BY <3>0, <3>1, <3>2, <3>3, TaskTypes, Composite
    <3>5. t.key = u.key
      BY <2>3, <3>1, <3>2, <3>4 DEF CompositeKey, Digest
    <3> QED BY <3>0, <3>5 DEF RequestInv, KeysUnique
  <2> QED BY <2>1, <2>2, <2>3
<1> QED BY <1>1, RequestInductive, PTL

(* Of the cleaning jobs of a parse result that no retry revived, at most   *)
(* one is live or completed: double clicks share one workbench             *)
(* (routers/documents.py:457), however many jobs failed, were cancelled or *)
(* were retried before.                                                    *)
THEOREM OneWorkbenchButForRetriesHolds == RequestSpec => []OneWorkbenchButForRetries
<1>1. RequestInv => OneWorkbenchButForRetries
  <2> SUFFICES ASSUME RequestInv, endpoint = "clean", NEW c \in Contents
               PROVE  Cardinality({j \in Reusable(c) : j.retries = 0}) <= 1
    BY DEF OneWorkbenchButForRetries
  <2> DEFINE work == {j \in Reusable(c) : j.retries = 0}
  <2>1. \A i, j \in work : i = j
    BY DEF RequestInv, WorkbenchFits, Reusable, Works
  <2> HIDE DEF work
  <2>2. CASE work = {}
    BY <2>2, FS_EmptySet DEF work
  <2>3. CASE work # {}
    <3>1. PICK j : work = {j}
      BY <2>1, <2>3
    <3>2. Cardinality(work) = 1
      BY <3>1, FS_Singleton
    <3> QED BY <3>2 DEF work
  <2> QED BY <2>2, <2>3
<1> QED BY <1>1, RequestInductive, PTL

(* An accepted request of any kind, a replay of an export with its other   *)
(* digest included, is answered with a committed task that does what was   *)
(* asked (services/idempotency.py:3).                                      *)
THEOREM AnswersMatchHolds == RequestSpec => []AnswersMatch
<1>1. RequestInv => AnswersMatch
  BY DEF RequestInv, Fits, AnswerFits, AnswersMatch
<1> QED BY <1>1, RequestInductive, PTL

(* A refusal of a parse rests on a task of another content with its key.   *)
RefusalFits(me) ==
  (endpoint = "parse" /\ me.reply = "conflict") =>
    \E t \in Originals : t.key # NoKey /\ Front(t.key) = me.key /\ t.content # me.content

(* With no colon in it, the client key is all that comes before the digest. *)
LEMMA RefusedForAnother ==
  ASSUME RequestInv, \A k \in Keys : Len(k) = 1, endpoint = "parse",
         NEW k \in Keys \union {NoKey}, NEW c \in Contents, NEW t \in FoundBy(k),
         ~SameDigest(t, c, 0)
  PROVE  t \in Originals /\ t.key # NoKey /\ Front(t.key) = k /\ t.content # c
<1>1. t \in tasks /\ k \in Keys /\ t.key # NoKey
  BY FoundHasKey
<1>0. t.try = 0
  <2>1. SUFFICES ASSUME t.key \in Keys PROVE FALSE
    BY <1>1, TaskTypes DEF KeyFits
  <2>2. Len(k) = 1 /\ Len(t.key) = 1 /\ k \in Seq(Parts) /\ t.key \in Seq(Parts)
    BY <1>1, <2>1, KeyType
  <2>3. IsStrictPrefix(k, t.key)
    BY DEF FoundBy
  <2>4. SubSeq(k, 1, 1) = SubSeq(t.key, 1, 1) /\ k # t.key
    BY <2>2, <2>3 DEF IsStrictPrefix, IsPrefix
  <2> QED BY <2>2, <2>4, SubSeqFull
<1>2. PICK l \in Keys \union {NoKey} : t.key = CompositeKey(l, t.content, t.job)
  BY <1>0, <1>1, TaskTypes DEF KeyFits
<1>3. l \in Keys /\ t.content \in Contents /\ t.job \in Nat
  BY <1>1, <1>2, TaskTypes DEF CompositeKey
<1> DEFINE d == Digest(t.content, t.job)
<1>4. /\ l \in Seq(Elements) /\ l # <<>> /\ Len(l) = 1 /\ d \in Elements
      /\ k \in Seq(Elements) /\ Len(k) = 1
  BY <1>1, <1>3, KeyType, DigestType
<1>5. t.key = Append(l, d) /\ Front(t.key) = l
  BY <1>2, <1>3, Composite
<1> HIDE DEF d
<1>6. l = k
  <2>1. SubSeq(k, 1, Len(k)) = SubSeq(t.key, 1, Len(k))
    BY DEF FoundBy, IsStrictPrefix, IsPrefix
  <2>2. Len(t.key) = 2
    <3>1. l \in Seq(Elements) /\ d \in Elements
      BY <1>4
    <3>2. Len(Append(l, d)) = Len(l) + 1
      BY ONLY <3>1, AppendProperties
    <3> QED BY <1>4, <1>5, <3>2
  <2>3. SubSeq(t.key, 1, 1) = l
    BY <1>5, <2>2 DEF Front
  <2>4. SubSeq(k, 1, 1) = k
    BY <1>4, SubSeqFull
  <2> QED BY <1>4, <2>1, <2>3, <2>4
<1>7. Tail(t.key) = <<d>>
  <2>1. Tail(t.key) = Append(Tail(l), d)
    BY <1>4, <1>5, HeadTailAppend
  <2>2. Tail(l) \in Seq(Elements) /\ Len(Tail(l)) = 0
    BY <1>4
  <2>3. Tail(l) = <<>>
    BY <2>2
  <2>4. Append(<<>>, d) = <<d>>
    OBVIOUS
  <2> QED BY <2>1, <2>3, <2>4
<1>8. t.content # c
  <2>1. <<d>> # <<Digest(c, 0)>>
    BY <1>7 DEF SameDigest
  <2> QED BY <2>1 DEF d, Digest
<1> QED BY <1>0, <1>1, <1>5, <1>6, <1>8 DEF Originals

(* What a step may do to a refusal: nothing, forget it, or make one that   *)
(* fits; tasks are never deleted.                                          *)
LEMMA RefusalsStay ==
  ASSUME NEW r \in Requests, NEW new, RequestInv, Step(r, new),
         endpoint' = endpoint, tasks \subseteq tasks',
         \A q \in Requests : RefusalFits(request[q]), RefusalFits(new)
  PROVE  (\A q \in Requests : RefusalFits(request[q]))'
<1>1. request'[r] = new /\ \A q \in Requests \ {r} : request'[q] = request[q]
  BY DEF Step, RequestInv, RequestTypeOK
<1>2. ASSUME NEW q \in Requests
      PROVE  RefusalFits(request[q])'
  <2>1. CASE q = r
    BY <1>1, <2>1 DEF RefusalFits, Originals
  <2>2. CASE q # r
    <3>1. request'[q] = request[q] /\ RefusalFits(request[q])
      BY <1>1, <2>2
    <3> QED BY <3>1 DEF RefusalFits, Originals
  <2> QED BY <2>1, <2>2
<1> QED BY <1>2

LEMMA RefusalStep ==
  ASSUME RequestInv, \A k \in Keys : Len(k) = 1, NEW r \in Requests,
         \A q \in Requests : RefusalFits(request[q]),
         \/ Ask(r) \/ Forget(r)
         \/ ParseFind(r) \/ ExportFind(r) \/ CleanLock(r) \/ CleanFind(r)
         \/ InsertJob(r) \/ FindTask(r) \/ InsertTask(r) \/ Commit(r)
  PROVE  (\A q \in Requests : RefusalFits(request[q]))'
<1>1. endpoint' = endpoint /\ tasks \subseteq tasks'
  BY DEF Ask, Forget, ParseFind, ExportFind, CleanLock, CleanFind, InsertJob, FindTask, InsertTask,
         Commit, stored
<1>2. /\ request[r] \in RequestState /\ Fits(r, request[r]) /\ RefusalFits(request[r])
      /\ request[r].key \in Keys \union {NoKey} /\ request[r].content \in Contents
  BY Current
<1>3. ASSUME NEW new, Step(r, new), new.reply # "conflict" \/ endpoint # "parse"
      PROVE  (\A q \in Requests : RefusalFits(request[q]))'
  <2>1. RefusalFits(new)
    BY <1>3 DEF RefusalFits
  <2> QED BY <1>1, <1>3, <2>1, RefusalsStay
<1>4. ASSUME NEW job, Accept(r, job)
      PROVE  (\A q \in Requests : RefusalFits(request[q]))'
  <2>1. [request[r] EXCEPT !.pc = "answered", !.task = job, !.reply = "accepted"].reply = "accepted"
    BY <1>2 DEF RequestState
  <2> QED BY <1>3, <1>4, <2>1 DEF Accept
<1>5. ASSUME NEW why, Refuse(r, why), why # "conflict" \/ endpoint # "parse"
      PROVE  (\A q \in Requests : RefusalFits(request[q]))'
  <2>1. [request[r] EXCEPT !.pc = "answered", !.reply = why].reply = why
    BY <1>2 DEF RequestState
  <2> QED BY <1>3, <1>5, <2>1 DEF Refuse
<1>6. CASE endpoint # "parse"
  <2>1. PICK new : Step(r, new)
    BY DEF Ask, Forget, ParseFind, ExportFind, CleanLock, CleanFind, InsertJob, FindTask, InsertTask,
           Commit, Accept, Refuse, Proceed, Idempotent
  <2> QED BY <1>3, <1>6, <2>1
<1>7. CASE endpoint = "parse"
  <2>1. CASE Ask(r)
    <3>1. PICK ask \in Asks : Step(r, [Idle EXCEPT !.pc = "asked", !.key = ask[1],
                                                    !.content = ask[2]])
      BY <2>1 DEF Ask
    <3>2. [Idle EXCEPT !.pc = "asked", !.key = ask[1], !.content = ask[2]].reply = "none"
      BY DEF Idle
    <3> QED BY <1>3, <3>1, <3>2
  <2>2. CASE Forget(r)
    BY <1>3, <2>2 DEF Forget, Idle
  <2>3. CASE ParseFind(r)
    <3>1. request[r].reply = "none"
      BY <1>2, <2>3 DEF ParseFind, Fits, StageFits, RequestState
    <3>2. CASE Proceed(r)
      <4>1. [request[r] EXCEPT !.pc = "creating"].reply = "none"
        BY <1>2, <3>1 DEF RequestState
      <4> QED BY <1>3, <3>2, <4>1 DEF Proceed
    <3>3. CASE Refuse(r, "error")
      BY <1>5, <3>3
    <3>4. ASSUME NEW t \in FoundBy(request[r].key), ~SameDigest(t, request[r].content, 0),
                 Refuse(r, "conflict")
          PROVE  (\A q \in Requests : RefusalFits(request[q]))'
      <4> DEFINE new == [request[r] EXCEPT !.pc = "answered", !.reply = "conflict"]
      <4>1. new.key = request[r].key /\ new.content = request[r].content
        BY <1>2 DEF RequestState
      <4>2. t \in Originals /\ t.key # NoKey /\ Front(t.key) = request[r].key
              /\ t.content # request[r].content
        BY <1>2, <1>7, <3>4, RefusedForAnother
      <4>3. Step(r, new)
        BY <3>4 DEF Refuse
      <4> HIDE DEF new
      <4>4. RefusalFits(new)
        BY <4>1, <4>2 DEF RefusalFits
      <4> QED BY <1>1, <4>3, <4>4, RefusalsStay
    <3> QED BY <1>4, <2>3, <3>2, <3>3, <3>4 DEF ParseFind, Idempotent
  <2>4. CASE InsertJob(r) \/ FindTask(r) \/ InsertTask(r) \/ Commit(r)
    <3>1. request[r].reply # "conflict"
      BY <1>2, <2>4 DEF InsertJob, FindTask, InsertTask, Commit, Fits, StageFits
    <3>2. /\ [request[r] EXCEPT !.job = drawn + 1].reply # "conflict"
          /\ [request[r] EXCEPT !.pc = "inserting"].reply # "conflict"
          /\ [request[r] EXCEPT !.pc = "committing", !.task = request[r].job].reply # "conflict"
          /\ \A job : [request[r] EXCEPT !.pc = "committing", !.task = job].reply # "conflict"
      BY <1>2, <3>1 DEF RequestState
    <3>3. CASE InsertJob(r)
      BY <1>3, <3>2, <3>3 DEF InsertJob
    <3>4. CASE FindTask(r)
      BY <1>3, <1>7, <3>2, <3>4 DEF FindTask
    <3>5. CASE InsertTask(r)
      BY <1>3, <1>5, <3>2, <3>5 DEF InsertTask
    <3>6. CASE Commit(r)
      BY <1>4, <3>6 DEF Commit
    <3> QED BY <2>4, <3>3, <3>4, <3>5, <3>6
  <2>5. ~CleanLock(r) /\ ~ExportFind(r)
    BY <1>7 DEF CleanLock, ExportFind
  <2>6. ~CleanFind(r)
    BY <1>2, <1>7 DEF CleanFind, Fits, StageFits
  <2> QED BY <2>1, <2>2, <2>3, <2>4, <2>5, <2>6
<1> QED BY <1>6, <1>7

(* A parse is refused because of its key only if that key was used for     *)
(* another request (services/idempotency.py:3), provided that no client    *)
(* key contains a colon: the digest is taken to begin after the first one  *)
(* (services/idempotency.py:71).                                           *)
THEOREM ParseRefusedOnlyIfReusedHolds ==
  ASSUME \A k \in Keys : Len(k) = 1
  PROVE  RequestSpec => []ParseRefusedOnlyIfReused
<1> DEFINE Refusals == \A r \in Requests : RefusalFits(request[r])
<1>1. RequestInit => Refusals
  BY DEF RequestInit, Idle, RefusalFits
<1>2. RequestInv /\ Refusals /\ [RequestNext]_requestVars => Refusals'
  <2> SUFFICES ASSUME RequestInv, Refusals, [RequestNext]_requestVars
               PROVE  Refusals'
    OBVIOUS
  <2>1. CASE JobEnds \/ UNCHANGED requestVars \/ \E j \in jobs, key \in Keys : Retry(j, key)
    <3>1. endpoint' = endpoint /\ tasks \subseteq tasks' /\ request' = request
      BY <2>1 DEF JobEnds, Retry, requestVars, stored
    <3> QED BY <3>1 DEF RefusalFits, Originals
  <2>2. CASE \E r \in Requests :
               \/ Ask(r) \/ Forget(r)
               \/ ParseFind(r) \/ ExportFind(r) \/ CleanLock(r) \/ CleanFind(r)
               \/ InsertJob(r) \/ FindTask(r) \/ InsertTask(r) \/ Commit(r)
    BY <2>2, RefusalStep
  <2> QED BY <2>1, <2>2 DEF RequestNext
<1>3. Refusals => ParseRefusedOnlyIfReused
  BY DEF RefusalFits, ParseRefusedOnlyIfReused, RefusedOnlyIfReused
<1> QED BY <1>1, <1>2, <1>3, RequestInductive, PTL DEF RequestSpec
=============================================================================
