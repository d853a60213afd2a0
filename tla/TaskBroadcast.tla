--------------------------- MODULE TaskBroadcast ---------------------------
(***************************************************************************)
(* Task events of one project on their way from Redis to the WebSocket     *)
(* connections of one server process: ws/task_ws.py with                   *)
(* publish_task_event of services/task_service.py.                         *)
(*                                                                         *)
(* The endpoints of the connections and the subscription are coroutines of *)
(* one event loop: a step is what one of them does between two awaits. A   *)
(* membership is read in a database session of its own for every check.    *)
(* Removing a user from the project and disabling the account look alike;  *)
(* a user who was removed does not come back.                              *)
(***************************************************************************)
EXTENDS Integers, Sequences, FiniteSets

CONSTANTS Sockets,   \* connections, each used once
          Users, None,
          MaxEvents,  \* bounds: events published,
          MaxFailures \* endpoints that fail

ASSUME BroadcastAssumption == None \notin Nat /\ {MaxEvents, MaxFailures} \subseteq Nat

VARIABLES socket,       \* each connection and its endpoint
          removed,      \* per user: events published before the removal, or None
          published,    \* events published so far; an event is its number
          registry,     \* active_connections of the project
          subscription, \* the task in _subscriptions and what Redis sent it
          round         \* the broadcast it is in

vars == <<socket, removed, published, registry, subscription, round>>

Events == 1..MaxEvents

(* gone: the client left or the server closed it, and the endpoint has not *)
(* been told. sent: events written to it. failed: the endpoint ended with  *)
(* an error, other than done.                                              *)
Socket == [pc : {"new", "asking", "admitted", "serving", "done", "failed"},
           user : Users \union {None}, gone : BOOLEAN, sent : Seq(Events)]

(* Without a subscription the project has no entry in either dictionary.   *)
Subscription == [state : {"none", "starting", "listening"}, inbox : Seq(Events)]

(* The loops of _broadcast: what is left of each over the snapshot.        *)
Round == [event : Events \union {None}, stage : {"idle", "checking", "closing", "sending"},
          snapshot : SUBSET Sockets, left : SUBSET Sockets,
          revoked : SUBSET Sockets, dead : SUBSET Sockets]

NoSubscription == [state |-> "none", inbox |-> <<>>]
NoRound == [event |-> None, stage |-> "idle", snapshot |-> {}, left |-> {},
            revoked |-> {}, dead |-> {}]

Init == /\ socket = [s \in Sockets |-> [pc |-> "new", user |-> None,
                                        gone |-> FALSE, sent |-> <<>>]]
        /\ removed = [u \in Users |-> None]
        /\ published = 0
        /\ registry = {}
        /\ subscription = NoSubscription
        /\ round = NoRound
-----------------------------------------------------------------------------
MayView(s) == removed[socket[s].user] = None

(* Bug: the answer given when the connection was opened still counts.      *)
MayHaveViewed(s) == socket[s].pc = "serving"

(* _verify_ws_access; an error of the query counts as a refusal.           *)
Verifies(s) == MayView(s)

SetSocket(s, pc) == socket' = [socket EXCEPT ![s].pc = pc]

(* A client opens a connection with an access token.                       *)
Open(s) ==
  /\ socket[s].pc = "new"
  /\ \E u \in Users : socket' = [socket EXCEPT ![s].pc = "asking", ![s].user = u]
  /\ UNCHANGED <<removed, published, registry, subscription, round>>

(* _authorize_ws, before the connection is accepted.                       *)
Authorize(s) ==
  /\ socket[s].pc = "asking"
  /\ \/ MayView(s) /\ SetSocket(s, "admitted")
     \/ SetSocket(s, "done")
  /\ UNCHANGED <<removed, published, registry, subscription, round>>

(* connect, from the end of accept on; accept fails if the client left.    *)
Connect(s) ==
  /\ socket[s].pc = "admitted"
  /\ \/ /\ SetSocket(s, "serving")
        /\ registry' = registry \union {s}
        /\ subscription' = IF subscription.state = "none"
                           THEN [NoSubscription EXCEPT !.state = "starting"] ELSE subscription
     \/ /\ socket[s].gone
        /\ SetSocket(s, "done")
        /\ UNCHANGED <<registry, subscription>>
  /\ UNCHANGED <<removed, published, round>>

(* Bug: a connection that a broadcast took out already needs no cleaning.  *)
WasRegistered(s) == s \in registry /\ registry = {s}

(* Bug: any connection that ends takes the subscription with it.           *)
WasAny(s) == s \in Sockets

WasLast(s) == registry \subseteq {s}

(* disconnect, once receive_text reports the end of the connection. The    *)
(* cancelled subscription, in whatever await of its round, does no more.   *)
Disconnect(s) ==
  /\ socket[s].pc = "serving" /\ socket[s].gone
  /\ SetSocket(s, "done")
  /\ registry' = registry \ {s}
  /\ IF WasLast(s)
     THEN subscription' = NoSubscription /\ round' = NoRound
     ELSE UNCHANGED <<subscription, round>>
  /\ UNCHANGED <<removed, published>>

(* Only WebSocketDisconnect is caught: with a binary frame (KeyError), or  *)
(* with a text that arrives after the broadcast closed the connection      *)
(* (RuntimeError), the endpoint ends without a call of disconnect, and the *)
(* server closes the connection.                                           *)
EndpointFails(s) ==
  /\ socket[s].pc = "serving"
  /\ Cardinality({q \in Sockets : socket[q].pc = "failed"}) < MaxFailures
  /\ socket' = [socket EXCEPT ![s].pc = "failed", ![s].gone = TRUE]
  /\ UNCHANGED <<removed, published, registry, subscription, round>>

(* The client closes, crashes or loses its network.                        *)
Leave(s) ==
  /\ socket[s].pc \in {"asking", "admitted", "serving"} /\ ~socket[s].gone
  /\ socket' = [socket EXCEPT ![s].gone = TRUE]
  /\ UNCHANGED <<removed, published, registry, subscription, round>>

RemoveUser(u) ==
  /\ removed[u] = None
  /\ removed' = [removed EXCEPT ![u] = published]
  /\ UNCHANGED <<socket, published, registry, subscription, round>>
-----------------------------------------------------------------------------
(* Redis hands an event to those who listen when it is published.          *)
Publish ==
  /\ published < MaxEvents
  /\ published' = published + 1
  /\ subscription' = IF subscription.state = "listening"
                     THEN [subscription EXCEPT !.inbox = Append(@, published')]
                     ELSE subscription
  /\ UNCHANGED <<socket, removed, registry, round>>

Listen ==
  /\ subscription.state = "starting"
  /\ subscription' = [subscription EXCEPT !.state = "listening"]
  /\ UNCHANGED <<socket, removed, published, registry, round>>

(* The next message: a round over the connections there are now, if any.   *)
Take ==
  /\ subscription.inbox # <<>> /\ round.stage = "idle"
  /\ subscription' = [subscription EXCEPT !.inbox = Tail(@)]
  /\ round' = IF registry = {} THEN NoRound
              ELSE [NoRound EXCEPT !.event = Head(subscription.inbox), !.stage = "checking",
                                   !.snapshot = registry, !.left = registry]
  /\ UNCHANGED <<socket, removed, published, registry>>

(* A loop that has nothing left makes way for the next.                    *)
Advance(r) ==
  IF r.left # {} \/ r.stage = "sending" THEN r
  ELSE IF r.stage = "checking" /\ r.revoked # {}
       THEN [r EXCEPT !.stage = "closing", !.left = r.revoked]
       ELSE [r EXCEPT !.stage = "sending", !.left = r.snapshot]

Check(s) ==
  /\ round.stage = "checking" /\ s \in round.left
  /\ \E revoked \in {{s}} \union (IF Verifies(s) THEN {{}} ELSE {}) :
       round' = Advance([round EXCEPT !.left = @ \ {s}, !.revoked = @ \union revoked])
  /\ UNCHANGED <<socket, removed, published, registry, subscription>>

Close(s) ==
  /\ round.stage = "closing" /\ s \in round.left
  /\ round' = Advance([round EXCEPT !.left = @ \ {s}])
  /\ registry' = registry \ {s}
  /\ socket' = [socket EXCEPT ![s].gone = @ \/ s \in registry]
  /\ UNCHANGED <<removed, published, subscription>>

(* Writing to a connection whose client left may fail or go unnoticed; to  *)
(* one whose endpoint failed it fails.                                     *)
Send(s) ==
  /\ round.stage = "sending" /\ s \in round.left
  /\ \/ /\ s \in registry /\ socket[s].pc # "failed"
        /\ socket' = [socket EXCEPT ![s].sent = Append(@, round.event)]
        /\ round' = [round EXCEPT !.left = @ \ {s}]
     \/ /\ s \in registry /\ socket[s].gone
        /\ round' = [round EXCEPT !.left = @ \ {s}, !.dead = @ \union {s}]
        /\ UNCHANGED socket
     \/ /\ s \notin registry
        /\ round' = [round EXCEPT !.left = @ \ {s}]
        /\ UNCHANGED socket
  /\ UNCHANGED <<removed, published, registry, subscription>>

Survivors == registry \ round.dead

Finish ==
  /\ round.stage = "sending" /\ round.left = {}
  /\ registry' = Survivors
  /\ round' = NoRound
  /\ UNCHANGED <<socket, removed, published, subscription>>

Next == \/ \E s \in Sockets :
             \/ Open(s) \/ Authorize(s) \/ Connect(s) \/ Disconnect(s) \/ Leave(s)
             \/ EndpointFails(s) \/ Check(s) \/ Close(s) \/ Send(s)
        \/ \E u \in Users : RemoveUser(u)
        \/ Publish \/ Listen \/ Take \/ Finish

Spec == Init /\ [][Next]_vars
-----------------------------------------------------------------------------
(* Types; a socket in the registry is one whose endpoint serves it or      *)
(* failed, and what is left of a loop is part of what the loop is over.    *)
TypeOK ==
  /\ socket \in [Sockets -> Socket]
  /\ removed \in [Users -> 0..MaxEvents \union {None}] /\ published \in 0..MaxEvents
  /\ subscription \in Subscription /\ round \in Round
  /\ registry \subseteq {s \in Sockets : socket[s].pc \in {"serving", "failed"}}
  /\ round.left \subseteq round.snapshot /\ round.dead \subseteq round.snapshot

(* task_ws.py: what was published after a user was removed is not sent to  *)
(* that user, whatever the broadcast awaits between its checks and its     *)
(* writes and however long an event waits behind an earlier one.           *)
NothingAfterRemoval ==
  \A s \in Sockets : \A k \in DOMAIN socket[s].sent :
    MayView(s) \/ socket[s].sent[k] <= removed[socket[s].user]

(* A connection is sent the events in the order of their publication, each *)
(* once, and none is missing between two it was sent, although connections *)
(* come and go during a round and the subscription ends and begins again.  *)
InSequence ==
  \A s \in Sockets : \A k \in 2..Len(socket[s].sent) :
    socket[s].sent[k] = socket[s].sent[k - 1] + 1

(* A connection that is open stays registered, also when it was accepted   *)
(* while a broadcast waited for a check; the project is subscribed to as   *)
(* long as one is registered, whoever disconnects and whatever endpoints   *)
(* failed before; and the subscription ends with the last endpoint unless  *)
(* an endpoint failed.                                                     *)
SubscriptionMatches ==
  /\ \A s \in Sockets : (socket[s].pc = "serving" /\ ~socket[s].gone) => s \in registry
  /\ registry # {} => subscription.state # "none"
  /\ subscription.state # "none" => \E s \in Sockets : socket[s].pc \in {"serving", "failed"}

(* No subscription outlives the last endpoint, without exception. This     *)
(* does not hold: an endpoint that fails leaves it (task_ws.py:220-225).   *)
SubscriptionEnds ==
  subscription.state # "none" => \E s \in Sockets : socket[s].pc = "serving"
=============================================================================
