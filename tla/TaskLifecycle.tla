--------------------------- MODULE TaskLifecycle ---------------------------
(***************************************************************************)
(* What the persistent task queue promises its clients: the legal state    *)
(* graph of a task and the moment its business writes become durable.      *)
(* TaskQueue.tla implements this module.                                   *)
(***************************************************************************)
EXTENDS Naturals

CONSTANTS Tasks, \* task rows that may ever exist
          Pollers \* tasks whose handler may go back to the queue to poll

VARIABLES status,    \* status[t]: the state a client reads
          effects    \* effects[t]: the attempts of t whose business writes committed

lifeVars == <<status, effects>>

(* The table _TRANSITIONS, with "absent" for a row not inserted yet.       *)
Transitions == {<<"absent", "queued">>,
                <<"queued", "processing">>, <<"queued", "cancelled">>,
                <<"processing", "queued">>, <<"processing", "completed">>,
                <<"processing", "failed">>, <<"processing", "cancelling">>,
                <<"cancelling", "cancelled">>}

Statuses == {"absent", "queued", "processing", "cancelling",
             "completed", "failed", "cancelled"}
Terminal == {"completed", "failed", "cancelled"}

LifeInit == /\ status = [t \in Tasks |-> "absent"]
            /\ effects = [t \in Tasks |-> {}]

(* One task moves along the graph. The business writes of an attempt       *)
(* become durable together with completion or, for a polling handler, with *)
(* the return to the queue, and with no other transition.                  *)
Move(t) == /\ <<status[t], status'[t]>> \in Transitions
           /\ \/ /\ effects'[t] = effects[t]
                 /\ status'[t] # "completed"
              \/ /\ \E n \in effects'[t] \ effects[t] : effects'[t] = effects[t] \union {n}
                 /\ \/ status'[t] = "completed"
                    \/ t \in Pollers /\ <<status[t], status'[t]>> = <<"processing", "queued">>

Rest(t) == status'[t] = status[t] /\ effects'[t] = effects[t]

(* A transaction may move several tasks at once (a family is cancelled, a  *)
(* batch of expired leases is collected).                                  *)
LifeNext == /\ status' \in [Tasks -> Statuses]
            /\ effects' \in [Tasks -> SUBSET Nat]
            /\ \A t \in Tasks : Move(t) \/ Rest(t)

LifeSpec == LifeInit /\ [][LifeNext]_lifeVars
=============================================================================
