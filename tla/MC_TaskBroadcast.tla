-------------------------- MODULE MC_TaskBroadcast --------------------------
(* Instances of TaskBroadcast for TLC. *)
EXTENDS TaskBroadcast, TLC

CONSTANTS s1, s2, s3, u1, u2

(* What a connection was sent, and who it was, once nothing reads it.      *)
Unread == [s \in Sockets |->
  IF socket[s].pc \notin {"done", "failed"} THEN socket[s]
  ELSE IF s \in registry \union round.snapshot THEN [socket[s] EXCEPT !.sent = <<>>]
  ELSE [socket[s] EXCEPT !.sent = <<>>, !.user = None, !.gone = TRUE]]

View == <<Unread, removed, published, registry, subscription, round>>

Symmetry == Permutations(Sockets) \union Permutations(Users)
=============================================================================
