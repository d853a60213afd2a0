------------------------ MODULE MC_IdempotentRequests ------------------------
(* Instances of IdempotentRequests for TLC. *)
EXTENDS IdempotentRequests, TLC

CONSTANTS r1, r2, a, c1, c2

OneKey  == {<<a>>}
TwoKeys == {<<a>>, <<a, a>>}

(* One key with two contents, and requests without a key.                  *)
ReusedKey == {<<<<a>>, c1>>, <<<<a>>, c2>>, <<NoKey, c1>>}
OneAsk    == {<<<<a>>, c1>>}
NoKeys    == {<<NoKey, c1>>}

(* A request that has its answer only forgets it, and no property of the   *)
(* run reads it.                                                           *)
View == <<endpoint, stored,
          [r \in Requests |-> IF request[r].pc = "answered" THEN "answered" ELSE request[r]]>>

Symmetry == Permutations(Requests)
=============================================================================
