---------------------------- MODULE FrozenExport ----------------------------
(***************************************************************************)
(* What an export promises: its content is frozen once, from one state of  *)
(* its source, and what is published is the frozen content, once. Failures *)
(* and retries in between do not show.                                     *)
(***************************************************************************)
CONSTANTS Contents,  \* states of the source
          None

VARIABLES frozen, published

Init == frozen = None /\ published = None

Freeze == /\ frozen = None
          /\ frozen' \in Contents
          /\ UNCHANGED published

Publish == /\ frozen # None /\ published = None
           /\ published' = frozen
           /\ UNCHANGED frozen

Spec == Init /\ [][Freeze \/ Publish]_<<frozen, published>>
=============================================================================
