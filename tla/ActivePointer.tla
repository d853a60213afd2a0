--------------------------- MODULE ActivePointer ---------------------------
(***************************************************************************)
(* What Document.active_clean_version_id promises to those who read it:    *)
(* it is empty at first and afterwards only ever moves to a version with a *)
(* higher number. CleanVersions.tla implements this module and             *)
(* ChunkSets.tla relies on it.                                             *)
(***************************************************************************)
EXTENDS Naturals

CONSTANT Last    \* the highest version number there may ever be

VARIABLE pointer \* the number of the active version, 0 for none

PointerInit == pointer = 0

Advance == \E n \in 1..Last : n > pointer /\ pointer' = n

PointerSpec == PointerInit /\ [][Advance]_pointer
=============================================================================
