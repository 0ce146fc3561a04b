--------------------------- MODULE EvictionPolicy ---------------------------
(***************************************************************************)
(* What the eviction policies of packages/eviction share.  Each has the    *)
(* methods of the EvictionPolicy interface, named after the policy where   *)
(* the code has one name for three classes: LruSeed, LfuSeed, TinySeed.    *)
(* An operator takes the fields of a policy as a record and returns the    *)
(* record after the call.                                                  *)
(***************************************************************************)
EXTENDS Naturals

CONSTANTS
  Keys,
  Null   \* undefined and null: no key
=============================================================================
