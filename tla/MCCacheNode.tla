----------------------------- MODULE MCCacheNode -----------------------------
(***************************************************************************)
(* Instances of CacheNode for TLC: the key is a model value.              *)
(***************************************************************************)
EXTENDS CacheNode, TLC

CONSTANT k1
=============================================================================
