----------------------------- MODULE MCCacheFile ------------------------------
(* CacheFile on small instances. *)
EXTENDS CacheFile

=============================================================================
