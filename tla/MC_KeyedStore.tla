--------------------------- MODULE MC_KeyedStore ---------------------------
(***************************************************************************)
(* A small instance of the keyed store for TLC: one named workspace beside *)
(* the "global" sentinel, one category so that two calls in the same tick  *)
(* collide on a key, two concurrent calls, two ticks per day and a TTL of  *)
(* one day so that records and indices expire within the run.             *)
(***************************************************************************)
EXTENDS KeyedStore

CONSTANTS ws1, gws, cat1, r1, r2

MCWorkspace == {ws1, gws}
MCCategory == {cat1}
MCRequest == {r1, r2}
=============================================================================
