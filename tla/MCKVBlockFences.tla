-------------------------- MODULE MCKVBlockFences --------------------------
(* An instance of KVBlockFences for TLC. *)
EXTENDS KVBlockFences, TLC

CONSTANTS r1, r2, b1, b2

Requests == {r1, r2}
TwoBlocks == {b1, b2}
=============================================================================
