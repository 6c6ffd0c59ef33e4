------------------------------ MODULE MCCrc32 ------------------------------
(* An instance of Crc32 for TLC. *)
EXTENDS Crc32

(* any first byte, so that every entry of the table is used, then four of  *)
(* two kinds: one more than the register holds                             *)
BytesForTLC == <<Byte>> \o [i \in 1 .. 4 |-> {{}, {7, 1}}]
DamageForTLC == {{0, 6}}
=============================================================================
