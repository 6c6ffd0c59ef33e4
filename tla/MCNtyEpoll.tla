----------------------------- MODULE MCNtyEpoll -----------------------------
(* An instance of NtyEpoll for TLC. *)
EXTENDS NtyEpoll

CONSTANTS a, b, c

DataBounds == [k \in Clients |-> CASE k = a -> 2 [] k = b -> 1 [] OTHER -> 0]
=============================================================================
