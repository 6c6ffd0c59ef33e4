-------------------------- MODULE MCNtyRecvBuffer --------------------------
(* Instances of NtyRecvBuffer for TLC. *)
EXTENDS NtyRecvBuffer

=============================================================================
