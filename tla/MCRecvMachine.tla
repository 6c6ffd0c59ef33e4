---------------------------- MODULE MCRecvMachine ----------------------------
(* Instances of RecvMachine for TLC. *)
EXTENDS RecvMachine

=============================================================================
