------------------------------ MODULE MCServer ------------------------------
(* Instances of Server for TLC. *)
EXTENDS Server

(* two packets of the first client can be in the hands of two threads *)
SendBounds == <<2, 0, 1>>
=============================================================================
