------------------------------ MODULE ByteStream ------------------------------
(***************************************************************************)
(* What one direction of a TCP connection promises the two programs that   *)
(* use it: the bytes one of them writes arrive at the other in their       *)
(* order, none twice and none that was not written, and the end of the     *)
(* stream is reported after the writer has closed it and after every byte. *)
(* That all of them do arrive is not promised: a connection may be reset.  *)
(* Bytes are known by their number, so what has been written and what has  *)
(* arrived are lengths.                                                    *)
(***************************************************************************)
EXTENDS Naturals

VARIABLES sent,     (* how many bytes were written                         *)
          got,      (* how many of them were handed over at the other end  *)
          closed,   (* the writer writes no more                           *)
          ended     (* the reader has been told that this was all          *)

vars == <<sent, got, closed, ended>>

Init == /\ sent = 0 /\ got = 0
        /\ closed = FALSE /\ ended = FALSE

Write == /\ ~closed
         /\ sent' > sent
         /\ UNCHANGED <<got, closed, ended>>

Close == /\ ~closed
         /\ closed' = TRUE
         /\ UNCHANGED <<sent, got, ended>>

Arrive == /\ ~ended
          /\ got' > got /\ got' <= sent
          /\ UNCHANGED <<sent, closed, ended>>

End == /\ closed /\ got = sent
       /\ ended' = TRUE
       /\ UNCHANGED <<sent, got, closed>>

Next == Write \/ Close \/ Arrive \/ End

Spec == Init /\ [][Next]_vars
===============================================================================
