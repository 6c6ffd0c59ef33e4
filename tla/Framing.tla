------------------------------- MODULE Framing -------------------------------
(***************************************************************************)
(* What the receiving side of a connection promises, whatever the sizes in *)
(* which the bytes arrive: the bytes of a client are cut into packets at   *)
(* the lengths their headers declare, and every whole packet is delivered  *)
(* once, in order, byte for byte.  A header whose length is not acceptable *)
(* is dropped - the header alone.  Bytes that form no whole packet when    *)
(* the client goes are never delivered, nor mixed with those of the next   *)
(* client of the same connection object.                                   *)
(***************************************************************************)
EXTENDS Integers, Sequences

CONSTANTS
  HdrLen,     (* sizeof(COMM_PKG_HEADER)                                    *)
  MaxLen,     (* _PKG_MAX_LENGTH - 1000                                     *)
  Lens,       (* the values the field pkgLen can have                       *)
  StreamLen   (* bound: how many bytes the clients send                     *)

VARIABLES
  stream,     (* stream[p]: the pkgLen that a header at byte p declares     *)
  boundary,   (* everything before this byte has been dealt with            *)
  delivered   (* the packets handed over, each as a function on its bytes   *)

Acceptable(len) == HdrLen <= len /\ len <= MaxLen

Bytes(p, len) == [i \in 0 .. len - 1 |-> p + i]

Init == /\ stream \in [0 .. StreamLen -> Lens]
        /\ boundary = 0
        /\ delivered = <<>>

Deliver == /\ Acceptable(stream[boundary])
           /\ boundary' = boundary + stream[boundary]
           /\ boundary' <= StreamLen
           /\ delivered' = Append(delivered, Bytes(boundary, stream[boundary]))
           /\ UNCHANGED stream

DropHeader == /\ ~Acceptable(stream[boundary])
              /\ boundary' = boundary + HdrLen
              /\ boundary' <= StreamLen
              /\ UNCHANGED <<stream, delivered>>

(* the client is gone, the next one begins at byte p; between them there   *)
(* was no whole header, or no whole packet                                 *)
NextClient(p) ==
  /\ boundary <= p /\ p <= StreamLen
  /\ \/ p < boundary + HdrLen
     \/ Acceptable(stream[boundary]) /\ p < boundary + stream[boundary]
  /\ boundary' = p
  /\ UNCHANGED <<stream, delivered>>

Next == Deliver \/ DropHeader \/ \E p \in 0 .. StreamLen : NextClient(p)

vars == <<stream, boundary, delivered>>
Spec == Init /\ [][Next]_vars

=============================================================================
