------------------------------- MODULE Crc32 -------------------------------
(***************************************************************************)
(* CCRC32 (linux_c++_6_4/nginx/misc/ngx_c_crc32.cxx) and the test a packet *)
(* must pass in threadRecvProcFunc (logic/ngx_c_slogic.cxx).  The client   *)
(* (client/app) has a copy of the same class: it computes the checksum of  *)
(* the body it sends, the server that of the body it got, one byte at a    *)
(* time, here in step with each other.                                     *)
(*                                                                         *)
(* A word is the set of the positions of its one bits: exclusive or is     *)
(* symmetric difference, and the bits a shift moves out of the 32 are      *)
(* gone.                                                                   *)
(***************************************************************************)
EXTENDS Integers, Sequences, FiniteSets

CONSTANTS
  Bytes,     (* bound: the values the i-th byte of a body may have, as *)
             (* sets of bits; its length is the longest body           *)
  Damage     (* bound: the bits that may change in a byte on the way   *)

Bits(n) == 0 .. n - 1
Byte == SUBSET Bits(8)

ASSUME BytesAssumption == Bytes \in Seq(SUBSET Byte)
ASSUME DamageAssumption == Damage \subseteq Byte \ {{}}

VARIABLES
  sent, got,       (* the body as it was sent and as it arrived           *)
  crcSent, crcGot  (* the local crc of Get_CRC() at the client and here   *)

vars == <<sent, got, crcSent, crcGot>>

Ones == Bits(32)                                  (* 0xffffffff *)
Xor(v, w) == (v \ w) \cup (w \ v)
ShiftLeft(w, n) == {b + n : b \in w} \cap Ones
ShiftRight(w, n) == {b - n : b \in w} \cap Ones

-----------------------------------------------------------------------------
(* Init_CRC32_Table().                                                     *)

ulPolynomial == {26, 23, 22, 16, 12, 11, 10, 8, 7, 5, 4, 2, 1, 0}  (* 0x04c11db7 *)

(* the lowest ch bits in reverse order *)
Reflect(ref, ch) == {ch - 1 - b : b \in ref \cap Bits(ch)}

Divide(w) == Xor(ShiftLeft(w, 1), IF 31 \in w THEN ulPolynomial ELSE {})

(* mutant: seven divisions instead of eight *)
TableEntryShort(i) ==
  LET w[j \in 0 .. 7] ==
        IF j = 0 THEN ShiftLeft(Reflect(i, 8), 24) ELSE Divide(w[j - 1])
  IN Reflect(w[7], 32)

TableEntry(i) ==
  LET w[j \in 0 .. 8] ==
        IF j = 0 THEN ShiftLeft(Reflect(i, 8), 24) ELSE Divide(w[j - 1])
  IN Reflect(w[8], 32)

crc32_table == [i \in Byte |-> TableEntry(i)]

-----------------------------------------------------------------------------
(* Get_CRC().                                                              *)

Update(crc, byte) ==
  Xor(ShiftRight(crc, 8), crc32_table[Xor(crc \cap Bits(8), byte)])

(* mutant: the final complement is forgotten *)
ResultPlain(crc) == crc

Result(crc) == Xor(crc, Ones)

Init == /\ sent = <<>> /\ got = <<>>
        /\ crcSent = Ones /\ crcGot = Ones

Step(s, g) == /\ sent' = Append(sent, s)
              /\ got' = Append(got, g)
              /\ crcSent' = Update(crcSent, s)
              /\ crcGot' = Update(crcGot, g)

NextBytes == IF Len(sent) < Len(Bytes) THEN Bytes[Len(sent) + 1] ELSE {}

ByteArrives == \E s \in NextBytes : Step(s, s)

ByteChanges == \E s \in NextBytes, bits \in Damage : Step(s, Xor(s, bits))

Next == ByteArrives \/ ByteChanges

Spec == Init /\ [][Next]_vars

-----------------------------------------------------------------------------
(* The test in threadRecvProcFunc().  A packet without a body must have 0  *)
(* in its header, one with a body the checksum.                            *)

(* what the client writes into the header *)
Header == Result(crcSent)

Accepted == IF got = <<>> THEN Header = {} ELSE Header = Result(crcGot)

-----------------------------------------------------------------------------
TypeOK == /\ sent \in Seq(Byte) /\ got \in Seq(Byte)
          /\ Len(sent) = Len(got)
          /\ crcSent \subseteq Ones /\ crcGot \subseteq Ones

(***************************************************************************)
(* CRC-32 by its definition: the bits of the body, each byte's lowest bit  *)
(* first, are the coefficients of a polynomial over GF(2); its first 32    *)
(* coefficients are complemented, it is multiplied by x^32 and divided by  *)
(* the generator, and the remainder is complemented, highest coefficient   *)
(* in the lowest bit.  A polynomial is the set of its exponents.           *)
(***************************************************************************)
Generator == ulPolynomial \cup {32}

Dividend(body) ==
  LET n == Len(body)
      bits == UNION {{32 + 8 * (n - i) + 7 - b : b \in body[i]} : i \in 1 .. n}
  IN Xor(bits, {8 * n + k : k \in Bits(32)})

Remainder(body) ==
  LET n == 8 * Len(body)
      r[k \in 0 .. n] ==     (* after the k highest coefficients *)
        IF k = 0 THEN Dividend(body)
        ELSE LET p == r[k - 1]
                 d == n - k
             IN Xor(p, IF d + 32 \in p THEN {d + e : e \in Generator} ELSE {})
  IN r[n]

Checksum(body) == Xor({31 - e : e \in Remainder(body)}, Ones)

(* The table and the loop compute CRC-32: "the official polynomial used by *)
(* CRC-32 in PKZip, WinZip and Ethernet" (ngx_c_crc32.cxx:42).             *)
ComputesCrc32 == Result(crcGot) = Checksum(got)

(* the bits that changed on the way, numbered in the order of the division *)
Changed == UNION {{8 * i + b : b \in Xor(sent[i], got[i])} : i \in DOMAIN sent}
Burst == /\ Changed # {}
         /\ \A a, b \in Changed : a - b < 32

(* A body that arrives as it was sent is never dropped, with or without    *)
(* bytes in it (Get_CRC() of nothing is the 0 the server asks for), and    *)
(* one of which bits within 32 of each other changed always is.            *)
OnlyIntactAccepted == (got = sent => Accepted) /\ (Burst => ~Accepted)
=============================================================================
