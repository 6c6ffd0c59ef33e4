---------------------------- MODULE NtyRecvBuffer ----------------------------
(***************************************************************************)
(* The receive buffer of the user-space TCP stack in NtyTcp-master:        *)
(* RBPut() and RBRemove() of src/nty_buffer.c, called by the stack thread  *)
(* in nty_tcp_process_payload() (src/nty_tcp.c) and by the application in  *)
(* nty_copy_to_user() (src/nty_api.c), both under read_lock.               *)
(*                                                                         *)
(* A byte of the peer's stream is its position 0, 1, ...; position k has   *)
(* the sequence number SeqNo(k), and sequence numbers wrap around Mod.  The  *)
(* buffer is a flat piece of memory: head_offset says where the byte with  *)
(* number head_seq is, the list fctx which bytes behind it have arrived.   *)
(* Segments arrive in any order, overlapping, cut anywhere, again and      *)
(* again.                                                                  *)
(***************************************************************************)
EXTENDS Integers, Sequences, FiniteSets, SequencesExt, FiniteSetsExt

CONSTANTS
  Size,       (* NTY_RCVBUF_SIZE                                           *)
  InitWnd,    (* TCP_INITIAL_WINDOW, offered until the first data comes    *)
  Mod,        (* sequence numbers are taken modulo this, 2^32              *)
  irs,        (* the peer's initial sequence number                        *)
  StreamLen,  (* bound: the length of the peer's stream                    *)
  MaxSeg,     (* bound: the length of a segment                            *)
  Junk        (* memory nobody has written                                 *)

ASSUME BufferAssumption ==
  /\ Size \in Nat \ {0} /\ InitWnd \in Nat \ {0} /\ StreamLen \in Nat
  /\ MaxSeg \in 1 .. Size
  /\ Mod \in Nat /\ Mod % 2 = 0 /\ Mod > 2 * (StreamLen + Size + InitWnd + 2)
  /\ irs \in 0 .. Mod - 1
  /\ Junk \notin Nat

VARIABLES
  recvbuf,           (* the fields of nty_ring_buffer that matter          *)
  rcv_nxt, rcv_wnd,  (* next number expected, window offered               *)
  closing,           (* the state is FIN_WAIT_1 or FIN_WAIT_2              *)
  data_seen,         (* history: a segment has passed the window check     *)
  stored,            (* history: the positions RBPut() has taken in        *)
  taken,             (* history: how many bytes have left the buffer       *)
  read,              (* history: the bytes of the recv() that just returned *)
  skew               (* history: how far head_offset is behind the place   *)
                     (* of the byte head_seq                               *)

history == <<data_seen, stored, taken, read, skew>>
vars == <<recvbuf, rcv_nxt, rcv_wnd, closing, history>>

Positions == 0 .. StreamLen - 1
SeqNo(k) == (irs + 1 + k) % Mod

-----------------------------------------------------------------------------
(* Comparison of sequence numbers.                                         *)

(* TCP_SEQ_LT: the sign of the difference as a signed number *)
TCP_SEQ_LT(a, b) == ((a - b) % Mod) >= Mod \div 2
TCP_SEQ_GT(a, b) == a # b /\ ~TCP_SEQ_LT(a, b)

MAXSEQ == Mod - 1

GetMinSeq(a, b) ==
  IF a < b THEN IF b - a <= MAXSEQ \div 2 THEN a ELSE b
           ELSE IF a - b <= MAXSEQ \div 2 THEN b ELSE a

GetMaxSeq(a, b) == IF GetMinSeq(a, b) = a THEN b ELSE a

-----------------------------------------------------------------------------
(* The list of fragments: records [seq, len], no two of which touch.       *)

(* mutant: fragments that touch are kept apart *)
CanMergeOverlapOnly(a, b) ==
  LET a_end == (a.seq + a.len) % Mod
      b_end == (b.seq + b.len) % Mod
  IN /\ GetMinSeq(a_end, b.seq) # a_end
     /\ GetMinSeq(b_end, a.seq) # b_end

CanMerge(a, b) ==
  LET a_end == (a.seq + a.len + 1) % Mod
      b_end == (b.seq + b.len + 1) % Mod
  IN /\ GetMinSeq(a_end, b.seq) # a_end
     /\ GetMinSeq(b_end, a.seq) # b_end

MergeFragments(a, b) ==
  LET min_seq == GetMinSeq(a.seq, b.seq)
      max_seq == GetMaxSeq((a.seq + a.len) % Mod, (b.seq + b.len) % Mod)
  IN [seq |-> min_seq, len |-> (max_seq - min_seq) % Mod]

(* One turn of RBPut()'s loop over the list: iter is merged with the new   *)
(* fragment, lies before it, or ends the search.                           *)
Visit(new, acc, iter) ==
  IF acc.done THEN [acc EXCEPT !.after = Append(@, iter)]
  ELSE IF CanMerge(acc.new, iter)
  THEN [acc EXCEPT !.new = MergeFragments(acc.new, iter), !.merged = TRUE]
  ELSE IF \/ acc.merged
          \/ GetMaxSeq((new.seq + new.len) % Mod, iter.seq) = iter.seq
  THEN [acc EXCEPT !.after = <<iter>>, !.done = TRUE]
  ELSE [acc EXCEPT !.before = Append(@, iter)]

Inserted(fctx, new) ==
  LET found == FoldLeft(LAMBDA acc, iter : Visit(new, acc, iter),
                        [before |-> <<>>, new |-> new, after |-> <<>>,
                         merged |-> FALSE, done |-> FALSE], fctx)
  IN IF ~found.merged /\ fctx # <<>> /\ GetMinSeq(new.seq, fctx[1].seq) = new.seq
     THEN <<new>> \o fctx
     ELSE found.before \o <<found.new>> \o found.after

-----------------------------------------------------------------------------
(* RBInit(), RBPut(), RBRemove() as functions of the buffer.               *)

RBInit == [data |-> [i \in 0 .. Size - 1 |-> Junk], head_offset |-> 0,
           tail_offset |-> 0, last_len |-> 0, merged_len |-> 0,
           head_seq |-> SeqNo(0), fctx |-> <<>>]

(* what RBPut() checks before it touches the buffer: the segment does not  *)
(* begin before the head, and it does not reach beyond the buffer          *)
NotBehindHead(b, k) == GetMinSeq(b.head_seq, SeqNo(k)) = b.head_seq
EndOff(b, k, len) == ((SeqNo(k) - b.head_seq) % Mod) + len
Fits(b, k, len) == EndOff(b, k, len) <= Size

(* mutant: only the bytes without a gap are moved *)
CompactedReadyOnly(b, end_off) ==
  IF Size > b.head_offset + end_off THEN b
  ELSE [b EXCEPT !.data = [i \in 0 .. Size - 1 |->
                             IF i < b.merged_len THEN @[b.head_offset + i] ELSE @[i]],
                 !.tail_offset = @ - b.head_offset,
                 !.head_offset = 0]

(* the bytes are moved to the front of the buffer when they would end at   *)
(* its end or behind it                                                    *)
Compacted(b, end_off) ==
  IF Size > b.head_offset + end_off THEN b
  ELSE [b EXCEPT !.data = [i \in 0 .. Size - 1 |->
                             IF i < b.last_len THEN @[b.head_offset + i] ELSE @[i]],
                 !.tail_offset = @ - b.head_offset,
                 !.head_offset = 0]

(* mutant: the first fragment counts, gap or not *)
RBPutGapIgnored(b, k, len) ==
  LET end_off == EndOff(b, k, len)
      c == Compacted(b, end_off)
      first == c.head_offset + end_off - len
      tail == Max({c.tail_offset, c.head_offset + end_off})
      fctx == Inserted(c.fctx, [seq |-> SeqNo(k), len |-> len])
  IN [c EXCEPT !.data = [i \in 0 .. Size - 1 |->
                           IF i \in first .. first + len - 1 THEN k + i - first ELSE @[i]],
               !.tail_offset = tail,
               !.last_len = tail - c.head_offset,
               !.fctx = fctx,
               !.merged_len = fctx[1].len]

(* the bytes k .. k + len - 1 of the stream, which begin putx behind the   *)
(* head, copied into the buffer and entered in the list                    *)
RBPut(b, k, len) ==
  LET end_off == EndOff(b, k, len)
      c == Compacted(b, end_off)
      first == c.head_offset + end_off - len
      tail == Max({c.tail_offset, c.head_offset + end_off})
      fctx == Inserted(c.fctx, [seq |-> SeqNo(k), len |-> len])
  IN [c EXCEPT !.data = [i \in 0 .. Size - 1 |->
                           IF i \in first .. first + len - 1 THEN k + i - first ELSE @[i]],
               !.tail_offset = tail,
               !.last_len = tail - c.head_offset,
               !.fctx = fctx,
               !.merged_len = IF c.head_seq = fctx[1].seq THEN fctx[1].len ELSE @]

(* len bytes are done with.  head_offset is set to len, not advanced by    *)
(* it: the commented-out alternative in the source advances it.            *)
RBRemove(b, len) ==
  IF len = 0 THEN b
  ELSE [b EXCEPT !.head_offset = len, !.head_seq = (@ + len) % Mod,
                 !.merged_len = @ - len, !.last_len = @ - len,
                 !.fctx = IF len = @[1].len THEN Tail(@)
                          ELSE <<[seq |-> (@[1].seq + len) % Mod,
                                  len |-> @[1].len - len]>> \o Tail(@)]

(* history: where head_offset should have gone *)
SkewAfterRemove(b, len) ==
  IF len = 0 THEN skew ELSE IF len = b.last_len THEN 0 ELSE skew + b.head_offset

-----------------------------------------------------------------------------
(* The buffer is there, empty, from the SYN on.  (A stream the program     *)
(* opens itself gets the same buffer with the first segment, which nobody  *)
(* can tell.)                                                              *)
Init == /\ recvbuf = RBInit /\ closing = FALSE
        /\ rcv_nxt = SeqNo(0) /\ rcv_wnd = InitWnd
        /\ data_seen = FALSE /\ stored = {} /\ taken = 0 /\ read = <<>> /\ skew = 0

(* the window check of nty_tcp_process_payload() *)
InWindow(k, len) ==
  /\ ~TCP_SEQ_LT(SeqNo(k + len), rcv_nxt)
  /\ ~TCP_SEQ_GT(SeqNo(k + len), (rcv_nxt + rcv_wnd) % Mod)

(* mutant: the window is what is free behind the last byte *)
process_payloadRoom(k, len) ==
  /\ k + len <= StreamLen
  /\ InWindow(k, len)
  /\ data_seen' = TRUE
  /\ LET takes == NotBehindHead(recvbuf, k) /\ Fits(recvbuf, k, len) IN
     \E put \in {IF takes THEN RBPut(recvbuf, k, len) ELSE recvbuf} :
     LET gone == IF closing THEN put.merged_len ELSE 0
     IN /\ recvbuf' = RBRemove(put, gone)
        /\ stored' = IF takes THEN stored \cup k .. k + len - 1 ELSE stored
        /\ taken' = taken + gone
        /\ skew' = SkewAfterRemove(put, gone)
  /\ rcv_nxt' = (recvbuf'.head_seq + recvbuf'.merged_len) % Mod
  /\ rcv_wnd' = Size - recvbuf'.last_len
  /\ read' = <<>>
  /\ UNCHANGED closing

(* nty_tcp_process_payload() of a segment that passes it.  What RBPut()    *)
(* refuses is forgotten; a stream that is being closed takes the bytes and *)
(* throws them away.                                                       *)
nty_tcp_process_payload(k, len) ==
  /\ k + len <= StreamLen
  /\ InWindow(k, len)
  /\ data_seen' = TRUE
  /\ LET takes == NotBehindHead(recvbuf, k) /\ Fits(recvbuf, k, len) IN
     \E put \in {IF takes THEN RBPut(recvbuf, k, len) ELSE recvbuf} :
     LET gone == IF closing THEN put.merged_len ELSE 0
     IN /\ recvbuf' = RBRemove(put, gone)
        /\ stored' = IF takes THEN stored \cup k .. k + len - 1 ELSE stored
        /\ taken' = taken + gone
        /\ skew' = SkewAfterRemove(put, gone)
  /\ rcv_nxt' = (recvbuf'.head_seq + recvbuf'.merged_len) % Mod
  /\ rcv_wnd' = Size - recvbuf'.merged_len
  /\ read' = <<>>
  /\ UNCHANGED closing

(* mutant: the window is not opened *)
copy_to_userNoWindow(len) ==
  /\ ~closing /\ recvbuf.merged_len > 0
  /\ LET copylen == Min({recvbuf.merged_len, len})
     IN /\ read' = [i \in 1 .. copylen |-> recvbuf.data[recvbuf.head_offset + i - 1]]
        /\ taken' = taken + copylen
        /\ recvbuf' = RBRemove(recvbuf, copylen)
        /\ skew' = SkewAfterRemove(recvbuf, copylen)
  /\ UNCHANGED <<rcv_nxt, rcv_wnd, closing, data_seen, stored>>

(* nty_copy_to_user(): recv() of at most len bytes, called when there are  *)
(* some (a blocking recv() waits, the others return EAGAIN)                *)
nty_copy_to_user(len) ==
  /\ ~closing /\ recvbuf.merged_len > 0
  /\ LET copylen == Min({recvbuf.merged_len, len})
     IN /\ read' = [i \in 1 .. copylen |-> recvbuf.data[recvbuf.head_offset + i - 1]]
        /\ taken' = taken + copylen
        /\ recvbuf' = RBRemove(recvbuf, copylen)
        /\ skew' = SkewAfterRemove(recvbuf, copylen)
  /\ rcv_wnd' = Size - recvbuf'.merged_len
  /\ UNCHANGED <<rcv_nxt, closing, data_seen, stored>>

(* the application has closed the socket and the FIN is out *)
StartClosing == /\ ~closing
                /\ closing' = TRUE
                /\ UNCHANGED <<recvbuf, rcv_nxt, rcv_wnd, history>>

Segment == \E k \in Positions, len \in 1 .. MaxSeg : nty_tcp_process_payload(k, len)
Read == \E len \in 1 .. Size : nty_copy_to_user(len)

Next == Segment \/ Read \/ StartClosing

Spec == Init /\ [][Next]_vars

(* A peer that has bytes left sends again from the number that is          *)
(* acknowledged, at least the next byte, if the window lets it; the        *)
(* application reads.                                                      *)
Resend == nty_tcp_process_payload(taken + recvbuf.merged_len, 1)

FairSpec == Spec /\ WF_vars(Resend) /\ WF_vars(Read)
-----------------------------------------------------------------------------
(* the place in the stream of a number in the buffer *)
Pos(seq) == taken + ((seq - recvbuf.head_seq) % Mod)
Frag(i) == Pos(recvbuf.fctx[i].seq) .. Pos(recvbuf.fctx[i].seq) + recvbuf.fctx[i].len - 1

Buffered == {p \in stored : p >= taken}
FirstMissing == Min({p \in taken .. StreamLen : p \notin stored})

(* The fragment list is exactly what has arrived and has not been read, in *)
(* order, with a gap between any two fragments, whatever the order, the    *)
(* cut and the overlap of the segments and wherever the numbers wrap.      *)
FragmentsExact ==
  LET n == Len(recvbuf.fctx)
  IN /\ UNION {Frag(i) : i \in 1 .. n} = Buffered
     /\ \A i \in 1 .. n - 1 : Max(Frag(i)) + 1 < Min(Frag(i + 1))

(* The stack acknowledges all the bytes that are there without a gap, and  *)
(* never a byte that is missing: the peer would not send it again.         *)
AcknowledgesWhatItHas ==
  /\ rcv_nxt = SeqNo(FirstMissing)
  /\ recvbuf.merged_len = FirstMissing - taken

(* As long as head_offset is where the first unread byte is, every byte    *)
(* that is listed is found in its place in the buffer, out-of-order ones   *)
(* behind their gap too, although the contents move.  The copies of RBPut() *)
(* never leave the buffer.                                                 *)
StoredInPlace ==
  /\ recvbuf.head_offset + recvbuf.last_len <= Size /\ recvbuf.tail_offset <= Size
  /\ skew = 0 => \A p \in Buffered : recvbuf.data[recvbuf.head_offset + p - taken] = p

(* From the first data on the right edge of the window the peer has been   *)
(* told never moves back.  The first data itself may move it: the SYN      *)
(* offers InitWnd (14600), and although the buffer is there from the SYN   *)
(* on, only the first payload sets the window to what it has room for, so  *)
(* the edge falls to Size (8192), never below.  What the peer has sent     *)
(* behind that place is refused by Fits and has to come again.             *)
RightEdge == taken + recvbuf.merged_len + rcv_wnd
EdgeNeverRetreats ==
  [][RightEdge' >= IF data_seen THEN RightEdge ELSE Min({RightEdge, Size})]_vars

(* A peer that sends again what is not acknowledged, and a reader: in the  *)
(* end the whole stream has arrived and been read; no pattern of losses, *)
(* overlaps and refused segments leaves it stuck.  The exception is a      *)
(* socket that is closed while its buffer is full: the bytes are thrown    *)
(* away only behind the window check, which no byte passes any more, so    *)
(* the peer cannot send the rest, nor its FIN.                             *)
StreamGoesThrough ==
  <>(\/ (IF closing THEN FirstMissing ELSE taken) = StreamLen
     \/ closing /\ rcv_wnd = 0)

(* A TCP stack for user space (README.md:39): recv() returns the bytes of  *)
(* the stream, in order.                                                   *)
ReadsInOrder == \A i \in DOMAIN read : read[i] = taken - Len(read) + i - 1

=============================================================================
