---------------------------- MODULE NtyTcp_proofs ----------------------------
(***************************************************************************)
(* Theorems about NtyTcp, for any window, buffer size and number of        *)
(* repetitions. There are two invariants.                                  *)
(*                                                                         *)
(* TInv is a table of what may be true of a stream in each state: it has   *)
(* one timer at most and is in one place of the application at most. From  *)
(* it: the retransmission timer and the TIME_WAIT list never share a       *)
(* stream, and no segment takes a stream from the application.             *)
(*                                                                         *)
(* CInv adds what the stream, the peer, the application and the segments   *)
(* on the way have in common, the numbers: from it the stack fails none of *)
(* its assertions, the states agree with the peer, and nobody sleeps on.   *)
(* Under it every step is a step of a ByteStream or none, in each of the   *)
(* two directions: the FIN is behind all data, and "end" is the end.       *)
(*                                                                         *)
(* As every function of the stack is an operator from streams to streams,  *)
(* each invariant has a lemma for each of them: most keep all that the     *)
(* invariant is about (Keeps, Eases), the others lead from a stream for    *)
(* which it holds to another (Sound, Fits).                                *)
(***************************************************************************)
EXTENDS NtyTcp, FiniteSetTheorems, WellFoundedInduction, TLAPS

-----------------------------------------------------------------------------
(* Types.                                                                  *)

Flags == {"SYN", "ACK", "FIN", "RST"}
Segments == [flags : SUBSET Flags, seq : Int, ack : Int, len : Int, wnd : Nat]
Fields == DOMAIN NoStream

States == {"NONE", "CLOSED", "LISTEN", "SYN_RCVD", "ESTABLISHED", "CLOSE_WAIT",
           "LAST_ACK", "FIN_WAIT_1", "FIN_WAIT_2", "CLOSING", "TIME_WAIT"}

IsStream(s) ==
  /\ DOMAIN s = Fields
  /\ s.state \in States
  /\ s.rcv_nxt \in Int /\ s.in_order \in Int /\ s.merged_len \in Int
  /\ s.ooo \subseteq Int /\ IsFiniteSet(s.ooo)
  /\ s.snd_nxt \in Int /\ s.snd_una \in Int /\ s.fss \in Int
  /\ s.sndbuf \in [head : Int, len : Int]
  /\ s.peer_wnd \in Nat /\ s.window \in Nat /\ s.cwnd \in Nat
  /\ s.snd_wnd \in Int /\ s.ssthresh \in Int /\ s.nrtx \in Int /\ s.ack_cnt \in Int
  /\ s.last_ack_seq \in Int /\ s.packets \in Int
  /\ s.nic \in Seq(Segments)

Peers == [st : {"closed", "syn_sent", "open", "reset"}, snd : Int, una : Int,
          nxt : Int, wnd : Nat, fin : BOOLEAN, gotfin : BOOLEAN, due : BOOLEAN]

-----------------------------------------------------------------------------
(* The inductive invariant.                                                *)

(* the states in which something of ours is unacknowledged *)
Timed == {"SYN_RCVD", "ESTABLISHED", "CLOSE_WAIT", "FIN_WAIT_1", "CLOSING", "LAST_ACK"}

TimersFit(s) ==
  /\ s.on_rto => s.state \in Timed
  /\ s.on_timewait_list => s.state \in {"TIME_WAIT", "CLOSED"}

Unreached(s) == ~s.socket /\ ~s.in_acceptq /\ ~s.on_sendq /\ ~s.on_closeq

(* The application has a stream in its hands in two states only, and it is *)
(* in acceptq, then in a socket, then in closeq.                           *)
InOnePlace(s) ==
  /\ s.state \notin {"ESTABLISHED", "CLOSE_WAIT"} => Unreached(s)
  /\ ~(s.socket /\ s.in_acceptq) /\ ~(s.socket /\ s.on_closeq)
  /\ ~(s.in_acceptq /\ s.on_closeq) /\ ~(s.in_acceptq /\ s.on_sendq)

(* The FIN has the number behind the last byte, its acknowledgement leaves *)
(* nothing in the send buffer, and it is sent only after close().          *)
FinBehindData(s) ==
  /\ s.sndbuf # NoBuf =>
       /\ s.sndbuf.len >= 0
       /\ s.state = "FIN_WAIT_1" => s.fss = s.sndbuf.head + s.sndbuf.len
       /\ s.state = "FIN_WAIT_2" => s.sndbuf.len = 0
  /\ s.is_fin_sent => s.state \notin {"NONE", "LISTEN", "SYN_RCVD", "ESTABLISHED", "CLOSE_WAIT"}

Sound(s) == IsStream(s) /\ TimersFit(s) /\ InOnePlace(s) /\ FinBehindData(s)

Sending == {"ESTABLISHED", "CLOSE_WAIT", "FIN_WAIT_1", "LAST_ACK"}

TInv ==
  /\ Sound(stk)
  /\ pc = "flushing" => stk.state \in Sending
  /\ peer \in Peers /\ up \in Seq(Segments) /\ down \in Seq(Segments)

-----------------------------------------------------------------------------
(* Operators that change nothing the table is about.                       *)

Keeps(s, r) ==
  /\ IsStream(r)
  /\ r.state = s.state /\ r.on_rto = s.on_rto
  /\ r.on_timewait_list = s.on_timewait_list
  /\ r.socket = s.socket /\ r.in_acceptq = s.in_acceptq
  /\ r.on_sendq = s.on_sendq /\ r.on_closeq = s.on_closeq
  /\ r.sndbuf = s.sndbuf /\ r.fss = s.fss /\ r.orphan = s.orphan
  /\ r.is_fin_sent = s.is_fin_sent

LEMMA FieldNames ==
  Fields = {"state", "rcv_nxt", "in_order", "ooo", "merged_len",
            "snd_nxt", "snd_una", "fss", "is_fin_sent", "sndbuf", "snd_wnd",
            "peer_wnd", "last_ack_seq", "cwnd", "ssthresh", "nrtx", "window", "packets",
            "on_control_list", "on_send_list", "on_ack_list", "ack_cnt",
            "is_wack", "control_list_waiting", "on_rto", "on_timewait_list",
            "on_timeout_list", "on_sendq", "on_closeq", "on_closeq_int",
            "in_acceptq", "socket", "have_reset", "nic", "lost", "signals",
            "orphan", "stuck", "crashed"}
  BY DEF Fields, NoStream

LEMMA StaysSound ==
  ASSUME NEW s, NEW r, Sound(s), Keeps(s, r)
  PROVE  Sound(r)
  BY DEF Sound, Keeps, TimersFit, InOnePlace, Unreached, FinBehindData

LEMMA KeepsTwice ==
  ASSUME NEW s, NEW q, NEW r, Keeps(s, q), Keeps(q, r)
  PROVE  Keeps(s, r)
  BY DEF Keeps

LEMMA KeepsItself ==
  ASSUME NEW s, IsStream(s)
  PROVE  Keeps(s, s)
  BY DEF Keeps

LEMMA ListsKeep ==
  ASSUME NEW s, IsStream(s)
  PROVE  /\ Keeps(s, nty_tcp_addto_controllist(s))
         /\ Keeps(s, nty_tcp_addto_sendlist(s))
         /\ Keeps(s, AddtoTimeoutList(s))
         /\ Keeps(s, Crash(s))
         /\ \A opt \in {"now", "aggregate", "wack"} : Keeps(s, nty_tcp_enqueue_acklist(s, opt))
         /\ \A other : Keeps(s, NoLongerWaiting(s, other))
         /\ \A who : Keeps(s, Signal(s, who))
         /\ Keeps(s, [s EXCEPT !.signals = {}])
         /\ Keeps(s, [s EXCEPT !.lost = TRUE])
  <1> USE FieldNames DEF IsStream, Keeps
  <1>1. Keeps(s, nty_tcp_addto_controllist(s))
    BY DEF nty_tcp_addto_controllist
  <1>2. Keeps(s, Crash(s))
    BY DEF Crash
  <1>3. Keeps(s, nty_tcp_addto_sendlist(s))
    BY <1>2, ZenonT(30) DEF nty_tcp_addto_sendlist
  <1>4. Keeps(s, AddtoTimeoutList(s))
    BY <1>2, ZenonT(30) DEF AddtoTimeoutList
  <1>5. ASSUME NEW opt \in {"now", "aggregate", "wack"}
        PROVE  Keeps(s, nty_tcp_enqueue_acklist(s, opt))
    BY SMTT(30) DEF nty_tcp_enqueue_acklist, Max2
  <1>6. ASSUME NEW other PROVE Keeps(s, NoLongerWaiting(s, other))
    BY DEF NoLongerWaiting, nty_tcp_addto_controllist
  <1>7. ASSUME NEW who PROVE Keeps(s, Signal(s, who))
    BY DEF Signal
  <1>8. Keeps(s, [s EXCEPT !.signals = {}]) /\ Keeps(s, [s EXCEPT !.lost = TRUE])
    OBVIOUS
  <1> QED BY <1>1, <1>2, <1>3, <1>4, <1>5, <1>6, <1>7, <1>8

LEMMA SegmentType ==
  ASSUME NEW flags \in SUBSET Flags,
         NEW seq \in Int, NEW ack \in Int, NEW len \in Int, NEW wnd \in Nat
  PROVE  Seg(flags, seq, ack, len, wnd) \in Segments
  BY DEF Seg, Segments

LEMMA EmitKeeps ==
  ASSUME NEW s, IsStream(s), NEW p \in Segments
  PROVE  Keeps(s, Emit(s, p))
  BY FieldNames DEF Emit, IsStream, Keeps

(* what sending a segment does: the timer is started if it counts *)
LEMMA SegmentSent ==
  ASSUME NEW s, IsStream(s), NEW flags \in SUBSET (Flags \cup {"CWR"}), NEW len \in Int
  PROVE  LET r == nty_tcp_send_tcppkt(s, flags, len) IN
         /\ IsStream(r) /\ r.state = s.state
         /\ r.on_rto => s.on_rto \/ Grows(flags, len) > 0
         /\ r.is_fin_sent => s.is_fin_sent \/ "FIN" \in flags
         /\ r.on_timewait_list = s.on_timewait_list
         /\ r.socket = s.socket /\ r.in_acceptq = s.in_acceptq
         /\ r.on_sendq = s.on_sendq /\ r.on_closeq = s.on_closeq
         /\ r.sndbuf = s.sndbuf /\ r.fss = s.fss /\ r.orphan = s.orphan
  <1> DEFINE seq == CASE "CWR" \in flags -> s.snd_nxt - 1
                      [] "FIN" \in flags -> s.fss
                      [] OTHER -> s.snd_nxt
             p == Seg(flags \ {"CWR"}, seq, s.rcv_nxt, len, RcvWnd)
             e == Emit(s, p)
             g == Grows(flags, len)
             r == [e EXCEPT !.is_fin_sent = @ \/ "FIN" \in flags, !.snd_nxt = @ + g,
                            !.on_rto = @ \/ g > 0]
  <1>1. RcvWnd \in Nat
    BY TcpAssumption
  <1>2. s.snd_nxt \in Int /\ s.fss \in Int /\ s.rcv_nxt \in Int
    BY DEF IsStream
  <1>3. seq \in Int
    BY <1>2
  <1>4. p \in Segments
    <2> HIDE DEF seq
    <2> QED BY <1>1, <1>2, <1>3, SegmentType
  <1>5. Keeps(s, e)
    BY <1>4, EmitKeeps
  <1>6. g \in Int
    BY DEF Grows
  <1>7. nty_tcp_send_tcppkt(s, flags, len) = r
    BY DEF nty_tcp_send_tcppkt
  <1> HIDE DEF e, g
  <1>8. IsStream(e)
    BY <1>5 DEF Keeps
  <1>9. IsStream(r)
    <2>1. ASSUME NEW fin, NEW nxt \in Int, NEW rto
          PROVE  IsStream([e EXCEPT !.is_fin_sent = fin, !.snd_nxt = nxt, !.on_rto = rto])
      BY <1>8, FieldNames DEF IsStream
    <2>2. e.snd_nxt + g \in Int
      <3>1. e.snd_nxt \in Int
        BY <1>8 DEF IsStream
      <3> QED BY <1>6, <3>1
    <2>3. r = [e EXCEPT !.is_fin_sent = e.is_fin_sent \/ "FIN" \in flags,
                        !.snd_nxt = e.snd_nxt + g, !.on_rto = e.on_rto \/ g > 0]
      OBVIOUS
    <2> HIDE DEF r
    <2> QED BY <2>1, <2>2, <2>3
  <1>10. /\ r.state = e.state /\ r.on_timewait_list = e.on_timewait_list
         /\ r.socket = e.socket /\ r.in_acceptq = e.in_acceptq
         /\ r.on_sendq = e.on_sendq /\ r.on_closeq = e.on_closeq
         /\ r.sndbuf = e.sndbuf /\ r.fss = e.fss /\ r.orphan = e.orphan
    BY <1>8, FieldNames DEF IsStream
  <1>11. (r.on_rto => e.on_rto \/ g > 0) /\ (r.is_fin_sent => e.is_fin_sent \/ "FIN" \in flags)
    BY <1>8, FieldNames DEF IsStream
  <1> HIDE DEF r
  <1> QED BY <1>5, <1>7, <1>9, <1>10, <1>11 DEF Keeps, g

(* an ACK and a RST do not count *)
LEMMA AckKeeps ==
  ASSUME NEW s, IsStream(s), NEW flags \in {{"ACK"}, {"ACK", "CWR"}, {"RST"}}
  PROVE  LET r == nty_tcp_send_tcppkt(s, flags, 0) IN
         /\ IsStream(r) /\ r.state = s.state /\ r.orphan = s.orphan
         /\ Sound(s) => Sound(r)
  <1> DEFINE r == nty_tcp_send_tcppkt(s, flags, 0)
  <1>1. flags \in SUBSET (Flags \cup {"CWR"}) /\ 0 \in Int
    BY DEF Flags
  <1>2. Grows(flags, 0) = 0
    BY DEF Grows
  <1>3. /\ IsStream(r) /\ r.state = s.state
        /\ r.on_rto => s.on_rto
        /\ r.is_fin_sent => s.is_fin_sent
        /\ r.on_timewait_list = s.on_timewait_list
        /\ r.socket = s.socket /\ r.in_acceptq = s.in_acceptq
        /\ r.on_sendq = s.on_sendq /\ r.on_closeq = s.on_closeq
        /\ r.sndbuf = s.sndbuf /\ r.fss = s.fss /\ r.orphan = s.orphan
    BY <1>1, <1>2, SegmentSent
  <1> HIDE DEF r
  <1>4. Sound(s) => Sound(r)
    BY <1>3 DEF Sound, TimersFit, InOnePlace, Unreached, FinBehindData
  <1> QED BY <1>3, <1>4 DEF r

(* A segment that counts starts the timer, in a state that has one. *)
LEMMA CountedKeeps ==
  ASSUME NEW s, Sound(s), s.state \in Timed,
         NEW flags \in SUBSET Flags, NEW len \in Int,
         "FIN" \in flags => s.state \in {"FIN_WAIT_1", "LAST_ACK", "CLOSING"}
  PROVE  LET r == nty_tcp_send_tcppkt(s, flags, len) IN
         Sound(r) /\ r.state = s.state /\ r.orphan = s.orphan
  <1> DEFINE r == nty_tcp_send_tcppkt(s, flags, len)
  <1>1. flags \in SUBSET (Flags \cup {"CWR"}) /\ IsStream(s)
    BY DEF Sound
  <1>2. /\ IsStream(r) /\ r.state = s.state
        /\ r.is_fin_sent => s.is_fin_sent \/ "FIN" \in flags
        /\ r.on_timewait_list = s.on_timewait_list
        /\ r.socket = s.socket /\ r.in_acceptq = s.in_acceptq
        /\ r.on_sendq = s.on_sendq /\ r.on_closeq = s.on_closeq
        /\ r.sndbuf = s.sndbuf /\ r.fss = s.fss /\ r.orphan = s.orphan
    BY <1>1, SegmentSent
  <1> HIDE DEF r
  <1>3. Sound(r)
    BY <1>2 DEF Sound, TimersFit, InOnePlace, Unreached, FinBehindData
  <1> QED BY <1>2, <1>3 DEF r

(* the first byte that is missing exists, as the stored ones are finite    *)
(* in number                                                               *)
LEMMA FirstGapType ==
  ASSUME NEW s, IsStream(s), NEW p \in Segments
  PROVE  /\ Stored(s, p) \subseteq Int /\ IsFiniteSet(Stored(s, p))
         /\ FirstGap(s, p) \in Int /\ FirstGap(s, p) >= s.in_order
         /\ s.in_order .. FirstGap(s, p) - 1 \subseteq Stored(s, p)
  <1> DEFINE S == Stored(s, p)
             n == Cardinality(S)
             i == s.in_order
             Gaps == {k \in 0 .. n : i + k \notin S}
  <1>1. s.ooo \subseteq Int /\ IsFiniteSet(s.ooo) /\ i \in Int
    BY DEF IsStream
  <1>2. p.seq \in Int /\ p.len \in Int
    BY DEF Segments
  <1>3. S \subseteq Int
    BY <1>1, <1>2 DEF Stored
  <1>4. IsFiniteSet(S)
    <2>1. IsFiniteSet(p.seq .. p.seq + p.len - 1)
      BY <1>2, FS_Interval
    <2>2. IsFiniteSet({b \in p.seq .. p.seq + p.len - 1 : b >= s.in_order})
      BY <2>1, FS_Subset
    <2> QED BY <1>1, <2>2, FS_Union DEF Stored
  <1>5. n \in Nat
    BY <1>4, FS_CardinalityType
  <1> HIDE DEF S, n
  <1>6. Gaps # {}
    <2>1. SUFFICES ASSUME \A k \in 0 .. n : i + k \in S
                   PROVE  FALSE
      OBVIOUS
    <2>2. i .. i + n \subseteq S
      <3> SUFFICES ASSUME NEW b \in i .. i + n PROVE b \in S
        OBVIOUS
      <3>1. b - i \in 0 .. n /\ i + (b - i) = b
        BY <1>1, <1>5
      <3> QED BY <2>1, <3>1
    <2>3. Cardinality(i .. i + n) <= n
      BY <1>4, <2>2, FS_Subset DEF n
    <2>4. Cardinality(i .. i + n) = n + 1
      <3>1. i + n \in Int /\ i <= i + n /\ (i + n) - i + 1 = n + 1
        BY <1>1, <1>5
      <3> QED BY <1>1, <3>1, FS_Interval
    <2> QED BY <1>5, <2>3, <2>4
  <1>7. PICK k \in Gaps : \A j \in Gaps : k <= j
    <2>1. Gaps \subseteq Nat
      BY <1>5
    <2>2. PICK k \in Gaps : \A j \in Gaps : <<j, k>> \notin OpToRel(<, Nat)
      BY <1>6, <2>1, NatLessThanWellFounded, WFMin
    <2>3. ASSUME NEW j \in Gaps PROVE k <= j
      <3>1. ~(j < k)
        BY <2>1, <2>2 DEF OpToRel
      <3> QED BY <2>1, <3>1
    <2> QED BY <2>3
  <1>8. /\ i + k \in i .. i + n /\ i + k \notin S
        /\ i .. (i + k) - 1 \subseteq S
    <2>1. k \in 0 .. n /\ i + k \notin S
      BY <1>7
    <2>2. ASSUME NEW b \in i .. (i + k) - 1 PROVE b \in S
      <3>1. b - i \in 0 .. n /\ i + (b - i) = b /\ ~(k <= b - i)
        BY <1>1, <1>5, <2>1
      <3> QED BY <1>7, <3>1
    <2> QED BY <1>1, <1>5, <2>1, <2>2
  <1>9. FirstGap(s, p) \in i .. i + n /\ i .. FirstGap(s, p) - 1 \subseteq S
    BY <1>8 DEF FirstGap, S, n
  <1> QED BY <1>1, <1>3, <1>4, <1>5, <1>9 DEF S

LEMMA ProcessPayloadKeeps ==
  ASSUME NEW s, IsStream(s), NEW p \in Segments
  PROVE  Keeps(s, nty_tcp_process_payload(s, p))
  <1> DEFINE next == FirstGap(s, p)
             r == [s EXCEPT !.in_order = next, !.rcv_nxt = next,
                            !.ooo = {b \in Stored(s, p) : b > next},
                            !.merged_len = IF s.state \in {"FIN_WAIT_1", "FIN_WAIT_2"}
                                           THEN 0 ELSE @ + next - s.in_order]
  <1>1. next \in Int /\ Stored(s, p) \subseteq Int /\ IsFiniteSet(Stored(s, p))
    BY FirstGapType
  <1>2. Keeps(s, r)
    <2>1. {b \in Stored(s, p) : b > next} \subseteq Int /\ IsFiniteSet({b \in Stored(s, p) : b > next})
      BY <1>1, FS_Subset
    <2>2. ASSUME NEW m \in Int, NEW O, O \subseteq Int, IsFiniteSet(O), NEW n \in Int
          PROVE  Keeps(s, [s EXCEPT !.in_order = n, !.rcv_nxt = n,
                                    !.ooo = O, !.merged_len = m])
      BY <2>2, FieldNames DEF IsStream, Keeps
    <2>3. s.merged_len \in Int /\ s.in_order \in Int
      BY DEF IsStream
    <2>4. (IF s.state \in {"FIN_WAIT_1", "FIN_WAIT_2"} THEN 0 ELSE s.merged_len + next - s.in_order) \in Int
      BY <1>1, <2>3
    <2> HIDE DEF next
    <2> QED BY <1>1, <2>1, <2>2, <2>4
  <1> HIDE DEF r, next
  <1>3. nty_tcp_process_payload(s, p)
          = IF s.state = "ESTABLISHED" /\ s.socket /\ next > s.rcv_nxt THEN Signal(r, "read") ELSE r
    BY DEF nty_tcp_process_payload, r, next
  <1>4. Keeps(r, Signal(r, "read"))
    <2>1. IsStream(r)
      BY <1>2 DEF Keeps
    <2> QED BY <2>1, ListsKeep
  <1> QED BY <1>2, <1>3, <1>4, KeepsTwice

LEMMA PayloadKeeps ==
  ASSUME NEW s, IsStream(s), NEW p \in Segments
  PROVE  Keeps(s, Payload(s, p))
  <1>1. Keeps(s, s)
    BY KeepsItself
  <1>2. ASSUME NEW q, Keeps(s, q), NEW opt \in {"now", "aggregate"}
        PROVE  Keeps(s, nty_tcp_enqueue_acklist(q, opt))
    <2>1. IsStream(q)
      BY <1>2 DEF Keeps
    <2> QED BY <1>2, <2>1, ListsKeep, KeepsTwice
  <1> QED BY <1>1, <1>2, ProcessPayloadKeeps DEF Payload

-----------------------------------------------------------------------------
(* What the thread does before it looks at the network: from a sound       *)
(* stream to a sound stream.                                               *)

(* an unreached stream leaves no pointer behind *)
LEMMA DestroyIsSound ==
  ASSUME NEW s, Sound(s)
  PROVE  /\ Sound(DestroyTcpStream(s))
         /\ Unreached(s) => (DestroyTcpStream(s).orphan => s.orphan)
  <1> DEFINE r == DestroyTcpStream(s)
  <1>1. /\ IsStream(r) /\ r.state = "NONE" /\ r.on_rto = FALSE /\ r.on_timewait_list = FALSE
        /\ r.socket = FALSE /\ r.in_acceptq = FALSE /\ r.on_sendq = FALSE /\ r.on_closeq = FALSE
        /\ r.sndbuf = NoBuf /\ r.is_fin_sent = FALSE
    <2>1. s.nic \in Seq(Segments)
      BY DEF Sound, IsStream
    <2>2. SndBuf \in Int
      BY TcpAssumption
    <2>3. IsFiniteSet({})
      BY FS_EmptySet
    <2> QED BY <2>1, <2>2, <2>3 DEF DestroyTcpStream, NoStream, NoBuf, IsStream, Fields, States
  <1>2. r.orphan = (s.orphan \/ s.in_acceptq \/ s.socket \/ s.on_sendq \/ s.on_closeq)
    BY DEF DestroyTcpStream, NoStream
  <1> HIDE DEF r
  <1>3. Sound(r)
    BY <1>1 DEF Sound, TimersFit, InOnePlace, Unreached, FinBehindData
  <1> QED BY <1>2, <1>3 DEF r, Unreached

LEMMA ControlIsSound ==
  ASSUME NEW s, Sound(s)
  PROVE  Sound(nty_tcp_write_controllist(s))
  <1> DEFINE c == [s EXCEPT !.on_control_list = FALSE]
  <1>1. Sound(c)
    <2>1. Keeps(s, c)
      BY FieldNames DEF Sound, IsStream, Keeps
    <2> QED BY <2>1, StaysSound
  <1>2. ASSUME NEW t, Sound(t) PROVE Sound(nty_tcp_send_controlpkt(t))
    <2>0. IsStream(t)
      BY <1>2 DEF Sound
    <2>1. CASE t.state = "SYN_RCVD"
      <3> DEFINE z == [t EXCEPT !.snd_nxt = 0]
      <3>1. Keeps(t, z)
        BY <2>0, FieldNames DEF IsStream, Keeps
      <3>2. Sound(z) /\ z.state \in Timed
        BY <1>2, <2>1, <3>1, StaysSound DEF Keeps, Timed
      <3>3. {"SYN", "ACK"} \in SUBSET Flags /\ 0 \in Int
        BY DEF Flags
      <3> HIDE DEF z
      <3>4. Sound(nty_tcp_send_tcppkt(z, {"SYN", "ACK"}, 0))
        BY <3>2, <3>3, CountedKeeps
      <3> QED BY <2>1, <3>4 DEF nty_tcp_send_controlpkt, z
    <2>2. CASE t.state \in {"ESTABLISHED", "CLOSE_WAIT", "FIN_WAIT_2", "TIME_WAIT"}
      <3>1. Sound(nty_tcp_send_tcppkt(t, {"ACK"}, 0))
        BY <1>2, <2>0, AckKeeps
      <3> QED BY <2>2, <3>1 DEF nty_tcp_send_controlpkt
    <2>3. CASE t.state \in {"LAST_ACK", "FIN_WAIT_1"}
      <3>1. {"FIN", "ACK"} \in SUBSET Flags /\ 0 \in Int /\ t.state \in Timed
        BY <2>3 DEF Flags, Timed
      <3>2. Sound(nty_tcp_send_tcppkt(t, {"FIN", "ACK"}, 0))
        BY <1>2, <2>3, <3>1, CountedKeeps
      <3> QED BY <2>3, <3>2 DEF nty_tcp_send_controlpkt
    <2>4. CASE t.state = "CLOSING"
      <3>1. {"FIN", "ACK"} \in SUBSET Flags /\ {"ACK"} \in SUBSET Flags /\ 0 \in Int
        BY DEF Flags
      <3>2. t.state \in Timed
        BY <2>4 DEF Timed
      <3>3. /\ Sound(nty_tcp_send_tcppkt(t, {"FIN", "ACK"}, 0))
            /\ Sound(nty_tcp_send_tcppkt(t, {"ACK"}, 0))
        BY <1>2, <2>4, <3>1, <3>2, CountedKeeps
      <3> QED BY <2>4, <3>3 DEF nty_tcp_send_controlpkt
    <2>5. CASE t.state = "CLOSED"
      <3>1. Sound(nty_tcp_send_tcppkt(t, {"RST"}, 0))
        BY <1>2, <2>0, AckKeeps
      <3> QED BY <2>5, <3>1, DestroyIsSound DEF nty_tcp_send_controlpkt
    <2>6. CASE t.state \in {"NONE", "LISTEN"}
      BY <1>2, <2>6 DEF nty_tcp_send_controlpkt
    <2> QED BY <2>0, <2>1, <2>2, <2>3, <2>4, <2>5, <2>6 DEF IsStream, States
  <1> HIDE DEF c
  <1> QED BY <1>1, <1>2 DEF nty_tcp_write_controllist, c

LEMMA AcklistIsSound ==
  ASSUME NEW s, Sound(s)
  PROVE  Sound(nty_tcp_write_acklist(s)) /\ nty_tcp_write_acklist(s).state = s.state
  <1> DEFINE acked == IF s.ack_cnt > 0 THEN nty_tcp_send_tcppkt(s, {"ACK"}, 0) ELSE s
             sent == IF s.state \in Acks /\ s.rcv_nxt <= s.in_order
                     THEN AckSent(s) ELSE s
             left == [sent EXCEPT !.on_ack_list = FALSE, !.ack_cnt = 0, !.is_wack = FALSE]
  <1>1. Sound(acked) /\ acked.state = s.state
    BY AckKeeps DEF Sound
  <1>2. Sound(AckSent(s)) /\ AckSent(s).state = s.state
    <2>1. IsStream(acked)
      BY <1>1 DEF Sound
    <2>2. AckSent(s) = IF s.is_wack THEN nty_tcp_send_tcppkt(acked, {"ACK", "CWR"}, 0) ELSE acked
      BY DEF AckSent
    <2> HIDE DEF acked
    <2> QED BY <1>1, <2>1, <2>2, AckKeeps
  <1>3. Sound(sent) /\ sent.state = s.state
    BY <1>2
  <1>4. Sound(left) /\ left.state = s.state
    <2> HIDE DEF sent
    <2>1. Keeps(sent, left)
      BY <1>3, FieldNames DEF Sound, IsStream, Keeps
    <2> QED BY <1>3, <2>1, StaysSound DEF Keeps
  <1> HIDE DEF left
  <1>5. Keeps(left, NoLongerWaiting(left, s.on_send_list))
    BY <1>4, ListsKeep DEF Sound
  <1>6. /\ Sound(NoLongerWaiting(left, s.on_send_list))
        /\ NoLongerWaiting(left, s.on_send_list).state = s.state
    BY <1>4, <1>5, StaysSound DEF Keeps
  <1> QED BY <1>6 DEF nty_tcp_write_acklist, left

LEMMA HalfWindowType ==
  ASSUME NEW s, IsStream(s)
  PROVE  HalfWindow(s) \in Nat
  <1>1. s.cwnd \in Nat /\ s.peer_wnd \in Nat /\ Mss \in Nat
    BY TcpAssumption DEF IsStream
  <1>2. Min2(s.cwnd, s.peer_wnd) \in Nat
    BY <1>1 DEF Min2
  <1>3. ASSUME NEW n \in Nat, NEW m \in Nat PROVE Max2(n \div 2, 2 * m) \in Nat
    <2>1. n \div 2 \in Nat /\ 2 * m \in Nat
      OBVIOUS
    <2> QED BY <2>1 DEF Max2
  <1> QED BY <1>1, <1>2, <1>3 DEF HalfWindow

LEMMA TimersAreSound ==
  ASSUME NEW s, Sound(s), NEW fires, NEW idle
  PROVE  /\ Sound(CheckRtmTimeout(s, fires))
         /\ Sound(CheckTimewaitExpire(s))
         /\ Sound(CheckConnectionTimeout(s, idle))
  <1>1. Sound(CheckTimewaitExpire(s)) /\ Sound(CheckConnectionTimeout(s, idle))
    BY DestroyIsSound DEF CheckTimewaitExpire, CheckConnectionTimeout
  <1>2. ASSUME NEW t, Sound(t) PROVE Sound(HandleRTO(t))
    <2> DEFINE r == Reduced(t)
               w == [r EXCEPT !.on_control_list = FALSE, !.control_list_waiting = TRUE]
    <2>1. IsStream(t)
      BY <1>2 DEF Sound
    <2>2. Keeps(t, r)
      <3>1. t.nrtx + 1 \in Int /\ Mss \in Nat /\ t.snd_una \in Int
        BY <2>1, TcpAssumption DEF IsStream
      <3>3. HalfWindow(t) \in Int
        BY <2>1, HalfWindowType
      <3>2. ASSUME NEW n \in Int, NEW x \in Int, NEW h \in Int
            PROVE  Keeps(t, [t EXCEPT !.nrtx = n, !.cwnd = Mss, !.snd_nxt = x, !.ssthresh = h])
        BY <2>1, <3>1, FieldNames DEF IsStream, Keeps
      <3> QED BY <3>1, <3>2, <3>3 DEF Reduced
    <2>3. Sound(r) /\ IsStream(r)
      BY <1>2, <2>2, StaysSound DEF Keeps
    <2> HIDE DEF r
    <2>4. Sound(w) /\ IsStream(w)
      <3>1. Keeps(r, w)
        BY <2>3, FieldNames DEF IsStream, Keeps
      <3> QED BY <2>3, <3>1, StaysSound DEF Keeps
    <2> HIDE DEF w
    <2>5. /\ Sound(nty_tcp_addto_controllist(r)) /\ Sound(nty_tcp_addto_sendlist(r))
          /\ Sound(nty_tcp_addto_sendlist(w)) /\ Sound(Crash(t)) /\ Sound(DestroyTcpStream(t))
      BY <1>2, <2>1, <2>3, <2>4, ListsKeep, StaysSound, DestroyIsSound
    <2> QED BY <2>5 DEF HandleRTO, r, w
  <1>3. Sound(RemoveFromRTOList(s))
    <2> DEFINE r == RemoveFromRTOList(s)
    <2>1. /\ IsStream(r) /\ r.state = s.state /\ r.on_rto = FALSE
          /\ r.on_timewait_list = s.on_timewait_list
          /\ r.socket = s.socket /\ r.in_acceptq = s.in_acceptq
          /\ r.on_sendq = s.on_sendq /\ r.on_closeq = s.on_closeq
          /\ r.sndbuf = s.sndbuf /\ r.fss = s.fss /\ r.is_fin_sent = s.is_fin_sent
      BY FieldNames, SMTT(30) DEF RemoveFromRTOList, Sound, IsStream
    <2> HIDE DEF r
    <2>2. Sound(r)
      BY <2>1 DEF Sound, TimersFit, InOnePlace, Unreached, FinBehindData
    <2> QED BY <2>2 DEF r
  <1> QED BY <1>1, <1>2, <1>3 DEF CheckRtmTimeout

(* close(): the FIN gets its number, and nobody has the stream any more *)
LEMMA ApicallsAreSound ==
  ASSUME NEW s, Sound(s)
  PROVE  Sound(nty_tcp_handle_apicall(s))
  <1> DEFINE t == TakeSendq(s)
             c == [t EXCEPT !.on_closeq = FALSE, !.fss = FinPosition(t),
                            !.on_timeout_list = FALSE]
  <1>1. Sound(t) /\ ~t.on_sendq
    <2> DEFINE q == [s EXCEPT !.on_sendq = FALSE]
    <2>1. /\ IsStream(q) /\ q.state = s.state /\ q.on_rto = s.on_rto
          /\ q.on_timewait_list = s.on_timewait_list
          /\ q.socket = s.socket /\ q.in_acceptq = s.in_acceptq
          /\ q.on_sendq = FALSE /\ q.on_closeq = s.on_closeq
          /\ q.sndbuf = s.sndbuf /\ q.fss = s.fss /\ q.is_fin_sent = s.is_fin_sent
      BY FieldNames DEF Sound, IsStream
    <2> HIDE DEF q
    <2>2. Sound(q)
      BY <2>1 DEF Sound, TimersFit, InOnePlace, Unreached, FinBehindData
    <2>3. Sound(nty_tcp_addto_sendlist(q)) /\ ~nty_tcp_addto_sendlist(q).on_sendq
      BY <2>1, <2>2, ListsKeep, StaysSound, ZenonT(30) DEF Keeps
    <2> QED BY <2>3 DEF TakeSendq, q
  <1> HIDE DEF t
  <1>2. TakeCloseq(t) = t \/ t.on_closeq
    BY DEF TakeCloseq
  <1>3. ASSUME t.on_closeq PROVE Sound(TakeCloseq(t))
    <2>1. t.state \in {"ESTABLISHED", "CLOSE_WAIT"} /\ ~t.socket /\ ~t.in_acceptq
      BY <1>1, <1>3 DEF Sound, InOnePlace, Unreached
    <2>2. FinPosition(t) \in Int
      <3>1. t.sndbuf \in [head : Int, len : Int] /\ t.snd_nxt \in Int
        BY <1>1 DEF Sound, IsStream
      <3>2. t.sndbuf.head \in Int /\ t.sndbuf.len \in Int
        BY <3>1
      <3> QED BY <3>1, <3>2 DEF FinPosition
    <2>3. /\ IsStream(c) /\ c.state = t.state /\ c.on_rto = t.on_rto
          /\ c.on_timewait_list = t.on_timewait_list
          /\ c.socket = t.socket /\ c.in_acceptq = t.in_acceptq
          /\ c.on_sendq = t.on_sendq /\ c.on_closeq = FALSE
          /\ c.sndbuf = t.sndbuf /\ c.fss = FinPosition(t) /\ c.is_fin_sent = t.is_fin_sent
      BY <1>1, <2>2, FieldNames DEF Sound, IsStream
    <2> HIDE DEF c
    <2>4. Sound(c)
      BY <1>1, <2>1, <2>3 DEF Sound, TimersFit, InOnePlace, Unreached, FinBehindData
    <2>5. Sound([c EXCEPT !.on_closeq_int = TRUE])
      <3>1. Keeps(c, [c EXCEPT !.on_closeq_int = TRUE])
        BY <2>3, FieldNames DEF IsStream, Keeps
      <3> QED BY <2>4, <3>1, StaysSound
    <2>6. ASSUME NEW w PROVE Sound([c EXCEPT !.state = Closing(@), !.control_list_waiting = w])
      <3> DEFINE e == [c EXCEPT !.state = Closing(@), !.control_list_waiting = w]
      <3>1. Closing(c.state) \in {"FIN_WAIT_1", "LAST_ACK"}
        BY <2>1, <2>3 DEF Closing
      <3>2. /\ IsStream(e) /\ e.state = Closing(c.state) /\ e.on_rto = c.on_rto
            /\ e.on_timewait_list = c.on_timewait_list
            /\ e.socket = c.socket /\ e.in_acceptq = c.in_acceptq
            /\ e.on_sendq = c.on_sendq /\ e.on_closeq = c.on_closeq
            /\ e.sndbuf = c.sndbuf /\ e.fss = c.fss /\ e.is_fin_sent = c.is_fin_sent
        BY <2>3, <3>1, FieldNames, SMTT(30) DEF IsStream, States
      <3> HIDE DEF e
      <3>3. IsStream(e) /\ TimersFit(e) /\ InOnePlace(e)
        BY <1>1, <2>1, <2>3, <2>4, <3>1, <3>2 DEF Sound, TimersFit, InOnePlace, Unreached, Timed
      <3>4. FinBehindData(e)
        BY <2>3, <2>4, <3>1, <3>2 DEF Sound, FinBehindData, FinPosition
      <3> QED BY <3>3, <3>4 DEF Sound, e
    <2>7. Sound(nty_tcp_addto_controllist([c EXCEPT !.state = Closing(@)]))
      <3> DEFINE e == [c EXCEPT !.state = Closing(@)]
      <3>1. Sound(e)
        <4>1. e = [c EXCEPT !.state = Closing(@), !.control_list_waiting = c.control_list_waiting]
          BY <2>3, FieldNames DEF IsStream
        <4> QED BY <2>6, <4>1
      <3> HIDE DEF e
      <3>2. Sound(nty_tcp_addto_controllist(e))
        BY <3>1, ListsKeep, StaysSound DEF Sound
      <3> QED BY <3>2 DEF e
    <2>8. Sound(DestroyTcpStream(c))
      BY <2>4, DestroyIsSound
    <2> QED BY <1>3, <2>4, <2>5, <2>6, <2>7, <2>8 DEF TakeCloseq, c
  <1> QED BY <1>1, <1>2, <1>3 DEF nty_tcp_handle_apicall, t

-----------------------------------------------------------------------------
(* Receiving: a handler leads from a sound stream to a sound stream, and   *)
(* does not take it away from the application.                             *)

Follows(s, r) == Sound(r) /\ (r.orphan => s.orphan)

LEMMA FollowsKeeps ==
  ASSUME NEW s, NEW q, NEW r, Follows(s, q), Keeps(q, r)
  PROVE  Follows(s, r)
  BY StaysSound DEF Follows, Keeps

(* an ACK that repeats the last one *)
LEMMA RepeatedKeeps ==
  ASSUME NEW s, IsStream(s), NEW a \in Int, NEW env
  PROVE  Keeps(s, Repeated(s, a, env))
  <1>1. /\ s.cwnd \in Nat /\ s.nrtx \in Int /\ Mss \in Nat /\ TCP_MAX_RTX \in Nat
    BY TcpAssumption DEF IsStream
  <1>0. HalfWindow(s) \in Nat /\ HalfWindow(s) \in Int
    BY HalfWindowType
  <1>2. Keeps(s, FastRetransmit(s, a))
    <2> DEFINE l == nty_tcp_addto_sendlist(s)
               w == HalfWindow(s) + 3 * Mss
    <2>1. Keeps(s, l) /\ IsStream(l)
      BY ListsKeep DEF Keeps
    <2>2. w \in Nat
      BY <1>0, <1>1
    <2>3. l.nrtx \in Int
      BY <2>1 DEF IsStream
    <2>4. Min2(l.nrtx + 1, Max2(l.nrtx, TCP_MAX_RTX)) \in Int
      BY <1>1, <2>3 DEF Min2, Max2
    <2> HIDE DEF l, w
    <2>5. ASSUME NEW h \in Int, NEW c \in Nat, NEW n \in Int
          PROVE  Keeps(l, [l EXCEPT !.snd_nxt = a, !.ssthresh = h, !.cwnd = c, !.nrtx = n])
      BY <2>1, FieldNames DEF IsStream, Keeps
    <2>6. Keeps(l, [l EXCEPT !.snd_nxt = a, !.ssthresh = HalfWindow(s), !.cwnd = w,
                             !.nrtx = Min2(l.nrtx + 1, Max2(l.nrtx, TCP_MAX_RTX))])
      BY <1>0, <1>1, <2>2, <2>4, <2>5
    <2> QED BY <2>1, <2>6, KeepsTwice DEF FastRetransmit, l, w
  <1>3. Keeps(s, [s EXCEPT !.cwnd = IF @ < MaxCwnd THEN @ + Mss ELSE @])
    <2>1. (IF s.cwnd < MaxCwnd THEN s.cwnd + Mss ELSE s.cwnd) \in Nat
      BY <1>1
    <2>2. ASSUME NEW c \in Nat PROVE Keeps(s, [s EXCEPT !.cwnd = c])
      BY FieldNames DEF IsStream, Keeps
    <2> QED BY <2>1, <2>2
  <1>4. Keeps(s, s)
    BY KeepsItself
  <1> QED BY <1>2, <1>3, <1>4 DEF Repeated

(* process_ack: what it leaves alone, and what becomes of the send buffer  *)
LEMMA AckFollows ==
  ASSUME NEW s, Sound(s), NEW p \in Segments, NEW env,
         s.state \in {"ESTABLISHED", "CLOSE_WAIT", "LAST_ACK", "FIN_WAIT_1", "FIN_WAIT_2", "CLOSING"}
  PROVE  LET q == nty_tcp_process_ack(s, p, env) IN
         /\ Follows(s, q) /\ q.state = s.state /\ q.fss = s.fss
         /\ q.is_fin_sent = s.is_fin_sent
         /\ s.state = "FIN_WAIT_1" /\ AcksFin(s, p)
              => q.sndbuf = NoBuf \/ q.sndbuf.len = 0
  <1> DEFINE a == AckOfData(s, p)
             nxt == Max2(s.snd_nxt, a)
             listed == s.on_send_list /\ (a <= s.snd_nxt \/ s.sndbuf.len > 0)
             f == [s EXCEPT !.last_ack_seq = a, !.snd_nxt = nxt, !.on_send_list = listed]
             r == IF Repeats(s, p, a) THEN Repeated(s, a, env) ELSE f
             q == nty_tcp_process_ack(s, p, env)
  <1>1. IsStream(s) /\ p.ack \in Int /\ s.snd_nxt \in Int /\ s.fss \in Int
        /\ s.sndbuf \in [head : Int, len : Int]
    BY DEF Sound, IsStream, Segments
  <1>2. a \in Int /\ nxt \in Int
    BY <1>1 DEF AckOfData, Max2
  <1>3. s.state = "FIN_WAIT_1" /\ AcksFin(s, p) => a = s.fss
    BY <1>1 DEF AckOfData, AcksFin
  <1>4. Keeps(s, r)
    <2>1. Keeps(s, f)
      <3> HIDE DEF nxt, listed, a
      <3> QED BY <1>1, <1>2, FieldNames DEF IsStream, Keeps
    <2>2. Keeps(s, Repeated(s, a, env))
      BY <1>1, <1>2, RepeatedKeeps
    <2> HIDE DEF f, a
    <2> QED BY <2>1, <2>2
  <1>5. Sound(r)
    BY <1>4, StaysSound
  <1> HIDE DEF r
  <1>6. q = IF s.sndbuf = NoBuf \/ a > s.sndbuf.head + s.sndbuf.len THEN s
            ELSE IF a <= s.sndbuf.head THEN r ELSE Acknowledged(r, a)
    BY DEF nty_tcp_process_ack, r
  <1> HIDE DEF a, q
  <1>7. CASE s.sndbuf = NoBuf \/ a > s.sndbuf.head + s.sndbuf.len
    <2>1. q = s
      BY <1>6, <1>7
    <2>2. s.state = "FIN_WAIT_1" /\ AcksFin(s, p) => s.sndbuf = NoBuf
      BY <1>1, <1>3, <1>7 DEF Sound, FinBehindData
    <2> QED BY <2>1, <2>2 DEF Follows, q
  <1>8. CASE s.sndbuf # NoBuf /\ a <= s.sndbuf.head
    <2>1. q = r
      BY <1>1, <1>2, <1>6, <1>8 DEF Sound, FinBehindData
    <2>2. s.state = "FIN_WAIT_1" /\ AcksFin(s, p) => s.sndbuf.len = 0
      BY <1>1, <1>3, <1>8 DEF Sound, FinBehindData
    <2> QED BY <1>4, <1>5, <2>1, <2>2 DEF Follows, Keeps, q
  <1>9. CASE s.sndbuf # NoBuf /\ s.sndbuf.head < a /\ a <= s.sndbuf.head + s.sndbuf.len
    <2> DEFINE head == s.sndbuf.head
               len == s.sndbuf.len
               cwnd == IF r.cwnd < r.ssthresh
                       THEN r.cwnd + Mss * ((a - head) \div (Mss - OptLen)) ELSE r.cwnd
               buf == [head |-> a, len |-> len - (a - head)]
               wnd == SndBuf - (len - (a - head))
               e == [r EXCEPT !.sndbuf = buf, !.snd_una = a, !.snd_wnd = wnd, !.cwnd = cwnd]
    <2>1. q = Acknowledged(r, a)
      BY <1>1, <1>2, <1>6, <1>9
    <2>2. r.sndbuf = s.sndbuf /\ r.state = s.state /\ r.fss = s.fss /\ IsStream(r)
          /\ r.is_fin_sent = s.is_fin_sent /\ r.orphan = s.orphan
      BY <1>4 DEF Keeps
    <2>3. s.state # "FIN_WAIT_2"
      BY <1>1, <1>2, <1>9 DEF Sound, FinBehindData
    <2>4. head \in Int /\ len \in Int /\ buf \in [head : Int, len : Int]
          /\ buf.len >= 0 /\ buf.head + buf.len = head + len /\ buf # NoBuf
      BY <1>1, <1>2, <1>9 DEF NoBuf
    <2>5. wnd \in Int /\ cwnd \in Nat
      <3>1. SndBuf \in Int /\ Mss \in Nat /\ Mss - OptLen \in Nat \ {0}
        BY TcpAssumption
      <3>2. r.cwnd \in Nat
        BY <2>2 DEF IsStream
      <3>3. (a - head) \div (Mss - OptLen) \in Nat
        <4>1. ASSUME NEW n \in Nat, NEW d \in Nat \ {0} PROVE n \div d \in Nat
          OBVIOUS
        <4>2. a - head \in Nat
          BY <1>2, <1>9, <2>4
        <4> QED BY <3>1, <4>1, <4>2
      <3>4. Mss * ((a - head) \div (Mss - OptLen)) \in Nat
        <4>1. ASSUME NEW m \in Nat, NEW n \in Nat PROVE m * n \in Nat
          OBVIOUS
        <4> QED BY <3>1, <3>3, <4>1
      <3> QED BY <1>2, <2>4, <3>1, <3>2, <3>4
    <2>6. Acknowledged(r, a) = IF r.snd_wnd = 0 THEN [e EXCEPT !.stuck = TRUE]
                               ELSE UpdateRetransmissionTimer(e)
      BY <2>2 DEF Acknowledged
    <2>7. IsStream(e) /\ e.sndbuf = buf /\ e.state = r.state /\ e.fss = r.fss
          /\ e.on_timewait_list = r.on_timewait_list /\ e.on_rto = r.on_rto
          /\ e.socket = r.socket /\ e.in_acceptq = r.in_acceptq
          /\ e.on_sendq = r.on_sendq /\ e.on_closeq = r.on_closeq
          /\ e.is_fin_sent = r.is_fin_sent /\ e.orphan = r.orphan
      <3> HIDE DEF buf, wnd, cwnd
      <3> QED BY <1>2, <2>2, <2>4, <2>5, FieldNames, SMTT(60) DEF IsStream
    <2> HIDE DEF e, buf, cwnd
    <2>8. /\ IsStream(q) /\ q.sndbuf = buf /\ q.state = s.state /\ q.fss = s.fss
          /\ q.on_timewait_list = r.on_timewait_list
          /\ q.socket = r.socket /\ q.in_acceptq = r.in_acceptq
          /\ q.on_sendq = r.on_sendq /\ q.on_closeq = r.on_closeq
          /\ q.is_fin_sent = s.is_fin_sent /\ q.orphan = s.orphan
      <3> DEFINE z == [e EXCEPT !.stuck = TRUE]
                 u == UpdateRetransmissionTimer(e)
      <3>1. /\ IsStream(z) /\ z.sndbuf = e.sndbuf /\ z.state = e.state /\ z.fss = e.fss
            /\ z.on_timewait_list = e.on_timewait_list
            /\ z.socket = e.socket /\ z.in_acceptq = e.in_acceptq
            /\ z.on_sendq = e.on_sendq /\ z.on_closeq = e.on_closeq
            /\ z.is_fin_sent = e.is_fin_sent /\ z.orphan = e.orphan
        BY <2>7, FieldNames DEF IsStream
      <3>2. /\ IsStream(u) /\ u.sndbuf = e.sndbuf /\ u.state = e.state /\ u.fss = e.fss
            /\ u.on_timewait_list = e.on_timewait_list
            /\ u.socket = e.socket /\ u.in_acceptq = e.in_acceptq
            /\ u.on_sendq = e.on_sendq /\ u.on_closeq = e.on_closeq
            /\ u.is_fin_sent = e.is_fin_sent /\ u.orphan = e.orphan
        BY <2>7, FieldNames DEF UpdateRetransmissionTimer, IsStream
      <3> HIDE DEF z, u
      <3>3. q = z \/ q = u
        BY <2>1, <2>6 DEF z, u
      <3> QED BY <2>2, <2>7, <3>1, <3>2, <3>3
    <2>9. s.state \in Timed
      BY <2>3 DEF Timed
    <2>10. FinBehindData(q)
      <3>1. s.state = "FIN_WAIT_1" => s.fss = head + len
        BY <1>9 DEF Sound, FinBehindData
      <3>2. s.is_fin_sent => s.state \notin {"NONE", "LISTEN", "SYN_RCVD", "ESTABLISHED", "CLOSE_WAIT"}
        BY DEF Sound, FinBehindData
      <3> QED BY <2>3, <2>4, <2>8, <3>1, <3>2 DEF FinBehindData
    <2>11. Sound(q)
      BY <1>5, <2>2, <2>8, <2>9, <2>10 DEF Sound, TimersFit, InOnePlace, Unreached
    <2>12. s.state = "FIN_WAIT_1" /\ AcksFin(s, p) => buf.len = 0
      BY <1>1, <1>3, <1>9, <2>4 DEF Sound, FinBehindData, buf
    <2> QED BY <2>8, <2>11, <2>12 DEF Follows, q
  <1> QED BY <1>1, <1>2, <1>7, <1>8, <1>9

LEMMA TimewaitIsSound ==
  ASSUME NEW s, Sound(s), s.state \in {"TIME_WAIT", "CLOSED"}
  PROVE  Follows(s, AddtoTimewaitList(s))
  <1> DEFINE r == AddtoTimewaitList(s)
  <1>1. ~s.on_rto
    BY DEF Sound, TimersFit, Timed
  <1>2. /\ IsStream(r) /\ r.state = s.state /\ (r.on_rto => s.on_rto)
        /\ r.socket = s.socket /\ r.in_acceptq = s.in_acceptq
        /\ r.on_sendq = s.on_sendq /\ r.on_closeq = s.on_closeq
        /\ r.sndbuf = s.sndbuf /\ r.fss = s.fss /\ r.is_fin_sent = s.is_fin_sent /\ r.orphan = s.orphan
    BY FieldNames, ZenonT(30) DEF AddtoTimewaitList, Sound, IsStream
  <1> HIDE DEF r
  <1>3. Sound(r)
    BY <1>1, <1>2 DEF Sound, TimersFit, InOnePlace, Unreached, FinBehindData
  <1> QED BY <1>2, <1>3 DEF Follows, r

(* lists a handler ends with *)
LEMMA ListsFollow ==
  ASSUME NEW s, NEW r, Follows(s, r)
  PROVE  /\ Follows(s, nty_tcp_addto_controllist(r))
         /\ Follows(s, AddtoTimeoutList(r))
         /\ Follows(s, Crash(r))
         /\ \A opt \in {"now", "aggregate"} : Follows(s, nty_tcp_enqueue_acklist(r, opt))
         /\ \A who : Follows(s, Signal(r, who))
         /\ \A p \in Segments : Follows(s, Payload(r, p)) /\ Payload(r, p).state = r.state
  <1>1. IsStream(r)
    BY DEF Follows, Sound
  <1>3. ASSUME NEW p \in Segments PROVE Keeps(r, Payload(r, p))
    BY <1>1, PayloadKeeps
  <1>4. ASSUME NEW p \in Segments PROVE Payload(r, p).state = r.state
    BY <1>3 DEF Keeps
  <1> QED BY <1>1, <1>3, <1>4, ListsKeep, FollowsKeeps

LEMMA OutOfWindowFollows ==
  ASSUME NEW s, Sound(s), NEW p \in Segments
  PROVE  Follows(s, OutOfWindow(s, p))
  <1>1. Follows(s, s)
    BY DEF Follows
  <1>2. s.state = "TIME_WAIT" => Follows(s, nty_tcp_addto_controllist(AddtoTimewaitList(s)))
    BY TimewaitIsSound, ListsFollow
  <1>3. /\ Follows(s, nty_tcp_addto_controllist(s))
        /\ Follows(s, nty_tcp_enqueue_acklist(s, "aggregate"))
        /\ Follows(s, nty_tcp_enqueue_acklist(s, "now"))
    BY <1>1, ListsFollow
  <1> QED BY <1>1, <1>2, <1>3 DEF OutOfWindow

LEMMA RemoteCloses ==
  ASSUME NEW s, Sound(s), s.state = "ESTABLISHED", NEW n \in Int
  PROVE  /\ Follows(s, [s EXCEPT !.state = "CLOSE_WAIT", !.rcv_nxt = n])
         /\ Follows(s, [s EXCEPT !.state = "CLOSE_WAIT"])
  <1>1. ASSUME NEW m \in Int PROVE Follows(s, [s EXCEPT !.state = "CLOSE_WAIT", !.rcv_nxt = m])
    <2> DEFINE r == [s EXCEPT !.state = "CLOSE_WAIT", !.rcv_nxt = m]
    <2>1. /\ IsStream(r) /\ r.state = "CLOSE_WAIT" /\ r.on_rto = s.on_rto
          /\ r.on_timewait_list = s.on_timewait_list
          /\ r.socket = s.socket /\ r.in_acceptq = s.in_acceptq
          /\ r.on_sendq = s.on_sendq /\ r.on_closeq = s.on_closeq
          /\ r.sndbuf = s.sndbuf /\ r.fss = s.fss /\ r.is_fin_sent = s.is_fin_sent /\ r.orphan = s.orphan
      BY FieldNames DEF Sound, IsStream, States
    <2> HIDE DEF r
    <2>2. Sound(r)
      BY <2>1 DEF Sound, TimersFit, InOnePlace, Unreached, FinBehindData, Timed
    <2> QED BY <2>1, <2>2 DEF Follows, r
  <1>2. [s EXCEPT !.state = "CLOSE_WAIT"] = [s EXCEPT !.state = "CLOSE_WAIT", !.rcv_nxt = s.rcv_nxt]
    BY FieldNames DEF Sound, IsStream
  <1>3. s.rcv_nxt \in Int
    BY DEF Sound, IsStream
  <1> QED BY <1>1, <1>2, <1>3

LEMMA ListenFollows ==
  ASSUME NEW s, Sound(s), s.state \in {"LISTEN", "SYN_RCVD"}, NEW p \in Segments
  PROVE  Follows(s, nty_tcp_handle_listen(s, p))
  <1> DEFINE r == [s EXCEPT !.state = "SYN_RCVD",
                            !.rcv_nxt = IF s.state = "LISTEN" THEN @ + 1 ELSE @]
  <1>1. s.rcv_nxt \in Int /\ s.rcv_nxt + 1 \in Int
    BY DEF Sound, IsStream
  <1>2. /\ IsStream(r) /\ r.state = "SYN_RCVD" /\ r.on_rto = s.on_rto
        /\ r.on_timewait_list = s.on_timewait_list
        /\ r.socket = s.socket /\ r.in_acceptq = s.in_acceptq
        /\ r.on_sendq = s.on_sendq /\ r.on_closeq = s.on_closeq
        /\ r.sndbuf = s.sndbuf /\ r.fss = s.fss /\ r.is_fin_sent = s.is_fin_sent /\ r.orphan = s.orphan
    BY <1>1, FieldNames DEF Sound, IsStream, States
  <1> HIDE DEF r
  <1>3. Sound(r)
    BY <1>2 DEF Sound, TimersFit, InOnePlace, Unreached, FinBehindData, Timed
  <1>4. Follows(s, r) /\ Follows(s, s)
    BY <1>2, <1>3 DEF Follows
  <1> QED BY <1>4, ListsFollow DEF nty_tcp_handle_listen, r

LEMMA SynRcvdFollows ==
  ASSUME NEW s, Sound(s), s.state = "SYN_RCVD", NEW p \in Segments, NEW env \in Env
  PROVE  Follows(s, nty_tcp_handle_syn_rcvd(s, p, env))
  <1> DEFINE q == RemoveFromRTOList(s)
             cwnd == IF q.cwnd = 1 THEN 2 * Mss ELSE Mss
             una == q.snd_una + 1
             e == [q EXCEPT !.snd_una = una, !.snd_nxt = p.ack, !.rcv_nxt = 1, !.nrtx = 0,
                            !.cwnd = cwnd]
             c == [e EXCEPT !.state = "CLOSED"]
             b == [e EXCEPT !.state = "ESTABLISHED", !.in_acceptq = TRUE]
             z == [s EXCEPT !.snd_nxt = 0]
  <1>1. /\ IsStream(q) /\ q.state = s.state /\ q.on_rto = FALSE
        /\ q.on_timewait_list = s.on_timewait_list
        /\ q.socket = s.socket /\ q.in_acceptq = s.in_acceptq
        /\ q.on_sendq = s.on_sendq /\ q.on_closeq = s.on_closeq
        /\ q.sndbuf = s.sndbuf /\ q.fss = s.fss /\ q.is_fin_sent = s.is_fin_sent /\ q.orphan = s.orphan
    BY FieldNames DEF RemoveFromRTOList, Sound, IsStream
  <1> HIDE DEF q
  <1>2. cwnd \in Nat /\ una \in Int /\ p.ack \in Int
    <2>1. Mss \in Nat /\ 2 * Mss \in Nat
      BY TcpAssumption
    <2>2. q.snd_una \in Int
      BY <1>1 DEF IsStream
    <2> QED BY <2>1, <2>2 DEF Segments
  <1>3. Keeps(q, e)
    <2> HIDE DEF cwnd, una
    <2> QED BY <1>1, <1>2, FieldNames, SMTT(30) DEF IsStream, Keeps
  <1>4. Unreached(s) /\ ~s.on_timewait_list
    BY DEF Sound, InOnePlace, TimersFit
  <1> HIDE DEF e
  <1>5. Follows(s, c)
    <2>1. /\ IsStream(c) /\ c.state = "CLOSED" /\ c.on_rto = e.on_rto
          /\ c.on_timewait_list = e.on_timewait_list
          /\ c.socket = e.socket /\ c.in_acceptq = e.in_acceptq
          /\ c.on_sendq = e.on_sendq /\ c.on_closeq = e.on_closeq
          /\ c.sndbuf = e.sndbuf /\ c.fss = e.fss /\ c.is_fin_sent = e.is_fin_sent /\ c.orphan = e.orphan
      BY <1>3, FieldNames DEF IsStream, States, Keeps
    <2> HIDE DEF c
    <2>2. Sound(c)
      BY <1>1, <1>3, <1>4, <2>1 DEF Sound, TimersFit, InOnePlace, Unreached, FinBehindData, Keeps
    <2> QED BY <1>1, <1>3, <2>1, <2>2 DEF Follows, Keeps
  <1>6. Follows(s, b)
    <2>1. /\ IsStream(b) /\ b.state = "ESTABLISHED" /\ b.on_rto = e.on_rto
          /\ b.on_timewait_list = e.on_timewait_list
          /\ b.socket = e.socket /\ b.on_sendq = e.on_sendq /\ b.on_closeq = e.on_closeq
          /\ b.sndbuf = e.sndbuf /\ b.fss = e.fss /\ b.is_fin_sent = e.is_fin_sent /\ b.orphan = e.orphan
      BY <1>3, FieldNames DEF IsStream, States, Keeps
    <2> HIDE DEF b
    <2>2. Sound(b)
      BY <1>1, <1>3, <1>4, <2>1 DEF Sound, TimersFit, InOnePlace, Unreached, FinBehindData, Keeps, Timed
    <2> QED BY <1>1, <1>3, <2>1, <2>2 DEF Follows, Keeps
  <1>7. Follows(s, z)
    <2>1. Keeps(s, z)
      BY FieldNames DEF Sound, IsStream, Keeps
    <2>2. Follows(s, s)
      BY DEF Follows
    <2> QED BY <2>1, <2>2, FollowsKeeps
  <1> HIDE DEF c, b, z
  <1>8. /\ Follows(s, Crash(s)) /\ Follows(s, nty_tcp_addto_controllist(z))
        /\ Follows(s, AddtoTimeoutList(nty_tcp_addto_controllist(c)))
        /\ Follows(s, Signal(AddtoTimeoutList(b), "accept"))
    <2>1. Follows(s, s)
      BY DEF Follows
    <2> QED BY <1>5, <1>6, <1>7, <2>1, ListsFollow
  <1> QED BY <1>8 DEF nty_tcp_handle_syn_rcvd, c, b, z, e, q

LEMMA EstablishedFollows ==
  ASSUME NEW s, Sound(s), s.state = "ESTABLISHED", NEW p \in Segments, NEW env
  PROVE  Follows(s, nty_tcp_handle_established(s, p, env))
  <1> DEFINE r == Payload(s, p)
             q == IF Has(p, "ACK") THEN nty_tcp_process_ack(r, p, env) ELSE r
             w == [q EXCEPT !.state = "CLOSE_WAIT", !.rcv_nxt = @ + 1]
             f == nty_tcp_addto_controllist(w)
             z == [s EXCEPT !.snd_nxt = p.ack]
  <1>1. Follows(s, s)
    BY DEF Follows
  <1>2. Follows(s, r) /\ r.state = "ESTABLISHED"
    BY <1>1, ListsFollow
  <1> HIDE DEF r
  <1>3. Follows(s, q) /\ q.state = "ESTABLISHED"
    <2>1. Follows(r, nty_tcp_process_ack(r, p, env)) /\ nty_tcp_process_ack(r, p, env).state = "ESTABLISHED"
      BY <1>2, AckFollows DEF Follows
    <2> QED BY <1>2, <2>1 DEF Follows
  <1> HIDE DEF q
  <1>4. Follows(s, w)
    <2>1. q.rcv_nxt + 1 \in Int
      <3>1. q.rcv_nxt \in Int
        BY <1>3 DEF Follows, Sound, IsStream
      <3> QED BY <3>1
    <2>2. Follows(q, w)
      BY <1>3, <2>1, RemoteCloses DEF Follows
    <2> QED BY <1>3, <2>2 DEF Follows
  <1> HIDE DEF w
  <1>5. Follows(s, f) /\ Follows(s, nty_tcp_enqueue_acklist(q, "now"))
    BY <1>3, <1>4, ListsFollow
  <1>6. Follows(s, nty_tcp_addto_controllist(z))
    <2>1. Keeps(s, z)
      BY FieldNames DEF Sound, IsStream, Keeps, Segments
    <2>2. Follows(s, z)
      BY <1>1, <2>1, FollowsKeeps
    <2> QED BY <2>2, ListsFollow
  <1> HIDE DEF f
  <1>7. Follows(s, Signal(f, "read"))
    BY <1>5, ListsFollow
  <1> QED BY <1>3, <1>5, <1>6, <1>7 DEF nty_tcp_handle_established, f, w, q, r, z

LEMMA CloseWaitFollows ==
  ASSUME NEW s, Sound(s), s.state = "CLOSE_WAIT", NEW p \in Segments, NEW env
  PROVE  Follows(s, nty_tcp_handle_close_wait(s, p, env))
  <1>1. Follows(s, nty_tcp_addto_controllist(s))
    BY ListsFollow DEF Follows
  <1>2. Follows(s, nty_tcp_process_ack(s, p, env))
    BY AckFollows
  <1> QED BY <1>1, <1>2 DEF nty_tcp_handle_close_wait

(* In a state behind close() the stream is in nobody's hands. *)
LEMMA DestroyFollows ==
  ASSUME NEW s, NEW q, Follows(s, q), q.state \notin {"ESTABLISHED", "CLOSE_WAIT"}
  PROVE  Follows(s, DestroyTcpStream(q))
  <1>1. Unreached(q) /\ Sound(q)
    BY DEF Follows, Sound, InOnePlace
  <1> QED BY <1>1, DestroyIsSound DEF Follows

LEMMA LastAckFollows ==
  ASSUME NEW s, Sound(s), s.state = "LAST_ACK", NEW p \in Segments, NEW env
  PROVE  Follows(s, nty_tcp_handle_last_ack(s, p, env))
  <1> DEFINE q == nty_tcp_process_ack(s, p, env)
  <1>1. Follows(s, s)
    BY DEF Follows
  <1>2. Follows(s, q) /\ q.state = "LAST_ACK"
    BY AckFollows
  <1> HIDE DEF q
  <1>3. /\ Follows(s, nty_tcp_addto_controllist(s)) /\ Follows(s, nty_tcp_addto_controllist(q))
        /\ Follows(s, DestroyTcpStream(q))
    BY <1>1, <1>2, ListsFollow, DestroyFollows
  <1>4. p.seq \in Int /\ s.rcv_nxt \in Int
    BY DEF Sound, IsStream, Segments
  <1> QED BY <1>1, <1>2, <1>3, <1>4 DEF nty_tcp_handle_last_ack, q

(* FIN_WAIT_1 is left when the FIN is acknowledged *)
FinAcked(q, p) ==
  [RemoveFromRTOList(q) EXCEPT !.state = "FIN_WAIT_2", !.nrtx = 0, !.snd_una = p.ack,
                               !.snd_nxt = Max2(@, p.ack)]

LEMMA FinAckedFollows ==
  ASSUME NEW q, Sound(q), q.state = "FIN_WAIT_1", q.sndbuf = NoBuf \/ q.sndbuf.len = 0,
         NEW p \in Segments
  PROVE  Follows(q, FinAcked(q, p)) /\ FinAcked(q, p).state = "FIN_WAIT_2"
  <1> DEFINE t == RemoveFromRTOList(q)
             nxt == Max2(t.snd_nxt, p.ack)
             v == [t EXCEPT !.state = "FIN_WAIT_2", !.nrtx = 0, !.snd_una = p.ack, !.snd_nxt = nxt]
  <1>1. /\ IsStream(t) /\ t.state = q.state /\ t.on_rto = FALSE
        /\ t.on_timewait_list = q.on_timewait_list
        /\ t.socket = q.socket /\ t.in_acceptq = q.in_acceptq
        /\ t.on_sendq = q.on_sendq /\ t.on_closeq = q.on_closeq
        /\ t.sndbuf = q.sndbuf /\ t.fss = q.fss /\ t.is_fin_sent = q.is_fin_sent /\ t.orphan = q.orphan
    BY FieldNames DEF RemoveFromRTOList, Sound, IsStream
  <1>2. FinAcked(q, p) = v
    BY DEF FinAcked
  <1> HIDE DEF t
  <1>3. p.ack \in Int /\ nxt \in Int
    BY <1>1 DEF IsStream, Segments, Max2
  <1>4. /\ IsStream(v) /\ v.state = "FIN_WAIT_2" /\ v.on_rto = t.on_rto
        /\ v.on_timewait_list = t.on_timewait_list
        /\ v.socket = t.socket /\ v.in_acceptq = t.in_acceptq
        /\ v.on_sendq = t.on_sendq /\ v.on_closeq = t.on_closeq
        /\ v.sndbuf = t.sndbuf /\ v.fss = t.fss /\ v.is_fin_sent = t.is_fin_sent /\ v.orphan = t.orphan
    <2> HIDE DEF nxt
    <2> QED BY <1>1, <1>3, FieldNames, SMTT(30) DEF IsStream, States
  <1> HIDE DEF v
  <1>5. Sound(v)
    BY <1>1, <1>4 DEF Sound, TimersFit, InOnePlace, Unreached, FinBehindData
  <1> QED BY <1>1, <1>2, <1>4, <1>5 DEF Follows

LEMMA FinWait1Follows ==
  ASSUME NEW s, Sound(s), s.state = "FIN_WAIT_1", NEW p \in Segments, NEW env
  PROVE  Follows(s, nty_tcp_handle_fin_wait_1(s, p, env))
  <1> DEFINE q == nty_tcp_process_ack(s, p, env)
             v == FinAcked(q, p)
             w == IF AcksFin(q, p) THEN v ELSE q
             d == Payload(w, p)
  <1>1. Follows(s, s)
    BY DEF Follows
  <1>2. /\ Follows(s, q) /\ q.state = "FIN_WAIT_1"
        /\ AcksFin(q, p) => q.sndbuf = NoBuf \/ q.sndbuf.len = 0
    BY AckFollows DEF AcksFin
  <1> HIDE DEF q
  <1>3. AcksFin(q, p) => Follows(s, v) /\ v.state = "FIN_WAIT_2"
    BY <1>2, FinAckedFollows DEF Follows
  <1> HIDE DEF v
  <1>4. Follows(s, w) /\ w.state \in {"FIN_WAIT_1", "FIN_WAIT_2"}
    BY <1>2, <1>3
  <1> HIDE DEF w
  <1>5. Follows(s, d) /\ d.state = w.state
    BY <1>4, ListsFollow
  <1> HIDE DEF d
  <1>6. Follows(s, FinInFinWait(d))
    <2> DEFINE g == [d EXCEPT !.state = "CLOSING", !.rcv_nxt = @ + 1]
               h == [d EXCEPT !.state = "CLOSED", !.rcv_nxt = @ + 1]
    <2>1. IsStream(d) /\ d.rcv_nxt + 1 \in Int
      <3>1. IsStream(d) /\ d.rcv_nxt \in Int
        BY <1>5 DEF Follows, Sound, IsStream
      <3> QED BY <3>1
    <2>2. CASE d.state = "FIN_WAIT_1"
      <3>1. /\ IsStream(g) /\ g.state = "CLOSING" /\ g.on_rto = d.on_rto
            /\ g.on_timewait_list = d.on_timewait_list
            /\ g.socket = d.socket /\ g.in_acceptq = d.in_acceptq
            /\ g.on_sendq = d.on_sendq /\ g.on_closeq = d.on_closeq
            /\ g.sndbuf = d.sndbuf /\ g.fss = d.fss /\ g.is_fin_sent = d.is_fin_sent /\ g.orphan = d.orphan
        BY <2>1, FieldNames DEF IsStream, States
      <3> HIDE DEF g
      <3>2. Sound(g)
        BY <1>5, <2>2, <3>1 DEF Follows, Sound, TimersFit, InOnePlace, Unreached, FinBehindData, Timed
      <3>3. Follows(s, nty_tcp_addto_controllist(g))
        BY <1>5, <3>1, <3>2, ListsFollow DEF Follows
      <3> QED BY <2>2, <3>3 DEF FinInFinWait, g
    <2>3. CASE d.state = "FIN_WAIT_2"
      <3>1. /\ IsStream(h) /\ h.state = "CLOSED" /\ h.on_rto = d.on_rto
            /\ h.on_timewait_list = d.on_timewait_list
            /\ h.socket = d.socket /\ h.in_acceptq = d.in_acceptq
            /\ h.on_sendq = d.on_sendq /\ h.on_closeq = d.on_closeq
            /\ h.sndbuf = d.sndbuf /\ h.fss = d.fss /\ h.is_fin_sent = d.is_fin_sent /\ h.orphan = d.orphan
        BY <2>1, FieldNames DEF IsStream, States
      <3> HIDE DEF h
      <3>2. Sound(h)
        BY <1>5, <2>3, <3>1 DEF Follows, Sound, TimersFit, InOnePlace, Unreached, FinBehindData, Timed
      <3>3. Follows(s, AddtoTimewaitList(h))
        BY <1>5, <3>1, <3>2, TimewaitIsSound DEF Follows
      <3>4. Follows(s, nty_tcp_addto_controllist(AddtoTimewaitList(h)))
        BY <3>3, ListsFollow
      <3> QED BY <2>3, <3>4 DEF FinInFinWait, h
    <2> QED BY <1>4, <1>5, <2>2, <2>3
  <1>7. Follows(s, nty_tcp_addto_controllist(s))
    BY <1>1, ListsFollow
  <1>8. p.seq \in Int /\ s.rcv_nxt \in Int
    BY DEF Sound, IsStream, Segments
  <1> QED BY <1>1, <1>2, <1>5, <1>6, <1>7, <1>8 DEF nty_tcp_handle_fin_wait_1, FinAcked, d, w, v, q

LEMMA FinWait2Follows ==
  ASSUME NEW s, Sound(s), s.state = "FIN_WAIT_2", NEW p \in Segments, NEW env
  PROVE  Follows(s, nty_tcp_handle_fin_wait_2(s, p, env))
  <1> DEFINE q == nty_tcp_process_ack(s, p, env)
             d == Payload(q, p)
             g == [d EXCEPT !.state = "TIME_WAIT", !.rcv_nxt = @ + 1]
  <1>1. Follows(s, q) /\ q.state = "FIN_WAIT_2"
    BY AckFollows
  <1> HIDE DEF q
  <1>2. Follows(s, d) /\ d.state = "FIN_WAIT_2"
    BY <1>1, ListsFollow
  <1> HIDE DEF d
  <1>3. /\ IsStream(g) /\ g.state = "TIME_WAIT" /\ g.on_rto = d.on_rto
        /\ g.on_timewait_list = d.on_timewait_list
        /\ g.socket = d.socket /\ g.in_acceptq = d.in_acceptq
        /\ g.on_sendq = d.on_sendq /\ g.on_closeq = d.on_closeq
        /\ g.sndbuf = d.sndbuf /\ g.fss = d.fss /\ g.is_fin_sent = d.is_fin_sent /\ g.orphan = d.orphan
    <2>1. IsStream(d) /\ d.rcv_nxt + 1 \in Int
      <3>1. IsStream(d) /\ d.rcv_nxt \in Int
        BY <1>2 DEF Follows, Sound, IsStream
      <3> QED BY <3>1
    <2> QED BY <2>1, FieldNames DEF IsStream, States
  <1> HIDE DEF g
  <1>4. Sound(g)
    BY <1>2, <1>3 DEF Follows, Sound, TimersFit, InOnePlace, Unreached, FinBehindData, Timed
  <1>5. Follows(s, AddtoTimewaitList(g))
    BY <1>2, <1>3, <1>4, TimewaitIsSound DEF Follows
  <1>6. Follows(s, nty_tcp_addto_controllist(AddtoTimewaitList(g))) /\ Follows(s, s)
    BY <1>5, ListsFollow DEF Follows
  <1> QED BY <1>1, <1>2, <1>6 DEF nty_tcp_handle_fin_wait_2, g, d, q

LEMMA ClosingFollows ==
  ASSUME NEW s, Sound(s), s.state = "CLOSING", NEW p \in Segments, NEW env
  PROVE  Follows(s, nty_tcp_handle_closing(s, p, env))
  <1> DEFINE q == nty_tcp_process_ack(s, p, env)
             e == [q EXCEPT !.snd_una = p.ack, !.snd_nxt = p.ack, !.state = "TIME_WAIT"]
             u == UpdateRetransmissionTimer(e)
  <1>1. Follows(s, q) /\ q.state = "CLOSING"
    BY AckFollows
  <1> HIDE DEF q
  <1>2. /\ IsStream(e) /\ e.state = "TIME_WAIT" /\ e.snd_nxt = e.snd_una
        /\ e.on_timewait_list = q.on_timewait_list
        /\ e.socket = q.socket /\ e.in_acceptq = q.in_acceptq
        /\ e.on_sendq = q.on_sendq /\ e.on_closeq = q.on_closeq
        /\ e.sndbuf = q.sndbuf /\ e.fss = q.fss /\ e.is_fin_sent = q.is_fin_sent /\ e.orphan = q.orphan
    <2>1. IsStream(q) /\ p.ack \in Int
      BY <1>1 DEF Follows, Sound, Segments
    <2> QED BY <2>1, FieldNames DEF IsStream, States
  <1> HIDE DEF e
  <1>3. /\ IsStream(u) /\ u.state = "TIME_WAIT" /\ ~u.on_rto
        /\ u.on_timewait_list = e.on_timewait_list
        /\ u.socket = e.socket /\ u.in_acceptq = e.in_acceptq
        /\ u.on_sendq = e.on_sendq /\ u.on_closeq = e.on_closeq
        /\ u.sndbuf = e.sndbuf /\ u.fss = e.fss /\ u.is_fin_sent = e.is_fin_sent /\ u.orphan = e.orphan
    <2>1. ~(e.snd_nxt > e.snd_una)
      <3>1. e.snd_nxt \in Int
        BY <1>2 DEF IsStream
      <3> QED BY <1>2, <3>1
    <2>2. ~u.on_rto
      BY <1>2, <2>1, FieldNames DEF UpdateRetransmissionTimer, IsStream
    <2>3. /\ IsStream(u) /\ u.state = "TIME_WAIT"
          /\ u.on_timewait_list = e.on_timewait_list
          /\ u.socket = e.socket /\ u.in_acceptq = e.in_acceptq
          /\ u.on_sendq = e.on_sendq /\ u.on_closeq = e.on_closeq
          /\ u.sndbuf = e.sndbuf /\ u.fss = e.fss /\ u.is_fin_sent = e.is_fin_sent /\ u.orphan = e.orphan
      BY <1>2, FieldNames DEF UpdateRetransmissionTimer, IsStream
    <2> QED BY <2>2, <2>3
  <1> HIDE DEF u
  <1>4. Sound(u)
    BY <1>1, <1>2, <1>3 DEF Follows, Sound, TimersFit, InOnePlace, Unreached, FinBehindData
  <1>5. Follows(s, AddtoTimewaitList(u)) /\ Follows(s, s)
    BY <1>1, <1>2, <1>3, <1>4, TimewaitIsSound DEF Follows
  <1> QED BY <1>1, <1>5 DEF nty_tcp_handle_closing, u, e, q

LEMMA ResetFollows ==
  ASSUME NEW s, Sound(s), NEW p \in Segments
  PROVE  Follows(s, nty_tcp_process_rst(s, p))
  <1>1. Follows(s, s)
    BY DEF Follows
  <1>2. s.state \notin {"ESTABLISHED", "CLOSE_WAIT"} => Follows(s, DestroyTcpStream(s))
    BY <1>1, DestroyFollows
  <1>3. s.state = "ESTABLISHED" => Follows(s, [s EXCEPT !.state = "CLOSE_WAIT"])
    <2>1. 0 \in Int
      OBVIOUS
    <2> QED BY <2>1, RemoteCloses
  <1>4. s.state = "CLOSE_WAIT" => [s EXCEPT !.state = "CLOSE_WAIT"] = s \/ Keeps(s, [s EXCEPT !.state = "CLOSE_WAIT"])
    BY FieldNames DEF Sound, IsStream, Keeps
  <1>5. s.state = "CLOSE_WAIT" => Follows(s, [s EXCEPT !.state = "CLOSE_WAIT"])
    BY <1>1, <1>4, FollowsKeeps
  <1> QED BY <1>1, <1>2, <1>3, <1>5 DEF nty_tcp_process_rst

LEMMA HandleFollows ==
  ASSUME NEW s, Sound(s), NEW p \in Segments, NEW env \in Env
  PROVE  Follows(s, Handle(s, p, env))
  <1>1. Follows(s, s)
    BY DEF Follows
  <1>2. CASE s.state = "SYN_RCVD"
    <2> DEFINE e == nty_tcp_handle_syn_rcvd(s, p, env)
    <2>1. Follows(s, e) /\ Follows(s, nty_tcp_handle_listen(s, p))
      BY <1>2, SynRcvdFollows, ListenFollows
    <2> HIDE DEF e
    <2>2. e.state = "ESTABLISHED" => Follows(s, nty_tcp_handle_established(e, p, env))
      BY <2>1, EstablishedFollows DEF Follows
    <2> QED BY <1>2, <2>1, <2>2 DEF Handle, e
  <1>3. CASE s.state = "LISTEN"
    BY <1>3, ListenFollows DEF Handle
  <1>4. CASE s.state = "ESTABLISHED"
    BY <1>4, EstablishedFollows DEF Handle
  <1>5. CASE s.state = "CLOSE_WAIT"
    BY <1>5, CloseWaitFollows DEF Handle
  <1>6. CASE s.state = "LAST_ACK"
    BY <1>6, LastAckFollows DEF Handle
  <1>7. CASE s.state = "FIN_WAIT_1"
    BY <1>7, FinWait1Follows DEF Handle
  <1>8. CASE s.state = "FIN_WAIT_2"
    BY <1>8, FinWait2Follows DEF Handle
  <1>9. CASE s.state = "CLOSING"
    BY <1>9, ClosingFollows DEF Handle
  <1>10. CASE s.state = "TIME_WAIT"
    BY <1>1, <1>10, ListsFollow DEF Handle
  <1>11. CASE s.state \in {"NONE", "CLOSED"}
    BY <1>1, <1>11 DEF Handle
  <1> QED BY <1>2, <1>3, <1>4, <1>5, <1>6, <1>7, <1>8, <1>9, <1>10, <1>11 DEF Sound, IsStream, States

LEMMA CreateFollows ==
  ASSUME NEW s, Sound(s), s.state = "NONE", NEW p \in Segments, NEW env
  PROVE  Follows(s, nty_create_stream(s, p, env))
  <1> DEFINE new == IF env.room = "no buffer" THEN "CLOSED" ELSE "LISTEN"
             r == [s EXCEPT !.state = new, !.rcv_nxt = p.seq]
             z == Seg({"RST"}, p.ack, 0, 0, 0)
             y == Seg({"RST", "ACK"}, 0, p.seq + p.len + 1, 0, 0)
  <1>1. Follows(s, r)
    <2>0. new \in {"CLOSED", "LISTEN"}
      OBVIOUS
    <2> HIDE DEF new
    <2>1. /\ IsStream(r) /\ r.state \in {"CLOSED", "LISTEN"} /\ r.on_rto = s.on_rto
          /\ r.on_timewait_list = s.on_timewait_list
          /\ r.socket = s.socket /\ r.in_acceptq = s.in_acceptq
          /\ r.on_sendq = s.on_sendq /\ r.on_closeq = s.on_closeq
          /\ r.sndbuf = s.sndbuf /\ r.fss = s.fss /\ r.is_fin_sent = s.is_fin_sent /\ r.orphan = s.orphan
      BY <2>0, FieldNames DEF Sound, IsStream, States, Segments
    <2> HIDE DEF r
    <2>2. Sound(r)
      BY <2>1 DEF Sound, TimersFit, InOnePlace, Unreached, FinBehindData, Timed
    <2> QED BY <2>1, <2>2 DEF Follows
  <1>2. Follows(s, s)
    BY DEF Follows
  <1>3. Follows(s, Emit(s, z)) /\ Follows(s, Emit(s, y))
    <2>1. /\ {"RST"} \in SUBSET Flags /\ {"RST", "ACK"} \in SUBSET Flags
          /\ p.ack \in Int /\ p.seq + p.len + 1 \in Int /\ 0 \in Int /\ 0 \in Nat
      BY DEF Flags, Segments
    <2>2. z \in Segments /\ y \in Segments
      BY <2>1, SegmentType
    <2> HIDE DEF z, y
    <2> QED BY <1>2, <2>2, EmitKeeps, FollowsKeeps DEF Sound
  <1> QED BY <1>1, <1>2, <1>3 DEF nty_create_stream

LEMMA ProcessFollows ==
  ASSUME NEW s, Sound(s), NEW p \in Segments, NEW env \in Env
  PROVE  Follows(s, nty_tcp_process(s, p, env))
  <1> DEFINE c == IF Exists(s) THEN s ELSE nty_create_stream(s, p, env)
             w == [c EXCEPT !.peer_wnd = p.wnd, !.have_reset = @ \/ Has(p, "RST")]
  <1>1. Follows(s, c)
    BY CreateFollows DEF Exists, Follows
  <1> HIDE DEF c
  <1>2. Follows(s, w)
    <2>1. p.wnd \in Nat
      BY DEF Segments
    <2>2. ASSUME NEW b PROVE Keeps(c, [c EXCEPT !.peer_wnd = p.wnd, !.have_reset = b])
      BY <1>1, <2>1, FieldNames DEF Follows, Sound, IsStream, Keeps
    <2>3. Keeps(c, w)
      BY <2>2
    <2> QED BY <1>1, <2>3, FollowsKeeps
  <1> HIDE DEF w
  <1>3. Follows(s, OutOfWindow(c, p))
    BY <1>1, OutOfWindowFollows DEF Follows
  <1>4. Follows(s, nty_tcp_process_rst(w, p)) /\ Follows(s, Handle(w, p, env))
    BY <1>2, ResetFollows, HandleFollows DEF Follows
  <1> QED BY <1>1, <1>3, <1>4 DEF nty_tcp_process, w, c

-----------------------------------------------------------------------------
(* The steps.                                                              *)

LEMMA SegmentSequences ==
  ASSUME NEW q \in Seq(Segments)
  PROVE  /\ q # <<>> => Head(q) \in Segments /\ Tail(q) \in Seq(Segments)
         /\ \A r \in Seq(Segments) : q \o r \in Seq(Segments)
         /\ \A p \in Segments : Append(q, p) \in Seq(Segments)
  OBVIOUS

(* the end of a step of the stack thread *)
LEMMA BecomesSound ==
  ASSUME NEW s, Sound(s), NEW at, Becomes(s, at)
  PROVE  /\ Sound(stk') /\ stk'.state = s.state /\ (stk'.orphan => s.orphan)
         /\ pc' \in {"dead", at}
  <1>1. Keeps(s, [s EXCEPT !.signals = {}])
    BY ListsKeep DEF Sound
  <1>2. stk' = [s EXCEPT !.signals = {}] /\ pc' \in {"dead", at}
    BY DEF Becomes
  <1> QED BY <1>1, <1>2, StaysSound DEF Keeps

LEMMA WriteChunksStep ==
  ASSUME TInv, WriteChunks
  PROVE  TInv'
  <1>1. PICK fires \in BOOLEAN, idle \in BOOLEAN :
          LET t == Timers(fires, idle)
              s == nty_tcp_write_controllist(nty_tcp_handle_apicall(t))
          IN  nty_tcp_write_datalist(nty_tcp_write_acklist(s))
    BY DEF WriteChunks
  <1> DEFINE t == Timers(fires, idle)
             s == nty_tcp_write_controllist(nty_tcp_handle_apicall(t))
             r == nty_tcp_write_acklist(s)
             w == [r EXCEPT !.window = Min2(r.cwnd, r.peer_wnd), !.packets = 0]
             v == IF r.on_send_list /\ Flushes(r) THEN w ELSE r
             at == IF ~r.on_send_list \/ (r.state = "ESTABLISHED" /\ r.on_control_list)
                   THEN "net" ELSE IF Flushes(r) THEN "flushing" ELSE "unlist"
  <1>2. Sound(t)
    BY TimersAreSound DEF TInv, Timers
  <1> HIDE DEF t
  <1>3. Sound(nty_tcp_handle_apicall(t))
    BY <1>2, ApicallsAreSound
  <1>4. Sound(s)
    BY <1>3, ControlIsSound
  <1> HIDE DEF s
  <1>5. Sound(r)
    BY <1>4, AcklistIsSound
  <1> HIDE DEF r
  <1>6. nty_tcp_write_datalist(r)
    BY <1>1 DEF r, s, t
  <1>7. Sound(v) /\ v.state = r.state
    <2>1. r.cwnd \in Nat /\ r.peer_wnd \in Nat
      BY <1>5 DEF Sound, IsStream
    <2>2. Min2(r.cwnd, r.peer_wnd) \in Nat
      BY <2>1 DEF Min2
    <2>3. Keeps(r, w)
      BY <1>5, <2>2, FieldNames DEF Sound, IsStream, Keeps
    <2> QED BY <1>5, <2>3, StaysSound DEF Keeps
  <1>8. Becomes(v, at)
    BY <1>6 DEF nty_tcp_write_datalist
  <1> HIDE DEF v
  <1>9. Sound(stk') /\ stk'.state = r.state /\ pc' \in {"dead", at}
    <2> HIDE DEF at
    <2> QED BY <1>7, <1>8, BecomesSound
  <1>10. pc' = "flushing" => stk'.state \in Sending
    BY <1>9 DEF Flushes, Sending
  <1> QED BY <1>9, <1>10 DEF TInv, WriteChunks

LEMMA FlushStep ==
  ASSUME TInv, FlushSendbuffer
  PROVE  TInv' /\ (stk'.orphan => stk.orphan)
  <1> DEFINE len == Min2(Min2(Unsent(stk), Mss - OptLen), stk.window)
             y == [stk EXCEPT !.window = 0]
             z == [stk EXCEPT !.window = 0, !.packets = 0]
             w == [stk EXCEPT !.window = @ - len, !.packets = @ + 1]
  <1>1. Sound(stk) /\ IsStream(stk) /\ stk.state \in Sending /\ UNCHANGED <<peer, up, down>>
    BY DEF TInv, FlushSendbuffer, Sound
  <1>2. len \in Int
    <2>1. Unsent(stk) \in Int /\ stk.window \in Int
      <3>1. stk.sndbuf \in [head : Int, len : Int] /\ stk.snd_nxt \in Int /\ stk.window \in Int
        BY <1>1 DEF IsStream
      <3> QED BY <3>1 DEF Unsent
    <2>2. Mss - OptLen \in Int
      BY TcpAssumption
    <2> QED BY <2>1, <2>2 DEF Min2
  <1>3. /\ Sound(z) /\ z.state = stk.state /\ z.orphan = stk.orphan
        /\ Sound(y) /\ y.state = stk.state /\ y.orphan = stk.orphan
    <2>1. Keeps(stk, z) /\ Keeps(stk, y)
      BY <1>1, FieldNames DEF IsStream, Keeps
    <2> QED BY <1>1, <2>1, StaysSound DEF Keeps
  <1>4. Sound(w) /\ w.state = stk.state /\ w.orphan = stk.orphan
    <2>1. stk.window \in Nat /\ stk.packets \in Int
      BY <1>1 DEF IsStream
    <2>2. stk.window - len \in Nat /\ stk.packets + 1 \in Int
      BY <1>2, <2>1 DEF Min2
    <2>3. ASSUME NEW n \in Nat, NEW m \in Int
          PROVE  Keeps(stk, [stk EXCEPT !.window = n, !.packets = m])
      BY <1>1, FieldNames DEF IsStream, Keeps
    <2>4. Keeps(stk, w)
      <3> HIDE DEF len
      <3> QED BY <2>2, <2>3
    <2> HIDE DEF w
    <2> QED BY <1>1, <2>4, StaysSound DEF Keeps
  <1> DEFINE k == nty_tcp_enqueue_acklist(z, "wack")
             x == nty_tcp_send_tcppkt(w, {"ACK"}, len)
  <1>5. \/ Becomes(y, "unlist")
        \/ Becomes(z, "net")
        \/ Becomes(k, "net")
        \/ Becomes(Crash(stk), "dead")
        \/ Becomes(x, "flushing")
    BY DEF FlushSendbuffer
  <1> HIDE DEF y, z, w, len
  <1>6. /\ Sound(k) /\ k.orphan = stk.orphan
        /\ Sound(Crash(stk)) /\ Crash(stk).orphan = stk.orphan
    <2>1. Keeps(z, k) /\ Keeps(stk, Crash(stk))
      BY <1>1, <1>3, ListsKeep DEF Sound
    <2> QED BY <1>1, <1>3, <2>1, StaysSound DEF Keeps
  <1>7. Sound(x) /\ x.state = stk.state /\ x.orphan = stk.orphan
    <2>1. {"ACK"} \in SUBSET Flags /\ w.state \in Timed
      BY <1>1, <1>4 DEF Flags, Sending, Timed
    <2> QED BY <1>2, <1>4, <2>1, CountedKeeps
  <1> HIDE DEF k, x
  <1>8. CASE Becomes(y, "unlist") \/ Becomes(z, "net")
    BY <1>1, <1>3, <1>8, BecomesSound DEF TInv
  <1>9. CASE Becomes(k, "net")
    BY <1>1, <1>6, <1>9, BecomesSound DEF TInv
  <1>10. CASE Becomes(Crash(stk), "dead")
    BY <1>1, <1>6, <1>10, BecomesSound DEF TInv
  <1>11. CASE Becomes(x, "flushing")
    BY <1>1, <1>7, <1>11, BecomesSound DEF TInv
  <1> QED BY <1>5, <1>8, <1>9, <1>10, <1>11

LEMMA StackStep ==
  ASSUME TInv, LeaveSendlist \/ Read \/ nty_nic_send_pkts
  PROVE  TInv' /\ (stk'.orphan => stk.orphan)
  <1>1. Sound(stk) /\ IsStream(stk)
    BY DEF TInv, Sound
  <1>2. CASE LeaveSendlist
    <2> DEFINE cnt == IF stk.ack_cnt > stk.packets THEN stk.ack_cnt - stk.packets ELSE 0
               l == [stk EXCEPT !.on_send_list = FALSE, !.packets = 0, !.ack_cnt = cnt]
               n == NoLongerWaiting(l, l.on_ack_list)
    <2>1. Keeps(stk, l)
      <3>1. cnt \in Int
        BY <1>1 DEF IsStream
      <3> HIDE DEF cnt
      <3> QED BY <1>1, <3>1, FieldNames DEF IsStream, Keeps
    <2> HIDE DEF l
    <2>2. Keeps(l, n)
      <3>1. IsStream(l)
        BY <2>1 DEF Keeps
      <3> QED BY <3>1, ListsKeep
    <2>3. Sound(n) /\ n.orphan = stk.orphan
      BY <1>1, <2>1, <2>2, StaysSound DEF Keeps
    <2>4. Becomes(n, "net")
      BY <1>2 DEF LeaveSendlist, l
    <2> HIDE DEF n
    <2>5. Sound(stk') /\ (stk'.orphan => stk.orphan) /\ pc' \in {"dead", "net"}
      BY <2>3, <2>4, BecomesSound
    <2> QED BY <1>2, <2>5 DEF TInv, LeaveSendlist
  <1>3. CASE Read
    <2>1. PICK env \in Env : Becomes(nty_tcp_process(stk, Head(up), env), "chunks")
      BY <1>3 DEF Read
    <2>2. Head(up) \in Segments /\ Tail(up) \in Seq(Segments)
      BY <1>3, SegmentSequences DEF TInv, Read
    <2> DEFINE s == nty_tcp_process(stk, Head(up), env)
    <2>3. Follows(stk, s)
      BY <1>1, <2>2, ProcessFollows
    <2> HIDE DEF s
    <2>4. Becomes(s, "chunks")
      BY <2>1 DEF s
    <2>5. Sound(stk') /\ (stk'.orphan => stk.orphan) /\ pc' \in {"dead", "chunks"}
      BY <2>3, <2>4, BecomesSound DEF Follows
    <2> QED BY <1>3, <2>2, <2>5 DEF TInv, Read
  <1>4. CASE nty_nic_send_pkts
    <2> DEFINE n == [stk EXCEPT !.nic = <<>>]
    <2>1. Keeps(stk, n)
      BY <1>1, FieldNames DEF IsStream, Keeps
    <2>2. Becomes(n, "chunks")
      BY <1>4 DEF nty_nic_send_pkts
    <2> HIDE DEF n
    <2>3. Sound(n) /\ n.orphan = stk.orphan
      BY <1>1, <2>1, StaysSound DEF Keeps
    <2>4. Sound(stk') /\ (stk'.orphan => stk.orphan) /\ pc' \in {"dead", "chunks"}
      BY <2>2, <2>3, BecomesSound
    <2>5. down' \in Seq(Segments)
      BY <1>1, <1>4, SegmentSequences DEF TInv, nty_nic_send_pkts, IsStream
    <2> QED BY <1>4, <2>4, <2>5 DEF TInv, nty_nic_send_pkts
  <1> QED BY <1>2, <1>3, <1>4

-----------------------------------------------------------------------------
(* The application.                                                        *)

(* With a socket the stream is in one of two states, in which nothing is   *)
(* said of its send buffer but that it has no negative length.             *)
LEMMA SocketState ==
  ASSUME NEW s, Sound(s), s.socket \/ s.in_acceptq
  PROVE  /\ IsStream(s) /\ s.state \in {"ESTABLISHED", "CLOSE_WAIT"}
         /\ s.socket => ~s.in_acceptq /\ ~s.on_closeq
         /\ s.in_acceptq => ~s.socket /\ ~s.on_closeq /\ ~s.on_sendq
  BY DEF Sound, InOnePlace, Unreached

(* a change to the places of a stream and to nothing else *)
Moved(s, r) ==
  /\ IsStream(r)
  /\ r.state = s.state /\ r.on_rto = s.on_rto
  /\ r.on_timewait_list = s.on_timewait_list
  /\ r.sndbuf = s.sndbuf /\ r.fss = s.fss /\ r.is_fin_sent = s.is_fin_sent /\ r.orphan = s.orphan

LEMMA AcceptStep ==
  ASSUME TInv, Accept
  PROVE  TInv' /\ (stk'.orphan => stk.orphan)
  <1> DEFINE r == [stk EXCEPT !.in_acceptq = FALSE, !.socket = TRUE]
  <1>1. CASE stk.in_acceptq
    <2>1. Sound(stk) /\ stk' = r
      BY <1>1 DEF TInv, Accept
    <2>2. /\ IsStream(stk) /\ stk.state \in {"ESTABLISHED", "CLOSE_WAIT"}
          /\ ~stk.on_closeq /\ ~stk.on_sendq
      BY <1>1, <2>1, SocketState
    <2>3. Moved(stk, r) /\ r.socket /\ ~r.in_acceptq /\ r.on_closeq = stk.on_closeq
      BY <2>2, FieldNames DEF IsStream, Moved
    <2> HIDE DEF r
    <2>4. Sound(r)
      BY <2>1, <2>2, <2>3 DEF Moved, Sound, TimersFit, InOnePlace, FinBehindData
    <2> QED BY <2>1, <2>3, <2>4 DEF TInv, Accept, Moved
  <1>2. CASE ~stk.in_acceptq
    BY <1>2 DEF TInv, Accept
  <1> QED BY <1>1, <1>2

LEMMA RecvStep ==
  ASSUME TInv, Recv
  PROVE  TInv' /\ (stk'.orphan => stk.orphan)
  <1>1. Sound(stk) /\ IsStream(stk)
    BY DEF TInv, Sound
  <1>2. CASE RecvData
    <2>1. PICK n \in 1 .. MaxIn : Copy(n)
      BY <1>2 DEF RecvData
    <2> DEFINE r == [stk EXCEPT !.merged_len = @ - n]
    <2>2. stk.merged_len - n \in Int
      <3>1. stk.merged_len \in Int
        BY <1>1 DEF IsStream
      <3> QED BY <3>1
    <2>3. ASSUME NEW m \in Int PROVE Keeps(stk, [stk EXCEPT !.merged_len = m])
      BY <1>1, FieldNames DEF IsStream, Keeps
    <2>4. Keeps(stk, r)
      BY <2>2, <2>3
    <2>5. stk' = r
      BY <2>1 DEF Copy
    <2> HIDE DEF r
    <2>6. Sound(stk') /\ stk'.state = stk.state /\ stk'.orphan = stk.orphan
      BY <1>1, <2>4, <2>5, StaysSound DEF Keeps
    <2> QED BY <2>6 DEF TInv, Recv
  <1>3. CASE RecvNothing \/ RecvWaits
    BY <1>3 DEF TInv, Recv, RecvNothing, RecvWaits
  <1> QED BY <1>2, <1>3 DEF Recv

LEMMA SendStep ==
  ASSUME TInv, Send
  PROVE  TInv' /\ (stk'.orphan => stk.orphan)
  <1>1. Sound(stk) /\ stk.socket
    BY DEF TInv, Send, HasSocket
  <1>2. IsStream(stk) /\ stk.state \in {"ESTABLISHED", "CLOSE_WAIT"}
    BY <1>1, SocketState
  <1>3. CASE stk.snd_wnd > 0 /\ nty_copy_from_user
    <2> DEFINE n == Min2(stk.snd_wnd, SendLen)
               buf == IF stk.sndbuf = NoBuf THEN [head |-> 1, len |-> 0] ELSE stk.sndbuf
               b == [buf EXCEPT !.len = @ + n]
               wnd == SndBuf - (buf.len + n)
               r == [stk EXCEPT !.sndbuf = b, !.snd_wnd = wnd]
    <2>1. n \in Int /\ n > 0
      <3>1. stk.snd_wnd \in Int /\ SendLen \in Int /\ SendLen > 0
        BY <1>2, TcpAssumption DEF IsStream
      <3> QED BY <1>3, <3>1 DEF Min2
    <2> HIDE DEF n
    <2>2. buf \in [head : Int, len : Int] /\ buf.len >= 0
      BY <1>1, <1>2 DEF IsStream, Sound, FinBehindData
    <2> HIDE DEF buf
    <2>3. /\ b \in [head : Int, len : Int] /\ b.len >= 0
          /\ wnd \in Int
      BY <2>1, <2>2, TcpAssumption
    <2> HIDE DEF b, wnd
    <2>4. /\ IsStream(r) /\ r.state = stk.state /\ r.on_rto = stk.on_rto
          /\ r.on_timewait_list = stk.on_timewait_list
          /\ r.socket = stk.socket /\ r.in_acceptq = stk.in_acceptq
          /\ r.on_sendq = stk.on_sendq /\ r.on_closeq = stk.on_closeq
          /\ r.orphan = stk.orphan /\ r.sndbuf = b /\ r.is_fin_sent = stk.is_fin_sent
      BY <1>2, <2>3, FieldNames DEF IsStream
    <2>5. stk' = r
      BY <1>3 DEF nty_copy_from_user, r, b, wnd, buf, n
    <2> HIDE DEF r
    <2>6. Sound(r)
      BY <1>1, <1>2, <2>3, <2>4 DEF Sound, TimersFit, InOnePlace, Unreached, FinBehindData
    <2> QED BY <2>4, <2>5, <2>6 DEF TInv, Send
  <1>4. CASE UNCHANGED stk
    BY <1>4 DEF TInv, Send
  <1> QED BY <1>3, <1>4 DEF Send

LEMMA PlacesStep ==
  ASSUME TInv, SendEnqueue \/ Close
  PROVE  TInv' /\ (stk'.orphan => stk.orphan)
  <1> DEFINE c == [stk EXCEPT !.socket = FALSE, !.on_closeq = TRUE]
  <1>1. Sound(stk) /\ stk.socket
    BY DEF TInv, SendEnqueue, Close, HasSocket
  <1>2. /\ IsStream(stk) /\ stk.state \in {"ESTABLISHED", "CLOSE_WAIT"}
        /\ ~stk.in_acceptq /\ ~stk.on_closeq
    BY <1>1, SocketState
  <1>3. CASE SendEnqueue
    <2>1. PICK b : stk' = [stk EXCEPT !.on_sendq = b]
      BY <1>3 DEF SendEnqueue
    <2> DEFINE e == [stk EXCEPT !.on_sendq = b]
    <2>2. /\ Moved(stk, e) /\ e.socket = stk.socket
          /\ e.in_acceptq = stk.in_acceptq /\ e.on_closeq = stk.on_closeq
      BY <1>2, FieldNames DEF IsStream, Moved
    <2> HIDE DEF e
    <2>3. Sound(e)
      BY <1>1, <1>2, <2>2 DEF Moved, Sound, TimersFit, InOnePlace, FinBehindData
    <2>4. stk' = e
      BY <2>1 DEF e
    <2> QED BY <1>3, <2>2, <2>3, <2>4 DEF TInv, SendEnqueue, Moved
  <1>4. CASE Close
    <2>1. Moved(stk, c) /\ ~c.socket /\ c.in_acceptq = stk.in_acceptq
      BY <1>2, FieldNames DEF IsStream, Moved
    <2>2. stk' = c
      BY <1>4 DEF Close
    <2> HIDE DEF c
    <2>3. Sound(c)
      BY <1>1, <1>2, <2>1 DEF Moved, Sound, TimersFit, InOnePlace, FinBehindData
    <2> QED BY <1>4, <2>1, <2>2, <2>3 DEF TInv, Close, Moved
  <1> QED BY <1>3, <1>4

-----------------------------------------------------------------------------
(* The network and the peer.                                               *)

LEMMA FromPeerStep ==
  ASSUME NEW flags \in SUBSET Flags, NEW seq \in Int, NEW len \in Int, NEW r \in Peers,
         up \in Seq(Segments), FromPeer(flags, seq, len, r)
  PROVE  peer' \in Peers /\ up' \in Seq(Segments)
  <1> DEFINE p == Seg(flags, seq, r.nxt, len, r.wnd)
  <1>1. p \in Segments
    <2>1. r.nxt \in Int /\ r.wnd \in Nat
      BY DEF Peers
    <2> QED BY <2>1, SegmentType
  <1>2. peer' = [r EXCEPT !.due = FALSE] /\ up' = Append(up, p)
    BY DEF FromPeer, Goes
  <1>3. peer' \in Peers
    BY <1>2 DEF Peers
  <1> HIDE DEF p
  <1> QED BY <1>1, <1>2, <1>3, SegmentSequences

LEMMA PeerStep ==
  ASSUME TInv, PeerConnects \/ PeerAcks \/ PeerSends \/ PeerFinishes \/ PeerResets
               \/ PeerSendsAgain
  PROVE  TInv' /\ stk' = stk
  <1>1. peer \in Peers /\ up \in Seq(Segments) /\ UNCHANGED <<pc, stk, down>>
    BY DEF TInv, PeerConnects, PeerAcks, PeerSends, PeerFinishes, PeerResets,
           PeerSendsAgain, Untouched
  <1>2. peer.snd \in Int /\ peer.una \in Int /\ peer.snd + 1 \in Int
    BY <1>1 DEF Peers
  <1>3. /\ {"SYN"} \in SUBSET Flags /\ {"ACK"} \in SUBSET Flags
        /\ {"FIN", "ACK"} \in SUBSET Flags /\ {"RST"} \in SUBSET Flags
    BY DEF Flags
  <1>4. peer' \in Peers /\ up' \in Seq(Segments)
    <2>1. CASE PeerConnects
      <3>1. PICK wnd \in PeerWnds :
              FromPeer({"SYN"}, 0, 0, [peer EXCEPT !.st = "syn_sent", !.snd = 1, !.wnd = wnd])
        BY <2>1 DEF PeerConnects
      <3>2. wnd \in Nat
        BY TcpAssumption
      <3>3. [peer EXCEPT !.st = "syn_sent", !.snd = 1, !.wnd = wnd] \in Peers
        <4>1. ASSUME NEW n \in Int, NEW w \in Nat
              PROVE  [peer EXCEPT !.st = "syn_sent", !.snd = n, !.wnd = w] \in Peers
          BY <1>1 DEF Peers
        <4>2. 1 \in Int
          OBVIOUS
        <4> QED BY <3>2, <4>1, <4>2, Zenon
      <3> QED BY <1>1, <1>3, <3>1, <3>3, FromPeerStep
    <2>2. CASE PeerAcks
      BY <1>1, <1>2, <1>3, <2>2, FromPeerStep DEF PeerAcks
    <2>3. CASE PeerSends
      <3>1. [peer EXCEPT !.snd = @ + 1] \in Peers
        BY <1>1, <1>2 DEF Peers
      <3>2. FromPeer({"ACK"}, peer.snd, 1, [peer EXCEPT !.snd = @ + 1])
        BY <2>3 DEF PeerSends
      <3> QED BY <1>1, <1>2, <1>3, <3>1, <3>2, FromPeerStep
    <2>4. CASE PeerFinishes
      <3>1. [peer EXCEPT !.snd = @ + 1, !.fin = TRUE] \in Peers
        BY <1>1, <1>2 DEF Peers
      <3>2. FromPeer({"FIN", "ACK"}, peer.snd, 0, [peer EXCEPT !.snd = @ + 1, !.fin = TRUE])
        BY <2>4 DEF PeerFinishes
      <3> QED BY <1>1, <1>2, <1>3, <3>1, <3>2, FromPeerStep
    <2>5. CASE PeerResets
      <3>1. [peer EXCEPT !.st = "reset"] \in Peers
        BY <1>1 DEF Peers
      <3>2. FromPeer({"RST"}, peer.snd, 0, [peer EXCEPT !.st = "reset"])
        BY <2>5 DEF PeerResets
      <3> QED BY <1>1, <1>2, <1>3, <3>1, <3>2, FromPeerStep
    <2>6. CASE PeerSendsAgain
      <3>1. \/ FromPeer({"SYN"}, 0, 0, peer)
            \/ FromPeer({"FIN", "ACK"}, peer.una, 0, peer)
            \/ FromPeer({"ACK"}, peer.una, 1, peer)
        BY <2>6 DEF PeerSendsAgain
      <3> QED BY <1>1, <1>2, <1>3, <3>1, FromPeerStep
    <2> QED BY <2>1, <2>2, <2>3, <2>4, <2>5, <2>6
  <1> QED BY <1>1, <1>4 DEF TInv

LEMMA PeerHearsStep ==
  ASSUME TInv, PeerHears
  PROVE  TInv' /\ stk' = stk
  <1> DEFINE p == Head(down)
             o == [peer EXCEPT !.st = "open"]
  <1>1. /\ p \in Segments /\ Tail(down) \in Seq(Segments) /\ peer \in Peers
        /\ UNCHANGED <<pc, stk, up>> /\ down' = Tail(down)
    BY SegmentSequences DEF TInv, PeerHears
  <1>2. \/ peer' = [peer EXCEPT !.st = "reset", !.due = FALSE]
        \/ peer' = Hears(o, p)
        \/ peer' = peer
    BY DEF PeerHears
  <1> HIDE DEF p
  <1>3. o \in Peers
    BY <1>1 DEF Peers
  <1> HIDE DEF o
  <1>4. Hears(o, p) \in Peers
    <2>1. /\ Max2(o.una, p.ack) \in Int /\ o.nxt \in Int /\ o.nxt + Grows(p.flags, p.len) \in Int
      <3>1. o.una \in Int /\ p.ack \in Int /\ o.nxt \in Int /\ p.len \in Int
        BY <1>1, <1>3 DEF Peers, Segments
      <3>2. Grows(p.flags, p.len) \in Int
        BY <3>1 DEF Grows
      <3> QED BY <3>1, <3>2 DEF Max2
    <2>2. ASSUME NEW u \in Int, NEW n \in Int, NEW f \in BOOLEAN, NEW d \in BOOLEAN
          PROVE  [o EXCEPT !.una = u, !.nxt = n, !.gotfin = f, !.due = d] \in Peers
      BY <1>3 DEF Peers
    <2> DEFINE n == IF p.seq = o.nxt THEN o.nxt + Grows(p.flags, p.len) ELSE o.nxt
               f == o.gotfin \/ (p.seq = o.nxt /\ Has(p, "FIN"))
               d == o.due \/ Grows(p.flags, p.len) > 0 \/ p.seq < o.nxt
    <2>3. Hears(o, p) = [o EXCEPT !.una = Max2(o.una, p.ack), !.nxt = n, !.gotfin = f, !.due = d]
      BY <1>3 DEF Hears, Peers
    <2>4. n \in Int /\ f \in BOOLEAN /\ d \in BOOLEAN
      BY <1>3, <2>1 DEF Peers
    <2> HIDE DEF n, f, d
    <2>5. [o EXCEPT !.una = Max2(o.una, p.ack), !.nxt = n, !.gotfin = f, !.due = d] \in Peers
      BY <2>1, <2>2, <2>4
    <2> QED BY <2>3, <2>5
  <1>5. [peer EXCEPT !.st = "reset", !.due = FALSE] \in Peers
    BY <1>1 DEF Peers
  <1> QED BY <1>1, <1>2, <1>4, <1>5 DEF TInv

LEMMA LosesStep ==
  ASSUME TInv, LosesUp \/ LosesDown
  PROVE  TInv' /\ stk'.orphan = stk.orphan
  <1>1. /\ Sound(stk) /\ IsStream(stk) /\ UNCHANGED <<pc, peer>>
        /\ stk' = [stk EXCEPT !.lost = TRUE]
    BY DEF TInv, Sound, LosesUp, LosesDown
  <1>2. Keeps(stk, stk')
    BY <1>1, ListsKeep
  <1>3. Sound(stk') /\ stk'.state = stk.state /\ stk'.orphan = stk.orphan
    BY <1>1, <1>2, StaysSound DEF Keeps
  <1>4. up' \in Seq(Segments) /\ down' \in Seq(Segments)
    BY SegmentSequences DEF TInv, LosesUp, LosesDown
  <1> QED BY <1>1, <1>3, <1>4 DEF TInv

-----------------------------------------------------------------------------
(* Every step keeps the invariant, and none but a turn of write_chunks,    *)
(* where the timers are, takes a stream from the application.              *)

LEMMA TInvInit ==
  ASSUME Init
  PROVE  TInv
  <1> DEFINE s == NoStream
  <1>1. IsStream(s)
    <2>1. IsFiniteSet({}) /\ SndBuf \in Int
      BY FS_EmptySet, TcpAssumption
    <2> QED BY <2>1 DEF NoStream, IsStream, Fields, States, NoBuf
  <1>2. TimersFit(s) /\ InOnePlace(s) /\ FinBehindData(s)
    BY DEF NoStream, TimersFit, InOnePlace, Unreached, FinBehindData, NoBuf
  <1>3. peer \in Peers /\ up \in Seq(Segments) /\ down \in Seq(Segments)
    BY DEF Init, Peers
  <1> QED BY <1>1, <1>2, <1>3 DEF Init, TInv, Sound

LEMMA OrphanStep ==
  ASSUME TInv, Next
  PROVE  TInv' /\ (stk'.orphan => stk.orphan \/ pc = "chunks")
  <1>1. CASE WriteChunks
    BY <1>1, WriteChunksStep DEF WriteChunks
  <1>2. CASE FlushSendbuffer
    BY <1>2, FlushStep
  <1>3. CASE LeaveSendlist \/ Read \/ nty_nic_send_pkts
    BY <1>3, StackStep
  <1>4. CASE Accept
    BY <1>4, AcceptStep
  <1>5. CASE Recv
    BY <1>5, RecvStep
  <1>6. CASE Send
    BY <1>6, SendStep
  <1>7. CASE SendEnqueue \/ Close
    BY <1>7, PlacesStep
  <1>8. CASE PeerConnects \/ PeerAcks \/ PeerSends \/ PeerFinishes \/ PeerResets
             \/ PeerSendsAgain
    BY <1>8, PeerStep
  <1>9. CASE PeerHears
    BY <1>9, PeerHearsStep
  <1>10. CASE LosesUp \/ LosesDown
    BY <1>10, LosesStep
  <1> QED BY <1>1, <1>2, <1>3, <1>4, <1>5, <1>6, <1>7, <1>8, <1>9, <1>10
      DEF Next, Stack, Application, Network

LEMMA TInvStep ==
  ASSUME TInv, [Next]_vars
  PROVE  TInv'
  <1>1. CASE Next
    BY <1>1, OrphanStep
  <1>2. CASE UNCHANGED vars
    BY <1>2 DEF vars, TInv
  <1> QED BY <1>1, <1>2

(* The table holds in every state: each state of TCP has its timer, the    *)
(* application has the stream in one place at most, and the FIN is behind  *)
(* the last byte of the send buffer.                                       *)
THEOREM Invariant == Spec => []TInv
  <1>1. Init => TInv
    BY TInvInit
  <1>2. TInv /\ [Next]_vars => TInv'
    BY TInvStep
  <1> QED BY <1>1, <1>2, PTL DEF Spec

(* The one link field that the retransmission timer and the TIME_WAIT list *)
(* share is never used by both, and no retransmission timer runs in a      *)
(* state for which HandleRTO() has no case.                                *)
THEOREM OneTimer == Spec => []OneTimerOnly
  <1>1. TInv => OneTimerOnly
    BY DEF TInv, Sound, TimersFit, Timed, OneTimerOnly
  <1> QED BY <1>1, Invariant, PTL

(* Nothing that arrives and no call of the application frees a stream that *)
(* the application still points to: DestroyTcpStream() is reached from     *)
(* nty_tcp_process() only in states behind close(), whatever arrives.      *)
THEOREM OnlyTimersTake == Spec => OnlyTimersTakeItAway
  <1>1. TInv /\ [Next]_vars => [stk'.orphan /\ ~stk.orphan => pc = "chunks"]_vars
    <2>1. ASSUME TInv, Next PROVE stk'.orphan /\ ~stk.orphan => pc = "chunks"
      BY <2>1, OrphanStep
    <2>2. CASE UNCHANGED vars
      BY <2>2
    <2> QED BY <2>1, <2>2
  <1> QED BY <1>1, Invariant, PTL DEF Spec, OnlyTimersTakeItAway
-----------------------------------------------------------------------------
(* The second invariant: the stream, the peer, the application and what is *)
(* on the way agree about the numbers.                                     *)

(* The application is done with the connection, or has not begun.          *)
AppEnded == app = "closed"
NothingYet == done.sent = 0 /\ done.got = 0 /\ app \in {"accept", "await"}

Connected == {"ESTABLISHED", "CLOSE_WAIT"}
Unfinished == {"ESTABLISHED", "CLOSE_WAIT", "FIN_WAIT_1", "LAST_ACK", "CLOSING"}

(* Before the FIN has been sent, and while the retransmission of data      *)
(* keeps it back, snd_nxt is not behind the last byte.                     *)
FinHeldBack(s) ==
  s.state \in Connected \/ (s.state \in {"FIN_WAIT_1", "LAST_ACK"} /\ s.on_send_list)

(* The peer never takes an acknowledgement back, and the network keeps the *)
(* order.                                                                  *)
AcksFrom(n) == \A i \in DOMAIN up : n <= up[i].ack
AcksInOrder == \A i, j \in DOMAIN up : i <= j => up[i].ack <= up[j].ack

(* Byte n of the application has the number n: the send buffer holds those *)
(* from snd_una to done.sent, and the FIN comes next. No ACK on the way is *)
(* behind snd_una, so one that repeats the last one repeats snd_una.       *)
SenderFits(s) ==
  /\ s.snd_una <= peer.nxt
  /\ s.state \in {"NONE", "SYN_RCVD"} =>
       /\ s.sndbuf = NoBuf /\ s.snd_una = 0 /\ s.last_ack_seq = 0
       /\ ~s.on_send_list /\ ~s.on_timeout_list
  /\ s.state = "SYN_RCVD" => NothingYet
  /\ s.state \in Unfinished =>
       /\ 1 <= s.snd_una /\ s.snd_una <= s.snd_nxt
       /\ s.last_ack_seq <= s.snd_una /\ AcksFrom(s.snd_una)
       /\ s.sndbuf = NoBuf => done.sent = 0 /\ s.snd_una = 1 /\ ~s.on_send_list
       /\ s.sndbuf # NoBuf => s.sndbuf.head = s.snd_una
                              /\ s.sndbuf.head + s.sndbuf.len = done.sent + 1
  /\ s.state \in Connected /\ s.sndbuf = NoBuf => ~s.on_rto /\ ~s.on_sendq
  /\ FinHeldBack(s) => s.snd_nxt <= done.sent + 1
  /\ s.state \in {"FIN_WAIT_1", "LAST_ACK", "CLOSING"} => s.fss = done.sent + 1
  /\ s.state \in {"FIN_WAIT_2", "TIME_WAIT"} => peer.gotfin
  /\ s.on_closeq \/ s.state \in {"FIN_WAIT_1", "LAST_ACK", "CLOSING", "FIN_WAIT_2", "TIME_WAIT"}
       => AppEnded

(* Until the peer's FIN the next number expected is the first that is not  *)
(* in the receive buffer, of which the application has taken done.got,     *)
(* and nothing is in the buffer that the peer has not sent.                *)
ReceiverFits(s) ==
  /\ s.state \in {"NONE", "SYN_RCVD"} => s.in_order = 1 /\ s.merged_len = 0
  /\ s.state = "SYN_RCVD" => s.rcv_nxt = 1
  /\ peer.st \in {"closed", "syn_sent"} /\ s.state # "SYN_RCVD" => s.rcv_nxt <= 0
  /\ s.state \in {"ESTABLISHED", "FIN_WAIT_1", "FIN_WAIT_2"} => s.rcv_nxt = s.in_order
  /\ s.state = "ESTABLISHED" => done.got + s.merged_len = s.in_order - 1
  /\ s.state = "CLOSE_WAIT" /\ ~s.have_reset =>
       peer.fin /\ s.rcv_nxt = peer.snd /\ done.got + s.merged_len = peer.snd - 2
  /\ s.state \in {"LAST_ACK", "CLOSING", "TIME_WAIT"} => peer.fin
  /\ s.state # "NONE" => peer.una <= s.rcv_nxt
  /\ 1 <= s.in_order /\ s.in_order <= PeerSent + 1 /\ 0 <= s.merged_len
  /\ \A b \in s.ooo : b <= PeerSent
  /\ s.state # "NONE" => done.got + s.merged_len <= s.in_order - 1

(* A segment of ours carries the SYN, the FIN or bytes of done.sent under  *)
(* their numbers, and acknowledges no more than has come.                  *)
Carries(s, p) ==
  /\ p.len >= 0
  /\ Has(p, "SYN") => p.seq = 0 /\ p.len = 0 /\ ~Has(p, "FIN")
  /\ Has(p, "FIN") => p.seq = done.sent + 1 /\ p.len = 0 /\ AppEnded
  /\ p.len > 0 => 1 <= p.seq /\ p.seq + p.len <= done.sent + 1
  /\ s.state # "NONE" => p.ack <= s.rcv_nxt
  /\ peer.st \in {"closed", "syn_sent"} => p.ack <= 1

Carried(s) == /\ \A i \in DOMAIN s.nic : Carries(s, s.nic[i])
              /\ \A i \in DOMAIN down : Carries(s, down[i])

(* Who is asleep although there is something for him is woken at the end   *)
(* of the step.                                                            *)
Awakes(s) ==
  /\ app = "await" /\ s.in_acceptq => "accept" \in s.signals
  /\ app = "rwait" /\ s.socket /\ ~s.have_reset /\ (s.merged_len # 0 \/ s.state = "CLOSE_WAIT")
       => "read" \in s.signals

AppFits(s) ==
  /\ app \in {"idle", "recv", "rwait", "enq", "swait"} => s.orphan \/ s.socket
  /\ app = "enq" /\ s.socket => s.sndbuf # NoBuf
  /\ s.orphan => s.state = "NONE"

Fits(s) ==
  /\ s.state # "LISTEN" /\ ~s.crashed
  /\ peer.st \in {"closed", "syn_sent"} =>
       s.state \in {"NONE", "SYN_RCVD", "CLOSED"} /\ ~s.orphan
  /\ peer.st = "closed" => s.state = "NONE" /\ s.nic = <<>>
  /\ SenderFits(s) /\ ReceiverFits(s) /\ AppFits(s) /\ Awakes(s)
  /\ Carried(s)

(* A segment of the peer.                                                  *)
Arrives(p) ==
  /\ p.flags \in {{"SYN"}, {"ACK"}, {"FIN", "ACK"}, {"RST"}} /\ p.len >= 0
  /\ IF Has(p, "SYN") THEN p.seq = 0 /\ p.len = 0 /\ peer.st = "syn_sent" /\ down = <<>>
                      ELSE peer.st \in {"open", "reset"}
  /\ p.ack <= peer.nxt
  /\ Has(p, "ACK") => 1 <= p.ack
  /\ Has(p, "FIN") => peer.fin /\ p.seq = peer.snd - 1 /\ p.len = 0
  /\ p.len > 0 => p.seq + p.len <= PeerSent + 1

PeerFits ==
  /\ done.sent >= 0 /\ peer.nxt >= 0
  /\ IF peer.gotfin THEN peer.nxt = done.sent + 2 /\ AppEnded ELSE peer.nxt <= done.sent + 1
  /\ peer.st \in {"closed", "syn_sent"} =>
       peer.nxt = 0 /\ peer.una <= 0 /\ ~peer.fin /\ NothingYet
  /\ peer.st = "closed" => down = <<>>
  /\ peer.st = "open" => peer.nxt >= 1
  /\ done.eof = "end" => peer.fin /\ done.got = peer.snd - 2
  /\ 0 <= done.got /\ done.got <= PeerSent
  /\ IF peer.st = "closed" THEN peer.snd = 0 ELSE peer.snd >= 1
  /\ peer.fin => peer.snd >= 2

(* A SYN comes alone; if it finds no stream no answer to another one is    *)
(* waiting in the NIC.                                                     *)
SynWaits == peer.st = "syn_sent" /\ up # <<>>
Unanswered(s) == \A i \in DOMAIN s.nic : s.nic[i].ack <= 0
SynComesAlone ==
  SynWaits => Len(up) = 1 /\ (pc = "chunks" \/ stk.state = "NONE" => Unanswered(stk))

Agrees ==
  /\ done \in [sent : Int, got : Int, eof : {"no", "end", "reset"}]
  /\ PeerFits /\ Fits(stk) /\ stk.signals = {}
  /\ pc = "flushing" => stk.on_send_list
  /\ \A i \in DOMAIN up : Arrives(up[i])
  /\ AcksInOrder /\ SynComesAlone

CInv == TInv /\ Agrees

Well(s) == Sound(s) /\ Fits(s)
Around == /\ PeerFits /\ peer \in Peers /\ down \in Seq(Segments) /\ up \in Seq(Segments)
          /\ done \in [sent : Int, got : Int, eof : {"no", "end", "reset"}]

(* What Fits speaks of stays, or is demanded of less.                      *)
Eases(s, r) ==
  /\ r.state = s.state /\ r.rcv_nxt = s.rcv_nxt /\ r.in_order = s.in_order /\ r.ooo = s.ooo
  /\ r.merged_len = s.merged_len /\ r.snd_nxt = s.snd_nxt /\ r.snd_una = s.snd_una
  /\ r.fss = s.fss /\ r.sndbuf = s.sndbuf /\ r.nic = s.nic
  /\ r.on_send_list => s.on_send_list
  /\ r.on_rto => s.on_rto
  /\ r.on_sendq => s.on_sendq
  /\ r.on_closeq => s.on_closeq
  /\ r.on_timeout_list => s.on_timeout_list
  /\ s.have_reset => r.have_reset
  /\ r.orphan = s.orphan /\ r.socket = s.socket /\ r.in_acceptq = s.in_acceptq
  /\ s.signals \subseteq r.signals /\ r.crashed = s.crashed /\ r.last_ack_seq = s.last_ack_seq

LEMMA EasesFits ==
  ASSUME NEW s, NEW r, Fits(s), Eases(s, r)
  PROVE  Fits(r)
  <1>1. SenderFits(r)
    BY DEF Fits, Eases, SenderFits, FinHeldBack
  <1>2. ReceiverFits(r)
    BY DEF Fits, Eases, ReceiverFits
  <1>3. AppFits(r) /\ Awakes(r)
    BY DEF Fits, Eases, AppFits, Awakes
  <1>4. Carried(r)
    BY DEF Fits, Eases, Carried, Carries
  <1> QED BY <1>1, <1>2, <1>3, <1>4 DEF Fits, Eases

LEMMA EasesTwice ==
  ASSUME NEW s, NEW q, NEW r, Eases(s, q), Eases(q, r)
  PROVE  Eases(s, r)
  BY DEF Eases

LEMMA ListsEase ==
  ASSUME NEW s, IsStream(s)
  PROVE  /\ Eases(s, s)
         /\ Eases(s, nty_tcp_addto_controllist(s))
         /\ \A opt \in {"now", "aggregate", "wack"} : Eases(s, nty_tcp_enqueue_acklist(s, opt))
         /\ \A other : Eases(s, NoLongerWaiting(s, other))
         /\ \A who : Eases(s, Signal(s, who))
         /\ Eases(s, RemoveFromRTOList(s))
         /\ Eases(s, AddtoTimewaitList(s))
  <1> USE FieldNames DEF IsStream, Eases
  <1>1. Eases(s, nty_tcp_addto_controllist(s)) /\ Eases(s, s)
    BY DEF nty_tcp_addto_controllist
  <1>2. ASSUME NEW opt \in {"now", "aggregate", "wack"}
        PROVE  Eases(s, nty_tcp_enqueue_acklist(s, opt))
    BY DEF nty_tcp_enqueue_acklist
  <1>3. ASSUME NEW other PROVE Eases(s, NoLongerWaiting(s, other))
    BY DEF NoLongerWaiting, nty_tcp_addto_controllist
  <1>4. ASSUME NEW who PROVE Eases(s, Signal(s, who))
    BY DEF Signal
  <1>5. Eases(s, RemoveFromRTOList(s)) /\ Eases(s, AddtoTimewaitList(s))
    BY ZenonT(30) DEF RemoveFromRTOList, AddtoTimewaitList
  <1> QED BY <1>1, <1>2, <1>3, <1>4, <1>5

(* the same, for streams that fit *)
LEMMA ListsFit ==
  ASSUME NEW s, IsStream(s), Fits(s)
  PROVE  /\ Fits(nty_tcp_addto_controllist(s))
         /\ \A opt \in {"now", "aggregate", "wack"} : Fits(nty_tcp_enqueue_acklist(s, opt))
         /\ \A other : Fits(NoLongerWaiting(s, other))
         /\ Fits(RemoveFromRTOList(s))
         /\ Fits(AddtoTimewaitList(s))
  <1> HIDE DEF Fits
  <1> QED BY ListsEase, EasesFits

(* A stream joins send_list when it has a buffer, and in a state that      *)
(* waits for the FIN only with snd_nxt inside it.                          *)
LEMMA SendlistFits ==
  ASSUME NEW s, IsStream(s), Fits(s), s.sndbuf # NoBuf, s.state # "SYN_RCVD",
         s.state \in {"FIN_WAIT_1", "LAST_ACK"} => s.snd_nxt <= done.sent + 1
  PROVE  Fits(nty_tcp_addto_sendlist(s))
  <1> DEFINE r == [s EXCEPT !.on_send_list = TRUE]
  <1>1. nty_tcp_addto_sendlist(s) = r
    BY DEF nty_tcp_addto_sendlist
  <1>2. /\ r.state = s.state /\ r.rcv_nxt = s.rcv_nxt /\ r.in_order = s.in_order /\ r.ooo = s.ooo
        /\ r.merged_len = s.merged_len /\ r.snd_nxt = s.snd_nxt /\ r.snd_una = s.snd_una
        /\ r.fss = s.fss /\ r.sndbuf = s.sndbuf /\ r.nic = s.nic
        /\ r.on_rto = s.on_rto /\ r.on_sendq = s.on_sendq /\ r.on_closeq = s.on_closeq
        /\ r.on_timeout_list = s.on_timeout_list /\ r.have_reset = s.have_reset
        /\ r.orphan = s.orphan /\ r.socket = s.socket /\ r.in_acceptq = s.in_acceptq
        /\ r.signals = s.signals /\ r.crashed = s.crashed /\ r.last_ack_seq = s.last_ack_seq
    BY FieldNames DEF IsStream
  <1> HIDE DEF r
  <1>3. SenderFits(r)
    BY <1>2 DEF Fits, SenderFits, FinHeldBack
  <1>4. ReceiverFits(r)
    BY <1>2 DEF Fits, ReceiverFits
  <1>5. AppFits(r) /\ Awakes(r)
    BY <1>2 DEF Fits, AppFits, Awakes
  <1>6. Carried(r)
    BY <1>2 DEF Fits, Carried, Carries
  <1> QED BY <1>1, <1>2, <1>3, <1>4, <1>5, <1>6 DEF Fits

(* Everything Fits speaks of but snd_nxt, the timer and the NIC's buffer,  *)
(* which sending a segment changes.                                        *)
SameButSent(s, r) ==
  /\ r.state = s.state /\ r.rcv_nxt = s.rcv_nxt /\ r.in_order = s.in_order /\ r.ooo = s.ooo
  /\ r.merged_len = s.merged_len /\ r.snd_una = s.snd_una
  /\ r.fss = s.fss /\ r.sndbuf = s.sndbuf
  /\ r.on_send_list = s.on_send_list
  /\ r.on_sendq = s.on_sendq /\ r.on_closeq = s.on_closeq
  /\ r.on_timeout_list = s.on_timeout_list /\ r.have_reset = s.have_reset
  /\ r.orphan = s.orphan /\ r.socket = s.socket /\ r.in_acceptq = s.in_acceptq
  /\ r.signals = s.signals /\ r.crashed = s.crashed /\ r.last_ack_seq = s.last_ack_seq

LEMMA SameFits ==
  ASSUME NEW s, NEW r, Fits(s), SameButSent(s, r), s.state # "NONE",
         r.snd_nxt \in Int, s.snd_nxt \in Int, s.snd_nxt <= r.snd_nxt, s.snd_una \in Int,
         FinHeldBack(s) => r.snd_nxt <= done.sent + 1,
         r.on_rto => s.on_rto \/ s.state \notin Connected \/ s.sndbuf # NoBuf,
         \A i \in DOMAIN r.nic : Carries(s, r.nic[i])
  PROVE  Fits(r)
  <1>1. SenderFits(r)
    BY DEF Fits, SameButSent, SenderFits, FinHeldBack
  <1>2. ReceiverFits(r)
    BY DEF Fits, SameButSent, ReceiverFits
  <1>3. AppFits(r) /\ Awakes(r)
    BY DEF Fits, SameButSent, AppFits, Awakes
  <1>4. Carried(r)
    BY DEF Fits, SameButSent, Carried, Carries
  <1>5. peer.st # "closed"
    BY DEF Fits
  <1> QED BY <1>1, <1>2, <1>3, <1>4, <1>5 DEF Fits, SameButSent

LEMMA EmitFits ==
  ASSUME NEW s, IsStream(s), Fits(s), NEW p, Carries(s, p), peer.st # "closed"
  PROVE  Fits(Emit(s, p))
  <1> DEFINE r == Emit(s, p)
  <1>1. /\ r.state = s.state /\ r.rcv_nxt = s.rcv_nxt /\ r.in_order = s.in_order /\ r.ooo = s.ooo
        /\ r.merged_len = s.merged_len /\ r.snd_nxt = s.snd_nxt /\ r.snd_una = s.snd_una
        /\ r.fss = s.fss /\ r.sndbuf = s.sndbuf /\ r.nic = <<p>>
        /\ r.on_send_list = s.on_send_list
        /\ r.on_rto = s.on_rto /\ r.on_sendq = s.on_sendq /\ r.on_closeq = s.on_closeq
        /\ r.on_timeout_list = s.on_timeout_list /\ r.have_reset = s.have_reset
        /\ r.orphan = s.orphan /\ r.socket = s.socket /\ r.in_acceptq = s.in_acceptq
        /\ r.signals = s.signals /\ r.crashed = s.crashed /\ r.last_ack_seq = s.last_ack_seq
    BY FieldNames DEF IsStream, Emit
  <1> HIDE DEF r
  <1>2. SenderFits(r)
    BY <1>1 DEF Fits, SenderFits, FinHeldBack
  <1>3. ReceiverFits(r)
    BY <1>1 DEF Fits, ReceiverFits
  <1>4. AppFits(r) /\ Awakes(r)
    BY <1>1 DEF Fits, AppFits, Awakes
  <1>5. Carried(r)
    BY <1>1 DEF Fits, Carried, Carries
  <1> QED BY <1>1, <1>2, <1>3, <1>4, <1>5 DEF Fits, r

(* nty_tcp_send_tcppkt() in terms of the segment that goes out *)
SeqSent(s, flags) ==
  CASE "CWR" \in flags -> s.snd_nxt - 1 [] "FIN" \in flags -> s.fss [] OTHER -> s.snd_nxt

LEMMA SentFits ==
  ASSUME NEW s, IsStream(s), Fits(s), s.state # "NONE",
         NEW flags \in SUBSET (Flags \cup {"CWR"}), NEW len \in Int, Grows(flags, len) >= 0,
         Carries(s, Seg(flags \ {"CWR"}, SeqSent(s, flags), s.rcv_nxt, len, RcvWnd)),
         FinHeldBack(s) => s.snd_nxt + Grows(flags, len) <= done.sent + 1,
         Grows(flags, len) > 0 => s.state \notin Connected \/ s.sndbuf # NoBuf
  PROVE  LET r == nty_tcp_send_tcppkt(s, flags, len) IN
         Fits(r) /\ SameButSent(s, r) /\ r.snd_nxt = s.snd_nxt + Grows(flags, len)
  <1> DEFINE p == Seg(flags \ {"CWR"}, SeqSent(s, flags), s.rcv_nxt, len, RcvWnd)
             g == Grows(flags, len)
             e == Emit(s, p)
             r == [e EXCEPT !.is_fin_sent = @ \/ "FIN" \in flags, !.snd_nxt = @ + g,
                            !.on_rto = @ \/ g > 0]
  <1>1. nty_tcp_send_tcppkt(s, flags, len) = r
    BY DEF nty_tcp_send_tcppkt, SeqSent
  <1>2. g \in Int /\ s.snd_nxt \in Int /\ s.snd_una \in Int
    BY DEF Grows, IsStream
  <1> HIDE DEF g, p
  <1>3. /\ DOMAIN e = Fields /\ e.nic = <<p>> /\ SameButSent(s, e)
        /\ e.snd_nxt = s.snd_nxt /\ e.on_rto = s.on_rto
    BY FieldNames DEF IsStream, Emit, SameButSent
  <1> HIDE DEF e
  <1>4. /\ SameButSent(s, r) /\ r.nic = <<p>>
        /\ r.snd_nxt = s.snd_nxt + g
        /\ r.on_rto => s.on_rto \/ g > 0
    BY <1>3, FieldNames, ZenonT(30) DEF SameButSent
  <1> HIDE DEF r
  <1>5. \A i \in DOMAIN r.nic : Carries(s, r.nic[i])
    BY <1>4 DEF p
  <1>6. r.snd_nxt \in Int /\ s.snd_nxt <= r.snd_nxt
    BY <1>2, <1>4 DEF g
  <1>7. Fits(r)
    BY <1>2, <1>4, <1>5, <1>6, SameFits DEF g
  <1> QED BY <1>1, <1>4, <1>7 DEF g

(* Which segments those are: pure acknowledgements, ... *)
LEMMA AckFits ==
  ASSUME NEW s, IsStream(s), Fits(s), s.state # "NONE", NEW flags \in {{"ACK"}, {"ACK", "CWR"}, {"RST"}}
  PROVE  LET r == nty_tcp_send_tcppkt(s, flags, 0) IN
         Fits(r) /\ SameButSent(s, r) /\ r.snd_nxt = s.snd_nxt
  <1>1. Grows(flags, 0) = 0 /\ flags \in SUBSET (Flags \cup {"CWR"})
    BY DEF Grows, Flags
  <1>2. s.snd_nxt \in Int /\ s.rcv_nxt \in Int
    BY DEF IsStream
  <1>3. peer.st \in {"closed", "syn_sent"} => s.rcv_nxt <= 1
    BY <1>2 DEF Fits, ReceiverFits
  <1>4. Carries(s, Seg(flags \ {"CWR"}, SeqSent(s, flags), s.rcv_nxt, 0, RcvWnd))
    BY <1>2, <1>3 DEF Carries, Seg, Has
  <1>5. FinHeldBack(s) => s.snd_nxt <= done.sent + 1
    BY DEF Fits, SenderFits
  <1>6. /\ Grows(flags, 0) >= 0 /\ ~(Grows(flags, 0) > 0) /\ 0 \in Int
        /\ s.snd_nxt + Grows(flags, 0) = s.snd_nxt
    BY <1>1, <1>2
  <1> QED BY <1>1, <1>4, <1>5, <1>6, SentFits, ZenonT(30)

(* ... the SYN, ... *)
LEMMA SynFits ==
  ASSUME NEW s, IsStream(s), Fits(s), s.state = "SYN_RCVD"
  PROVE  Fits(nty_tcp_send_tcppkt([s EXCEPT !.snd_nxt = 0], {"SYN", "ACK"}, 0))
  <1> DEFINE z == [s EXCEPT !.snd_nxt = 0]
  <1>1. IsStream(z) /\ SameButSent(s, z) /\ z.snd_nxt = 0 /\ z.nic = s.nic /\ z.on_rto = s.on_rto
    BY FieldNames DEF IsStream, SameButSent
  <1> HIDE DEF z
  <1>2. Fits(z)
    <2>1. SenderFits(z)
      BY <1>1 DEF Fits, SenderFits, SameButSent, FinHeldBack, Unfinished, Connected
    <2>2. ReceiverFits(z)
      BY <1>1 DEF Fits, SameButSent, ReceiverFits
    <2>3. AppFits(z) /\ Awakes(z)
      BY <1>1 DEF Fits, SameButSent, AppFits, Awakes
    <2>4. Carried(z)
      BY <1>1 DEF Fits, SameButSent, Carried, Carries
    <2> QED BY <1>1, <2>1, <2>2, <2>3, <2>4 DEF Fits, SameButSent
  <1>3. Grows({"SYN", "ACK"}, 0) = 1 /\ {"SYN", "ACK"} \in SUBSET (Flags \cup {"CWR"})
    BY DEF Grows, Flags
  <1>4. /\ z.state = "SYN_RCVD" /\ z.rcv_nxt = 1
        /\ ~FinHeldBack(z) /\ z.state \notin Connected
    BY <1>1 DEF Fits, ReceiverFits, SameButSent, FinHeldBack, Connected
  <1>5. Carries(z, Seg({"SYN", "ACK"} \ {"CWR"}, SeqSent(z, {"SYN", "ACK"}), z.rcv_nxt, 0, RcvWnd))
    BY <1>1, <1>4 DEF Carries, Seg, Has, SeqSent
  <1>6. Grows({"SYN", "ACK"}, 0) >= 0 /\ 0 \in Int
    BY <1>3
  <1>7. Fits(nty_tcp_send_tcppkt(z, {"SYN", "ACK"}, 0))
    BY <1>1, <1>2, <1>3, <1>4, <1>5, <1>6, SentFits
  <1> QED BY <1>7 DEF z

(* ... the FIN, ... *)
LEMMA FinFits ==
  ASSUME NEW s, IsStream(s), Fits(s), s.state \in {"FIN_WAIT_1", "LAST_ACK", "CLOSING"},
         s.state # "CLOSING" => ~s.on_send_list
  PROVE  Fits(nty_tcp_send_tcppkt(s, {"FIN", "ACK"}, 0))
  <1>1. Grows({"FIN", "ACK"}, 0) = 1 /\ {"FIN", "ACK"} \in SUBSET (Flags \cup {"CWR"})
    BY DEF Grows, Flags
  <1>2. ~FinHeldBack(s) /\ s.state \notin Connected
    BY DEF FinHeldBack, Connected
  <1>3. s.fss = done.sent + 1 /\ AppEnded /\ peer.st \notin {"closed", "syn_sent"}
    BY DEF Fits, SenderFits
  <1>4. s.rcv_nxt \in Int
    BY DEF IsStream
  <1>5. Carries(s, Seg({"FIN", "ACK"} \ {"CWR"}, SeqSent(s, {"FIN", "ACK"}), s.rcv_nxt, 0, RcvWnd))
    BY <1>3, <1>4 DEF Carries, Seg, Has, SeqSent
  <1>6. Grows({"FIN", "ACK"}, 0) >= 0 /\ 0 \in Int
    BY <1>1
  <1> QED BY <1>1, <1>2, <1>5, <1>6, SentFits

(* ... and data. *)
LEMMA DataFits ==
  ASSUME NEW s, IsStream(s), Fits(s), FinHeldBack(s), s.sndbuf # NoBuf,
         NEW len \in Int, len > 0, s.snd_nxt + len <= done.sent + 1
  PROVE  LET r == nty_tcp_send_tcppkt(s, {"ACK"}, len) IN Fits(r) /\ SameButSent(s, r)
  <1>1. Grows({"ACK"}, len) = len /\ {"ACK"} \in SUBSET (Flags \cup {"CWR"})
    BY DEF Grows, Flags
  <1>2. s.state \in Unfinished /\ s.state # "NONE" /\ peer.st \notin {"closed", "syn_sent"}
    BY DEF FinHeldBack, Connected, Unfinished, Fits
  <1>3. s.snd_nxt \in Int /\ s.snd_una \in Int /\ s.rcv_nxt \in Int
    BY DEF IsStream
  <1>4. s.snd_nxt >= 1
    BY <1>2, <1>3 DEF Fits, SenderFits
  <1>5. Carries(s, Seg({"ACK"} \ {"CWR"}, SeqSent(s, {"ACK"}), s.rcv_nxt, len, RcvWnd))
    BY <1>2, <1>3, <1>4 DEF Carries, Seg, Has, SeqSent
  <1>6. Grows({"ACK"}, len) >= 0
    BY <1>1
  <1> QED BY <1>1, <1>2, <1>5, <1>6, SentFits

-----------------------------------------------------------------------------
(* The lists, the timers and the calls of the application.                 *)

(* what is left of a stream that is freed *)
LEMMA DestroyFits ==
  ASSUME NEW s, IsStream(s), Fits(s), peer \in Peers, peer.nxt >= 0,
         peer.st \in {"closed", "syn_sent"} => Unreached(s)
  PROVE  Fits(DestroyTcpStream(s))
  <1> DEFINE r == DestroyTcpStream(s)
             lost == s.orphan \/ s.in_acceptq \/ s.socket \/ s.on_sendq \/ s.on_closeq
  <1>1. /\ r.state = "NONE" /\ r.in_order = 1 /\ r.ooo = {} /\ r.merged_len = 0 /\ r.snd_una = 0
        /\ r.last_ack_seq = 0 /\ r.rcv_nxt = 0
        /\ r.sndbuf = NoBuf /\ ~r.on_send_list /\ ~r.on_timeout_list /\ ~r.on_closeq
        /\ ~r.socket /\ ~r.in_acceptq
        /\ r.nic = s.nic /\ r.crashed = s.crashed
        /\ r.orphan <=> lost
    BY ZenonT(30) DEF DestroyTcpStream, NoStream
  <1> HIDE DEF r
  <1>2. SenderFits(r)
    BY <1>1 DEF Fits, SenderFits, Peers, FinHeldBack, Connected, Unfinished
  <1>3. ReceiverFits(r)
    <2>1. 1 <= PeerSent + 1
      BY DEF Fits, ReceiverFits, IsStream, Peers, PeerSent
    <2> QED BY <1>1, <2>1 DEF ReceiverFits
  <1>4. AppFits(r) /\ Awakes(r)
    BY <1>1 DEF Fits, AppFits, Awakes
  <1>5. Carried(r)
    BY <1>1 DEF Fits, Carried, Carries
  <1> QED BY <1>1, <1>2, <1>3, <1>4, <1>5 DEF Fits, r, Unreached

LEMMA ControlFits ==
  ASSUME NEW s, Well(s), Around
  PROVE  Fits(nty_tcp_write_controllist(s))
  <1> DEFINE c == [s EXCEPT !.on_control_list = FALSE]
  <1>1. IsStream(s) /\ Fits(s)
    BY DEF Well, Sound
  <1>2. /\ IsStream(c) /\ Eases(s, c) /\ c.state = s.state
        /\ c.on_send_list = s.on_send_list /\ c.in_acceptq = s.in_acceptq
        /\ c.socket = s.socket /\ c.on_sendq = s.on_sendq /\ c.on_closeq = s.on_closeq
    BY <1>1, FieldNames DEF IsStream, Eases
  <1> HIDE DEF c
  <1>3. Fits(c)
    BY <1>1, <1>2, EasesFits
  <1>4. CASE s.on_control_list /\ ~MustWait(s)
    <2>1. CASE s.state = "SYN_RCVD"
      BY <1>2, <1>3, <1>4, <2>1, SynFits DEF nty_tcp_write_controllist, nty_tcp_send_controlpkt, c
    <2>2. CASE s.state \in {"ESTABLISHED", "CLOSE_WAIT", "FIN_WAIT_2", "TIME_WAIT"}
      <3>1. Fits(nty_tcp_send_tcppkt(c, {"ACK"}, 0))
        BY <1>2, <1>3, <2>2, AckFits
      <3> QED BY <1>2, <1>4, <2>2, <3>1 DEF nty_tcp_write_controllist, nty_tcp_send_controlpkt, c
    <2>3. CASE s.state \in {"LAST_ACK", "FIN_WAIT_1"}
      <3>1. Fits(nty_tcp_send_tcppkt(c, {"FIN", "ACK"}, 0))
        BY <1>2, <1>3, <1>4, <2>3, FinFits DEF MustWait
      <3> QED BY <1>2, <1>4, <2>3, <3>1 DEF nty_tcp_write_controllist, nty_tcp_send_controlpkt, c
    <2>4. CASE s.state = "CLOSING"
      <3>1. /\ Fits(nty_tcp_send_tcppkt(c, {"FIN", "ACK"}, 0))
            /\ Fits(nty_tcp_send_tcppkt(c, {"ACK"}, 0))
        BY <1>2, <1>3, <2>4, FinFits, AckFits
      <3> QED BY <1>2, <1>4, <2>4, <3>1 DEF nty_tcp_write_controllist, nty_tcp_send_controlpkt, c
    <2>5. CASE s.state = "CLOSED"
      <3> DEFINE r == nty_tcp_send_tcppkt(c, {"RST"}, 0)
      <3>1. Fits(r) /\ SameButSent(c, r)
        BY <1>2, <1>3, <2>5, AckFits
      <3>2. IsStream(r)
        BY <1>2, AckKeeps
      <3> HIDE DEF r
      <3>3. Unreached(r)
        BY <1>2, <2>5, <3>1 DEF SameButSent, Well, Sound, InOnePlace, Unreached
      <3>4. Fits(DestroyTcpStream(r))
        BY <3>1, <3>2, <3>3, DestroyFits DEF Around, PeerFits
      <3> QED BY <1>2, <1>4, <2>5, <3>4 DEF nty_tcp_write_controllist, nty_tcp_send_controlpkt, c, r
    <2>6. CASE s.state \in {"NONE", "LISTEN"}
      BY <1>2, <1>3, <1>4, <2>6 DEF nty_tcp_write_controllist, nty_tcp_send_controlpkt, c
    <2> QED BY <1>1, <2>1, <2>2, <2>3, <2>4, <2>5, <2>6 DEF IsStream, States
  <1>5. CASE ~(s.on_control_list /\ ~MustWait(s))
    BY <1>1, <1>5 DEF nty_tcp_write_controllist
  <1> QED BY <1>4, <1>5

LEMMA AcklistFits ==
  ASSUME NEW s, Well(s), Around
  PROVE  Fits(nty_tcp_write_acklist(s))
  <1> DEFINE acked == IF s.ack_cnt > 0 THEN nty_tcp_send_tcppkt(s, {"ACK"}, 0) ELSE s
             sent == IF s.state \in Acks /\ s.rcv_nxt <= s.in_order
                     THEN AckSent(s) ELSE s
             e == [sent EXCEPT !.on_ack_list = FALSE, !.ack_cnt = 0, !.is_wack = FALSE]
  <1>1. IsStream(s) /\ Fits(s)
    BY DEF Well, Sound
  <1>2. s.state \in Acks => IsStream(sent) /\ Fits(sent)
    <2> SUFFICES ASSUME s.state \in Acks PROVE IsStream(sent) /\ Fits(sent)
      OBVIOUS
    <2>1. s.state # "NONE"
      BY DEF Acks
    <2>2. IsStream(acked) /\ Fits(acked) /\ acked.state = s.state
      BY <1>1, <2>1, AckFits, AckKeeps DEF SameButSent
    <2> HIDE DEF acked
    <2>3. /\ IsStream(nty_tcp_send_tcppkt(acked, {"ACK", "CWR"}, 0))
          /\ Fits(nty_tcp_send_tcppkt(acked, {"ACK", "CWR"}, 0))
      BY <2>1, <2>2, AckFits, AckKeeps
    <2> QED BY <1>1, <2>2, <2>3 DEF AckSent, acked
  <1>3. IsStream(sent) /\ Fits(sent)
    BY <1>1, <1>2
  <1> HIDE DEF sent
  <1>4. Eases(sent, e) /\ IsStream(e)
    BY <1>3, FieldNames DEF IsStream, Eases
  <1> HIDE DEF e
  <1>5. Fits(e)
    BY <1>3, <1>4, EasesFits
  <1>6. Fits(NoLongerWaiting(e, s.on_send_list))
    BY <1>4, <1>5, ListsFit
  <1> QED BY <1>1, <1>6 DEF nty_tcp_write_acklist, e, sent

LEMMA FreedFits ==
  ASSUME NEW s, Well(s), Around
  PROVE  Fits(DestroyTcpStream(s))
  <1>1. IsStream(s) /\ Fits(s) /\ peer \in Peers /\ peer.nxt >= 0
    BY DEF Well, Sound, Around, PeerFits
  <1>2. peer.st \in {"closed", "syn_sent"} => Unreached(s)
    BY DEF Well, Fits, Sound, InOnePlace
  <1> QED BY <1>1, <1>2, DestroyFits

(* The send buffer is what lies between snd_una and done.sent. *)
LEMMA BufferRange ==
  ASSUME NEW s, Well(s), s.state \in Unfinished, done.sent \in Int
  PROVE  /\ s.snd_una \in Int /\ s.snd_nxt \in Int
         /\ 1 <= s.snd_una /\ s.snd_una <= s.snd_nxt /\ s.snd_una <= done.sent + 1
         /\ s.snd_una < done.sent + 1 => s.sndbuf # NoBuf
  <1>1. /\ s.snd_una \in Int /\ s.snd_nxt \in Int /\ s.sndbuf \in [head : Int, len : Int]
        /\ FinBehindData(s) /\ SenderFits(s)
    BY DEF Well, Sound, IsStream, Fits
  <1>2. CASE s.sndbuf = NoBuf
    BY <1>1, <1>2 DEF SenderFits
  <1>3. CASE s.sndbuf # NoBuf
    <2>1. s.sndbuf.len >= 0 /\ s.sndbuf.head = s.snd_una /\ s.sndbuf.head + s.sndbuf.len = done.sent + 1
      BY <1>1, <1>3 DEF SenderFits, FinBehindData
    <2>2. s.sndbuf.len \in Int /\ s.sndbuf.head \in Int
      BY <1>1
    <2>3. s.snd_una <= done.sent + 1
      BY <2>1, <2>2
    <2> QED BY <1>1, <1>3, <2>3 DEF SenderFits
  <1> QED BY <1>2, <1>3

LEMMA RtmFits ==
  ASSUME NEW s, Well(s), Around, NEW fires
  PROVE  Fits(CheckRtmTimeout(s, fires))
  <1> DEFINE q == RemoveFromRTOList(s)
             r == Reduced(q)
             k == [r EXCEPT !.on_control_list = FALSE, !.control_list_waiting = TRUE]
  <1>1. IsStream(s) /\ Fits(s) /\ done.sent \in Int
    BY DEF Well, Sound, Around
  <1>2. CASE fires /\ s.on_rto
    <2>1. /\ IsStream(q) /\ Fits(q) /\ Sound(q)
          /\ q.state = s.state /\ q.sndbuf = s.sndbuf /\ q.snd_una = s.snd_una /\ q.fss = s.fss
          /\ ~q.on_rto
      <3>1. /\ IsStream(q) /\ q.is_fin_sent = s.is_fin_sent /\ q.state = s.state /\ q.sndbuf = s.sndbuf /\ q.snd_una = s.snd_una
            /\ q.fss = s.fss /\ ~q.on_rto /\ q.on_timewait_list = s.on_timewait_list
            /\ q.socket = s.socket /\ q.in_acceptq = s.in_acceptq
            /\ q.on_sendq = s.on_sendq /\ q.on_closeq = s.on_closeq
        BY <1>1, FieldNames DEF RemoveFromRTOList, IsStream
      <3>2. Fits(q)
        BY <1>1, ListsFit
      <3> HIDE DEF q
      <3> QED BY <3>1, <3>2 DEF Well, Sound, TimersFit, InOnePlace, Unreached, FinBehindData
    <2>2. s.state \in Timed /\ (s.state \in Connected => s.sndbuf # NoBuf)
      BY <1>1, <1>2 DEF Well, Sound, TimersFit, Fits, SenderFits
    <2> HIDE DEF q
    <2>3. Fits(DestroyTcpStream(q))
      BY <2>1, FreedFits DEF Well
    <2>4. Timed = Unfinished \cup {"SYN_RCVD"}
      BY DEF Timed, Unfinished
    <2>5. s.state \in Unfinished =>
            /\ q.snd_una \in Int /\ 1 <= q.snd_una /\ q.snd_una <= done.sent + 1
            /\ q.snd_una < done.sent + 1 => q.sndbuf # NoBuf
      BY <1>1, <2>1, BufferRange DEF Well
    <2>6. IsStream(r) /\ SameButSent(q, r) /\ r.nic = q.nic /\ r.on_rto = q.on_rto /\ r.snd_nxt = q.snd_una
      <3>1. q.nrtx + 1 \in Int
        <4>1. q.nrtx \in Int
          BY <2>1 DEF IsStream
        <4> QED BY <4>1
      <3>2. Mss \in Nat /\ HalfWindow(q) \in Int
        BY <2>1, HalfWindowType, TcpAssumption
      <3>3. ASSUME NEW n \in Int, NEW m \in Nat, NEW w \in Int
            PROVE  LET z == [q EXCEPT !.nrtx = n, !.cwnd = m, !.snd_nxt = q.snd_una, !.ssthresh = w]
                   IN  IsStream(z) /\ SameButSent(q, z) /\ z.nic = q.nic /\ z.on_rto = q.on_rto
                       /\ z.snd_nxt = q.snd_una
        BY <2>1, FieldNames, SMTT(30) DEF IsStream, SameButSent
      <3>4. r = [q EXCEPT !.nrtx = q.nrtx + 1, !.cwnd = Mss, !.snd_nxt = q.snd_una,
                          !.ssthresh = HalfWindow(q)]
        BY DEF Reduced
      <3> HIDE DEF r
      <3> QED BY <3>1, <3>2, <3>3, <3>4
    <2> HIDE DEF r
    <2>7. Fits(r)
      <3>1. SenderFits(r)
        BY <2>1, <2>2, <2>4, <2>5, <2>6
           DEF Fits, SenderFits, SameButSent, FinHeldBack, Unfinished, Connected
      <3>2. ReceiverFits(r)
        BY <2>1, <2>6 DEF Fits, SameButSent, ReceiverFits
      <3>3. AppFits(r) /\ Awakes(r)
        BY <2>1, <2>6 DEF Fits, SameButSent, AppFits, Awakes
      <3>4. Carried(r)
        BY <2>1, <2>6 DEF Fits, SameButSent, Carried, Carries
      <3> QED BY <2>1, <2>6, <3>1, <3>2, <3>3, <3>4 DEF Fits, SameButSent
    <2>8. Fits(nty_tcp_addto_controllist(r))
      BY <2>6, <2>7, ListsFit
    <2>9. s.state \in Connected => Fits(nty_tcp_addto_sendlist(r))
      BY <2>1, <2>2, <2>6, <2>7, SendlistFits DEF SameButSent, Connected
    <2>10. s.state \in {"FIN_WAIT_1", "CLOSING", "LAST_ACK"} /\ r.snd_nxt < q.fss
             => Fits(nty_tcp_addto_sendlist(k))
      <3> SUFFICES ASSUME s.state \in {"FIN_WAIT_1", "CLOSING", "LAST_ACK"}, r.snd_nxt < q.fss
                   PROVE  Fits(nty_tcp_addto_sendlist(k))
        OBVIOUS
      <3>1. IsStream(k) /\ Eases(r, k)
        BY <2>6, FieldNames, ZenonT(30) DEF IsStream, Eases
      <3> HIDE DEF k
      <3>2. Fits(k)
        BY <2>7, <3>1, EasesFits
      <3>3. q.fss = done.sent + 1 /\ s.state \in Unfinished
        BY <2>1 DEF Fits, SenderFits, Unfinished
      <3>4. k.sndbuf # NoBuf /\ k.snd_nxt <= done.sent + 1 /\ k.state = s.state
        BY <2>1, <2>5, <2>6, <3>1, <3>3 DEF Eases, SameButSent
      <3> QED BY <3>1, <3>2, <3>4, SendlistFits
    <2>11. Fits(HandleRTO(q))
      <3>1. q.nrtx \in Int /\ TCP_MAX_RTX \in Int
        BY <2>1, TcpAssumption DEF IsStream
      <3> HIDE DEF k
      <3>2. CASE q.nrtx >= TCP_MAX_RTX
        BY <2>3, <3>1, <3>2 DEF HandleRTO
      <3>3. CASE q.nrtx < TCP_MAX_RTX /\ s.state = "SYN_RCVD"
        BY <2>1, <2>8, <3>1, <3>3 DEF HandleRTO, r
      <3>4. CASE q.nrtx < TCP_MAX_RTX /\ s.state \in Connected
        BY <2>1, <2>9, <3>1, <3>4 DEF HandleRTO, r, Connected
      <3>5. CASE q.nrtx < TCP_MAX_RTX /\ s.state \in {"FIN_WAIT_1", "CLOSING", "LAST_ACK"}
        BY <2>1, <2>8, <2>10, <3>1, <3>5 DEF HandleRTO, r, k
      <3> QED BY <2>2, <3>1, <3>2, <3>3, <3>4, <3>5 DEF Timed, Connected
    <2> QED BY <1>2, <2>11 DEF CheckRtmTimeout, q
  <1>3. CASE ~(fires /\ s.on_rto)
    BY <1>1, <1>3 DEF CheckRtmTimeout
  <1> QED BY <1>2, <1>3

LEMMA ExpiryFits ==
  ASSUME NEW s, Well(s), Around, NEW idle
  PROVE  Fits(CheckTimewaitExpire(s)) /\ Fits(CheckConnectionTimeout(s, idle))
  BY FreedFits DEF CheckTimewaitExpire, CheckConnectionTimeout, Well

LEMMA SendqFits ==
  ASSUME NEW s, Well(s)
  PROVE  LET t == TakeSendq(s) IN
         /\ Well(t) /\ t.state = s.state /\ t.on_closeq = s.on_closeq
         /\ t.on_control_list = s.on_control_list
  <1> DEFINE e == [s EXCEPT !.on_sendq = FALSE]
             r == [e EXCEPT !.on_send_list = TRUE]
  <1>1. IsStream(s) /\ Fits(s) /\ Sound(s)
    BY DEF Well, Sound
  <1>2. CASE s.on_sendq
    <2>1. s.state \in Connected /\ s.sndbuf # NoBuf
      <3>1. s.state \in Connected
        BY <1>2 DEF Well, Sound, InOnePlace, Unreached, Connected
      <3> QED BY <1>1, <1>2, <3>1 DEF Fits, SenderFits
    <2>2. IsStream(e) /\ Eases(s, e)
      BY <1>1, FieldNames DEF IsStream, Eases
    <2>3. Fits(e)
      BY <1>1, <2>2, EasesFits
    <2>4. /\ IsStream(r) /\ r.state = s.state /\ r.on_rto = s.on_rto
          /\ r.on_timewait_list = s.on_timewait_list
          /\ r.socket = s.socket /\ r.in_acceptq = s.in_acceptq
          /\ ~r.on_sendq /\ r.on_closeq = s.on_closeq
          /\ r.sndbuf = s.sndbuf /\ r.fss = s.fss /\ r.is_fin_sent = s.is_fin_sent
          /\ r.on_control_list = s.on_control_list
      BY <1>1, FieldNames DEF IsStream
    <2>5. Sound(r)
      <3> HIDE DEF r, e
      <3> QED BY <1>1, <2>1, <2>4 DEF Sound, TimersFit, InOnePlace, FinBehindData, Connected
    <2>6. e.sndbuf # NoBuf /\ e.state \in Connected
      BY <2>1, <2>2 DEF Eases
    <2>7. nty_tcp_addto_sendlist(e) = r
      BY <2>6 DEF nty_tcp_addto_sendlist
    <2>8. Fits(r)
      <3> HIDE DEF r, e
      <3> QED BY <2>2, <2>3, <2>6, <2>7, SendlistFits DEF Connected
    <2>9. TakeSendq(s) = r
      BY <1>2, <2>7 DEF TakeSendq
    <2> HIDE DEF r
    <2> QED BY <2>4, <2>5, <2>8, <2>9 DEF Well
  <1>3. CASE ~s.on_sendq
    BY <1>1, <1>3 DEF TakeSendq, Well
  <1> QED BY <1>2, <1>3

(* a stream that is being closed, with the number of its FIN *)
Closes(s, r) ==
  /\ r.rcv_nxt = s.rcv_nxt /\ r.in_order = s.in_order /\ r.ooo = s.ooo /\ r.merged_len = s.merged_len
  /\ r.snd_nxt = s.snd_nxt /\ r.snd_una = s.snd_una /\ r.sndbuf = s.sndbuf
  /\ r.fss = done.sent + 1 /\ r.nic = s.nic
  /\ r.on_send_list = s.on_send_list /\ r.on_rto = s.on_rto /\ r.on_sendq = s.on_sendq
  /\ ~r.on_closeq /\ ~r.on_timeout_list
  /\ r.have_reset = s.have_reset /\ r.orphan = s.orphan /\ r.socket = s.socket
  /\ r.in_acceptq = s.in_acceptq /\ r.signals = s.signals
  /\ r.crashed = s.crashed /\ r.last_ack_seq = s.last_ack_seq

LEMMA ClosesFits ==
  ASSUME NEW s, Fits(s), s.on_closeq, s.state \in Connected, NEW r, Closes(s, r),
         r.state = s.state \/ (r.state = Closing(s.state) /\ ~s.have_reset)
  PROVE  Fits(r)
  <1>1. peer.st \notin {"closed", "syn_sent"} /\ AppEnded /\ ~s.orphan
    BY DEF Fits, SenderFits, AppFits, Connected
  <1>2. r.state = s.state \/ (s.state = "ESTABLISHED" /\ r.state = "FIN_WAIT_1")
          \/ (s.state = "CLOSE_WAIT" /\ r.state = "LAST_ACK" /\ ~s.have_reset)
    BY DEF Closing, Connected
  <1>3. SenderFits(r)
    BY <1>1, <1>2 DEF Fits, SenderFits, Closes, FinHeldBack, Connected, Unfinished
  <1>4. ReceiverFits(r)
    BY <1>2 DEF Fits, ReceiverFits, Closes, Connected
  <1>5. AppFits(r) /\ Awakes(r)
    BY <1>1, <1>2 DEF Fits, AppFits, Awakes, Closes, AppEnded
  <1>6. Carried(r)
    BY <1>2 DEF Fits, Carried, Carries, Closes, Connected
  <1> QED BY <1>1, <1>2, <1>3, <1>4, <1>5, <1>6 DEF Fits, Closes, Connected

LEMMA CloseqFits ==
  ASSUME NEW s, Well(s), Around
  PROVE  Fits(TakeCloseq(s))
  <1> DEFINE c == [s EXCEPT !.on_closeq = FALSE, !.fss = FinPosition(s), !.on_timeout_list = FALSE]
             x == [c EXCEPT !.on_closeq_int = TRUE]
             d == [c EXCEPT !.state = Closing(@)]
             w == [c EXCEPT !.state = Closing(@), !.control_list_waiting = TRUE]
  <1>1. IsStream(s) /\ Fits(s) /\ done.sent \in Int
    BY DEF Well, Sound, Around
  <1>2. CASE s.on_closeq
    <2>1. s.state \in Connected /\ peer.st \notin {"closed", "syn_sent"}
      BY <1>1, <1>2 DEF Well, Sound, InOnePlace, Unreached, Connected, Fits
    <2>2. FinPosition(s) = done.sent + 1
      <3>1. CASE s.sndbuf = NoBuf
        <4>1. s.snd_una = 1 /\ done.sent = 0 /\ s.snd_una <= s.snd_nxt /\ s.snd_nxt <= done.sent + 1
          BY <1>1, <2>1, <3>1 DEF Fits, SenderFits, Connected, Unfinished, FinHeldBack
        <4>2. s.snd_nxt \in Int
          BY <1>1 DEF IsStream
        <4> QED BY <3>1, <4>1, <4>2 DEF FinPosition
      <3>2. CASE s.sndbuf # NoBuf
        BY <1>1, <2>1, <3>2 DEF FinPosition, Fits, SenderFits, Connected, Unfinished
      <3> QED BY <3>1, <3>2
    <2>3. IsStream(c) /\ Closes(s, c) /\ c.state = s.state
      <3>1. done.sent + 1 \in Int
        BY <1>1
      <3> QED BY <1>1, <2>2, <3>1, FieldNames DEF IsStream, Closes
    <2>4. Closing(s.state) \in States
      BY <2>1 DEF Closing, Connected, States
    <2> HIDE DEF c
    <2>5. /\ IsStream(x) /\ Closes(s, x) /\ x.state = s.state
          /\ IsStream(d) /\ Closes(s, d) /\ d.state = Closing(s.state)
          /\ IsStream(w) /\ Closes(s, w) /\ w.state = Closing(s.state)
      BY <2>3, <2>4, FieldNames, SMTT(30) DEF IsStream, Closes
    <2> HIDE DEF x, d, w
    <2>6. Fits(c) /\ Fits(x) /\ (~s.have_reset => Fits(d) /\ Fits(w))
      BY <1>1, <1>2, <2>1, <2>3, <2>5, ClosesFits
    <2>7. Fits(DestroyTcpStream(c))
      BY <2>1, <2>3, <2>6, DestroyFits DEF Around, PeerFits
    <2>8. ~s.have_reset => Fits(nty_tcp_addto_controllist(d))
      BY <2>5, <2>6, ListsFit
    <2> QED BY <1>2, <2>6, <2>7, <2>8 DEF TakeCloseq, c, x, d, w
  <1>3. CASE ~s.on_closeq
    BY <1>1, <1>3 DEF TakeCloseq
  <1> QED BY <1>2, <1>3

LEMMA ApicallsFit ==
  ASSUME NEW s, Well(s), Around
  PROVE  Fits(nty_tcp_handle_apicall(s))
  BY SendqFits, CloseqFits DEF nty_tcp_handle_apicall

-----------------------------------------------------------------------------
(* Receiving.                                                              *)

(* A segment for a connection that exists acknowledges what we have sent.  *)
LEMMA AnswersUs ==
  ASSUME NEW s, Fits(s), s.state \notin {"NONE", "SYN_RCVD", "CLOSED"},
         NEW p, Arrives(p), ~Has(p, "RST")
  PROVE  /\ ~Has(p, "SYN") /\ Has(p, "ACK") /\ 1 <= p.ack /\ p.ack <= peer.nxt
         /\ peer.st \notin {"closed", "syn_sent"}
  BY DEF Fits, Arrives, Has

LEMMA TimeoutListFits ==
  ASSUME NEW s, IsStream(s), Fits(s), s.state \notin {"NONE", "SYN_RCVD"}, ~s.on_timeout_list
  PROVE  Fits(AddtoTimeoutList(s))
  <1> DEFINE r == [s EXCEPT !.on_timeout_list = TRUE]
  <1>1. AddtoTimeoutList(s) = r
    BY DEF AddtoTimeoutList
  <1>2. /\ r.state = s.state /\ r.rcv_nxt = s.rcv_nxt /\ r.in_order = s.in_order /\ r.ooo = s.ooo
        /\ r.merged_len = s.merged_len /\ r.snd_nxt = s.snd_nxt /\ r.snd_una = s.snd_una
        /\ r.fss = s.fss /\ r.sndbuf = s.sndbuf /\ r.nic = s.nic
        /\ r.on_rto = s.on_rto /\ r.on_sendq = s.on_sendq /\ r.on_closeq = s.on_closeq
        /\ r.on_send_list = s.on_send_list /\ r.have_reset = s.have_reset
        /\ r.orphan = s.orphan /\ r.socket = s.socket /\ r.in_acceptq = s.in_acceptq
        /\ r.signals = s.signals /\ r.crashed = s.crashed /\ r.last_ack_seq = s.last_ack_seq
    BY FieldNames DEF IsStream
  <1> HIDE DEF r
  <1>3. SenderFits(r)
    BY <1>2 DEF Fits, SenderFits, FinHeldBack
  <1>4. ReceiverFits(r)
    BY <1>2 DEF Fits, ReceiverFits
  <1>5. AppFits(r) /\ Awakes(r)
    BY <1>2 DEF Fits, AppFits, Awakes
  <1>6. Carried(r)
    BY <1>2 DEF Fits, Carried, Carries
  <1> QED BY <1>1, <1>2, <1>3, <1>4, <1>5, <1>6 DEF Fits

(* what a payload leaves alone *)
SameButReceived(s, r) ==
  /\ r.state = s.state /\ r.snd_nxt = s.snd_nxt /\ r.snd_una = s.snd_una
  /\ r.fss = s.fss /\ r.is_fin_sent = s.is_fin_sent /\ r.sndbuf = s.sndbuf /\ r.nic = s.nic
  /\ r.on_send_list = s.on_send_list /\ r.on_rto = s.on_rto
  /\ r.on_sendq = s.on_sendq /\ r.on_closeq = s.on_closeq
  /\ r.on_timeout_list = s.on_timeout_list /\ r.have_reset = s.have_reset
  /\ r.orphan = s.orphan /\ r.socket = s.socket /\ r.in_acceptq = s.in_acceptq
  /\ r.crashed = s.crashed /\ r.last_ack_seq = s.last_ack_seq

LEMMA PayloadFits ==
  ASSUME NEW s, Well(s), Around, s.state \in {"ESTABLISHED", "FIN_WAIT_1", "FIN_WAIT_2"},
         NEW p \in Segments, Arrives(p)
  PROVE  LET d == Payload(s, p) IN Fits(d) /\ d.state = s.state
  <1> DEFINE next == FirstGap(s, p)
             m == IF s.state \in {"FIN_WAIT_1", "FIN_WAIT_2"} THEN 0
                  ELSE s.merged_len + next - s.in_order
             O == {b \in Stored(s, p) : b > next}
             r == [s EXCEPT !.in_order = next, !.rcv_nxt = next,
                            !.ooo = O, !.merged_len = m]
             g == nty_tcp_process_payload(s, p)
  <1>1. IsStream(s) /\ Fits(s) /\ s.rcv_nxt = s.in_order
    BY DEF Well, Sound, Fits, ReceiverFits
  <1>2. /\ next \in Int /\ next >= s.in_order /\ s.in_order \in Int /\ s.merged_len \in Int
        /\ peer.una \in Int /\ done.got \in Int
    BY <1>1, FirstGapType DEF IsStream, Around, Peers
  (* what is stored the peer has sent *)
  <1>13. next <= PeerSent + 1 /\ \A b \in O : b <= PeerSent
    <2>1. /\ PeerSent \in Int /\ p.seq \in Int /\ p.len \in Int
          /\ p.len > 0 => p.seq + p.len <= PeerSent + 1
      BY DEF Around, Peers, PeerSent, Segments, Arrives
    <2>2. \A b \in s.ooo : b <= PeerSent
      BY <1>1 DEF Fits, ReceiverFits
    <2>3. ASSUME NEW b \in Stored(s, p) PROVE b <= PeerSent
      <3>1. b \in s.ooo \/ b \in p.seq .. p.seq + p.len - 1
        BY DEF Stored
      <3> QED BY <2>1, <2>2, <3>1
    <2>4. s.in_order .. next - 1 \subseteq Stored(s, p)
      BY <1>1, FirstGapType
    <2>5. s.in_order <= PeerSent + 1
      BY <1>1 DEF Fits, ReceiverFits
    <2> HIDE DEF next
    <2>6. next <= PeerSent + 1
      <3>1. CASE next = s.in_order
        BY <2>5, <3>1
      <3>2. CASE next # s.in_order
        <4>1. next - 1 \in Stored(s, p)
          BY <1>2, <2>4, <3>2
        <4> QED BY <1>2, <2>1, <2>3, <4>1
      <3> QED BY <3>1, <3>2
    <2> QED BY <2>3, <2>6 DEF O
  <1> HIDE DEF next
  <1>3. g = IF s.state = "ESTABLISHED" /\ s.socket /\ next > s.rcv_nxt THEN Signal(r, "read") ELSE r
    BY DEF nty_tcp_process_payload, next
  <1>4. m \in Int
    BY <1>2
  <1> HIDE DEF m, O
  <1>5. /\ DOMAIN r = Fields /\ SameButReceived(s, r) /\ r.signals = s.signals
        /\ r.rcv_nxt = next /\ r.in_order = next /\ r.merged_len = m /\ r.ooo = O
    BY <1>1, FieldNames DEF IsStream, SameButReceived
  <1> HIDE DEF r
  <1>6. /\ SameButReceived(s, g) /\ s.signals \subseteq g.signals
        /\ g.rcv_nxt = next /\ g.in_order = next /\ g.merged_len = m /\ g.ooo = O
        /\ s.state = "ESTABLISHED" /\ s.socket /\ next > s.rcv_nxt => "read" \in g.signals
    BY <1>3, <1>5, FieldNames DEF Signal, SameButReceived
  <1> HIDE DEF g
  <1>7. Fits(g)
    <2>1. SenderFits(g)
      BY <1>1, <1>6 DEF Fits, SenderFits, FinHeldBack, SameButReceived
    <2>2. ReceiverFits(g)
      <3>1. /\ 1 <= g.in_order /\ 0 <= g.merged_len
            /\ done.got + g.merged_len <= g.in_order - 1
        <4>1. /\ 1 <= s.in_order /\ 0 <= s.merged_len
              /\ done.got + s.merged_len <= s.in_order - 1
          BY <1>1 DEF Fits, ReceiverFits
        <4>2. m = 0 \/ m = s.merged_len + next - s.in_order
          BY DEF m
        <4> QED BY <1>2, <1>6, <4>1, <4>2
      <3>2. /\ g.in_order <= PeerSent + 1 /\ \A b \in g.ooo : b <= PeerSent
        BY <1>6, <1>13
      <3>3. s.state = "ESTABLISHED" => done.got + g.merged_len = g.in_order - 1
        <4>1. s.state = "ESTABLISHED" =>
                done.got + s.merged_len = s.in_order - 1 /\ m = s.merged_len + next - s.in_order
          BY <1>1 DEF Fits, ReceiverFits, m
        <4> QED BY <1>2, <1>6, <4>1
      <3>4. peer.una <= g.rcv_nxt
        BY <1>1, <1>2, <1>6 DEF Fits, ReceiverFits
      <3>5. peer.st \notin {"closed", "syn_sent"}
        BY <1>1 DEF Fits
      <3> QED BY <1>1, <1>6, <3>1, <3>2, <3>3, <3>4, <3>5 DEF ReceiverFits, SameButReceived
    <2>3. AppFits(g)
      BY <1>1, <1>6 DEF Fits, AppFits, SameButReceived
    <2>4. Awakes(g)
      <3>1. s.state # "ESTABLISHED" => ~s.socket
        BY DEF Well, Sound, InOnePlace, Unreached
      <3>2. s.state = "ESTABLISHED" => (m = s.merged_len \/ next > s.rcv_nxt)
        BY <1>1, <1>2 DEF m
      <3> QED BY <1>1, <1>6, <3>1, <3>2 DEF Fits, Awakes, SameButReceived
    <2>5. Carried(g)
      <3>1. ASSUME NEW q \in Segments, Carries(s, q) PROVE Carries(g, q)
        <4>1. q.ack \in Int
          BY DEF Segments
        <4>2. q.ack <= s.rcv_nxt => q.ack <= next
          BY <1>1, <1>2, <4>1
        <4> QED BY <1>6, <3>1, <4>2 DEF Carries, SameButReceived
      <3>2. s.nic \in Seq(Segments) /\ down \in Seq(Segments)
        BY <1>1 DEF IsStream, Around
      <3> QED BY <1>1, <1>6, <3>1, <3>2 DEF Fits, Carried, SameButReceived
    <2> QED BY <1>1, <1>6, <2>1, <2>2, <2>3, <2>4, <2>5 DEF Fits, SameButReceived
  <1>8. IsStream(g)
    BY <1>1, ProcessPayloadKeeps DEF g, Keeps
  <1>9. ASSUME NEW q, IsStream(q), Fits(q), NEW opt \in {"now", "aggregate"}
        PROVE  Fits(nty_tcp_enqueue_acklist(q, opt))
    BY <1>9, ListsFit
  <1>10. \A opt \in {"now", "aggregate"} :
           /\ Fits(nty_tcp_enqueue_acklist(g, opt)) /\ Fits(nty_tcp_enqueue_acklist(s, opt))
    BY <1>1, <1>7, <1>8, <1>9
  <1>11. Payload(s, p).state = s.state
    BY <1>1, PayloadKeeps DEF Keeps
  <1> QED BY <1>1, <1>10, <1>11 DEF Payload, g

(* what process_ack leaves alone *)
SameButAcked(s, r) ==
  /\ r.state = s.state /\ r.rcv_nxt = s.rcv_nxt /\ r.in_order = s.in_order /\ r.ooo = s.ooo
  /\ r.merged_len = s.merged_len /\ r.fss = s.fss /\ r.is_fin_sent = s.is_fin_sent
  /\ r.nic = s.nic /\ r.on_sendq = s.on_sendq /\ r.on_closeq = s.on_closeq
  /\ r.on_timeout_list = s.on_timeout_list /\ r.have_reset = s.have_reset
  /\ r.orphan = s.orphan /\ r.socket = s.socket /\ r.in_acceptq = s.in_acceptq
  /\ r.signals = s.signals /\ r.crashed = s.crashed

(* An acknowledgement is as good as where it leaves the send buffer, the   *)
(* two numbers of it and snd_nxt.                                          *)
LEMMA AckedFits ==
  ASSUME NEW s, Fits(s), s.state \in Unfinished \cup {"FIN_WAIT_2"},
         NEW z, SameButAcked(s, z), z.sndbuf # NoBuf, z.snd_una <= peer.nxt,
         s.state \in Unfinished =>
           /\ 1 <= z.snd_una /\ z.snd_una <= z.snd_nxt
           /\ z.last_ack_seq <= z.snd_una /\ AcksFrom(z.snd_una)
           /\ z.sndbuf.head = z.snd_una /\ z.sndbuf.head + z.sndbuf.len = done.sent + 1,
         FinHeldBack(z) => z.snd_nxt <= done.sent + 1
  PROVE  Fits(z)
  <1>1. SenderFits(z)
    BY DEF Fits, SenderFits, SameButAcked, Unfinished, Connected
  <1>2. ReceiverFits(z)
    BY DEF Fits, ReceiverFits, SameButAcked
  <1>3. AppFits(z) /\ Awakes(z)
    BY DEF Fits, AppFits, Awakes, SameButAcked
  <1>4. Carried(z)
    BY DEF Fits, Carried, Carries, SameButAcked
  <1> QED BY <1>1, <1>2, <1>3, <1>4 DEF Fits, SameButAcked

(* The bytes up to a leave the send buffer, which then begins at a.        *)
LEMMA AcknowledgedIs ==
  ASSUME NEW s, IsStream(s), NEW a \in Int, s.sndbuf.head + s.sndbuf.len # a - 1
  PROVE  LET q == Acknowledged(s, a) IN
         /\ SameButAcked(s, q) /\ q.snd_nxt = s.snd_nxt /\ q.on_send_list = s.on_send_list
         /\ q.snd_una = a /\ q.last_ack_seq = s.last_ack_seq
         /\ q.sndbuf # NoBuf /\ q.sndbuf.head = a
         /\ q.sndbuf.head + q.sndbuf.len = s.sndbuf.head + s.sndbuf.len
  <1> DEFINE rmlen == a - s.sndbuf.head
             buf == [head |-> a, len |-> s.sndbuf.len - rmlen]
             wnd == SndBuf - (s.sndbuf.len - rmlen)
             cwnd == IF s.cwnd < s.ssthresh THEN s.cwnd + Mss * (rmlen \div (Mss - OptLen)) ELSE s.cwnd
             r == [s EXCEPT !.sndbuf = buf, !.snd_una = a, !.snd_wnd = wnd, !.cwnd = cwnd]
             q == Acknowledged(s, a)
  <1>1. s.sndbuf.head \in Int /\ s.sndbuf.len \in Int
    BY DEF IsStream
  <1>2. q = IF s.snd_wnd = 0 THEN [r EXCEPT !.stuck = TRUE] ELSE UpdateRetransmissionTimer(r)
    BY DEF Acknowledged
  <1>3. buf # NoBuf /\ buf.head = a /\ buf.head + buf.len = s.sndbuf.head + s.sndbuf.len
    BY <1>1 DEF NoBuf
  <1> HIDE DEF buf, wnd, cwnd
  <1>4. /\ DOMAIN r = Fields /\ SameButAcked(s, r) /\ r.snd_nxt = s.snd_nxt
        /\ r.on_send_list = s.on_send_list /\ r.last_ack_seq = s.last_ack_seq
        /\ r.sndbuf = buf /\ r.snd_una = a
    BY FieldNames DEF IsStream, SameButAcked
  <1> HIDE DEF r
  <1>5. /\ SameButAcked(s, q) /\ q.snd_nxt = s.snd_nxt /\ q.on_send_list = s.on_send_list
        /\ q.sndbuf = buf /\ q.snd_una = a /\ q.last_ack_seq = s.last_ack_seq
    BY <1>2, <1>4, FieldNames DEF UpdateRetransmissionTimer, SameButAcked
  <1> QED BY <1>3, <1>5

(* An ACK that repeats the last one may take snd_nxt back to where it is.  *)
LEMMA RepeatedIs ==
  ASSUME NEW s, IsStream(s), s.sndbuf # NoBuf, NEW a \in Int, NEW env
  PROVE  LET q == Repeated(s, a, env) IN
         /\ SameButAcked(s, q) /\ q.snd_una = s.snd_una /\ q.sndbuf = s.sndbuf
         /\ q.last_ack_seq = s.last_ack_seq
         /\ q.snd_nxt = a \/ (q.snd_nxt = s.snd_nxt /\ q.on_send_list = s.on_send_list)
  <1> DEFINE l == [s EXCEPT !.on_send_list = TRUE]
             w == HalfWindow(s) + 3 * Mss
             n == Min2(l.nrtx + 1, Max2(l.nrtx, TCP_MAX_RTX))
             r == [l EXCEPT !.snd_nxt = a, !.ssthresh = HalfWindow(s), !.cwnd = w, !.nrtx = n]
             v == [s EXCEPT !.cwnd = IF @ < MaxCwnd THEN @ + Mss ELSE @]
  <1>1. FastRetransmit(s, a) = r
    BY DEF FastRetransmit, nty_tcp_addto_sendlist
  <1> HIDE DEF w, n
  <1>2. /\ SameButAcked(s, r) /\ r.snd_una = s.snd_una /\ r.sndbuf = s.sndbuf
        /\ r.last_ack_seq = s.last_ack_seq /\ r.snd_nxt = a
    BY FieldNames DEF IsStream, SameButAcked
  <1>3. /\ SameButAcked(s, v) /\ v.snd_una = s.snd_una /\ v.sndbuf = s.sndbuf
        /\ v.last_ack_seq = s.last_ack_seq /\ v.snd_nxt = s.snd_nxt
        /\ v.on_send_list = s.on_send_list
    BY FieldNames DEF IsStream, SameButAcked
  <1>4. SameButAcked(s, s)
    BY DEF SameButAcked
  <1> HIDE DEF r, v
  <1>5. Repeated(s, a, env) = r \/ Repeated(s, a, env) = v \/ Repeated(s, a, env) = s
    BY <1>1 DEF Repeated, v
  <1> QED BY <1>2, <1>3, <1>4, <1>5

(* the segment that is handled: the first of those on the way *)
First(p) == AcksFrom(p.ack) /\ \E i \in DOMAIN up : up[i] = p

LEMMA ProcessAckFits ==
  ASSUME NEW s, Well(s), Around, s.state \in Unfinished \cup {"FIN_WAIT_2"},
         NEW p \in Segments, First(p), NEW env, p.ack <= peer.nxt
  PROVE  LET q == nty_tcp_process_ack(s, p, env) IN Fits(q) /\ SameButAcked(s, q)
  <1> DEFINE a == AckOfData(s, p)
             nxt == Max2(s.snd_nxt, a)
             listed == s.on_send_list /\ (a <= s.snd_nxt \/ s.sndbuf.len > 0)
             f == [s EXCEPT !.last_ack_seq = a, !.snd_nxt = nxt, !.on_send_list = listed]
             g == Repeated(s, a, env)
             q == nty_tcp_process_ack(s, p, env)
  <1>1. IsStream(s) /\ Fits(s) /\ done.sent \in Int /\ peer.nxt \in Int /\ Sound(s)
    BY DEF Well, Sound, Around, Peers
  <1>2. /\ p.ack \in Int /\ s.snd_nxt \in Int /\ s.snd_una \in Int /\ s.last_ack_seq \in Int
        /\ s.sndbuf.head \in Int /\ s.sndbuf.len \in Int
    BY <1>1 DEF IsStream, Segments
  <1>3. a \in Int /\ a <= p.ack /\ a <= peer.nxt
    BY <1>1, <1>2 DEF AckOfData
  <1>4. AcksFrom(a)
    <2>1. up \in Seq(Segments) /\ \A i \in DOMAIN up : p.ack <= up[i].ack
      BY DEF Around, First, AcksFrom
    <2>2. ASSUME NEW i \in DOMAIN up PROVE up[i].ack \in Int
      <3>1. up[i] \in Segments
        BY <2>1
      <3> QED BY <3>1 DEF Segments
    <2> HIDE DEF a
    <2> QED BY <1>2, <1>3, <2>1, <2>2 DEF AcksFrom
  <1>5. s.state \in Unfinished =>
          /\ 1 <= s.snd_una /\ s.snd_una <= s.snd_nxt /\ s.last_ack_seq <= s.snd_una
          /\ s.snd_una <= a /\ s.snd_una <= done.sent + 1
    <2>1. SUFFICES ASSUME s.state \in Unfinished
                   PROVE  /\ 1 <= s.snd_una /\ s.snd_una <= s.snd_nxt
                          /\ s.last_ack_seq <= s.snd_una
                          /\ s.snd_una <= a /\ s.snd_una <= done.sent + 1
      OBVIOUS
    <2>2. s.snd_una <= done.sent + 1
      BY <1>1, <2>1, BufferRange
    <2>3. /\ 1 <= s.snd_una /\ s.snd_una <= s.snd_nxt /\ s.last_ack_seq <= s.snd_una
          /\ AcksFrom(s.snd_una)
      BY <1>1, <2>1 DEF Fits, SenderFits
    <2>4. s.snd_una <= p.ack
      BY <2>3 DEF AcksFrom, First
    <2>5. CASE a = p.ack
      BY <2>2, <2>3, <2>4, <2>5
    <2>6. CASE a # p.ack
      <3>1. a = s.fss /\ s.is_fin_sent
        BY <1>1, <1>2, <2>6 DEF AckOfData, IsStream
      <3>2. s.state \in {"FIN_WAIT_1", "LAST_ACK", "CLOSING"}
        BY <1>1, <2>1, <3>1 DEF Sound, FinBehindData, Unfinished
      <3>3. s.fss = done.sent + 1
        BY <1>1, <3>2 DEF Fits, SenderFits
      <3> QED BY <2>2, <2>3, <3>1, <3>3
    <2> QED BY <2>5, <2>6
  <1>6. Repeats(s, p, a) => a = s.last_ack_seq
    BY DEF Repeats
  <1>7. q = IF s.sndbuf = NoBuf \/ a > s.sndbuf.head + s.sndbuf.len THEN s
            ELSE LET r == IF Repeats(s, p, a) THEN g ELSE f
                 IN  IF a <= s.sndbuf.head THEN r ELSE Acknowledged(r, a)
    BY DEF nty_tcp_process_ack
  <1> HIDE DEF a
  <1>8. nxt \in Int /\ s.snd_nxt <= nxt /\ a <= nxt /\ (nxt = s.snd_nxt \/ nxt = a)
    BY <1>2, <1>3 DEF Max2
  <1> HIDE DEF nxt, listed
  <1>9. /\ IsStream(f) /\ f.snd_nxt = nxt /\ f.on_send_list = listed /\ f.last_ack_seq = a
        /\ SameButAcked(s, f) /\ f.snd_una = s.snd_una /\ f.sndbuf = s.sndbuf
    BY <1>1, <1>3, <1>8, FieldNames DEF IsStream, SameButAcked
  <1> HIDE DEF f, g, q
  <1>10. CASE s.sndbuf = NoBuf \/ a > s.sndbuf.head + s.sndbuf.len
    <2>1. q = s
      BY <1>7, <1>10
    <2> QED BY <1>1, <2>1 DEF SameButAcked, q
  <1>11. CASE s.sndbuf # NoBuf /\ a <= s.sndbuf.head + s.sndbuf.len
    <2>1. s.state \in Unfinished => /\ s.sndbuf.head = s.snd_una
                                    /\ s.sndbuf.head + s.sndbuf.len = done.sent + 1
      BY <1>1, <1>11 DEF Fits, SenderFits
    <2>2. s.snd_una <= peer.nxt /\ (s.state \in Unfinished => AcksFrom(s.snd_una))
      BY <1>1 DEF Fits, SenderFits
    <2>3. FinHeldBack(s) => s.snd_nxt <= done.sent + 1 /\ s.state \in Unfinished
      BY <1>1 DEF Fits, SenderFits, FinHeldBack, Connected, Unfinished
    <2>4. CASE Repeats(s, p, a)
      <3>1. s.state \in Unfinished => a = s.snd_una
        BY <1>2, <1>3, <1>5, <1>6, <2>4
      <3>2. a <= s.sndbuf.head
        BY <1>1, <1>2, <1>3, <1>11, <2>1, <3>1 DEF Sound, FinBehindData
      <3>3. q = g
        BY <1>2, <1>3, <1>7, <1>11, <2>4, <3>2
      <3>4. /\ SameButAcked(s, g) /\ g.snd_una = s.snd_una /\ g.sndbuf = s.sndbuf
            /\ g.last_ack_seq = s.last_ack_seq
            /\ g.snd_nxt = a \/ (g.snd_nxt = s.snd_nxt /\ g.on_send_list = s.on_send_list)
        BY <1>1, <1>3, <1>11, RepeatedIs DEF g
      <3>5. s.state \in Unfinished => g.snd_una <= g.snd_nxt
        BY <1>2, <1>3, <1>5, <3>1, <3>4
      <3>6. FinHeldBack(g) => g.snd_nxt <= done.sent + 1
        <4>1. CASE g.snd_nxt = a
          <5>1. FinHeldBack(g) => s.state \in Unfinished
            BY <3>4 DEF FinHeldBack, SameButAcked, Connected, Unfinished
          <5> QED BY <1>5, <3>1, <4>1, <5>1
        <4>2. CASE g.snd_nxt = s.snd_nxt /\ g.on_send_list = s.on_send_list
          BY <2>3, <3>4, <4>2 DEF FinHeldBack, SameButAcked
        <4> QED BY <3>4, <4>1, <4>2
      <3>7. Fits(g)
        BY <1>1, <1>5, <1>11, <2>1, <2>2, <3>4, <3>5, <3>6, AckedFits
      <3> QED BY <3>3, <3>4, <3>7 DEF q
    <2>5. CASE ~Repeats(s, p, a) /\ a <= s.sndbuf.head
      <3>1. q = f
        BY <1>2, <1>3, <1>7, <1>11, <2>5
      <3>2. s.state \in Unfinished => f.snd_una <= f.snd_nxt /\ f.last_ack_seq <= f.snd_una
        BY <1>2, <1>3, <1>5, <1>8, <1>9, <2>1, <2>5
      <3>3. FinHeldBack(f) => f.snd_nxt <= done.sent + 1
        <4>1. FinHeldBack(f) => FinHeldBack(s)
          BY <1>9 DEF FinHeldBack, SameButAcked, listed
        <4> QED BY <1>1, <1>2, <1>3, <1>5, <1>8, <1>9, <1>11, <2>1, <2>3, <4>1
      <3>4. Fits(f)
        BY <1>1, <1>5, <1>9, <1>11, <2>1, <2>2, <3>2, <3>3, AckedFits
      <3> QED BY <1>9, <3>1, <3>4 DEF q
    <2>6. CASE ~Repeats(s, p, a) /\ s.sndbuf.head < a
      <3> DEFINE z == Acknowledged(f, a)
      <3>1. s.state \in Unfinished
        BY <1>1, <1>2, <1>3, <1>11, <2>6 DEF Sound, FinBehindData
      <3>2. q = z
        BY <1>2, <1>3, <1>7, <1>11, <2>6
      <3>3. f.sndbuf.head + f.sndbuf.len # a - 1
        BY <1>2, <1>3, <1>9, <1>11
      <3>4. /\ SameButAcked(f, z) /\ z.snd_nxt = nxt /\ z.on_send_list = listed
            /\ z.snd_una = a /\ z.last_ack_seq = a
            /\ z.sndbuf # NoBuf /\ z.sndbuf.head = a
            /\ z.sndbuf.head + z.sndbuf.len = done.sent + 1
        BY <1>3, <1>9, <2>1, <3>1, <3>3, AcknowledgedIs
      <3> HIDE DEF z
      <3>5. SameButAcked(s, z)
        BY <1>9, <3>4 DEF SameButAcked
      <3>6. FinHeldBack(z) => z.snd_nxt <= done.sent + 1
        <4>1. FinHeldBack(z) => FinHeldBack(s)
          BY <3>4, <3>5 DEF FinHeldBack, SameButAcked, listed
        <4> QED BY <1>1, <1>2, <1>3, <1>8, <1>11, <2>1, <2>3, <3>4, <4>1
      <3>7. 1 <= a /\ a <= nxt /\ a <= a
        BY <1>2, <1>3, <1>5, <1>8, <3>1
      <3>8. Fits(z)
        BY <1>1, <1>3, <1>4, <3>1, <3>4, <3>5, <3>6, <3>7, AckedFits
      <3> QED BY <3>2, <3>5, <3>8 DEF q
    <2> QED BY <1>2, <1>3, <2>4, <2>5, <2>6
  <1> QED BY <1>2, <1>3, <1>10, <1>11

LEMMA OutOfWindowFits ==
  ASSUME NEW s, Well(s), NEW p \in Segments
  PROVE  Fits(OutOfWindow(s, p))
  <1>1. IsStream(s) /\ Fits(s)
    BY DEF Well, Sound
  <1>2. Fits(nty_tcp_addto_controllist(AddtoTimewaitList(s)))
    <2>1. Eases(s, AddtoTimewaitList(s)) /\ IsStream(AddtoTimewaitList(s))
      <3>1. IsStream(AddtoTimewaitList(s))
        BY <1>1, FieldNames DEF AddtoTimewaitList, IsStream
      <3> QED BY <1>1, <3>1, ListsEase
    <2>2. Fits(AddtoTimewaitList(s))
      BY <1>1, <2>1, EasesFits
    <2> QED BY <2>1, <2>2, ListsFit
  <1>3. /\ Fits(nty_tcp_addto_controllist(s)) /\ Fits(nty_tcp_enqueue_acklist(s, "now"))
        /\ Fits(nty_tcp_enqueue_acklist(s, "aggregate"))
    BY <1>1, ListsFit
  <1> QED BY <1>1, <1>2, <1>3 DEF OutOfWindow

(* The handlers, state by state. The ACK that ends the handshake is that   *)
(* of the SYN, as nothing else has been sent.                              *)
LEMMA SynRcvdFits ==
  ASSUME NEW s, Well(s), Around, s.state = "SYN_RCVD", NEW p \in Segments, Arrives(p), First(p),
         Has(p, "ACK"), NEW env \in Env
  PROVE  Fits(nty_tcp_handle_syn_rcvd(s, p, env))
  <1> DEFINE una == s.snd_una + 1
             cwnd == IF s.cwnd = 1 THEN 2 * Mss ELSE Mss
             e == [RemoveFromRTOList(s) EXCEPT
                     !.snd_una = @ + 1, !.snd_nxt = p.ack, !.rcv_nxt = 1, !.nrtx = 0,
                     !.cwnd = IF @ = 1 THEN 2 * Mss ELSE Mss]
             c == [e EXCEPT !.state = "CLOSED"]
             b == [e EXCEPT !.state = "ESTABLISHED", !.in_acceptq = TRUE]
  <1>1. /\ IsStream(s) /\ Fits(s) /\ Sound(s) /\ NothingYet /\ s.snd_una = 0 /\ s.rcv_nxt = 1
        /\ s.in_order = 1 /\ s.merged_len = 0 /\ s.sndbuf = NoBuf /\ s.last_ack_seq = 0
        /\ ~s.on_send_list /\ ~s.on_timeout_list
    BY DEF Well, Sound, Fits, SenderFits, ReceiverFits
  <1>2. ~Has(p, "SYN") /\ 1 <= p.ack /\ p.ack <= peer.nxt /\ peer.st \in {"open", "reset"}
    BY DEF Arrives, Has
  <1>3. p.ack = 1 /\ 1 <= peer.nxt
    <2>1. p.ack \in Int /\ peer.nxt \in Int
      BY DEF Segments, Around, Peers
    <2>2. ~peer.gotfin /\ peer.nxt <= 1
      BY <1>1, <2>1 DEF Around, PeerFits, NothingYet, AppEnded
    <2> QED BY <1>2, <2>1, <2>2
  <1>8. AcksFrom(1)
    BY <1>3 DEF First
  <1>4. Unreached(s)
    BY <1>1 DEF Sound, InOnePlace
  <1>5. /\ IsStream(e) /\ e.snd_una = 1 /\ e.snd_nxt = 1 /\ e.rcv_nxt = 1 /\ ~e.on_rto
        /\ e.in_order = 1 /\ e.ooo = s.ooo /\ e.merged_len = 0 /\ e.sndbuf = NoBuf
        /\ ~e.on_send_list /\ ~e.on_timeout_list /\ Unreached(e)
        /\ e.nic = s.nic /\ e.have_reset = s.have_reset /\ e.orphan = s.orphan
        /\ e.signals = s.signals /\ e.crashed = s.crashed /\ e.last_ack_seq = s.last_ack_seq
    <2>1. ASSUME NEW n \in Nat
          PROVE  LET z == [RemoveFromRTOList(s) EXCEPT
                             !.snd_una = 1, !.snd_nxt = 1, !.rcv_nxt = 1, !.nrtx = 0, !.cwnd = n]
                 IN  /\ IsStream(z) /\ z.snd_una = 1 /\ z.snd_nxt = 1 /\ z.rcv_nxt = 1 /\ ~z.on_rto
                     /\ z.in_order = 1 /\ z.ooo = s.ooo /\ z.merged_len = 0 /\ z.sndbuf = NoBuf
                     /\ ~z.on_send_list /\ ~z.on_timeout_list /\ Unreached(z)
                     /\ z.nic = s.nic /\ z.have_reset = s.have_reset /\ z.orphan = s.orphan
                     /\ z.signals = s.signals /\ z.crashed = s.crashed /\ z.last_ack_seq = s.last_ack_seq
      BY <1>1, <1>4, FieldNames DEF IsStream, RemoveFromRTOList, Unreached
    <2>2. e = [RemoveFromRTOList(s) EXCEPT
                 !.snd_una = 1, !.snd_nxt = 1, !.rcv_nxt = 1, !.nrtx = 0, !.cwnd = cwnd]
      <3>1. RemoveFromRTOList(s).snd_una + 1 = 1 /\ RemoveFromRTOList(s).cwnd = s.cwnd
        BY <1>1, FieldNames DEF IsStream, RemoveFromRTOList
      <3> QED BY <1>3, <3>1
    <2>3. cwnd \in Nat
      BY TcpAssumption
    <2> HIDE DEF e, cwnd
    <2> QED BY <2>1, <2>2, <2>3
  <1> HIDE DEF e
  <1>6. CASE env.room # "enough"
    <2>1. /\ IsStream(c) /\ c.state = "CLOSED" /\ c.snd_una = 1 /\ c.rcv_nxt = 1
          /\ Unreached(c) /\ ~c.on_timeout_list /\ c.sndbuf = NoBuf
          /\ c.in_order = 1 /\ c.ooo = s.ooo /\ c.merged_len = 0
          /\ c.nic = s.nic /\ c.orphan = s.orphan /\ c.crashed = s.crashed
      BY <1>5, FieldNames DEF IsStream, States, Unreached
    <2> HIDE DEF c
    <2>2. Fits(c)
      <3>1. SenderFits(c)
        BY <1>3, <2>1 DEF SenderFits, Unreached, FinHeldBack, Connected, Unfinished
      <3>2. ReceiverFits(c)
        BY <1>1, <1>2, <2>1 DEF Fits, ReceiverFits, NothingYet
      <3>3. AppFits(c) /\ Awakes(c)
        BY <1>1, <2>1 DEF Fits, AppFits, Awakes, NothingYet, Unreached
      <3>4. Carried(c)
        BY <1>1, <2>1 DEF Fits, Carried, Carries
      <3> QED BY <1>1, <1>2, <2>1, <3>1, <3>2, <3>3, <3>4 DEF Fits
    <2> DEFINE k == nty_tcp_addto_controllist(c)
    <2>3. IsStream(k) /\ k.state = "CLOSED" /\ ~k.on_timeout_list /\ Fits(k)
      BY <2>1, <2>2, ListsFit, FieldNames, ZenonT(30) DEF IsStream, nty_tcp_addto_controllist
    <2> HIDE DEF k
    <2>4. Fits(AddtoTimeoutList(k))
      BY <2>3, TimeoutListFits
    <2> QED BY <1>3, <1>6, <2>4 DEF nty_tcp_handle_syn_rcvd, k, c, e
  <1>7. CASE env.room = "enough"
    <2> DEFINE t == AddtoTimeoutList(b)
               z == Signal(t, "accept")
    <2>1. /\ t = [b EXCEPT !.on_timeout_list = TRUE]
          /\ b.on_timeout_list = e.on_timeout_list
      BY <1>5, FieldNames DEF AddtoTimeoutList, IsStream
    <2>2. /\ z.state = "ESTABLISHED" /\ z.snd_una = 1 /\ z.snd_nxt = 1 /\ z.rcv_nxt = 1 /\ ~z.on_rto
          /\ z.in_order = 1 /\ z.ooo = s.ooo /\ z.merged_len = 0 /\ z.sndbuf = NoBuf /\ ~z.on_send_list
          /\ ~z.socket /\ ~z.on_sendq /\ ~z.on_closeq /\ "accept" \in z.signals
          /\ z.nic = s.nic /\ z.orphan = s.orphan /\ z.crashed = s.crashed
          /\ z.last_ack_seq = 0
      <3>1. /\ DOMAIN b = Fields /\ b.signals = e.signals
            /\ b.state = "ESTABLISHED" /\ b.snd_una = 1 /\ b.snd_nxt = 1 /\ b.rcv_nxt = 1 /\ ~b.on_rto
            /\ b.in_order = 1 /\ b.ooo = s.ooo /\ b.merged_len = 0 /\ b.sndbuf = NoBuf
            /\ ~b.on_send_list
            /\ ~b.socket /\ ~b.on_sendq /\ ~b.on_closeq
            /\ b.nic = s.nic /\ b.orphan = s.orphan /\ b.crashed = s.crashed
            /\ b.last_ack_seq = 0
        BY <1>1, <1>5, FieldNames DEF IsStream, Unreached
      <3> HIDE DEF b
      <3>2. /\ DOMAIN t = Fields /\ t.signals = e.signals
            /\ t.state = "ESTABLISHED" /\ t.snd_una = 1 /\ t.snd_nxt = 1 /\ t.rcv_nxt = 1 /\ ~t.on_rto
            /\ t.in_order = 1 /\ t.ooo = s.ooo /\ t.merged_len = 0 /\ t.sndbuf = NoBuf
            /\ ~t.on_send_list
            /\ ~t.socket /\ ~t.on_sendq /\ ~t.on_closeq
            /\ t.nic = s.nic /\ t.orphan = s.orphan /\ t.crashed = s.crashed
            /\ t.last_ack_seq = 0
        BY <2>1, <3>1, FieldNames
      <3> HIDE DEF t
      <3> QED BY <3>2, FieldNames DEF Signal
    <2> HIDE DEF z
    <2>3. done.sent = 0 /\ done.got = 0 /\ app \in {"accept", "await"} /\ ~s.orphan
      BY <1>1 DEF NothingYet, Fits, AppFits
    <2>4. SenderFits(z)
      BY <1>3, <1>8, <2>2, <2>3 DEF SenderFits, FinHeldBack, Connected, Unfinished
    <2>5. ReceiverFits(z)
      BY <1>1, <1>2, <2>2, <2>3 DEF Fits, ReceiverFits
    <2>6. AppFits(z) /\ Awakes(z)
      BY <2>2, <2>3 DEF AppFits, Awakes
    <2>7. Carried(z)
      BY <1>1, <2>2 DEF Fits, Carried, Carries
    <2>8. Fits(z)
      BY <1>1, <1>2, <2>2, <2>4, <2>5, <2>6, <2>7 DEF Fits
    <2> QED BY <1>3, <1>7, <2>8 DEF nty_tcp_handle_syn_rcvd, z, t, b, e
  <1> QED BY <1>6, <1>7

(* what the change to another state leaves alone *)
SameButState(s, r) ==
  /\ r.in_order = s.in_order /\ r.ooo = s.ooo /\ r.merged_len = s.merged_len /\ r.fss = s.fss
  /\ r.sndbuf = s.sndbuf /\ r.nic = s.nic
  /\ r.on_send_list = s.on_send_list
  /\ r.on_sendq = s.on_sendq /\ r.on_closeq = s.on_closeq
  /\ r.on_timeout_list = s.on_timeout_list /\ r.have_reset = s.have_reset
  /\ r.orphan = s.orphan /\ r.socket = s.socket /\ r.in_acceptq = s.in_acceptq
  /\ r.signals = s.signals /\ r.crashed = s.crashed /\ r.last_ack_seq = s.last_ack_seq

(* The FIN of the peer has the last number it has used.                    *)
LEMMA FinIsLast ==
  ASSUME NEW s, IsStream(s), Fits(s), Around, NEW p \in Segments, Arrives(p), FinInOrder(s, p)
  PROVE  peer.fin /\ s.rcv_nxt + 1 = peer.snd
  <1>1. peer.fin /\ p.seq = peer.snd - 1 /\ p.len = 0 /\ p.seq + p.len = s.rcv_nxt
    BY DEF FinInOrder, Arrives
  <1>2. peer.snd \in Int /\ s.rcv_nxt \in Int
    BY DEF IsStream, Around, Peers
  <1> QED BY <1>1, <1>2

(* one number more is expected: what is on the way stays as it was *)
LEMMA CarriedOn ==
  ASSUME NEW s, Well(s), Around, s.state # "NONE", NEW r, r.nic = s.nic, r.rcv_nxt \in Int,
         s.rcv_nxt <= r.rcv_nxt
  PROVE  Carried(r)
  <1>1. s.nic \in Seq(Segments) /\ down \in Seq(Segments) /\ s.rcv_nxt \in Int /\ Carried(s)
    BY DEF Well, Sound, IsStream, Around, Fits
  <1>2. ASSUME NEW q \in Segments, Carries(s, q) PROVE Carries(r, q)
    <2>1. q.ack \in Int
      BY DEF Segments
    <2> QED BY <1>1, <1>2, <2>1 DEF Carries
  <1> QED BY <1>1, <1>2 DEF Carried

LEMMA EstablishedFits ==
  ASSUME NEW s, Well(s), Around, s.state = "ESTABLISHED", NEW p \in Segments, NEW env,
         Arrives(p), First(p), ~Has(p, "RST")
  PROVE  Fits(nty_tcp_handle_established(s, p, env))
  <1> DEFINE r == Payload(s, p)
             q == nty_tcp_process_ack(r, p, env)
             w == [q EXCEPT !.state = "CLOSE_WAIT", !.rcv_nxt = @ + 1]
             f == nty_tcp_addto_controllist(w)
  <1>1. ~Has(p, "SYN") /\ Has(p, "ACK") /\ p.ack <= peer.nxt /\ peer.st \notin {"closed", "syn_sent"}
    BY AnswersUs DEF Well
  <1>2. Well(r) /\ r.state = "ESTABLISHED"
    <2>1. Follows(s, s) /\ Sound(s)
      BY DEF Well, Follows
    <2>2. Follows(s, r)
      BY <2>1, ListsFollow
    <2> QED BY <2>2, PayloadFits DEF Well, Follows
  <1> HIDE DEF r
  <1>3. Well(q) /\ q.state = "ESTABLISHED"
    <2>1. Follows(r, q) /\ q.state = "ESTABLISHED"
      BY <1>2, AckFollows DEF Well
    <2>2. Fits(q)
      BY <1>1, <1>2, ProcessAckFits DEF Unfinished
    <2> QED BY <2>1, <2>2 DEF Well, Follows
  <1> HIDE DEF q
  <1>4. IsStream(q) /\ Fits(q)
    BY <1>3 DEF Well, Sound
  <1>5. Fits(nty_tcp_enqueue_acklist(q, "now"))
    BY <1>4, ListsFit
  <1>6. ASSUME FinInOrder(q, p)
        PROVE  Fits(IF q.socket THEN Signal(f, "read") ELSE f)
    <2> DEFINE z == IF q.socket THEN Signal(f, "read") ELSE f
    <2>1. peer.fin /\ q.rcv_nxt + 1 = peer.snd
      BY <1>4, <1>6, FinIsLast
    <2>2. q.rcv_nxt \in Int /\ q.rcv_nxt + 1 \in Int /\ peer.una \in Int /\ done.got \in Int
          /\ q.merged_len \in Int /\ peer.snd \in Int
      <3>1. q.rcv_nxt \in Int /\ q.merged_len \in Int
        BY <1>4 DEF IsStream
      <3> QED BY <3>1 DEF Around, Peers
    <2>3. /\ DOMAIN w = Fields /\ SameButState(q, w) /\ w.state = "CLOSE_WAIT"
          /\ w.rcv_nxt = q.rcv_nxt + 1
          /\ w.snd_nxt = q.snd_nxt /\ w.snd_una = q.snd_una /\ w.on_rto = q.on_rto
      BY <1>4, FieldNames DEF IsStream, SameButState
    <2> HIDE DEF w
    <2>4. /\ DOMAIN f = Fields /\ SameButState(q, f) /\ f.state = "CLOSE_WAIT"
          /\ f.rcv_nxt = q.rcv_nxt + 1
          /\ f.snd_nxt = q.snd_nxt /\ f.snd_una = q.snd_una /\ f.on_rto = q.on_rto
      BY <2>3, FieldNames DEF nty_tcp_addto_controllist, SameButState
    <2> HIDE DEF f
    <2>5. Fits(f) \/ q.socket
      <3> SUFFICES ASSUME ~q.socket PROVE Fits(f)
        OBVIOUS
      <3>1. SenderFits(f)
        BY <1>3, <1>4, <2>4 DEF Fits, SenderFits, FinHeldBack, Connected, Unfinished, SameButState
      <3>2. ReceiverFits(f)
        BY <1>1, <1>3, <1>4, <2>1, <2>2, <2>4 DEF Fits, ReceiverFits, SameButState
      <3>3. AppFits(f) /\ Awakes(f)
        BY <1>3, <1>4, <2>4 DEF Fits, AppFits, Awakes, SameButState
      <3>4. Carried(f)
        BY <1>3, <2>2, <2>4, CarriedOn DEF SameButState
      <3> QED BY <1>1, <1>4, <2>4, <3>1, <3>2, <3>3, <3>4 DEF Fits, SameButState
    <2>6. q.socket => Fits(Signal(f, "read"))
      <3> SUFFICES ASSUME q.socket PROVE Fits(Signal(f, "read"))
        OBVIOUS
      <3> DEFINE v == Signal(f, "read")
      <3>1. /\ v.in_order = f.in_order /\ v.ooo = f.ooo /\ v.merged_len = f.merged_len /\ v.fss = f.fss
            /\ v.sndbuf = f.sndbuf /\ v.nic = f.nic
            /\ v.on_send_list = f.on_send_list
            /\ v.on_sendq = f.on_sendq /\ v.on_closeq = f.on_closeq
            /\ v.on_timeout_list = f.on_timeout_list /\ v.have_reset = f.have_reset
            /\ v.orphan = f.orphan /\ v.socket = f.socket /\ v.in_acceptq = f.in_acceptq
            /\ v.crashed = f.crashed /\ f.signals \subseteq v.signals
            /\ "read" \in v.signals /\ v.last_ack_seq = f.last_ack_seq
            /\ v.state = "CLOSE_WAIT" /\ v.rcv_nxt = q.rcv_nxt + 1
            /\ v.snd_nxt = q.snd_nxt /\ v.snd_una = q.snd_una /\ v.on_rto = q.on_rto
        BY <2>4, FieldNames DEF Signal
      <3> HIDE DEF v
      <3>2. SenderFits(v)
        BY <1>3, <1>4, <2>4, <3>1 DEF Fits, SenderFits, FinHeldBack, Connected, Unfinished, SameButState
      <3>3. ReceiverFits(v)
        BY <1>1, <1>3, <1>4, <2>1, <2>2, <2>4, <3>1 DEF Fits, ReceiverFits, SameButState
      <3>4. AppFits(v) /\ Awakes(v)
        BY <1>3, <1>4, <2>4, <3>1 DEF Fits, AppFits, Awakes, SameButState
      <3>5. Carried(v)
        BY <1>3, <2>2, <2>4, <3>1, CarriedOn DEF SameButState
      <3>6. Fits(v)
        BY <1>1, <1>4, <2>4, <3>1, <3>2, <3>3, <3>4, <3>5 DEF Fits, SameButState
      <3> QED BY <3>6 DEF v
    <2> QED BY <2>5, <2>6
  <1> QED BY <1>1, <1>4, <1>5, <1>6 DEF nty_tcp_handle_established, f, w, q, r

LEMMA CloseWaitFits ==
  ASSUME NEW s, Well(s), Around, s.state = "CLOSE_WAIT", NEW p \in Segments, NEW env,
         Arrives(p), First(p), ~Has(p, "RST")
  PROVE  Fits(nty_tcp_handle_close_wait(s, p, env))
  <1>1. IsStream(s) /\ Fits(s) /\ p.ack <= peer.nxt
    BY AnswersUs DEF Well, Sound
  <1>2. Fits(nty_tcp_addto_controllist(s)) /\ Fits(nty_tcp_process_ack(s, p, env))
    BY <1>1, ListsFit, ProcessAckFits DEF Unfinished
  <1> QED BY <1>2 DEF nty_tcp_handle_close_wait

(* what process_ack makes of a stream that fits *)
LEMMA AckIsWell ==
  ASSUME NEW s, Well(s), Around, NEW p \in Segments, NEW env, Arrives(p), First(p),
         ~Has(p, "RST"), s.state \in Unfinished \cup {"FIN_WAIT_2"}
  PROVE  LET q == nty_tcp_process_ack(s, p, env) IN
         Well(q) /\ SameButAcked(s, q)
  <1>1. Sound(s) /\ p.ack <= peer.nxt
    BY AnswersUs DEF Well, Unfinished
  <1>2. Sound(nty_tcp_process_ack(s, p, env))
    BY <1>1, AckFollows DEF Unfinished, Follows
  <1> QED BY <1>1, <1>2, ProcessAckFits DEF Well

LEMMA LastAckFits ==
  ASSUME NEW s, Well(s), Around, s.state = "LAST_ACK", NEW p \in Segments, NEW env,
         Arrives(p), First(p), ~Has(p, "RST")
  PROVE  Fits(nty_tcp_handle_last_ack(s, p, env))
  <1> DEFINE q == nty_tcp_process_ack(s, p, env)
  <1>1. Well(q)
    BY AckIsWell DEF Unfinished
  <1>2. Fits(DestroyTcpStream(q))
    BY <1>1, FreedFits
  <1>3. IsStream(s) /\ Fits(s) /\ IsStream(q) /\ Fits(q)
    BY <1>1 DEF Well, Sound
  <1> HIDE DEF q
  <1>4. Fits(nty_tcp_addto_controllist(s)) /\ Fits(nty_tcp_addto_controllist(q))
    BY <1>3, ListsFit
  <1>5. p.seq \in Int /\ s.rcv_nxt \in Int
    BY <1>3 DEF IsStream, Segments
  <1> QED BY <1>2, <1>3, <1>4, <1>5 DEF nty_tcp_handle_last_ack, q

(* Our FIN is acknowledged by who has it.                                  *)
LEMMA FinIsAcked ==
  ASSUME NEW s, Fits(s), Around, NEW p \in Segments, Arrives(p), ~Has(p, "RST"),
         s.state \in {"FIN_WAIT_1", "CLOSING"}, AcksFin(s, p)
  PROVE  peer.gotfin
  <1>1. p.ack = done.sent + 2 /\ p.ack <= peer.nxt
    <2>1. s.fss = done.sent + 1 /\ p.ack = s.fss + 1 /\ done.sent \in Int
      BY DEF Fits, SenderFits, AcksFin, Around
    <2> QED BY <2>1, AnswersUs
  <1>2. peer.nxt \in Int /\ done.sent \in Int
    BY DEF Around, Peers
  <1> QED BY <1>1, <1>2 DEF Around, PeerFits

LEMMA FinAckedFits ==
  ASSUME NEW q, Well(q), Around, NEW p \in Segments, Arrives(p), ~Has(p, "RST"),
         q.state = "FIN_WAIT_1", AcksFin(q, p)
  PROVE  Fits(FinAcked(q, p))
  <1> DEFINE nxt == Max2(q.snd_nxt, p.ack)
             v == FinAcked(q, p)
  <1>1. IsStream(q) /\ Fits(q) /\ peer.gotfin
    BY FinIsAcked DEF Well, Sound
  <1>2. p.ack <= peer.nxt /\ peer.st \notin {"closed", "syn_sent"}
    BY <1>1, AnswersUs
  <1>3. /\ v.state = "FIN_WAIT_2" /\ v.snd_una = p.ack /\ SameButState(q, v) /\ v.rcv_nxt = q.rcv_nxt
    BY <1>1, FieldNames DEF FinAcked, RemoveFromRTOList, IsStream, SameButState
  <1> HIDE DEF v
  <1>4. SenderFits(v)
    BY <1>1, <1>2, <1>3 DEF Fits, SenderFits, FinHeldBack, Connected, Unfinished, SameButState
  <1>5. ReceiverFits(v)
    BY <1>1, <1>3 DEF Fits, ReceiverFits, SameButState
  <1>6. AppFits(v) /\ Awakes(v)
    BY <1>1, <1>3 DEF Fits, AppFits, Awakes, SameButState
  <1>7. Carried(v)
    BY <1>1, <1>3 DEF Fits, Carried, Carries, SameButState
  <1> QED BY <1>1, <1>2, <1>3, <1>4, <1>5, <1>6, <1>7 DEF Fits, SameButState, v

(* The FIN of the peer in order, after close(). *)
LEMMA FinArrivedFits ==
  ASSUME NEW d, Well(d), Around, NEW p \in Segments, Arrives(p), FinInOrder(d, p), NEW r,
         \/ d.state = "FIN_WAIT_1" /\ r.state = "CLOSING"
         \/ d.state = "FIN_WAIT_2" /\ r.state \in {"CLOSED", "TIME_WAIT"},
         SameButState(d, r), r.rcv_nxt = d.rcv_nxt + 1,
         r.snd_nxt = d.snd_nxt, r.snd_una = d.snd_una, r.on_rto = d.on_rto
  PROVE  Fits(r)
  <1>1. IsStream(d) /\ Fits(d) /\ peer.st \notin {"closed", "syn_sent"}
    BY DEF Well, Sound, Fits
  <1>2. peer.fin
    BY <1>1, FinIsLast
  <1>3. d.rcv_nxt \in Int /\ peer.una \in Int /\ peer.una <= d.rcv_nxt
    BY <1>1 DEF IsStream, Around, Peers, Fits, ReceiverFits
  <1>4. SenderFits(r)
    BY <1>1 DEF Fits, SenderFits, FinHeldBack, Connected, Unfinished, SameButState
  <1>5. ReceiverFits(r)
    BY <1>1, <1>2, <1>3 DEF Fits, ReceiverFits, SameButState
  <1>6. AppFits(r) /\ Awakes(r)
    BY <1>1 DEF Fits, AppFits, Awakes, SameButState
  <1>7. Carried(r)
    BY <1>3, CarriedOn DEF SameButState
  <1> QED BY <1>1, <1>4, <1>5, <1>6, <1>7 DEF Fits, SameButState

LEMMA FinWait1Fits ==
  ASSUME NEW s, Well(s), Around, s.state = "FIN_WAIT_1", NEW p \in Segments, NEW env,
         Arrives(p), First(p), ~Has(p, "RST")
  PROVE  Fits(nty_tcp_handle_fin_wait_1(s, p, env))
  <1> DEFINE q == nty_tcp_process_ack(s, p, env)
             v == FinAcked(q, p)
             w == IF AcksFin(q, p) THEN v ELSE q
             d == Payload(w, p)
  <1>1. IsStream(s) /\ Fits(s) /\ Sound(s)
    BY DEF Well, Sound
  <1>2. Well(q) /\ q.state = "FIN_WAIT_1" /\ q.fss = s.fss
    BY AckIsWell DEF Unfinished, SameButAcked
  <1>3. AcksFin(q, p) => q.sndbuf = NoBuf \/ q.sndbuf.len = 0
    BY <1>1, <1>2, AckFollows DEF AcksFin
  <1> HIDE DEF q
  <1>4. Well(w) /\ w.state \in {"FIN_WAIT_1", "FIN_WAIT_2"}
    BY <1>2, <1>3, FinAckedFits, FinAckedFollows DEF Well, Follows
  <1> HIDE DEF w
  <1>5. Well(d) /\ d.state = w.state
    <2>1. Follows(w, w) /\ Sound(w)
      BY <1>4 DEF Well, Follows
    <2>2. Follows(w, d)
      BY <2>1, ListsFollow
    <2> QED BY <1>4, <2>2, PayloadFits DEF Well, Follows
  <1> HIDE DEF d
  <1>6. IsStream(d) /\ Fits(d) /\ Fits(q)
    BY <1>2, <1>5 DEF Well, Sound
  <1>7. ASSUME FinInOrder(d, p) PROVE Fits(FinInFinWait(d))
    <2> DEFINE g == [d EXCEPT !.state = "CLOSING", !.rcv_nxt = @ + 1]
               h == [d EXCEPT !.state = "CLOSED", !.rcv_nxt = @ + 1]
               k == AddtoTimewaitList(h)
    <2>1. d.rcv_nxt + 1 \in Int
      <3>1. d.rcv_nxt \in Int
        BY <1>6 DEF IsStream
      <3> QED BY <3>1
    <2>2. /\ IsStream(g) /\ g.state = "CLOSING" /\ SameButState(d, g) /\ g.rcv_nxt = d.rcv_nxt + 1
          /\ g.snd_nxt = d.snd_nxt /\ g.snd_una = d.snd_una /\ g.on_rto = d.on_rto
          /\ IsStream(h) /\ h.state = "CLOSED" /\ SameButState(d, h) /\ h.rcv_nxt = d.rcv_nxt + 1
          /\ h.snd_nxt = d.snd_nxt /\ h.snd_una = d.snd_una /\ h.on_rto = d.on_rto
      BY <1>6, <2>1, FieldNames, SMTT(30) DEF IsStream, States, SameButState
    <2> HIDE DEF g, h
    <2>3. d.state = "FIN_WAIT_1" => Fits(nty_tcp_addto_controllist(g))
      BY <1>5, <1>7, <2>2, FinArrivedFits, ListsFit
    <2>4. d.state = "FIN_WAIT_2" => Fits(nty_tcp_addto_controllist(k))
      <3> SUFFICES ASSUME d.state = "FIN_WAIT_2" PROVE Fits(nty_tcp_addto_controllist(k))
        OBVIOUS
      <3>1. Fits(h)
        BY <1>5, <1>7, <2>2, FinArrivedFits
      <3>2. Eases(h, k) /\ IsStream(k)
        BY <2>2, ListsEase, FieldNames DEF AddtoTimewaitList, IsStream
      <3> HIDE DEF k
      <3>3. Fits(k)
        BY <3>1, <3>2, EasesFits
      <3> QED BY <3>2, <3>3, ListsFit
    <2> QED BY <1>4, <1>5, <2>3, <2>4 DEF FinInFinWait, g, h
  <1>8. p.seq \in Int /\ s.rcv_nxt \in Int
    BY <1>1 DEF IsStream, Segments
  <1>9. Fits(nty_tcp_addto_controllist(s))
    BY <1>1, ListsFit
  <1> QED BY <1>1, <1>6, <1>7, <1>8, <1>9 DEF nty_tcp_handle_fin_wait_1, FinAcked, d, w, v, q

LEMMA FinWait2Fits ==
  ASSUME NEW s, Well(s), Around, s.state = "FIN_WAIT_2", NEW p \in Segments, NEW env,
         Arrives(p), First(p), ~Has(p, "RST")
  PROVE  Fits(nty_tcp_handle_fin_wait_2(s, p, env))
  <1> DEFINE q == nty_tcp_process_ack(s, p, env)
             d == Payload(q, p)
             g == [d EXCEPT !.state = "TIME_WAIT", !.rcv_nxt = @ + 1]
             k == AddtoTimewaitList(g)
  <1>1. Well(q) /\ q.state = "FIN_WAIT_2"
    BY AckIsWell DEF SameButAcked
  <1> HIDE DEF q
  <1>2. Well(d) /\ d.state = "FIN_WAIT_2"
    <2>1. Follows(q, q) /\ Sound(q)
      BY <1>1 DEF Well, Follows
    <2>2. Follows(q, d)
      BY <2>1, ListsFollow
    <2> QED BY <1>1, <2>2, PayloadFits DEF Well, Follows
  <1> HIDE DEF d
  <1>3. IsStream(d) /\ Fits(d) /\ Fits(q) /\ Fits(s)
    BY <1>1, <1>2 DEF Well, Sound
  <1>4. d.rcv_nxt + 1 \in Int
    <2>1. d.rcv_nxt \in Int
      BY <1>3 DEF IsStream
    <2> QED BY <2>1
  <1>5. /\ IsStream(g) /\ g.state = "TIME_WAIT" /\ SameButState(d, g) /\ g.rcv_nxt = d.rcv_nxt + 1
        /\ g.snd_nxt = d.snd_nxt /\ g.snd_una = d.snd_una /\ g.on_rto = d.on_rto
    BY <1>3, <1>4, FieldNames DEF IsStream, States, SameButState
  <1> HIDE DEF g
  <1>6. FinInOrder(d, p) => Fits(nty_tcp_addto_controllist(k))
    <2> SUFFICES ASSUME FinInOrder(d, p) PROVE Fits(nty_tcp_addto_controllist(k))
      OBVIOUS
    <2>1. Fits(g)
      BY <1>2, <1>5, FinArrivedFits
    <2>2. Eases(g, k) /\ IsStream(k)
      BY <1>5, ListsEase, FieldNames DEF AddtoTimewaitList, IsStream
    <2> HIDE DEF k
    <2>3. Fits(k)
      BY <2>1, <2>2, EasesFits
    <2> QED BY <2>2, <2>3, ListsFit
  <1> QED BY <1>3, <1>6 DEF nty_tcp_handle_fin_wait_2, k, g, d, q

LEMMA ClosingFits ==
  ASSUME NEW s, Well(s), Around, s.state = "CLOSING", NEW p \in Segments, NEW env,
         Arrives(p), First(p), ~Has(p, "RST")
  PROVE  Fits(nty_tcp_handle_closing(s, p, env))
  <1> DEFINE q == nty_tcp_process_ack(s, p, env)
             e == [q EXCEPT !.snd_una = p.ack, !.snd_nxt = p.ack, !.state = "TIME_WAIT"]
             u == UpdateRetransmissionTimer(e)
             k == AddtoTimewaitList(u)
  <1>1. Well(q) /\ q.state = "CLOSING" /\ Fits(s)
    BY AckIsWell DEF Unfinished, SameButAcked, Well
  <1> HIDE DEF q
  <1>2. IsStream(q) /\ Fits(q)
    BY <1>1 DEF Well, Sound
  <1>3. AcksFin(q, p) => Fits(k)
    <2> SUFFICES ASSUME AcksFin(q, p) PROVE Fits(k)
      OBVIOUS
    <2>1. peer.gotfin /\ p.ack <= peer.nxt /\ peer.st \notin {"closed", "syn_sent"}
      BY <1>1, <1>2, FinIsAcked, AnswersUs
    <2>2. /\ IsStream(e) /\ e.state = "TIME_WAIT" /\ SameButState(q, e) /\ e.snd_una = p.ack
          /\ e.rcv_nxt = q.rcv_nxt
      <3>1. p.ack \in Int
        BY DEF Segments
      <3> QED BY <1>2, <3>1, FieldNames DEF IsStream, States, SameButState
    <2> HIDE DEF e
    <2>3. /\ IsStream(u) /\ u.state = "TIME_WAIT" /\ SameButState(q, u) /\ u.snd_una = p.ack
          /\ u.rcv_nxt = q.rcv_nxt
      <3>1. ASSUME NEW b
            PROVE  LET z == [e EXCEPT !.nrtx = 0, !.on_rto = b] IN
                   /\ IsStream(z) /\ z.state = "TIME_WAIT" /\ SameButState(q, z) /\ z.snd_una = p.ack
                   /\ z.rcv_nxt = q.rcv_nxt
        <4> DEFINE z == [e EXCEPT !.nrtx = 0, !.on_rto = b]
        <4>1. IsStream(z)
          BY <2>2, FieldNames DEF IsStream
        <4>2. z.state = "TIME_WAIT" /\ SameButState(q, z) /\ z.snd_una = p.ack /\ z.rcv_nxt = q.rcv_nxt
          BY <2>2, FieldNames DEF IsStream, SameButState
        <4> QED BY <4>1, <4>2
      <3>2. u = [e EXCEPT !.nrtx = 0, !.on_rto = e.snd_nxt > e.snd_una]
        BY DEF UpdateRetransmissionTimer
      <3> HIDE DEF u
      <3> QED BY <3>1, <3>2
    <2> HIDE DEF u
    <2>4. SenderFits(u)
      BY <1>1, <1>2, <2>1, <2>3
         DEF Fits, SenderFits, FinHeldBack, Connected, Unfinished, SameButState
    <2>5. ReceiverFits(u)
      BY <1>1, <1>2, <2>3 DEF Fits, ReceiverFits, SameButState
    <2>6. AppFits(u) /\ Awakes(u)
      BY <1>1, <1>2, <2>3 DEF Fits, AppFits, Awakes, SameButState
    <2>7. Carried(u)
      BY <1>1, <1>2, <2>3 DEF Fits, Carried, Carries, SameButState
    <2>8. Fits(u)
      BY <1>2, <2>1, <2>3, <2>4, <2>5, <2>6, <2>7 DEF Fits, SameButState
    <2> QED BY <2>3, <2>8, ListsFit
  <1> QED BY <1>1, <1>2, <1>3 DEF nty_tcp_handle_closing, k, u, e, q

(* A reset leaves a stream that the application has in CLOSE_WAIT, where   *)
(* it is remembered that nothing more is known of the peer.                *)
LEMMA ResetFits ==
  ASSUME NEW s, Well(s), Around, s.have_reset, NEW p \in Segments
  PROVE  Fits(nty_tcp_process_rst(s, p))
  <1> DEFINE r == [s EXCEPT !.state = "CLOSE_WAIT"]
  <1>1. IsStream(s) /\ Fits(s) /\ Fits(DestroyTcpStream(s))
    BY FreedFits DEF Well, Sound
  <1>2. s.state \in Connected => Fits(r)
    <2> SUFFICES ASSUME s.state \in Connected PROVE Fits(r)
      OBVIOUS
    <2>1. /\ r.state = "CLOSE_WAIT" /\ SameButState(s, r) /\ r.rcv_nxt = s.rcv_nxt
          /\ r.snd_nxt = s.snd_nxt /\ r.snd_una = s.snd_una /\ r.on_rto = s.on_rto
      BY <1>1, FieldNames, ZenonT(30) DEF IsStream, SameButState
    <2> HIDE DEF r
    <2>2. SenderFits(r)
      BY <1>1, <2>1 DEF Fits, SenderFits, FinHeldBack, Connected, Unfinished, SameButState
    <2>3. ReceiverFits(r)
      BY <1>1, <2>1 DEF Fits, ReceiverFits, Connected, SameButState
    <2>4. AppFits(r) /\ Awakes(r)
      BY <1>1, <2>1 DEF Fits, AppFits, Awakes, Connected, SameButState
    <2>5. Carried(r)
      BY <1>1, <2>1 DEF Fits, Carried, Carries, Connected, SameButState
    <2> QED BY <1>1, <2>1, <2>2, <2>3, <2>4, <2>5 DEF Fits, Connected, SameButState
  <1> HIDE DEF r
  <1> QED BY <1>1, <1>2 DEF nty_tcp_process_rst, Connected, r

LEMMA HandleFits ==
  ASSUME NEW s, Well(s), Around, s.state # "NONE", NEW p \in Segments, Arrives(p), First(p),
         ~Has(p, "RST"), NEW env \in Env
  PROVE  Fits(Handle(s, p, env))
  <1>1. IsStream(s) /\ Fits(s) /\ s.state # "LISTEN"
    BY DEF Well, Sound, Fits
  <1>2. CASE s.state = "SYN_RCVD"
    <2> DEFINE e == nty_tcp_handle_syn_rcvd(s, p, env)
               l == [s EXCEPT !.state = "SYN_RCVD",
                              !.rcv_nxt = IF s.state = "LISTEN" THEN @ + 1 ELSE @]
    <2>1. CASE Has(p, "SYN")
      <3>1. IsStream(l) /\ Eases(s, l)
        <4>1. l = [s EXCEPT !.state = "SYN_RCVD", !.rcv_nxt = s.rcv_nxt]
          BY <1>2
        <4> HIDE DEF l
        <4> QED BY <1>1, <1>2, <4>1, FieldNames DEF IsStream, Eases
      <3>2. nty_tcp_handle_listen(s, p) = nty_tcp_addto_controllist(l)
        BY <2>1 DEF nty_tcp_handle_listen
      <3> HIDE DEF l
      <3>3. Fits(nty_tcp_handle_listen(s, p))
        BY <1>1, <3>1, <3>2, EasesFits, ListsFit
      <3> QED BY <1>2, <2>1, <3>3 DEF Handle
    <2>2. CASE ~Has(p, "SYN")
      <3>1. Has(p, "ACK")
        BY <2>2 DEF Arrives, Has
      <3>2. Well(e)
        <4>1. Sound(e)
          BY <1>2, SynRcvdFollows DEF Well, Follows
        <4>2. Fits(e)
          BY <1>2, <3>1, SynRcvdFits
        <4> HIDE DEF e
        <4> QED BY <4>1, <4>2 DEF Well
      <3> HIDE DEF e
      <3>3. e.state = "ESTABLISHED" => Fits(nty_tcp_handle_established(e, p, env))
        BY <3>2, EstablishedFits
      <3>4. Fits(e)
        BY <3>2 DEF Well
      <3> QED BY <1>2, <2>2, <3>3, <3>4 DEF Handle, e
    <2> QED BY <2>1, <2>2
  <1>4. CASE s.state = "ESTABLISHED"
    BY <1>4, EstablishedFits DEF Handle
  <1>5. CASE s.state = "CLOSE_WAIT"
    BY <1>5, CloseWaitFits DEF Handle
  <1>6. CASE s.state = "LAST_ACK"
    BY <1>6, LastAckFits DEF Handle
  <1>7. CASE s.state = "FIN_WAIT_1"
    BY <1>7, FinWait1Fits DEF Handle
  <1>8. CASE s.state = "FIN_WAIT_2"
    BY <1>8, FinWait2Fits DEF Handle
  <1>9. CASE s.state = "CLOSING"
    BY <1>9, ClosingFits DEF Handle
  <1>10. CASE s.state = "TIME_WAIT"
    BY <1>1, <1>10, ListsFit DEF Handle
  <1>11. CASE s.state = "CLOSED"
    BY <1>1, <1>11 DEF Handle
  <1> QED BY <1>1, <1>2, <1>4, <1>5, <1>6, <1>7, <1>8, <1>9, <1>10, <1>11 DEF IsStream, States

(* What a SYN meets that finds no stream: the stream it makes has sent and *)
(* received nothing, whether it is SYN_RCVD or has no buffer and is CLOSED.*)
LEMMA NewFits ==
  ASSUME NEW s, IsStream(s), Fits(s), Unreached(s), Around, s.state = "NONE",
         peer.st = "syn_sent", down = <<>>, NEW r,
         \/ r.state = "SYN_RCVD" /\ r.rcv_nxt = 1
         \/ r.state = "CLOSED" /\ r.rcv_nxt = 0 /\ Unanswered(s),
         r.in_order = s.in_order, r.ooo = s.ooo, r.merged_len = s.merged_len,
         r.sndbuf = s.sndbuf, r.nic = s.nic, r.on_send_list = s.on_send_list,
         r.on_closeq = s.on_closeq, r.on_timeout_list = s.on_timeout_list,
         r.orphan = s.orphan, r.socket = s.socket, r.in_acceptq = s.in_acceptq,
         r.crashed = s.crashed, r.snd_una = s.snd_una, r.last_ack_seq = s.last_ack_seq
  PROVE  Fits(r)
  <1>1. NothingYet /\ peer.una <= 0 /\ peer.una \in Int
    BY DEF Around, PeerFits, Peers
  <1>2. SenderFits(r)
    BY <1>1 DEF Fits, SenderFits, FinHeldBack, Connected, Unfinished, Unreached
  <1>3. ReceiverFits(r)
    BY <1>1 DEF Fits, ReceiverFits, NothingYet
  <1>4. AppFits(r) /\ Awakes(r)
    BY <1>1 DEF Fits, AppFits, Awakes, Unreached, NothingYet
  <1>5. Carried(r)
    BY DEF Fits, Carried, Carries, Unanswered
  <1> QED BY <1>2, <1>3, <1>4, <1>5 DEF Fits

LEMMA ListenFits ==
  ASSUME NEW s, Well(s), Around, s.state = "NONE", NEW p \in Segments, Arrives(p), Has(p, "SYN"),
         Unanswered(s), NEW env \in Env
  PROVE  Fits(nty_tcp_process(s, p, env))
  <1> DEFINE c == [s EXCEPT !.state = IF env.room = "no buffer" THEN "CLOSED" ELSE "LISTEN",
                            !.rcv_nxt = p.seq]
             w == [c EXCEPT !.peer_wnd = p.wnd, !.have_reset = @ \/ Has(p, "RST")]
             l == [w EXCEPT !.state = "SYN_RCVD",
                            !.rcv_nxt = IF w.state = "LISTEN" THEN @ + 1 ELSE @]
             r == nty_tcp_addto_controllist(l)
             z == Seg({"RST", "ACK"}, 0, p.seq + p.len + 1, 0, 0)
  <1>1. IsStream(s) /\ Fits(s) /\ Unreached(s)
    BY DEF Well, Sound, InOnePlace
  <1>2. p.flags = {"SYN"} /\ p.seq = 0 /\ p.len = 0 /\ peer.st = "syn_sent" /\ down = <<>>
    BY DEF Arrives, Has
  <1>3. ~Has(p, "RST") /\ ~Has(p, "ACK")
    BY <1>2 DEF Has
  <1>4. CASE env.room = "none"
    <2>1. Carries(s, z)
      BY <1>2 DEF Carries, Seg, Has
    <2>2. nty_create_stream(s, p, env) = Emit(s, z)
      BY <1>3, <1>4 DEF nty_create_stream
    <2> HIDE DEF z
    <2>3. Fits(Emit(s, z)) /\ Emit(s, z).state = "NONE"
      BY <1>1, <1>2, <2>1, EmitFits, FieldNames DEF Emit, IsStream
    <2> QED BY <2>2, <2>3 DEF nty_tcp_process, Exists
  <1>5. CASE env.room # "none"
    <2>1. nty_create_stream(s, p, env) = c
      BY <1>3, <1>5 DEF nty_create_stream
    <2>2. /\ DOMAIN c = Fields /\ c.rcv_nxt = 0 /\ SameButState(s, c) /\ c.snd_una = s.snd_una
          /\ c.state = IF env.room = "no buffer" THEN "CLOSED" ELSE "LISTEN"
      BY <1>1, <1>2, FieldNames DEF IsStream, SameButState
    <2> HIDE DEF c
    <2>3. /\ DOMAIN w = Fields /\ w.state = c.state /\ w.rcv_nxt = 0
          /\ w.in_order = s.in_order /\ w.ooo = s.ooo /\ w.merged_len = s.merged_len
          /\ w.sndbuf = s.sndbuf /\ w.nic = s.nic /\ w.on_send_list = s.on_send_list
          /\ w.on_closeq = s.on_closeq /\ w.on_timeout_list = s.on_timeout_list
          /\ w.orphan = s.orphan /\ w.socket = s.socket /\ w.in_acceptq = s.in_acceptq
          /\ w.crashed = s.crashed /\ w.snd_una = s.snd_una /\ w.last_ack_seq = s.last_ack_seq
      BY <2>2, FieldNames DEF SameButState
    <2>4. nty_tcp_process(s, p, env) = Handle(w, p, env)
      BY <1>3, <2>1, <2>2 DEF nty_tcp_process, Exists, w
    <2> HIDE DEF w
    <2>5. CASE env.room = "no buffer"
      <3>1. w.state = "CLOSED"
        BY <2>2, <2>3, <2>5
      <3>2. Fits(w)
        BY <1>1, <1>2, <2>3, <3>1, NewFits
      <3> QED BY <2>4, <3>1, <3>2 DEF Handle
    <2>6. CASE env.room # "no buffer"
      <3>1. w.state = "LISTEN"
        BY <2>2, <2>3, <2>6
      <3>2. Handle(w, p, env) = r
        BY <3>1 DEF Handle, nty_tcp_handle_listen
      <3>3. /\ DOMAIN l = Fields /\ l.state = "SYN_RCVD" /\ l.rcv_nxt = 1
            /\ l.in_order = s.in_order /\ l.ooo = s.ooo /\ l.merged_len = s.merged_len
            /\ l.sndbuf = s.sndbuf /\ l.nic = s.nic /\ l.on_send_list = s.on_send_list
            /\ l.on_closeq = s.on_closeq /\ l.on_timeout_list = s.on_timeout_list
            /\ l.orphan = s.orphan /\ l.socket = s.socket /\ l.in_acceptq = s.in_acceptq
            /\ l.crashed = s.crashed /\ l.snd_una = s.snd_una /\ l.last_ack_seq = s.last_ack_seq
        BY <2>3, <3>1, FieldNames
      <3> HIDE DEF l
      <3>4. /\ r.state = "SYN_RCVD" /\ r.rcv_nxt = 1
            /\ r.in_order = s.in_order /\ r.ooo = s.ooo /\ r.merged_len = s.merged_len
            /\ r.sndbuf = s.sndbuf /\ r.nic = s.nic /\ r.on_send_list = s.on_send_list
            /\ r.on_closeq = s.on_closeq /\ r.on_timeout_list = s.on_timeout_list
            /\ r.orphan = s.orphan /\ r.socket = s.socket /\ r.in_acceptq = s.in_acceptq
            /\ r.crashed = s.crashed /\ r.snd_una = s.snd_una /\ r.last_ack_seq = s.last_ack_seq
        BY <3>3, FieldNames DEF nty_tcp_addto_controllist
      <3> HIDE DEF r
      <3>5. Fits(r)
        BY <1>1, <1>2, <3>4, NewFits
      <3> QED BY <2>4, <3>2, <3>5
    <2> QED BY <2>5, <2>6
  <1> QED BY <1>4, <1>5

LEMMA ProcessFits ==
  ASSUME NEW s, Well(s), Around, NEW p \in Segments, Arrives(p), First(p),
         s.state = "NONE" /\ Has(p, "SYN") => Unanswered(s), NEW env \in Env
  PROVE  Fits(nty_tcp_process(s, p, env))
  <1>1. IsStream(s) /\ Fits(s)
    BY DEF Well, Sound
  <1>2. CASE s.state = "NONE"
    <2> DEFINE z == Seg({"RST"}, p.ack, 0, 0, 0)
    <2>1. CASE Has(p, "SYN")
      BY <1>2, <2>1, ListenFits
    <2>2. CASE ~Has(p, "SYN") /\ Has(p, "RST")
      <3>1. nty_create_stream(s, p, env) = s
        BY <2>2 DEF nty_create_stream
      <3> QED BY <1>1, <1>2, <3>1 DEF nty_tcp_process, Exists
    <2>3. CASE ~Has(p, "SYN") /\ ~Has(p, "RST")
      <3>1. nty_create_stream(s, p, env) = Emit(s, z)
        BY <2>3 DEF nty_create_stream
      <3>2. Carries(s, z)
        BY <1>2 DEF Carries, Seg, Has
      <3>3. peer.st # "closed"
        BY <2>3 DEF Arrives
      <3> HIDE DEF z
      <3>4. Fits(Emit(s, z))
        BY <1>1, <3>2, <3>3, EmitFits
      <3>5. Emit(s, z).state = "NONE"
        BY <1>1, <1>2, FieldNames DEF Emit, IsStream
      <3> QED BY <1>2, <3>1, <3>4, <3>5 DEF nty_tcp_process, Exists
    <2> QED BY <2>1, <2>2, <2>3
  <1>3. CASE s.state # "NONE"
    <2> DEFINE w == [s EXCEPT !.peer_wnd = p.wnd, !.have_reset = @ \/ Has(p, "RST")]
    <2>1. IsStream(w) /\ Eases(s, w) /\ Keeps(s, w) /\ (Has(p, "RST") => w.have_reset)
      <3>1. p.wnd \in Nat
        BY DEF Segments
      <3>2. ASSUME NEW b, s.have_reset => b
            PROVE  LET z == [s EXCEPT !.peer_wnd = p.wnd, !.have_reset = b] IN
                   IsStream(z) /\ Eases(s, z) /\ Keeps(s, z) /\ z.have_reset = b
        BY <1>1, <3>1, <3>2, FieldNames, SMTT(30) DEF IsStream, Eases, Keeps
      <3> QED BY <3>2
    <2> HIDE DEF w
    <2>2. Well(w) /\ w.state = s.state /\ Fits(w)
      <3>1. Sound(w)
        BY <2>1, StaysSound DEF Well
      <3>2. Fits(w)
        BY <1>1, <2>1, EasesFits
      <3> QED BY <2>1, <3>1, <3>2 DEF Well, Eases
    <2>3. Fits(OutOfWindow(s, p))
      BY OutOfWindowFits
    <2>4. Has(p, "RST") => Fits(nty_tcp_process_rst(w, p))
      BY <2>1, <2>2, ResetFits
    <2>5. ~Has(p, "RST") => Fits(Handle(w, p, env))
      BY <1>3, <2>2, HandleFits
    <2>6. s.state = "CLOSED" => Fits(Handle(w, p, env))
      BY <2>2 DEF Handle
    <2>7. s.state # "LISTEN"
      BY <1>1 DEF Fits
    <2> QED BY <1>3, <2>3, <2>4, <2>5, <2>6, <2>7 DEF nty_tcp_process, Exists, w
  <1> QED BY <1>2, <1>3

-----------------------------------------------------------------------------
(* The end of a step of the stack thread: signals are delivered.           *)

LEMMA BecomesFits ==
  ASSUME NEW s, Well(s), Around, NEW at, Becomes(s, at), UNCHANGED <<done, peer>>,
         down' \in Seq(Segments), \A i \in DOMAIN down' : Carries(s, down'[i]),
         peer.st = "closed" => down' = <<>>,
         \A i \in DOMAIN up' : \E j \in DOMAIN up : up'[i] = up[j]
  PROVE  /\ Fits(stk)' /\ PeerFits' /\ stk'.signals = {}
         /\ stk'.on_send_list = s.on_send_list /\ pc' \in {"dead", at}
         /\ stk'.state = s.state /\ stk'.nic = s.nic
  <1>1. IsStream(s) /\ Fits(s)
    BY DEF Well, Sound
  <1>2. /\ stk'.state = s.state /\ stk'.rcv_nxt = s.rcv_nxt /\ stk'.in_order = s.in_order /\ stk'.ooo = s.ooo
        /\ stk'.merged_len = s.merged_len /\ stk'.snd_nxt = s.snd_nxt
        /\ stk'.snd_una = s.snd_una /\ stk'.fss = s.fss /\ stk'.sndbuf = s.sndbuf
        /\ stk'.nic = s.nic /\ stk'.on_send_list = s.on_send_list
        /\ stk'.on_rto = s.on_rto /\ stk'.on_sendq = s.on_sendq
        /\ stk'.on_closeq = s.on_closeq /\ stk'.on_timeout_list = s.on_timeout_list
        /\ stk'.have_reset = s.have_reset /\ stk'.orphan = s.orphan
        /\ stk'.socket = s.socket /\ stk'.in_acceptq = s.in_acceptq
        /\ stk'.signals = {} /\ stk'.crashed = s.crashed /\ stk'.last_ack_seq = s.last_ack_seq
    BY <1>1, FieldNames DEF IsStream, Becomes
  <1>3. \/ app = "await" /\ "accept" \in s.signals /\ app' = "accept"
        \/ app = "rwait" /\ "read" \in s.signals /\ app' = "recv"
        \/ /\ app' = app /\ ~(app = "await" /\ "accept" \in s.signals)
           /\ ~(app = "rwait" /\ "read" \in s.signals)
    BY DEF Becomes, Woken
  <1>4. AppEnded => AppEnded'
    BY <1>3 DEF AppEnded
  <1>5. s.state \in {"NONE", "SYN_RCVD", "CLOSED"} /\ NothingYet => NothingYet'
    BY <1>1, <1>3 DEF NothingYet
  <1>14. s.state \in Unfinished => AcksFrom(stk.snd_una)'
    <2>1. s.state \in Unfinished => AcksFrom(s.snd_una)
      BY <1>1 DEF Fits, SenderFits
    <2> QED BY <1>2, <2>1 DEF AcksFrom
  <1>6. SenderFits(stk)'
    BY <1>1, <1>2, <1>4, <1>5, <1>14 DEF Fits, SenderFits, FinHeldBack
  <1>7. ReceiverFits(stk)'
    BY <1>1, <1>2 DEF Fits, ReceiverFits, PeerSent
  <1>8. AppFits(stk)'
    BY <1>1, <1>2, <1>3 DEF Fits, AppFits
  <1>9. Awakes(stk)'
    BY <1>1, <1>2, <1>3 DEF Fits, Awakes
  <1>10. \A p : Carries(s, p) => Carries(stk, p)'
    BY <1>2, <1>4 DEF Carries
  <1>11. Carried(stk)'
    BY <1>1, <1>2, <1>10 DEF Fits, Carried
  <1>12. PeerFits'
    BY <1>1, <1>4, <1>5 DEF Around, PeerFits, Fits, PeerSent
  <1>13. pc' \in {"dead", at}
    BY DEF Becomes
  <1> QED BY <1>1, <1>2, <1>3, <1>6, <1>7, <1>8, <1>9, <1>11, <1>12, <1>13 DEF Fits

(* The same, where nothing is put on the way.                              *)
LEMMA StepFits ==
  ASSUME NEW s, Well(s), Around, NEW at, Becomes(s, at), UNCHANGED <<done, peer, down>>,
         \A i \in DOMAIN up' : \E j \in DOMAIN up : up'[i] = up[j]
  PROVE  /\ Fits(stk)' /\ PeerFits' /\ stk'.signals = {}
         /\ stk'.on_send_list = s.on_send_list /\ pc' \in {"dead", at}
         /\ stk'.state = s.state /\ stk'.nic = s.nic
  <1>1. \A i \in DOMAIN down' : Carries(s, down'[i])
    BY DEF Well, Fits, Carried
  <1>2. down' \in Seq(Segments) /\ (peer.st = "closed" => down' = <<>>)
    BY DEF Around, PeerFits
  <1> QED BY <1>1, <1>2, BecomesFits

(* A segment that comes from the front of a sequence, goes to its end.     *)
LEMMA SequenceElements ==
  ASSUME NEW q \in Seq(Segments)
  PROVE  /\ q # <<>> => 1 \in DOMAIN q /\ Head(q) = q[1]
                        /\ \A i \in DOMAIN Tail(q) : i + 1 \in DOMAIN q /\ Tail(q)[i] = q[i + 1]
         /\ \A r \in Seq(Segments) : \A i \in DOMAIN (q \o r) :
              (i \in DOMAIN q /\ (q \o r)[i] = q[i])
              \/ (i - Len(q) \in DOMAIN r /\ (q \o r)[i] = r[i - Len(q)])
         /\ \A p : \A i \in DOMAIN Append(q, p) :
              (i \in DOMAIN q /\ Append(q, p)[i] = q[i]) \/ Append(q, p)[i] = p
  <1>1. ASSUME q # <<>>
        PROVE  /\ 1 \in DOMAIN q /\ Head(q) = q[1]
               /\ \A i \in DOMAIN Tail(q) : i + 1 \in DOMAIN q /\ Tail(q)[i] = q[i + 1]
    BY <1>1
  <1>2. ASSUME NEW r \in Seq(Segments), NEW i \in DOMAIN (q \o r)
        PROVE  (i \in DOMAIN q /\ (q \o r)[i] = q[i])
               \/ (i - Len(q) \in DOMAIN r /\ (q \o r)[i] = r[i - Len(q)])
    OBVIOUS
  <1>3. ASSUME NEW p, NEW i \in DOMAIN Append(q, p)
        PROVE  (i \in DOMAIN q /\ Append(q, p)[i] = q[i]) \/ Append(q, p)[i] = p
    OBVIOUS
  <1> QED BY <1>1, <1>2, <1>3

LEMMA AroundHere ==
  ASSUME CInv
  PROVE  Well(stk) /\ Around /\ Sound(stk) /\ IsStream(stk) /\ Fits(stk)
  BY DEF CInv, TInv, Agrees, Well, Around, Sound

(* What a step of the stack thread leaves to be shown, when it takes       *)
(* nothing from the network and puts nothing on it.                        *)
LEMMA StepAgrees ==
  ASSUME CInv, NEW s, Well(s), NEW at, Becomes(s, at), UNCHANGED <<done, peer, up, down>>,
         at = "flushing" => s.on_send_list,
         SynWaits => at # "chunks" /\ (s.state = "NONE" => Unanswered(s))
  PROVE  Agrees'
  <1>1. /\ Fits(stk)' /\ PeerFits' /\ stk'.signals = {}
        /\ stk'.on_send_list = s.on_send_list /\ pc' \in {"dead", at}
        /\ stk'.state = s.state /\ stk'.nic = s.nic
    BY AroundHere, StepFits
  <1>2. (\A i \in DOMAIN up : Arrives(up[i]))'
    BY DEF CInv, Agrees, Arrives, PeerSent
  <1>3. done' \in [sent : Int, got : Int, eof : {"no", "end", "reset"}]
    BY DEF CInv, Agrees
  <1>4. AcksInOrder'
    BY DEF CInv, Agrees, AcksInOrder
  <1>5. SynComesAlone'
    BY <1>1 DEF CInv, Agrees, SynComesAlone, SynWaits, Unanswered
  <1> QED BY <1>1, <1>2, <1>3, <1>4, <1>5 DEF Agrees

(* While the peer waits for an answer to its SYN, what the stack does of   *)
(* its own accord answers nothing, or leaves a stream that answers.        *)
LEMMA FreedUnanswered ==
  ASSUME NEW s, Unanswered(s)
  PROVE  Unanswered(DestroyTcpStream(s))
  BY DEF Unanswered, DestroyTcpStream, NoStream

LEMMA TimersUnanswered ==
  ASSUME NEW s, Well(s), peer.st = "syn_sent", Unanswered(s), NEW fires, NEW idle
  PROVE  /\ Unanswered(CheckRtmTimeout(s, fires)) /\ Unanswered(CheckTimewaitExpire(s))
         /\ Unanswered(CheckConnectionTimeout(s, idle))
  <1>1. IsStream(s) /\ s.state \in {"NONE", "SYN_RCVD", "CLOSED"}
    BY DEF Well, Sound, Fits
  <1>2. Unanswered(CheckTimewaitExpire(s)) /\ Unanswered(CheckConnectionTimeout(s, idle))
    BY FreedUnanswered DEF CheckTimewaitExpire, CheckConnectionTimeout
  <1>3. ASSUME fires, s.on_rto PROVE Unanswered(HandleRTO(RemoveFromRTOList(s)))
    <2> DEFINE q == RemoveFromRTOList(s)
    <2>1. s.state = "SYN_RCVD"
      BY <1>1, <1>3 DEF Well, Sound, TimersFit, Timed
    <2>2. /\ q.state = "SYN_RCVD" /\ q.nic = s.nic /\ DOMAIN q = Fields
          /\ q.nrtx \in Int /\ TCP_MAX_RTX \in Int
      BY <1>1, <2>1, FieldNames, TcpAssumption DEF RemoveFromRTOList, IsStream
    <2> HIDE DEF q
    <2>3. Unanswered(DestroyTcpStream(q))
      BY <2>2, FreedUnanswered DEF Unanswered
    <2>4. Unanswered(nty_tcp_addto_controllist(Reduced(q)))
      <3>1. nty_tcp_addto_controllist(Reduced(q)).nic = q.nic
        BY <2>2, FieldNames DEF Reduced, nty_tcp_addto_controllist
      <3> QED BY <2>2, <3>1 DEF Unanswered
    <2>5. HandleRTO(q) = DestroyTcpStream(q) \/ HandleRTO(q) = nty_tcp_addto_controllist(Reduced(q))
      BY <2>2 DEF HandleRTO
    <2> QED BY <2>3, <2>4, <2>5 DEF q
  <1> QED BY <1>2, <1>3 DEF CheckRtmTimeout

LEMMA ApicallsUnanswered ==
  ASSUME NEW s, Well(s), peer.st = "syn_sent"
  PROVE  nty_tcp_handle_apicall(s) = s
  <1>1. ~s.on_sendq /\ ~s.on_closeq
    BY DEF Well, Sound, Fits, InOnePlace, Unreached
  <1> QED BY <1>1 DEF nty_tcp_handle_apicall, TakeSendq, TakeCloseq

LEMMA ControlUnanswered ==
  ASSUME NEW s, Well(s), peer.st = "syn_sent", Unanswered(s),
         nty_tcp_write_controllist(s).state = "NONE"
  PROVE  Unanswered(nty_tcp_write_controllist(s))
  <1> DEFINE c == [s EXCEPT !.on_control_list = FALSE]
             r == nty_tcp_send_tcppkt(c, {"RST"}, 0)
  <1>1. IsStream(s) /\ Fits(s) /\ s.state \in {"NONE", "SYN_RCVD", "CLOSED"}
    BY DEF Well, Sound, Fits
  <1>2. /\ IsStream(c) /\ c.state = s.state /\ c.nic = s.nic /\ c.rcv_nxt = s.rcv_nxt
    BY <1>1, FieldNames DEF IsStream
  <1> HIDE DEF c
  <1>3. CASE ~(s.on_control_list /\ ~MustWait(s))
    BY <1>3 DEF nty_tcp_write_controllist
  <1>4. CASE s.on_control_list /\ ~MustWait(s) /\ s.state = "NONE"
    <2>1. nty_tcp_write_controllist(s) = c
      BY <1>2, <1>4 DEF nty_tcp_write_controllist, nty_tcp_send_controlpkt, c
    <2> QED BY <1>2, <2>1 DEF Unanswered
  <1>5. CASE s.on_control_list /\ ~MustWait(s) /\ s.state = "CLOSED"
    <2>1. nty_tcp_write_controllist(s) = DestroyTcpStream(r)
      BY <1>2, <1>5 DEF nty_tcp_write_controllist, nty_tcp_send_controlpkt, c
    <2>2. r.nic = <<Seg({"RST"} \ {"CWR"}, SeqSent(c, {"RST"}), c.rcv_nxt, 0, RcvWnd)>>
      BY <1>2, FieldNames DEF nty_tcp_send_tcppkt, Emit, IsStream, SeqSent
    <2>3. c.rcv_nxt <= 0
      BY <1>1, <1>2, <1>5 DEF Fits, ReceiverFits
    <2>4. Unanswered(r)
      BY <2>2, <2>3 DEF Unanswered, Seg
    <2> QED BY <2>1, <2>4, FreedUnanswered
  <1>6. CASE s.on_control_list /\ ~MustWait(s) /\ s.state = "SYN_RCVD"
    <2> DEFINE z == [c EXCEPT !.snd_nxt = 0]
               x == nty_tcp_send_tcppkt(z, {"SYN", "ACK"}, 0)
    <2>1. nty_tcp_write_controllist(s) = x
      BY <1>2, <1>6 DEF nty_tcp_write_controllist, nty_tcp_send_controlpkt, c
    <2>2. IsStream(z) /\ z.state = "SYN_RCVD"
      BY <1>2, <1>6, FieldNames DEF IsStream
    <2> HIDE DEF z
    <2>3. x.state = "SYN_RCVD"
      <3>1. {"SYN", "ACK"} \in SUBSET (Flags \cup {"CWR"}) /\ 0 \in Int
        BY DEF Flags
      <3> QED BY <2>2, <3>1, SegmentSent
    <2> QED BY <2>1, <2>3
  <1> QED BY <1>1, <1>3, <1>4, <1>5, <1>6

LEMMA AcklistUnanswered ==
  ASSUME NEW s, Well(s), peer.st = "syn_sent"
  PROVE  LET r == nty_tcp_write_acklist(s) IN r.state = s.state /\ r.nic = s.nic
  <1>1. IsStream(s) /\ s.state \notin Acks
    BY DEF Well, Sound, Fits, Acks
  <1> DEFINE e == [s EXCEPT !.on_ack_list = FALSE, !.ack_cnt = 0, !.is_wack = FALSE]
  <1>2. nty_tcp_write_acklist(s) = s \/ nty_tcp_write_acklist(s) = NoLongerWaiting(e, s.on_send_list)
    BY <1>1 DEF nty_tcp_write_acklist
  <1>3. DOMAIN e = Fields /\ e.state = s.state /\ e.nic = s.nic
    BY <1>1, FieldNames DEF IsStream
  <1> HIDE DEF e
  <1>4. NoLongerWaiting(e, s.on_send_list).state = s.state
          /\ NoLongerWaiting(e, s.on_send_list).nic = s.nic
    BY <1>3, FieldNames DEF NoLongerWaiting, nty_tcp_addto_controllist
  <1> QED BY <1>2, <1>4

LEMMA WriteChunksAgrees ==
  ASSUME CInv, WriteChunks
  PROVE  Agrees'
  <1>1. PICK fires \in BOOLEAN, idle \in BOOLEAN :
          LET t == Timers(fires, idle)
              s == nty_tcp_write_controllist(nty_tcp_handle_apicall(t))
          IN  nty_tcp_write_datalist(nty_tcp_write_acklist(s))
    BY DEF WriteChunks
  <1> DEFINE e == CheckRtmTimeout(stk, fires)
             f == CheckTimewaitExpire(e)
             t == CheckConnectionTimeout(f, idle)
             a == nty_tcp_handle_apicall(t)
             s == nty_tcp_write_controllist(a)
             r == nty_tcp_write_acklist(s)
             w == [r EXCEPT !.window = Min2(r.cwnd, r.peer_wnd), !.packets = 0]
             v == IF r.on_send_list /\ Flushes(r) THEN w ELSE r
             at == IF ~r.on_send_list \/ (r.state = "ESTABLISHED" /\ r.on_control_list)
                   THEN "net" ELSE IF Flushes(r) THEN "flushing" ELSE "unlist"
  <1>2. Around /\ Well(stk)
    BY AroundHere
  <1>3. Well(e)
    BY <1>2, TimersAreSound, RtmFits DEF Well
  <1>4. t = Timers(fires, idle)
    BY DEF Timers
  <1>15. SynWaits => peer.st = "syn_sent" /\ Unanswered(stk)
    BY DEF CInv, Agrees, SynComesAlone, SynWaits, WriteChunks
  <1>16. SynWaits => Unanswered(e)
    BY <1>2, <1>15, TimersUnanswered
  <1> HIDE DEF e
  <1>5. Well(f)
    BY <1>2, <1>3, TimersAreSound, ExpiryFits DEF Well
  <1>17. SynWaits => Unanswered(f)
    BY <1>3, <1>15, <1>16, TimersUnanswered
  <1> HIDE DEF f
  <1>6. Well(t)
    BY <1>2, <1>5, TimersAreSound, ExpiryFits DEF Well
  <1>18. SynWaits => Unanswered(t)
    BY <1>5, <1>15, <1>17, TimersUnanswered
  <1> HIDE DEF t
  <1>7. Well(a)
    BY <1>2, <1>6, ApicallsAreSound, ApicallsFit DEF Well
  <1>19. SynWaits => Unanswered(a)
    BY <1>6, <1>15, <1>18, ApicallsUnanswered
  <1> HIDE DEF a
  <1>8. Well(s)
    BY <1>2, <1>7, ControlIsSound, ControlFits DEF Well
  <1>20. SynWaits /\ s.state = "NONE" => Unanswered(s)
    BY <1>7, <1>15, <1>19, ControlUnanswered
  <1> HIDE DEF s
  <1>9. Well(r)
    BY <1>2, <1>8, AcklistIsSound, AcklistFits DEF Well
  <1>21. SynWaits /\ r.state = "NONE" => Unanswered(r)
    BY <1>8, <1>15, <1>20, AcklistUnanswered DEF Unanswered
  <1> HIDE DEF r
  <1>10. nty_tcp_write_datalist(r)
    BY <1>1, <1>4 DEF r, s, a
  <1>11. Well(v) /\ v.on_send_list = r.on_send_list /\ v.state = r.state /\ v.nic = r.nic
    <2>1. IsStream(r) /\ Fits(r) /\ Sound(r)
      BY <1>9 DEF Well, Sound
    <2>2. Min2(r.cwnd, r.peer_wnd) \in Nat
      <3>1. r.cwnd \in Nat /\ r.peer_wnd \in Nat
        BY <2>1 DEF IsStream
      <3> QED BY <3>1 DEF Min2
    <2>3. Keeps(r, w) /\ Eases(r, w) /\ w.on_send_list = r.on_send_list
      BY <2>1, <2>2, FieldNames DEF IsStream, Keeps, Eases
    <2> HIDE DEF w
    <2>4. Sound(w) /\ Fits(w)
      BY <2>1, <2>3, StaysSound, EasesFits
    <2> QED BY <1>9, <2>3, <2>4 DEF Well, Eases
  <1>12. Becomes(v, at)
    BY <1>10 DEF nty_tcp_write_datalist
  <1>13. (at = "flushing" => v.on_send_list) /\ at # "chunks"
    BY <1>11
  <1> HIDE DEF v, at
  <1>22. SynWaits /\ v.state = "NONE" => Unanswered(v)
    BY <1>11, <1>21 DEF Unanswered
  <1>14. UNCHANGED <<done, peer, up, down>>
    BY DEF WriteChunks
  <1> QED BY <1>11, <1>12, <1>13, <1>14, <1>22, StepAgrees

LEMMA FlushAgrees ==
  ASSUME CInv, FlushSendbuffer
  PROVE  Agrees'
  <1> DEFINE len == Min2(Min2(Unsent(stk), Mss - OptLen), stk.window)
             y == [stk EXCEPT !.window = 0]
             z == [stk EXCEPT !.window = 0, !.packets = 0]
             w == [stk EXCEPT !.window = @ - len, !.packets = @ + 1]
             k == nty_tcp_enqueue_acklist(z, "wack")
             x == nty_tcp_send_tcppkt(w, {"ACK"}, len)
  <1>1. /\ Well(stk) /\ Sound(stk) /\ IsStream(stk) /\ Fits(stk) /\ stk.on_send_list
        /\ stk.state \in Sending /\ UNCHANGED <<done, peer, up, down>>
    BY AroundHere DEF CInv, TInv, Agrees, FlushSendbuffer
  <1>2. FinHeldBack(stk) /\ stk.state \in Unfinished /\ stk.sndbuf # NoBuf
    BY <1>1 DEF Sending, FinHeldBack, Connected, Unfinished, Fits, SenderFits
  <1>3. /\ stk.sndbuf.head \in Int /\ stk.sndbuf.len \in Int /\ stk.snd_nxt \in Int
        /\ stk.snd_una \in Int /\ stk.window \in Nat /\ stk.packets \in Int /\ done.sent \in Int
    BY <1>1, AroundHere DEF IsStream, Around
  <1>14. ~SynWaits
    BY <1>1 DEF SynWaits, Sending, Fits
  <1>4. /\ stk.sndbuf.head <= stk.snd_nxt /\ stk.snd_nxt <= done.sent + 1
        /\ stk.sndbuf.head + stk.sndbuf.len = done.sent + 1
    BY <1>1, <1>2, <1>3 DEF Fits, SenderFits
  <1>5. SndNxtInBuffer
    BY <1>3, <1>4 DEF SndNxtInBuffer
  <1>6. len \in Nat /\ len <= stk.window /\ stk.snd_nxt + len <= done.sent + 1
    <2>1. Unsent(stk) \in Nat /\ stk.snd_nxt + Unsent(stk) = done.sent + 1
      BY <1>3, <1>4 DEF Unsent
    <2>2. Mss - OptLen \in Nat
      BY TcpAssumption
    <2> HIDE DEF Unsent
    <2> QED BY <1>3, <2>1, <2>2 DEF Min2
  <1> HIDE DEF len
  <1>7. ASSUME NEW n \in Nat, NEW m \in Int
        PROVE  LET q == [stk EXCEPT !.window = n, !.packets = m] IN
               Keeps(stk, q) /\ Eases(stk, q) /\ q.on_send_list = stk.on_send_list
                 /\ q.snd_nxt = stk.snd_nxt
    BY <1>1, FieldNames, ZenonT(30) DEF IsStream, Keeps, Eases
  <1>8. /\ Keeps(stk, y) /\ Eases(stk, y)
        /\ Keeps(stk, z) /\ Eases(stk, z)
        /\ Keeps(stk, w) /\ Eases(stk, w) /\ w.on_send_list = stk.on_send_list
        /\ w.snd_nxt = stk.snd_nxt
    <2>1. stk.window - len \in Nat /\ 0 \in Nat /\ 0 \in Int /\ stk.packets + 1 \in Int
      BY <1>3, <1>6
    <2>2. Keeps(stk, y) /\ Eases(stk, y)
      BY <1>1, <2>1, FieldNames DEF IsStream, Keeps, Eases
    <2> QED BY <1>7, <2>1, <2>2
  <1>9. \/ Becomes(y, "unlist")
        \/ Becomes(z, "net")
        \/ Becomes(k, "net")
        \/ len > 0 /\ Becomes(x, "flushing")
    BY <1>3, <1>5, <1>6 DEF FlushSendbuffer, len
  <1> HIDE DEF y, z, w
  <1>10. /\ Well(y) /\ Well(z) /\ IsStream(z)
         /\ Well(w) /\ Sound(w) /\ IsStream(w) /\ Fits(w) /\ FinHeldBack(w)
         /\ w.sndbuf # NoBuf /\ w.state = stk.state
    BY <1>1, <1>2, <1>8, StaysSound, EasesFits DEF Well, Sound, Eases, FinHeldBack
  <1>11. CASE Becomes(y, "unlist") \/ Becomes(z, "net")
    BY <1>1, <1>10, <1>11, <1>14, StepAgrees
  <1>12. CASE Becomes(k, "net")
    <2>1. Keeps(z, k) /\ Eases(z, k)
      BY <1>10, ListsKeep, ListsEase
    <2> HIDE DEF k
    <2>2. Well(k)
      BY <1>10, <2>1, StaysSound, EasesFits DEF Well
    <2> QED BY <1>1, <1>12, <1>14, <2>2, StepAgrees
  <1>13. CASE len > 0 /\ Becomes(x, "flushing")
    <2>1. Fits(x) /\ SameButSent(w, x)
      BY <1>6, <1>8, <1>10, <1>13, DataFits
    <2>2. Sound(x)
      <3>1. {"ACK"} \in SUBSET Flags /\ w.state \in Timed
        BY <1>1, <1>10 DEF Flags, Sending, Timed
      <3> QED BY <1>6, <1>10, <3>1, CountedKeeps
    <2> HIDE DEF x
    <2>3. Well(x) /\ x.on_send_list
      BY <1>1, <1>8, <2>1, <2>2 DEF Well, SameButSent
    <2> QED BY <1>1, <1>13, <1>14, <2>3, StepAgrees
  <1> QED BY <1>9, <1>11, <1>12, <1>13

LEMMA LeaveSendlistAgrees ==
  ASSUME CInv, LeaveSendlist
  PROVE  Agrees'
  <1> DEFINE cnt == IF stk.ack_cnt > stk.packets THEN stk.ack_cnt - stk.packets ELSE 0
             l == [stk EXCEPT !.on_send_list = FALSE, !.packets = 0, !.ack_cnt = cnt]
             n == NoLongerWaiting(l, l.on_ack_list)
  <1>1. Well(stk) /\ Sound(stk) /\ IsStream(stk) /\ Fits(stk)
    BY AroundHere
  <1>2. Keeps(stk, l) /\ Eases(stk, l)
    <2>1. cnt \in Int
      BY <1>1 DEF IsStream
    <2> HIDE DEF cnt
    <2> QED BY <1>1, <2>1, FieldNames DEF IsStream, Keeps, Eases
  <1>3. Becomes(n, "net") /\ UNCHANGED <<done, peer, up, down>>
    BY DEF LeaveSendlist
  <1> HIDE DEF cnt, l
  <1>4. Keeps(l, n) /\ Eases(l, n)
    <2>1. IsStream(l)
      BY <1>2 DEF Keeps
    <2> QED BY <2>1, ListsKeep, ListsEase
  <1> HIDE DEF n
  <1>5. Well(n)
    BY <1>1, <1>2, <1>4, StaysSound, EasesFits DEF Well
  <1>6. n.state = stk.state /\ n.nic = stk.nic
    BY <1>2, <1>4 DEF Eases
  <1>7. SynWaits /\ n.state = "NONE" => Unanswered(n)
    BY <1>6 DEF CInv, Agrees, SynComesAlone, SynWaits, Unanswered
  <1> QED BY <1>3, <1>5, <1>7, StepAgrees

LEMMA ReadAgrees ==
  ASSUME CInv, Read
  PROVE  Agrees'
  <1>1. PICK env \in Env : Becomes(nty_tcp_process(stk, Head(up), env), "chunks")
    BY DEF Read
  <1>2. Well(stk) /\ Around /\ Sound(stk) /\ up \in Seq(Segments) /\ up # <<>>
    BY AroundHere DEF CInv, TInv, Read
  <1>3. Head(up) \in Segments /\ Arrives(Head(up))
    BY <1>2, SegmentSequences, SequenceElements DEF CInv, Agrees
  <1>12. /\ Head(up) = up[1] /\ 1 \in DOMAIN up /\ Tail(up) \in Seq(Segments)
         /\ \A i \in DOMAIN Tail(up) : i + 1 \in DOMAIN up /\ Tail(up)[i] = up[i + 1]
    BY <1>2, SequenceElements
  <1>13. First(Head(up))
    <2>1. \A i \in DOMAIN up : i \in Nat /\ 1 <= i
      BY <1>2
    <2>2. AcksInOrder
      BY DEF CInv, Agrees
    <2> QED BY <1>12, <2>1, <2>2 DEF First, AcksFrom, AcksInOrder
  <1>14. stk.state = "NONE" /\ Has(Head(up), "SYN") => Unanswered(stk)
    BY <1>2, <1>3 DEF CInv, Agrees, SynComesAlone, SynWaits, Arrives
  <1> DEFINE s == nty_tcp_process(stk, Head(up), env)
  <1>4. Sound(s)
    BY <1>2, <1>3, ProcessFollows DEF Follows
  <1>5. Fits(s)
    BY <1>2, <1>3, <1>13, <1>14, ProcessFits
  <1> HIDE DEF s
  <1>6. Well(s)
    BY <1>4, <1>5 DEF Well
  <1>7. Becomes(s, "chunks")
    BY <1>1 DEF s
  <1>8. UNCHANGED <<done, peer, down>> /\ up' = Tail(up)
    BY DEF Read
  <1>9. /\ Fits(stk)' /\ PeerFits' /\ stk'.signals = {}
        /\ pc' \in {"dead", "chunks"}
    <2>1. \A i \in DOMAIN up' : \E j \in DOMAIN up : up'[i] = up[j]
      BY <1>8, <1>12
    <2> QED BY <1>2, <1>6, <1>7, <1>8, <2>1, StepFits
  <1>15. AcksInOrder'
    <2>1. AcksInOrder
      BY DEF CInv, Agrees
    <2>2. \A i, j \in DOMAIN Tail(up) : i <= j => i + 1 <= j + 1
      BY <1>12
    <2> QED BY <1>8, <1>12, <2>1, <2>2 DEF AcksInOrder
  <1>16. SynComesAlone'
    <2>1. peer.st = "syn_sent" => Len(up) = 1
      BY <1>2 DEF CInv, Agrees, SynComesAlone, SynWaits
    <2>2. Len(up) = 1 => Tail(up) = <<>>
      <3>1. Len(Tail(up)) = Len(up) - 1
        BY <1>2
      <3>2. Len(Tail(up)) = 0 => Tail(up) = <<>>
        BY <1>12
      <3> QED BY <3>1, <3>2
    <2> QED BY <1>8, <2>1, <2>2 DEF SynComesAlone, SynWaits
  <1>10. (\A i \in DOMAIN up : Arrives(up[i]))'
    <2>1. \A i \in DOMAIN Tail(up) : Arrives(Tail(up)[i])
      BY <1>2, SequenceElements DEF CInv, Agrees
    <2> QED BY <1>8, <2>1 DEF Arrives, PeerSent
  <1>11. done' \in [sent : Int, got : Int, eof : {"no", "end", "reset"}]
    BY <1>8 DEF CInv, Agrees
  <1> QED BY <1>9, <1>10, <1>11, <1>15, <1>16 DEF Agrees

LEMMA NicAgrees ==
  ASSUME CInv, nty_nic_send_pkts
  PROVE  Agrees'
  <1> DEFINE n == [stk EXCEPT !.nic = <<>>]
  <1>1. /\ Well(stk) /\ Around /\ Sound(stk) /\ IsStream(stk) /\ Fits(stk)
        /\ stk.nic \in Seq(Segments) /\ down \in Seq(Segments)
    BY AroundHere DEF IsStream, Around
  <1>2. Keeps(stk, n) /\ SameButSent(stk, n) /\ n.nic = <<>> /\ n.snd_nxt = stk.snd_nxt
    BY <1>1, FieldNames DEF IsStream, Keeps, SameButSent
  <1>3. /\ Becomes(n, "chunks") /\ up = <<>> /\ UNCHANGED <<done, peer, up>>
        /\ down' = down \o stk.nic
    BY DEF nty_nic_send_pkts
  <1> HIDE DEF n
  <1>4. n.on_rto = stk.on_rto
    BY <1>2 DEF Keeps
  <1>5. Sound(n)
    BY <1>1, <1>2, StaysSound
  <1>6. \A p : Carries(stk, p) => Carries(n, p)
    BY <1>2 DEF Carries, SameButSent
  <1>7. Fits(n)
    <2>1. SenderFits(n) /\ ReceiverFits(n)
      BY <1>1, <1>2, <1>4 DEF Fits, SameButSent, SenderFits, ReceiverFits, FinHeldBack
    <2>2. AppFits(n) /\ Awakes(n)
      BY <1>1, <1>2 DEF Fits, SameButSent, AppFits, Awakes
    <2>3. Carried(n)
      BY <1>1, <1>2, <1>6 DEF Fits, Carried
    <2> QED BY <1>1, <1>2, <2>1, <2>2, <2>3 DEF Fits, SameButSent
  <1>8. \A i \in DOMAIN down' : Carries(n, down'[i])
    <2>1. \A i \in DOMAIN (down \o stk.nic) : Carries(stk, (down \o stk.nic)[i])
      BY <1>1, SequenceElements DEF Fits, Carried
    <2> QED BY <1>3, <1>6, <2>1
  <1>9. down' \in Seq(Segments) /\ (peer.st = "closed" => down' = <<>>)
    <2>1. down' \in Seq(Segments)
      BY <1>1, <1>3, SegmentSequences
    <2>2. ASSUME peer.st = "closed" PROVE down' = <<>>
      <3>1. down = <<>> /\ stk.nic = <<>>
        BY <1>1, <2>2 DEF Around, PeerFits, Fits
      <3> QED BY <1>3, <3>1
    <2> QED BY <2>1, <2>2
  <1>10. /\ Fits(stk)' /\ PeerFits' /\ stk'.signals = {}
         /\ pc' \in {"dead", "chunks"}
    BY <1>1, <1>3, <1>5, <1>7, <1>8, <1>9, BecomesFits DEF Well
  <1>11. (\A i \in DOMAIN up : Arrives(up[i]))' /\ AcksInOrder' /\ SynComesAlone'
    BY <1>3 DEF AcksInOrder, SynComesAlone, SynWaits
  <1>12. done' \in [sent : Int, got : Int, eof : {"no", "end", "reset"}]
    BY <1>1, <1>3 DEF Around
  <1> QED BY <1>10, <1>11, <1>12 DEF Agrees

-----------------------------------------------------------------------------
(* The application.                                                        *)

(* Whoever has the connection in his hands finds it connected, the peer    *)
(* there, and no FIN of ours on the way.                                   *)
LEMMA InHands ==
  ASSUME CInv, stk.socket \/ stk.in_acceptq, app # "closed"
  PROVE  /\ stk.state \in Connected /\ peer.st \notin {"closed", "syn_sent"} /\ ~stk.orphan
         /\ ~AppEnded /\ ~peer.gotfin
         /\ \A i \in DOMAIN stk.nic : ~Has(stk.nic[i], "FIN")
         /\ \A i \in DOMAIN down : ~Has(down[i], "FIN")
  <1>1. stk.state \in Connected
    BY AroundHere, SocketState DEF Connected
  <1>2. ~AppEnded
    BY DEF AppEnded, CInv, Agrees
  <1>3. ~peer.gotfin /\ peer.st \notin {"closed", "syn_sent"} /\ ~stk.orphan
    BY <1>1, <1>2 DEF CInv, Agrees, PeerFits, Fits, AppFits, Connected
  <1>4. /\ \A i \in DOMAIN stk.nic : ~Has(stk.nic[i], "FIN")
        /\ \A i \in DOMAIN down : ~Has(down[i], "FIN")
    BY <1>2 DEF CInv, Agrees, Fits, Carried, Carries
  <1> QED BY <1>1, <1>2, <1>3, <1>4

(* What is on the way stays right when the application has done something, *)
(* if it has not taken back what it sent or its close().                   *)
LEMMA CarriedStays ==
  ASSUME CInv, stk'.nic = stk.nic, stk'.state = stk.state, stk'.rcv_nxt = stk.rcv_nxt,
         UNCHANGED <<peer, down>>, done'.sent \in Int,
         done'.sent = done.sent \/ (done.sent <= done'.sent /\ ~AppEnded),
         AppEnded => AppEnded'
  PROVE  Carried(stk)'
  <1>1. /\ stk.nic \in Seq(Segments) /\ down \in Seq(Segments) /\ done.sent \in Int
        /\ Carried(stk)
    BY AroundHere DEF IsStream, Around, Fits
  <1>2. ASSUME NEW p \in Segments, Carries(stk, p)
        PROVE  Carries(stk, p)'
    <2>1. p.seq \in Int /\ p.len \in Int
      BY DEF Segments
    <2> QED BY <1>1, <1>2, <2>1 DEF Carries
  <1>3. /\ \A i \in DOMAIN stk.nic : stk.nic[i] \in Segments
        /\ \A i \in DOMAIN down : down[i] \in Segments
    BY <1>1
  <1> QED BY <1>1, <1>2, <1>3 DEF Carried

(* A step of the application that leaves the stack thread, the network and *)
(* the peer alone, and the connection with the one who has it in hands.    *)
LEMMA CallAgrees ==
  ASSUME CInv, UNCHANGED <<pc, peer, up, down>>,
         SenderFits(stk)', ReceiverFits(stk)', AppFits(stk)', Awakes(stk)', Carried(stk)',
         stk'.crashed = stk.crashed, stk'.state = stk.state, stk'.orphan = stk.orphan,
         stk'.nic = stk.nic, stk'.signals = stk.signals, stk'.last_ack_seq = stk.last_ack_seq,
         stk'.on_send_list = stk.on_send_list, app # "closed",
         done' \in [sent : Int, got : Int, eof : {"no", "end", "reset"}],
         done'.sent >= done.sent, done'.got = done.got \/ done'.got \in 0 .. PeerSent,
         peer.st \in {"closed", "syn_sent"} => NothingYet',
         done'.eof = "end" => peer.fin /\ done'.got = peer.snd - 2
  PROVE  Agrees'
  <1>1. /\ ~peer.gotfin /\ PeerFits /\ Fits(stk) /\ stk.signals = {}
        /\ \A i \in DOMAIN up : Arrives(up[i])
        /\ pc = "flushing" => stk.on_send_list
    BY DEF CInv, Agrees, PeerFits, AppEnded
  <1>2. Fits(stk)'
    BY <1>1 DEF Fits
  <1>3. peer.nxt \in Int /\ done.sent \in Int
    BY AroundHere DEF Around, Peers
  <1>4. PeerFits'
    BY <1>1, <1>3 DEF PeerFits, PeerSent
  <1>5. (\A i \in DOMAIN up : Arrives(up[i]))'
    BY <1>1 DEF Arrives, PeerSent
  <1>6. AcksInOrder' /\ SynComesAlone'
    BY DEF CInv, Agrees, AcksInOrder, SynComesAlone, SynWaits, Unanswered
  <1> QED BY <1>1, <1>2, <1>4, <1>5, <1>6 DEF Agrees

LEMMA AcceptAgrees ==
  ASSUME CInv, Accept
  PROVE  Agrees'
  <1>1. /\ IsStream(stk) /\ Sound(stk) /\ Fits(stk) /\ Around
        /\ UNCHANGED <<pc, done, peer, up, down>>
        /\ app = "accept" /\ ~stk.orphan
    BY AroundHere DEF Accept, Alive
  <1>2. CASE stk.in_acceptq
    <2>1. /\ stk.state \in Connected /\ peer.st \notin {"closed", "syn_sent"}
          /\ ~stk.orphan /\ ~AppEnded
      BY <1>1, <1>2, InHands
    <2>2. stk' = [stk EXCEPT !.in_acceptq = FALSE, !.socket = TRUE] /\ app' = "idle"
      BY <1>2 DEF Accept
    <2>3. /\ stk'.state = stk.state /\ stk'.rcv_nxt = stk.rcv_nxt
          /\ stk'.in_order = stk.in_order /\ stk'.ooo = stk.ooo /\ stk'.merged_len = stk.merged_len
          /\ stk'.snd_nxt = stk.snd_nxt /\ stk'.snd_una = stk.snd_una
          /\ stk'.fss = stk.fss /\ stk'.sndbuf = stk.sndbuf /\ stk'.nic = stk.nic
          /\ stk'.on_send_list = stk.on_send_list /\ stk'.on_rto = stk.on_rto
          /\ stk'.on_sendq = stk.on_sendq /\ stk'.on_closeq = stk.on_closeq
          /\ stk'.on_timeout_list = stk.on_timeout_list
          /\ stk'.have_reset = stk.have_reset /\ stk'.orphan = stk.orphan
          /\ stk'.socket /\ stk'.signals = stk.signals
          /\ stk'.crashed = stk.crashed /\ stk'.last_ack_seq = stk.last_ack_seq
      BY <1>1, <2>2, FieldNames DEF IsStream
    <2>4. ~stk.on_closeq
      BY <1>1, <1>2, SocketState
    <2>5. SenderFits(stk)' /\ ReceiverFits(stk)'
      BY <1>1, <2>1, <2>3, <2>4
         DEF Fits, SenderFits, AcksFrom, ReceiverFits, FinHeldBack, Connected, PeerSent
    <2>6. AppFits(stk)' /\ Awakes(stk)'
      BY <1>1, <2>1, <2>2, <2>3 DEF Fits, AppFits, Awakes
    <2>7. Carried(stk)'
      BY <1>1, <2>1, <2>3, CarriedStays DEF Around
    <2>8. done.eof = "end" => peer.fin /\ done.got = peer.snd - 2
      BY <1>1 DEF Around, PeerFits
    <2>9. done'.sent >= done.sent /\ done' \in [sent : Int, got : Int, eof : {"no", "end", "reset"}]
      BY <1>1 DEF Around
    <2> QED BY <1>1, <2>1, <2>3, <2>5, <2>6, <2>7, <2>8, <2>9, CallAgrees
  <1>3. CASE ~stk.in_acceptq
    <2>1. stk' = stk /\ app' = "await"
      BY <1>3 DEF Accept
    <2>2. (NothingYet => NothingYet') /\ ~AppEnded
      BY <1>1, <2>1 DEF NothingYet, AppEnded
    <2>3. SenderFits(stk)' /\ ReceiverFits(stk)'
      BY <1>1, <2>1, <2>2 DEF Fits, SenderFits, AcksFrom, ReceiverFits, FinHeldBack, PeerSent
    <2>4. AppFits(stk)' /\ Awakes(stk)'
      BY <1>1, <1>3, <2>1 DEF Fits, AppFits, Awakes
    <2>5. Carried(stk)'
      BY <1>1, <2>1, <2>2, CarriedStays DEF Around
    <2>6. /\ peer.st \in {"closed", "syn_sent"} => NothingYet'
          /\ done.eof = "end" => peer.fin /\ done.got = peer.snd - 2
      BY <1>1, <2>2 DEF Around, PeerFits
    <2>7. done'.sent >= done.sent /\ done' \in [sent : Int, got : Int, eof : {"no", "end", "reset"}]
      BY <1>1 DEF Around
    <2> QED BY <1>1, <2>1, <2>3, <2>4, <2>5, <2>6, <2>7, CallAgrees
  <1> QED BY <1>2, <1>3

LEMMA RecvAgrees ==
  ASSUME CInv, Recv
  PROVE  Agrees'
  <1>1. /\ IsStream(stk) /\ Sound(stk) /\ Fits(stk) /\ Around
        /\ UNCHANGED <<pc, peer, up, down>>
        /\ app \in {"idle", "recv"} /\ stk.socket /\ done.eof = "no"
    BY AroundHere DEF Recv, HasSocket
  <1>2. /\ stk.state \in Connected /\ peer.st \notin {"closed", "syn_sent"}
        /\ ~stk.orphan /\ ~AppEnded
    BY <1>1, InHands
  <1>3. stk.merged_len \in Int /\ done.sent \in Int /\ done.got \in Int
    BY <1>1 DEF IsStream, Around
  <1>4. CASE RecvData
    <2>1. PICK n \in 1 .. MaxIn : n <= stk.merged_len /\ Copy(n)
      BY <1>4 DEF RecvData
    <2>2. n \in Int /\ 1 <= n
      BY TcpAssumption
    <2>3. /\ done'.got = done.got + n /\ done'.sent = done.sent /\ done'.eof = done.eof
          /\ done' \in [sent : Int, got : Int, eof : {"no", "end", "reset"}]
      <3>1. done' = [done EXCEPT !.got = @ + n]
        BY <2>1 DEF Copy
      <3>2. done.got + n \in Int
        BY <1>3, <2>2
      <3> QED BY <1>1, <3>1, <3>2 DEF Around
    <2>4. stk' = [stk EXCEPT !.merged_len = @ - n] /\ app' = "idle"
      BY <2>1 DEF Copy
    <2>5. /\ stk'.state = stk.state /\ stk'.rcv_nxt = stk.rcv_nxt
          /\ stk'.in_order = stk.in_order /\ stk'.ooo = stk.ooo /\ stk'.merged_len = stk.merged_len - n
          /\ stk'.snd_nxt = stk.snd_nxt /\ stk'.snd_una = stk.snd_una
          /\ stk'.fss = stk.fss /\ stk'.sndbuf = stk.sndbuf /\ stk'.nic = stk.nic
          /\ stk'.on_send_list = stk.on_send_list /\ stk'.on_rto = stk.on_rto
          /\ stk'.on_sendq = stk.on_sendq /\ stk'.on_closeq = stk.on_closeq
          /\ stk'.on_timeout_list = stk.on_timeout_list
          /\ stk'.have_reset = stk.have_reset /\ stk'.orphan = stk.orphan
          /\ stk'.socket = stk.socket /\ stk'.in_acceptq = stk.in_acceptq
          /\ stk'.signals = stk.signals
          /\ stk'.crashed = stk.crashed /\ stk'.last_ack_seq = stk.last_ack_seq
      BY <1>1, <2>4, FieldNames, ZenonT(30) DEF IsStream
    <2>6. done'.got + stk'.merged_len = done.got + stk.merged_len
      BY <1>3, <2>2, <2>3, <2>5
    <2>7. ~stk.on_closeq
      BY <1>1, SocketState
    <2>8. SenderFits(stk)'
      BY <1>1, <1>2, <2>3, <2>5, <2>7 DEF Fits, SenderFits, AcksFrom, FinHeldBack, Connected
    <2>13. 0 <= stk'.merged_len /\ done'.got \in 0 .. PeerSent
      <3>1. /\ stk.in_order \in Int /\ PeerSent \in Int /\ 0 <= done.got
            /\ stk.in_order <= PeerSent + 1 /\ done.got + stk.merged_len <= stk.in_order - 1
        <4>1. stk.in_order \in Int /\ PeerSent \in Int
          BY <1>1 DEF IsStream, Around, Peers, PeerSent
        <4>2. 0 <= done.got
          BY <1>1 DEF Around, PeerFits
        <4>3. stk.in_order <= PeerSent + 1 /\ done.got + stk.merged_len <= stk.in_order - 1
          BY <1>1, <1>2 DEF Fits, ReceiverFits, Connected
        <4> QED BY <4>1, <4>2, <4>3
      <3>2. done'.got = done.got + n /\ n <= stk.merged_len /\ stk'.merged_len = stk.merged_len - n
        BY <2>1, <2>3, <2>5
      <3> HIDE DEF PeerSent
      <3> QED BY <1>3, <2>2, <3>1, <3>2
    <2>14. PeerSent' = PeerSent
      BY <1>1 DEF PeerSent
    <2>9. ReceiverFits(stk)'
      BY <1>1, <1>2, <2>5, <2>6, <2>13, <2>14 DEF Fits, ReceiverFits, Connected
    <2>10. AppFits(stk)' /\ Awakes(stk)'
      BY <1>1, <1>2, <2>4, <2>5 DEF Fits, AppFits, Awakes
    <2>11. Carried(stk)'
      BY <1>1, <1>2, <1>3, <2>3, <2>5, CarriedStays
    <2>12. done'.sent >= done.sent /\ done'.eof # "end"
      BY <1>1, <1>3, <2>3
    <2> QED BY <1>1, <1>2, <2>3, <2>5, <2>8, <2>9, <2>10, <2>11, <2>12, <2>13, CallAgrees
  <1>5. CASE RecvNothing \/ RecvWaits
    <2>1. stk' = stk /\ done'.sent = done.sent /\ done'.got = done.got
          /\ done' \in [sent : Int, got : Int, eof : {"no", "end", "reset"}]
      BY <1>1, <1>5 DEF RecvNothing, RecvWaits, Around
    <2>2. /\ app' \in {"idle", "rwait"}
          /\ app' = "rwait" => stk.merged_len = 0 /\ stk.state = "ESTABLISHED"
      BY <1>5 DEF RecvNothing, RecvWaits
    <2>3. SenderFits(stk)' /\ ReceiverFits(stk)'
      <3>1. ~stk.on_closeq
        BY <1>1, SocketState
      <3> QED BY <1>1, <1>2, <2>1, <3>1
              DEF Fits, SenderFits, AcksFrom, ReceiverFits, FinHeldBack, Connected, PeerSent
    <2>4. AppFits(stk)' /\ Awakes(stk)'
      BY <1>1, <1>2, <2>1, <2>2 DEF Fits, AppFits, Awakes
    <2>5. Carried(stk)'
      BY <1>1, <1>2, <1>3, <2>1, CarriedStays
    <2>6. done'.eof = "end" => peer.fin /\ done'.got = peer.snd - 2
      <3>1. done'.eof = "end" => stk.merged_len = 0 /\ stk.state # "ESTABLISHED" /\ ~stk.have_reset
        BY <1>1, <1>5 DEF RecvNothing, RecvWaits, Around
      <3>2. done'.eof = "end" => stk.state = "CLOSE_WAIT"
        BY <1>2, <3>1 DEF Connected
      <3> QED BY <1>1, <1>3, <2>1, <3>1, <3>2 DEF Fits, ReceiverFits
    <2>7. done'.sent >= done.sent
      BY <1>3, <2>1
    <2> QED BY <1>1, <1>2, <2>1, <2>3, <2>4, <2>5, <2>6, <2>7, CallAgrees
  <1> QED BY <1>4, <1>5 DEF Recv

LEMMA SendAgrees ==
  ASSUME CInv, Send
  PROVE  Agrees'
  <1>1. /\ IsStream(stk) /\ Sound(stk) /\ Fits(stk) /\ Around
        /\ UNCHANGED <<pc, peer, up, down>> /\ app = "idle" /\ stk.socket
    BY AroundHere DEF Send, HasSocket
  <1>2. /\ stk.state \in Connected /\ peer.st \notin {"closed", "syn_sent"}
        /\ ~stk.orphan /\ ~AppEnded /\ ~stk.on_closeq
    BY <1>1, InHands, SocketState
  <1>3. /\ done.sent \in Int /\ stk.sndbuf \in [head : Int, len : Int]
        /\ stk.snd_una \in Int /\ stk.snd_nxt \in Int
    BY <1>1 DEF IsStream, Around
  <1>4. CASE stk.snd_wnd > 0 /\ nty_copy_from_user
    <2> DEFINE n == Min2(stk.snd_wnd, SendLen)
               buf == IF stk.sndbuf = NoBuf THEN [head |-> 1, len |-> 0] ELSE stk.sndbuf
               b == [buf EXCEPT !.len = @ + n]
    <2>1. n \in Int /\ n > 0
      <3>1. stk.snd_wnd \in Int /\ SendLen \in Int /\ SendLen > 0
        BY <1>1, TcpAssumption DEF IsStream
      <3> QED BY <1>4, <3>1 DEF Min2
    <2>2. /\ stk' = [stk EXCEPT !.sndbuf = b, !.snd_wnd = SndBuf - (buf.len + n)]
          /\ done' = [done EXCEPT !.sent = @ + n] /\ app' = "enq"
      BY <1>4 DEF nty_copy_from_user
    <2> HIDE DEF n
    <2>3. buf \in [head : Int, len : Int] /\ buf.len >= 0
      BY <1>1, <1>3 DEF Sound, FinBehindData
    <2>4. buf.head = stk.snd_una /\ buf.head + buf.len = done.sent + 1
      <3>1. stk.state \in Unfinished
        BY <1>2 DEF Connected, Unfinished
      <3> QED BY <1>1, <1>3, <3>1 DEF Fits, SenderFits, AcksFrom
    <2> HIDE DEF buf
    <2>5. /\ b.head = stk.snd_una /\ b.head + b.len = done.sent + n + 1 /\ b # NoBuf
      <3>1. b.head = buf.head /\ b.len = buf.len + n
        BY <2>3
      <3>2. b.len # -1
        BY <2>1, <2>3, <3>1
      <3> HIDE DEF b
      <3> QED BY <1>3, <2>1, <2>3, <2>4, <3>1, <3>2 DEF NoBuf
    <2> HIDE DEF b
    <2>6. /\ done'.sent = done.sent + n /\ done'.got = done.got /\ done'.eof = done.eof
          /\ done' \in [sent : Int, got : Int, eof : {"no", "end", "reset"}]
      <3>1. done.sent + n \in Int
        BY <1>3, <2>1
      <3> QED BY <1>1, <2>2, <3>1 DEF Around
    <2>7. /\ stk'.state = stk.state /\ stk'.rcv_nxt = stk.rcv_nxt
          /\ stk'.in_order = stk.in_order /\ stk'.ooo = stk.ooo /\ stk'.merged_len = stk.merged_len
          /\ stk'.snd_nxt = stk.snd_nxt /\ stk'.snd_una = stk.snd_una
          /\ stk'.fss = stk.fss /\ stk'.sndbuf = b /\ stk'.nic = stk.nic
          /\ stk'.on_send_list = stk.on_send_list /\ stk'.on_rto = stk.on_rto
          /\ stk'.on_sendq = stk.on_sendq /\ stk'.on_closeq = stk.on_closeq
          /\ stk'.on_timeout_list = stk.on_timeout_list
          /\ stk'.have_reset = stk.have_reset /\ stk'.orphan = stk.orphan
          /\ stk'.socket = stk.socket /\ stk'.in_acceptq = stk.in_acceptq
          /\ stk'.signals = stk.signals
          /\ stk'.crashed = stk.crashed /\ stk'.last_ack_seq = stk.last_ack_seq
      BY <1>1, <2>2, FieldNames, ZenonT(30) DEF IsStream
    <2>8. SenderFits(stk)'
      BY <1>1, <1>2, <1>3, <2>1, <2>5, <2>6, <2>7, SMTT(30)
         DEF Fits, SenderFits, AcksFrom, FinHeldBack, Connected, Unfinished
    <2>9. ReceiverFits(stk)'
      BY <1>1, <1>2, <2>6, <2>7 DEF Fits, ReceiverFits, Connected, PeerSent
    <2>10. AppFits(stk)' /\ Awakes(stk)'
      BY <1>1, <1>2, <2>2, <2>5, <2>7 DEF Fits, AppFits, Awakes
    <2>11. done.sent <= done'.sent /\ done'.sent >= done.sent /\ done'.sent \in Int
      BY <1>3, <2>1, <2>6
    <2>12. Carried(stk)'
      BY <1>1, <1>2, <2>7, <2>11, CarriedStays
    <2>13. done'.eof = "end" => peer.fin /\ done'.got = peer.snd - 2
      BY <1>1, <2>6 DEF Around, PeerFits
    <2> QED BY <1>1, <1>2, <2>6, <2>7, <2>8, <2>9, <2>10, <2>11, <2>12, <2>13, CallAgrees
  <1>5. CASE stk' = stk /\ done' = done /\ app' = "swait"
    <2>1. SenderFits(stk)' /\ ReceiverFits(stk)'
      BY <1>1, <1>2, <1>5 DEF Fits, SenderFits, AcksFrom, ReceiverFits, FinHeldBack, Connected, PeerSent
    <2>2. AppFits(stk)' /\ Awakes(stk)'
      BY <1>1, <1>2, <1>5 DEF Fits, AppFits, Awakes
    <2>3. Carried(stk)'
      BY <1>1, <1>2, <1>3, <1>5, CarriedStays
    <2>4. done'.sent >= done.sent /\ done' \in [sent : Int, got : Int, eof : {"no", "end", "reset"}]
      BY <1>1, <1>3, <1>5 DEF Around
    <2>5. done'.eof = "end" => peer.fin /\ done'.got = peer.snd - 2
      BY <1>1, <1>5 DEF Around, PeerFits
    <2> QED BY <1>1, <1>2, <1>5, <2>1, <2>2, <2>3, <2>4, <2>5, CallAgrees
  <1> QED BY <1>4, <1>5 DEF Send

LEMMA EnqueueAgrees ==
  ASSUME CInv, SendEnqueue
  PROVE  Agrees'
  <1>1. /\ IsStream(stk) /\ Sound(stk) /\ Fits(stk) /\ Around
        /\ UNCHANGED <<pc, done, peer, up, down>> /\ app = "enq" /\ stk.socket /\ app' = "idle"
    BY AroundHere DEF SendEnqueue, HasSocket
  <1>2. /\ stk.state \in Connected /\ peer.st \notin {"closed", "syn_sent"}
        /\ ~stk.orphan /\ ~AppEnded /\ ~stk.on_closeq
    BY <1>1, InHands, SocketState
  <1>3. stk.sndbuf # NoBuf
    BY <1>1 DEF Fits, AppFits
  <1>4. /\ stk'.state = stk.state /\ stk'.rcv_nxt = stk.rcv_nxt
        /\ stk'.in_order = stk.in_order /\ stk'.ooo = stk.ooo /\ stk'.merged_len = stk.merged_len
        /\ stk'.snd_nxt = stk.snd_nxt /\ stk'.snd_una = stk.snd_una
        /\ stk'.fss = stk.fss /\ stk'.sndbuf = stk.sndbuf /\ stk'.nic = stk.nic
        /\ stk'.on_send_list = stk.on_send_list /\ stk'.on_rto = stk.on_rto
        /\ stk'.on_closeq = stk.on_closeq
        /\ stk'.on_timeout_list = stk.on_timeout_list
        /\ stk'.have_reset = stk.have_reset /\ stk'.orphan = stk.orphan
        /\ stk'.socket = stk.socket /\ stk'.in_acceptq = stk.in_acceptq
        /\ stk'.signals = stk.signals
        /\ stk'.crashed = stk.crashed /\ stk'.last_ack_seq = stk.last_ack_seq
    <2>1. PICK q : stk' = [stk EXCEPT !.on_sendq = q]
      BY DEF SendEnqueue
    <2> QED BY <1>1, <2>1, FieldNames, ZenonT(30) DEF IsStream
  <1>5. SenderFits(stk)' /\ ReceiverFits(stk)'
    BY <1>1, <1>2, <1>3, <1>4 DEF Fits, SenderFits, AcksFrom, ReceiverFits, FinHeldBack, Connected, PeerSent
  <1>6. AppFits(stk)' /\ Awakes(stk)'
    BY <1>1, <1>2, <1>4 DEF Fits, AppFits, Awakes
  <1>7. /\ done'.sent = done.sent /\ done'.sent \in Int /\ done'.sent >= done.sent
        /\ done' \in [sent : Int, got : Int, eof : {"no", "end", "reset"}]
        /\ done'.eof = "end" => peer.fin /\ done'.got = peer.snd - 2
    BY <1>1 DEF Around, PeerFits
  <1>8. Carried(stk)'
    BY <1>1, <1>2, <1>4, <1>7, CarriedStays
  <1> QED BY <1>1, <1>2, <1>4, <1>5, <1>6, <1>7, <1>8, CallAgrees

LEMMA CloseAgrees ==
  ASSUME CInv, Close
  PROVE  Agrees'
  <1>1. /\ IsStream(stk) /\ Sound(stk) /\ Fits(stk) /\ Around
        /\ UNCHANGED <<pc, done, peer, up, down>> /\ app = "idle" /\ stk.socket /\ app' = "closed"
        /\ stk' = [stk EXCEPT !.socket = FALSE, !.on_closeq = TRUE]
    BY AroundHere DEF Close, HasSocket
  <1>2. /\ stk.state \in Connected /\ peer.st \notin {"closed", "syn_sent"}
        /\ ~stk.orphan /\ ~AppEnded /\ AppEnded'
    BY <1>1, InHands DEF AppEnded
  <1>3. /\ stk'.state = stk.state /\ stk'.rcv_nxt = stk.rcv_nxt
        /\ stk'.in_order = stk.in_order /\ stk'.ooo = stk.ooo /\ stk'.merged_len = stk.merged_len
        /\ stk'.snd_nxt = stk.snd_nxt /\ stk'.snd_una = stk.snd_una
        /\ stk'.fss = stk.fss /\ stk'.sndbuf = stk.sndbuf /\ stk'.nic = stk.nic
        /\ stk'.on_send_list = stk.on_send_list /\ stk'.on_rto = stk.on_rto
        /\ stk'.on_sendq = stk.on_sendq
        /\ stk'.on_timeout_list = stk.on_timeout_list
        /\ stk'.have_reset = stk.have_reset /\ stk'.orphan = stk.orphan
        /\ stk'.in_acceptq = stk.in_acceptq /\ stk'.signals = stk.signals
        /\ stk'.crashed = stk.crashed /\ stk'.last_ack_seq = stk.last_ack_seq
    BY <1>1, FieldNames DEF IsStream
  <1>4. SenderFits(stk)' /\ ReceiverFits(stk)'
    BY <1>1, <1>2, <1>3 DEF Fits, SenderFits, AcksFrom, ReceiverFits, FinHeldBack, Connected, PeerSent
  <1>5. AppFits(stk)' /\ Awakes(stk)'
    BY <1>1, <1>2, <1>3 DEF Fits, AppFits, Awakes
  <1>6. /\ done'.sent = done.sent /\ done'.sent \in Int /\ done'.sent >= done.sent
        /\ done' \in [sent : Int, got : Int, eof : {"no", "end", "reset"}]
        /\ done'.eof = "end" => peer.fin /\ done'.got = peer.snd - 2
    BY <1>1 DEF Around, PeerFits
  <1>7. Carried(stk)'
    BY <1>1, <1>2, <1>3, <1>6, CarriedStays
  <1> QED BY <1>1, <1>2, <1>3, <1>4, <1>5, <1>6, <1>7, CallAgrees

-----------------------------------------------------------------------------
(* The network and the peer.                                               *)

(* What the peer may do when it sends: connect, repeat itself, send or     *)
(* finish, reset.                                                          *)
Proceeds(q) ==
  /\ q.una = peer.una /\ q.nxt = peer.nxt /\ q.gotfin = peer.gotfin
  /\ \/ peer.st = "closed" /\ q.st = "syn_sent" /\ q.snd = 1 /\ q.fin = peer.fin
     \/ q.st = peer.st /\ q.snd = peer.snd /\ q.fin = peer.fin
     \/ peer.st = "open" /\ ~peer.fin /\ q.st = "open" /\ q.snd = peer.snd + 1
     \/ peer.st = "open" /\ q.st = "reset" /\ q.snd = peer.snd /\ q.fin = peer.fin

LEMMA PeerMovesAgrees ==
  ASSUME CInv, Untouched, Proceeds(peer'), peer' \in Peers,
         NEW p, up' = Append(up, p), Arrives(p)', p.ack = peer'.nxt,
         peer'.st = "syn_sent" => up = <<>> /\ stk.nic = <<>>
  PROVE  Agrees'
  <1>1. /\ IsStream(stk) /\ Fits(stk) /\ PeerFits /\ up \in Seq(Segments)
        /\ UNCHANGED <<pc, stk, app, done, down>>
        /\ \A i \in DOMAIN up : up[i] \in Segments
    BY AroundHere DEF CInv, TInv, Agrees, Untouched
  (* the peer takes nothing back *)
  <1>10. PeerSent \in Int /\ PeerSent' \in Int /\ PeerSent <= PeerSent'
    <2>1. /\ peer \in Peers /\ (peer.fin => peer.snd >= 2)
          /\ IF peer.st = "closed" THEN peer.snd = 0 ELSE peer.snd >= 1
      BY <1>1, AroundHere DEF Around, PeerFits
    <2>2. /\ peer.snd \in Int /\ peer.fin \in BOOLEAN
          /\ peer'.snd \in Int /\ peer'.fin \in BOOLEAN
      BY <2>1 DEF Peers
    <2>3. CASE peer'.snd = peer.snd /\ peer'.fin = peer.fin
      BY <2>2, <2>3 DEF PeerSent
    <2>4. CASE peer.st = "closed" /\ peer'.snd = 1 /\ peer'.fin = peer.fin
      <3>1. peer.snd = 0 /\ ~peer.fin
        BY <2>1, <2>4
      <3> QED BY <2>2, <2>4, <3>1 DEF PeerSent
    <2>5. CASE peer.st = "open" /\ ~peer.fin /\ peer'.snd = peer.snd + 1
      <3>1. peer.snd >= 1
        BY <2>1, <2>5
      <3> QED BY <2>2, <2>5, <3>1 DEF PeerSent
    <2> QED BY <2>3, <2>4, <2>5 DEF Proceeds
  (* its acknowledgement is the newest *)
  <1>11. /\ p.ack = peer.nxt
         /\ \A i \in DOMAIN up : up[i].ack <= p.ack
         /\ \A i \in DOMAIN up' : \/ i \in DOMAIN up /\ up'[i] = up[i]
                                  \/ up'[i] = p /\ \A j \in DOMAIN up' : j <= i
         /\ \A i \in DOMAIN up' : i \in Int
    <2>1. \A i \in DOMAIN up : Arrives(up[i])
      BY DEF CInv, Agrees
    <2>2. ASSUME NEW i \in DOMAIN Append(up, p)
          PROVE  \/ i \in DOMAIN up /\ Append(up, p)[i] = up[i]
                 \/ i = Len(up) + 1 /\ Append(up, p)[i] = p
      BY <1>1
    <2>3. Len(up) \in Nat /\ \A j \in DOMAIN Append(up, p) : j \in Int /\ j <= Len(up) + 1
      BY <1>1
    <2>4. p.ack = peer.nxt
      BY DEF Proceeds
    <2>5. \A i \in DOMAIN up : up[i].ack <= p.ack
      BY <2>1, <2>4 DEF Arrives
    <2>6. ASSUME NEW i \in DOMAIN up'
          PROVE  \/ i \in DOMAIN up /\ up'[i] = up[i]
                 \/ up'[i] = p /\ \A j \in DOMAIN up' : j <= i
      BY <2>2, <2>3
    <2>7. \A i \in DOMAIN up' : i \in Int
      BY <2>3
    <2>8. \A i \in DOMAIN up' : \/ i \in DOMAIN up /\ up'[i] = up[i]
                                \/ up'[i] = p /\ \A j \in DOMAIN up' : j <= i
      BY <2>6
    <2> QED BY <2>4, <2>5, <2>7, <2>8
  <1>12. AcksInOrder'
    <2>1. ASSUME NEW i \in DOMAIN up', NEW j \in DOMAIN up', i <= j
          PROVE  up'[i].ack <= up'[j].ack
      <3>1. p.ack <= p.ack
        BY <1>1, <1>11, AroundHere DEF Around, Peers
      <3>2. CASE i \in DOMAIN up /\ up'[i] = up[i]
        BY <1>11, <2>1, <3>2 DEF CInv, Agrees, AcksInOrder
      <3>3. CASE up'[i] = p /\ \A k \in DOMAIN up' : k <= i
        <4>1. i = j
          BY <1>11, <2>1, <3>3
        <4> QED BY <3>1, <3>3, <4>1
      <3> QED BY <1>11, <3>2, <3>3
    <2> QED BY <2>1 DEF AcksInOrder
  <1>13. SynComesAlone'
    <2>1. up = <<>> => Len(Append(up, p)) = 1
      BY <1>1
    <2>2. stk.nic = <<>> => Unanswered(stk)'
      BY <1>1 DEF Unanswered
    <2> QED BY <2>1, <2>2 DEF SynComesAlone, SynWaits
  <1>14. stk.state \in Unfinished => AcksFrom(stk.snd_una)'
    <2>1. stk.state \in Unfinished => AcksFrom(stk.snd_una) /\ stk.snd_una <= peer.nxt
      BY <1>1 DEF Fits, SenderFits
    <2> QED BY <1>1, <1>11, <2>1 DEF AcksFrom
  <1>2. SenderFits(stk)' /\ AppFits(stk)' /\ Awakes(stk)'
    BY <1>1, <1>14
       DEF Fits, SenderFits, FinHeldBack, AppFits, Awakes, NothingYet, AppEnded, Proceeds
  <1>3. ReceiverFits(stk)'
    <2>1. stk.in_order \in Int /\ stk.ooo \subseteq Int
      BY <1>1 DEF IsStream
    <2>2. stk.in_order <= PeerSent' + 1 /\ \A b \in stk.ooo : b <= PeerSent'
      BY <1>1, <1>10, <2>1 DEF Fits, ReceiverFits
    <2> QED BY <1>1, <2>2 DEF Fits, ReceiverFits, Proceeds
  <1>4. ASSUME NEW q, Carries(stk, q)
        PROVE  Carries(stk, q)' \/ peer.st = "closed"
    BY <1>1, <1>4 DEF Carries, AppEnded, Proceeds
  <1>5. Carried(stk)'
    <2>1. CASE peer.st = "closed"
      <3>1. stk'.nic = <<>> /\ down' = <<>>
        BY <1>1, <2>1 DEF Fits, PeerFits
      <3> QED BY <3>1 DEF Carried
    <2>2. CASE peer.st # "closed"
      BY <1>1, <1>4, <2>2 DEF Fits, Carried
    <2> QED BY <2>1, <2>2
  <1>6. Fits(stk)'
    BY <1>1, <1>2, <1>3, <1>5 DEF Fits, Proceeds
  <1>7. PeerFits'
    <2>1. done.got <= PeerSent' /\ peer.snd \in Int
      BY <1>1, <1>10, AroundHere DEF PeerFits, Around, Peers
    <2> QED BY <1>1, <2>1 DEF PeerFits, AppEnded, NothingYet, Proceeds
  <1>8. ASSUME NEW q \in Segments, Arrives(q) PROVE Arrives(q)'
    <2>1. q.len > 0 => q.seq + q.len <= PeerSent' + 1
      BY <1>8, <1>10 DEF Segments, Arrives
    <2> QED BY <1>1, <1>8, <2>1 DEF Arrives, Proceeds
  <1>9. (\A i \in DOMAIN up : Arrives(up[i]))'
    BY <1>1, <1>8, SequenceElements DEF CInv, Agrees
  <1> QED BY <1>1, <1>6, <1>7, <1>9, <1>12, <1>13 DEF CInv, Agrees

(* A segment such as the peer sends, when it is in the state r.            *)
Sends(r, flags, seq, len) ==
  \/ /\ flags = {"SYN"} /\ seq = 0 /\ len = 0 /\ r.st = "syn_sent"
     /\ up = <<>> /\ down = <<>> /\ stk.nic = <<>>
  \/ /\ flags = {"ACK"} /\ r.st = "open" /\ 1 <= r.nxt
     /\ len = 0 \/ (len = 1 /\ seq \in Int /\ seq < r.snd - (IF r.fin THEN 1 ELSE 0))
  \/ flags = {"FIN", "ACK"} /\ len = 0 /\ r.st = "open" /\ 1 <= r.nxt /\ r.fin /\ seq = r.snd - 1
  \/ flags = {"RST"} /\ len = 0 /\ r.st = "reset"

LEMMA FromPeerAgrees ==
  ASSUME CInv, Untouched, NEW flags, NEW seq, NEW len, NEW r \in Peers,
         FromPeer(flags, seq, len, r), Proceeds(r), Sends(r, flags, seq, len)
  PROVE  Agrees'
  <1> DEFINE p == Seg(flags, seq, r.nxt, len, r.wnd)
  <1>1. up' = Append(up, p) /\ peer' = [r EXCEPT !.due = FALSE]
    BY DEF FromPeer, Goes
  <1>2. /\ peer'.st = r.st /\ peer'.snd = r.snd /\ peer'.una = r.una /\ peer'.nxt = r.nxt
        /\ peer'.fin = r.fin /\ peer'.gotfin = r.gotfin
    BY <1>1 DEF Peers
  <1>3. Proceeds(peer')
    BY <1>2 DEF Proceeds
  <1>4. p.flags = flags /\ p.seq = seq /\ p.ack = r.nxt /\ p.len = len
    BY DEF Seg
  <1> HIDE DEF p
  <1>5. r.nxt \in Int /\ r.nxt <= r.nxt /\ down' = down
    BY DEF Peers, Untouched
  <1>6. Arrives(p)'
    <2>1. CASE /\ flags = {"SYN"} /\ seq = 0 /\ len = 0 /\ r.st = "syn_sent"
               /\ up = <<>> /\ down = <<>> /\ stk.nic = <<>>
      BY <1>2, <1>4, <1>5, <2>1 DEF Arrives, Has
    <2>2. CASE /\ flags = {"ACK"} /\ r.st = "open" /\ 1 <= r.nxt
               /\ len = 0 \/ (len = 1 /\ seq \in Int /\ seq < r.snd - (IF r.fin THEN 1 ELSE 0))
      <3>1. len > 0 => seq + len <= PeerSent' + 1
        BY <1>2, <1>3, <2>2, AroundHere DEF Around, Peers, PeerFits, Proceeds, PeerSent
      <3> QED BY <1>2, <1>4, <1>5, <2>2, <3>1 DEF Arrives, Has
    <2>3. CASE flags = {"FIN", "ACK"} /\ len = 0 /\ r.st = "open" /\ 1 <= r.nxt /\ r.fin
               /\ seq = r.snd - 1
      BY <1>2, <1>4, <1>5, <2>3 DEF Arrives, Has
    <2>4. CASE flags = {"RST"} /\ len = 0 /\ r.st = "reset"
      BY <1>2, <1>4, <1>5, <2>4 DEF Arrives, Has
    <2> QED BY <2>1, <2>2, <2>3, <2>4 DEF Sends
  <1>7. peer' \in Peers
    BY <1>1 DEF Peers
  <1>8. p.ack = peer'.nxt /\ (peer'.st = "syn_sent" => up = <<>> /\ stk.nic = <<>>)
    BY <1>2, <1>4 DEF Sends
  <1> QED BY <1>1, <1>3, <1>6, <1>7, <1>8, PeerMovesAgrees

LEMMA PeerSendsAgrees ==
  ASSUME CInv, PeerConnects \/ PeerAcks \/ PeerSends \/ PeerFinishes \/ PeerResets
               \/ PeerSendsAgain
  PROVE  Agrees'
  <1>1. /\ peer \in Peers /\ peer.nxt \in Int /\ peer.snd \in Int /\ peer.una \in Int /\ PeerFits
    BY AroundHere DEF Around, Peers
  <1>2. Untouched
    BY DEF PeerConnects, PeerAcks, PeerSends, PeerFinishes, PeerResets, PeerSendsAgain
  <1>4. CASE PeerConnects
    <2>1. PICK wnd \in PeerWnds :
            FromPeer({"SYN"}, 0, 0, [peer EXCEPT !.st = "syn_sent", !.snd = 1, !.wnd = wnd])
      BY <1>4 DEF PeerConnects
    <2> DEFINE r == [peer EXCEPT !.st = "syn_sent", !.snd = 1, !.wnd = wnd]
    <2>2. wnd \in Nat /\ 1 \in Int /\ peer.st = "closed" /\ down = <<>>
          /\ up = <<>> /\ stk.nic = <<>>
      <3>1. wnd \in Nat
        BY TcpAssumption
      <3>2. peer.st = "closed" /\ down = <<>>
        BY <1>1, <1>4 DEF PeerConnects, PeerFits
      <3>3. up = <<>> /\ stk.nic = <<>>
        <4>1. up \in Seq(Segments) /\ \A i \in DOMAIN up : Arrives(up[i])
          BY AroundHere DEF Around, CInv, Agrees
        <4>2. DOMAIN up = {}
          BY <3>2, <4>1 DEF Arrives
        <4>3. up = <<>>
          BY <4>1, <4>2, SequenceElements
        <4> QED BY <3>2, <4>3, AroundHere DEF Fits
      <3> QED BY <3>1, <3>2, <3>3
    <2>3. ASSUME NEW n \in Int, NEW v \in Nat
          PROVE  LET q == [peer EXCEPT !.st = "syn_sent", !.snd = n, !.wnd = v] IN
                 q \in Peers /\ q.st = "syn_sent" /\ (n = 1 => Proceeds(q))
      BY <1>1, <2>2 DEF Peers, Proceeds
    <2>4. r \in Peers /\ r.st = "syn_sent" /\ Proceeds(r)
      BY <2>2, <2>3
    <2> HIDE DEF r
    <2>5. FromPeer({"SYN"}, 0, 0, r)
      BY <2>1 DEF r
    <2>6. Sends(r, {"SYN"}, 0, 0)
      BY <2>2, <2>4 DEF Sends
    <2> QED BY <1>2, <2>4, <2>5, <2>6, FromPeerAgrees
  <1>5. CASE PeerAcks
    <2>1. Proceeds(peer) /\ peer.st = "open" /\ 1 <= peer.nxt
      BY <1>1, <1>5 DEF Proceeds, PeerAcks, Open, PeerFits
    <2>2. FromPeer({"ACK"}, peer.snd, 0, peer)
      BY <1>5 DEF PeerAcks
    <2>3. Sends(peer, {"ACK"}, peer.snd, 0)
      BY <2>1 DEF Sends
    <2> QED BY <1>1, <1>2, <2>1, <2>2, <2>3, FromPeerAgrees
  <1>6. CASE PeerSends
    <2> DEFINE r == [peer EXCEPT !.snd = @ + 1]
    <2>1. ASSUME NEW n \in Int
          PROVE  LET q == [peer EXCEPT !.snd = n] IN
                 q \in Peers /\ q.st = peer.st /\ q.nxt = peer.nxt /\ q.una = peer.una
                 /\ q.gotfin = peer.gotfin /\ q.fin = peer.fin /\ q.snd = n
      BY <1>1 DEF Peers
    <2>2. peer.snd + 1 \in Int
      BY <1>1
    <2>3. /\ r \in Peers /\ r.st = peer.st /\ r.nxt = peer.nxt /\ r.una = peer.una
          /\ r.gotfin = peer.gotfin /\ r.fin = peer.fin /\ r.snd = peer.snd + 1
      BY <2>1, <2>2
    <2>4. FromPeer({"ACK"}, peer.snd, 1, r) /\ peer.st = "open" /\ ~peer.fin
      BY <1>6 DEF PeerSends, Open
    <2> HIDE DEF r
    <2>5. Proceeds(r) /\ r.st = "open" /\ 1 <= r.nxt
      BY <1>1, <2>3, <2>4 DEF Proceeds, PeerFits
    <2>6. Sends(r, {"ACK"}, peer.snd, 1)
      <3>1. peer.snd < r.snd - (IF r.fin THEN 1 ELSE 0)
        BY <1>1, <2>3, <2>4
      <3> QED BY <1>1, <2>5, <3>1 DEF Sends
    <2> QED BY <1>2, <2>3, <2>4, <2>5, <2>6, FromPeerAgrees
  <1>7. CASE PeerFinishes
    <2> DEFINE r == [peer EXCEPT !.snd = @ + 1, !.fin = TRUE]
    <2>1. ASSUME NEW n \in Int
          PROVE  LET q == [peer EXCEPT !.snd = n, !.fin = TRUE] IN
                 q \in Peers /\ q.st = peer.st /\ q.nxt = peer.nxt /\ q.una = peer.una
                 /\ q.gotfin = peer.gotfin /\ q.fin /\ q.snd = n
      BY <1>1 DEF Peers
    <2>2. peer.snd + 1 \in Int
      BY <1>1
    <2>3. /\ r \in Peers /\ r.st = peer.st /\ r.nxt = peer.nxt /\ r.una = peer.una
          /\ r.gotfin = peer.gotfin /\ r.fin /\ r.snd = peer.snd + 1
      BY <2>1, <2>2
    <2>4. FromPeer({"FIN", "ACK"}, peer.snd, 0, r) /\ peer.st = "open" /\ ~peer.fin
      BY <1>7 DEF PeerFinishes, Open
    <2> HIDE DEF r
    <2>5. Proceeds(r) /\ r.st = "open" /\ 1 <= r.nxt /\ peer.snd = r.snd - 1
      <3>1. peer.snd = r.snd - 1
        BY <1>1, <2>3
      <3> QED BY <1>1, <2>3, <2>4, <3>1 DEF Proceeds, PeerFits
    <2>6. Sends(r, {"FIN", "ACK"}, peer.snd, 0)
      BY <2>3, <2>5 DEF Sends
    <2> QED BY <1>2, <2>3, <2>4, <2>5, <2>6, FromPeerAgrees
  <1>8. CASE PeerResets
    <2> DEFINE r == [peer EXCEPT !.st = "reset"]
    <2>1. /\ r \in Peers /\ r.st = "reset" /\ r.nxt = peer.nxt /\ r.una = peer.una
          /\ r.gotfin = peer.gotfin /\ r.fin = peer.fin /\ r.snd = peer.snd
      BY <1>1 DEF Peers
    <2>2. FromPeer({"RST"}, peer.snd, 0, r) /\ peer.st = "open"
      BY <1>8 DEF PeerResets, Open
    <2> HIDE DEF r
    <2>3. Proceeds(r)
      BY <2>1, <2>2 DEF Proceeds
    <2>4. Sends(r, {"RST"}, peer.snd, 0)
      BY <2>1 DEF Sends
    <2> QED BY <1>2, <2>1, <2>2, <2>3, <2>4, FromPeerAgrees
  <1>9. CASE PeerSendsAgain
    <2>1. /\ Proceeds(peer) /\ peer.st \in {"syn_sent", "open"}
          /\ up = <<>> /\ down = <<>> /\ stk.nic = <<>>
          /\ peer.una < peer.snd
      BY <1>9 DEF Proceeds, PeerSendsAgain, Quiet
    <2>2. \/ peer.st = "syn_sent" /\ FromPeer({"SYN"}, 0, 0, peer)
          \/ peer.st = "open" /\ peer.fin /\ peer.una = peer.snd - 1
             /\ FromPeer({"FIN", "ACK"}, peer.una, 0, peer)
          \/ /\ peer.st = "open" /\ ~(peer.fin /\ peer.una = peer.snd - 1)
             /\ FromPeer({"ACK"}, peer.una, 1, peer)
      BY <1>9 DEF PeerSendsAgain, Open
    <2>3. peer.st = "open" => 1 <= peer.nxt
      BY <1>1 DEF PeerFits
    <2>4. CASE peer.st = "syn_sent" /\ FromPeer({"SYN"}, 0, 0, peer)
      <3>1. Sends(peer, {"SYN"}, 0, 0)
        BY <2>1, <2>4 DEF Sends
      <3> QED BY <1>1, <1>2, <2>1, <2>4, <3>1, FromPeerAgrees
    <2>5. CASE peer.st = "open" /\ peer.fin /\ peer.una = peer.snd - 1
               /\ FromPeer({"FIN", "ACK"}, peer.una, 0, peer)
      <3>1. Sends(peer, {"FIN", "ACK"}, peer.una, 0)
        BY <2>3, <2>5 DEF Sends
      <3> QED BY <1>1, <1>2, <2>1, <2>5, <3>1, FromPeerAgrees
    <2>6. CASE /\ peer.st = "open" /\ ~(peer.fin /\ peer.una = peer.snd - 1)
               /\ FromPeer({"ACK"}, peer.una, 1, peer)
      <3>2. peer.una < peer.snd - (IF peer.fin THEN 1 ELSE 0)
        BY <1>1, <2>1, <2>6
      <3>1. Sends(peer, {"ACK"}, peer.una, 1)
        BY <1>1, <2>3, <2>6, <3>2 DEF Sends
      <3> QED BY <1>1, <1>2, <2>1, <2>6, <3>1, FromPeerAgrees
    <2> QED BY <2>2, <2>4, <2>5, <2>6
  <1> QED BY <1>4, <1>5, <1>6, <1>7, <1>8, <1>9

(* What a segment of ours makes of the peer that hears it.                 *)
LEMMA HearsFits ==
  ASSUME NEW s, NEW p \in Segments, Carries(s, p), ~Has(p, "RST"), peer \in Peers, PeerFits,
         done.sent \in Int,
         peer.st = "open" \/ (peer.st = "syn_sent" /\ Has(p, "SYN")),
         s.state # "NONE" => peer.una <= s.rcv_nxt
  PROVE  LET q == Hears([peer EXCEPT !.st = "open"], p) IN
         /\ q.st = "open" /\ q.snd = peer.snd /\ q.fin = peer.fin
         /\ peer.nxt <= q.nxt /\ q.nxt \in Int /\ 1 <= q.nxt
         /\ peer.gotfin => q.gotfin
         /\ IF q.gotfin THEN q.nxt = done.sent + 2 /\ AppEnded ELSE q.nxt <= done.sent + 1
         /\ s.state # "NONE" => q.una <= s.rcv_nxt
  <1> DEFINE o == [peer EXCEPT !.st = "open"]
             fresh == p.seq = peer.nxt
             g == Grows(p.flags, p.len)
             q == Hears(o, p)
  <1>1. /\ o \in Peers /\ o.st = "open" /\ o.snd = peer.snd /\ o.una = peer.una
        /\ o.nxt = peer.nxt /\ o.fin = peer.fin /\ o.gotfin = peer.gotfin
    BY DEF Peers
  <1> HIDE DEF o
  <1>2. /\ p.seq \in Int /\ p.len \in Int /\ p.ack \in Int /\ peer.nxt \in Int /\ peer.una \in Int
        /\ p.len >= 0 /\ peer.nxt >= 0 /\ done.sent >= 0
    BY DEF Segments, Peers, Carries, PeerFits
  <1>3. /\ q.st = "open" /\ q.snd = peer.snd /\ q.fin = peer.fin
        /\ q.una = Max2(peer.una, p.ack)
        /\ q.nxt = (IF fresh THEN peer.nxt + g ELSE peer.nxt)
        /\ q.gotfin <=> peer.gotfin \/ (fresh /\ Has(p, "FIN"))
    BY <1>1 DEF Hears, Peers
  <1> HIDE DEF q
  <1>4. /\ g \in Nat
        /\ Has(p, "SYN") \/ Has(p, "FIN") => g = p.len + 1
        /\ ~Has(p, "SYN") /\ ~Has(p, "FIN") => g = p.len
    BY <1>2 DEF Grows, Has
  <1> HIDE DEF g
  <1>5. s.state # "NONE" => q.una <= s.rcv_nxt
    <2>1. q.una \in {peer.una, p.ack}
      BY <1>3 DEF Max2
    <2> QED BY <2>1 DEF Carries
  <1> DEFINE Good == /\ peer.nxt <= q.nxt /\ q.nxt \in Int /\ 1 <= q.nxt
                     /\ peer.gotfin => q.gotfin
                     /\ IF q.gotfin THEN q.nxt = done.sent + 2 /\ AppEnded
                                    ELSE q.nxt <= done.sent + 1
  <1>6. ~fresh => Good
    <2> SUFFICES ASSUME ~fresh PROVE Good
      OBVIOUS
    <2>1. peer.st = "syn_sent" => peer.nxt = 0 /\ p.seq = 0
      BY DEF PeerFits, Carries
    <2>2. peer.st = "open"
      BY <2>1
    <2> QED BY <1>2, <1>3, <2>2 DEF PeerFits
  <1>7. fresh /\ Has(p, "SYN") => Good
    <2> SUFFICES ASSUME fresh, Has(p, "SYN") PROVE Good
      OBVIOUS
    <2>1. p.seq = 0 /\ p.len = 0 /\ ~Has(p, "FIN") /\ g = 1 /\ peer.nxt = 0
      BY <1>4 DEF Carries
    <2>2. ~peer.gotfin
      BY <1>2, <2>1 DEF PeerFits
    <2> QED BY <1>2, <1>3, <2>1, <2>2
  <1>8. fresh /\ Has(p, "FIN") /\ ~Has(p, "SYN") => Good
    <2> SUFFICES ASSUME fresh, Has(p, "FIN"), ~Has(p, "SYN") PROVE Good
      OBVIOUS
    <2>1. p.seq = done.sent + 1 /\ p.len = 0 /\ AppEnded /\ g = 1
      BY <1>4 DEF Carries
    <2> QED BY <1>2, <1>3, <2>1
  <1>9. fresh /\ ~Has(p, "FIN") /\ ~Has(p, "SYN") => Good
    <2> SUFFICES ASSUME fresh, ~Has(p, "FIN"), ~Has(p, "SYN") PROVE Good
      OBVIOUS
    <2>1. g = p.len /\ peer.st = "open" /\ peer.nxt >= 1
      BY <1>4 DEF PeerFits
    <2>2. p.len > 0 => p.seq + p.len <= done.sent + 1
      BY DEF Carries
    <2>3. p.len = 0 \/ p.len > 0
      BY <1>2
    <2> QED BY <1>2, <1>3, <2>1, <2>2, <2>3 DEF PeerFits
  <1>10. Good
    BY <1>6, <1>7, <1>8, <1>9
  <1> QED BY <1>3, <1>5, <1>10 DEF q, o

LEMMA PeerHearsAgrees ==
  ASSUME CInv, PeerHears
  PROVE  Agrees'
  <1> DEFINE p == Head(down)
             h == Hears([peer EXCEPT !.st = "open"], p)
  <1>1. /\ IsStream(stk) /\ Fits(stk) /\ PeerFits /\ peer \in Peers /\ down \in Seq(Segments)
        /\ down # <<>> /\ down' = Tail(down) /\ UNCHANGED <<pc, stk, app, done, up>>
        /\ done.sent \in Int
    BY AroundHere DEF Around, PeerHears
  <1>2. /\ p \in Segments /\ Carries(stk, p)
        /\ \A i \in DOMAIN down' : Carries(stk, down'[i])
    BY <1>1, SegmentSequences, SequenceElements DEF Fits, Carried
  <1>3. \/ peer.st \in {"syn_sent", "open"} /\ peer' = [peer EXCEPT !.st = "reset", !.due = FALSE]
        \/ /\ peer.st = "open" \/ (peer.st = "syn_sent" /\ Has(p, "SYN"))
           /\ ~Has(p, "RST") /\ peer' = h
        \/ peer' = peer
    BY DEF PeerHears, Open
  <1>4. peer.st # "closed" /\ (stk.state # "NONE" => peer.una <= stk.rcv_nxt)
    BY <1>1 DEF PeerFits, Fits, ReceiverFits
  <1>5. peer.nxt \in Int /\ stk.snd_una \in Int
    BY <1>1 DEF Peers, IsStream
  (* what is common to the three cases *)
  <1>6. /\ peer'.st \in {"open", "reset"} \/ (peer'.st = "syn_sent" /\ peer' = peer)
        /\ peer.st # "open" \/ peer'.st \in {"open", "reset"}
        /\ peer.st = "reset" => peer'.st = "reset"
        /\ peer'.snd = peer.snd /\ peer'.fin = peer.fin
        /\ peer.nxt <= peer'.nxt /\ peer'.nxt \in Int
        /\ peer'.st = "open" => 1 <= peer'.nxt
        /\ peer.gotfin => peer'.gotfin
        /\ IF peer'.gotfin THEN peer'.nxt = done.sent + 2 /\ AppEnded
                           ELSE peer'.nxt <= done.sent + 1
        /\ stk.state # "NONE" => peer'.una <= stk.rcv_nxt
    <2>1. CASE peer.st \in {"syn_sent", "open"} /\ peer' = [peer EXCEPT !.st = "reset", !.due = FALSE]
      <3>1. /\ peer'.st = "reset" /\ peer'.snd = peer.snd /\ peer'.fin = peer.fin
            /\ peer'.nxt = peer.nxt /\ peer'.gotfin = peer.gotfin /\ peer'.una = peer.una
        BY <1>1, <2>1 DEF Peers
      <3> QED BY <1>1, <1>4, <1>5, <2>1, <3>1 DEF PeerFits
    <2>2. CASE /\ peer.st = "open" \/ (peer.st = "syn_sent" /\ Has(p, "SYN"))
               /\ ~Has(p, "RST") /\ peer' = h
      <3> HIDE DEF p
      <3>1. /\ h.st = "open" /\ h.snd = peer.snd /\ h.fin = peer.fin
            /\ peer.nxt <= h.nxt /\ h.nxt \in Int /\ 1 <= h.nxt
            /\ peer.gotfin => h.gotfin
            /\ IF h.gotfin THEN h.nxt = done.sent + 2 /\ AppEnded ELSE h.nxt <= done.sent + 1
            /\ stk.state # "NONE" => h.una <= stk.rcv_nxt
        BY <1>1, <1>2, <1>4, <2>2, HearsFits
      <3> HIDE DEF h
      <3> QED BY <2>2, <3>1
    <2>3. CASE peer' = peer
      BY <1>1, <1>4, <1>5, <2>3 DEF PeerFits, Peers
    <2> QED BY <1>3, <2>1, <2>2, <2>3
  <1> HIDE DEF p, h
  <1>7. SenderFits(stk)'
    <2>1. peer.gotfin => peer'.gotfin
      BY <1>6
    <2>2. stk.snd_una <= peer'.nxt
      BY <1>1, <1>5, <1>6 DEF Fits, SenderFits
    <2> QED BY <1>1, <2>1, <2>2 DEF Fits, SenderFits, AcksFrom, FinHeldBack, NothingYet, AppEnded
  <1>8. ReceiverFits(stk)'
    BY <1>1, <1>6 DEF Fits, ReceiverFits, PeerSent
  <1>9. AppFits(stk)' /\ Awakes(stk)'
    BY <1>1 DEF Fits, AppFits, Awakes
  <1>10. \A q : Carries(stk, q) => Carries(stk, q)'
    BY <1>1, <1>6 DEF Carries, AppEnded
  <1>11. Carried(stk)'
    BY <1>1, <1>2, <1>10 DEF Fits, Carried
  <1>12. Fits(stk)'
    BY <1>1, <1>6, <1>7, <1>8, <1>9, <1>11 DEF Fits
  <1>13. PeerFits'
    <2>1. peer'.nxt >= 0
      BY <1>1, <1>5, <1>6 DEF PeerFits
    <2>2. AppEnded => AppEnded'
      BY <1>1 DEF AppEnded
    <2>3. peer'.st = "syn_sent" =>
            peer'.nxt = 0 /\ peer'.una <= 0 /\ ~peer'.fin /\ NothingYet'
      BY <1>1, <1>6 DEF PeerFits, NothingYet
    <2>4. peer'.st # "closed" /\ (peer'.st = "open" => peer'.nxt >= 1)
      BY <1>6
    <2>5. done.sent >= 0 /\ (done.eof = "end" => peer.fin /\ done.got = peer.snd - 2)
      BY <1>1 DEF PeerFits
    <2> QED BY <1>1, <1>6, <2>1, <2>2, <2>3, <2>4, <2>5 DEF PeerFits, PeerSent
  <1>14. \A q \in Segments : Arrives(q) => Arrives(q)'
    <2> SUFFICES ASSUME NEW q \in Segments, Arrives(q) PROVE Arrives(q)'
      OBVIOUS
    <2>1. ~Has(q, "SYN") /\ peer.st \in {"open", "reset"} /\ q.ack <= peer.nxt /\ q.ack \in Int
      BY <1>1 DEF Arrives, Segments
    <2>2. peer'.st \in {"open", "reset"} /\ q.ack <= peer'.nxt
      BY <1>5, <1>6, <2>1
    <2> QED BY <1>6, <2>1, <2>2 DEF Arrives, PeerSent
  <1>15. (\A i \in DOMAIN up : Arrives(up[i]))'
    <2>1. \A i \in DOMAIN up : up[i] \in Segments /\ Arrives(up[i])
      BY DEF CInv, TInv, Agrees
    <2> QED BY <1>1, <1>14, <2>1
  <1>16. AcksInOrder' /\ SynComesAlone'
    <2>1. SynWaits' => SynWaits
      BY <1>1, <1>6 DEF SynWaits
    <2> QED BY <1>1, <2>1 DEF CInv, Agrees, AcksInOrder, SynComesAlone, Unanswered
  <1> QED BY <1>1, <1>12, <1>13, <1>15, <1>16 DEF CInv, Agrees

LEMMA LosesAgrees ==
  ASSUME CInv, LosesUp \/ LosesDown
  PROVE  Agrees'
  <1>1. /\ IsStream(stk) /\ Fits(stk) /\ PeerFits /\ UNCHANGED <<pc, app, done, peer>>
        /\ stk' = [stk EXCEPT !.lost = TRUE]
        /\ up \in Seq(Segments) /\ down \in Seq(Segments)
    BY AroundHere DEF Around, LosesUp, LosesDown, CInv, TInv
  <1>2. /\ \A i \in DOMAIN up' : \E j \in DOMAIN up : up'[i] = up[j]
        /\ \A i \in DOMAIN down' : \E j \in DOMAIN down : down'[i] = down[j]
        /\ down = <<>> => down' = <<>>
    <2>1. CASE LosesUp
      <3>1. up' = Tail(up) /\ up # <<>> /\ down' = down
        BY <2>1 DEF LosesUp
      <3> QED BY <1>1, <3>1, SequenceElements
    <2>2. CASE LosesDown
      <3>1. down' = Tail(down) /\ down # <<>> /\ up' = up
        BY <2>2 DEF LosesDown
      <3> QED BY <1>1, <3>1, SequenceElements
    <2> QED BY <2>1, <2>2
  <1>3. /\ stk'.state = stk.state /\ stk'.rcv_nxt = stk.rcv_nxt
        /\ stk'.in_order = stk.in_order /\ stk'.ooo = stk.ooo /\ stk'.merged_len = stk.merged_len
        /\ stk'.snd_nxt = stk.snd_nxt /\ stk'.snd_una = stk.snd_una
        /\ stk'.fss = stk.fss /\ stk'.sndbuf = stk.sndbuf /\ stk'.nic = stk.nic
        /\ stk'.on_send_list = stk.on_send_list /\ stk'.on_rto = stk.on_rto
        /\ stk'.on_sendq = stk.on_sendq /\ stk'.on_closeq = stk.on_closeq
        /\ stk'.on_timeout_list = stk.on_timeout_list
        /\ stk'.have_reset = stk.have_reset /\ stk'.orphan = stk.orphan
        /\ stk'.socket = stk.socket /\ stk'.in_acceptq = stk.in_acceptq
        /\ stk'.signals = stk.signals
        /\ stk'.crashed = stk.crashed /\ stk'.last_ack_seq = stk.last_ack_seq
    BY <1>1, FieldNames DEF IsStream
  <1>12. AcksInOrder' /\ (up' = up \/ (Len(up) = 1 => up' = <<>>))
    <2>1. CASE LosesUp
      <3>1. up' = Tail(up) /\ up # <<>>
        BY <2>1 DEF LosesUp
      <3>2. AcksInOrder /\ \A i \in DOMAIN Tail(up) : i + 1 \in DOMAIN up /\ Tail(up)[i] = up[i + 1]
        BY <1>1, <3>1, SequenceElements DEF CInv, Agrees
      <3>3. \A i, j \in DOMAIN Tail(up) : i <= j => i + 1 <= j + 1
        BY <1>1, <3>1
      <3>4. Len(up) = 1 => Tail(up) = <<>>
        <4>1. Len(Tail(up)) = Len(up) - 1 /\ Tail(up) \in Seq(Segments)
          BY <1>1, <3>1
        <4>2. Len(Tail(up)) = 0 => Tail(up) = <<>>
          BY <4>1
        <4> QED BY <4>1, <4>2
      <3> QED BY <3>1, <3>2, <3>3, <3>4 DEF AcksInOrder
    <2>2. CASE LosesDown
      <3>1. up' = up /\ AcksInOrder
        BY <2>2 DEF LosesDown, CInv, Agrees
      <3> QED BY <3>1 DEF AcksInOrder
    <2> QED BY <2>1, <2>2
  <1>13. SynComesAlone'
    <2>1. SynWaits' => peer.st = "syn_sent" /\ SynWaits /\ up' # <<>> /\ Len(up) = 1
      <3>1. up' # <<>> => up # <<>>
        BY <1>2, <1>12, SequenceElements DEF LosesUp, LosesDown
      <3> QED BY <1>1, <3>1 DEF SynWaits, CInv, Agrees, SynComesAlone
    <2> QED BY <1>1, <1>3, <1>12, <2>1 DEF CInv, Agrees, SynComesAlone, Unanswered
  <1>14. stk.state \in Unfinished => AcksFrom(stk.snd_una)'
    <2>1. stk.state \in Unfinished => AcksFrom(stk.snd_una)
      BY <1>1 DEF Fits, SenderFits
    <2> QED BY <1>2, <1>3, <2>1 DEF AcksFrom
  <1>4. SenderFits(stk)'
    BY <1>1, <1>3, <1>14 DEF Fits, SenderFits, FinHeldBack, NothingYet, AppEnded
  <1>5. ReceiverFits(stk)' /\ AppFits(stk)' /\ Awakes(stk)'
    BY <1>1, <1>3 DEF Fits, ReceiverFits, AppFits, Awakes, PeerSent
  <1>6. \A p : Carries(stk, p) => Carries(stk, p)'
    BY <1>1, <1>3 DEF Carries, AppEnded
  <1>7. Carried(stk)'
    BY <1>1, <1>2, <1>3, <1>6 DEF Fits, Carried
  <1>8. Fits(stk)'
    BY <1>1, <1>3, <1>4, <1>5, <1>7 DEF Fits
  <1>9. PeerFits'
    BY <1>1, <1>2 DEF PeerFits, AppEnded, NothingYet, PeerSent
  <1>10. \A p : Arrives(p) => Arrives(p)'
    BY <1>1, <1>2 DEF Arrives, PeerSent
  <1>11. (\A i \in DOMAIN up : Arrives(up[i]))'
    BY <1>2, <1>10 DEF CInv, Agrees
  <1> QED BY <1>1, <1>3, <1>8, <1>9, <1>11, <1>12, <1>13 DEF CInv, Agrees

-----------------------------------------------------------------------------
(* The second invariant.                                                   *)

LEMMA CInvInit ==
  ASSUME Init
  PROVE  CInv
  <1>1. /\ stk.state = "NONE" /\ stk.sndbuf = NoBuf /\ stk.snd_una = 0 /\ ~stk.on_send_list
        /\ stk.last_ack_seq = 0 /\ stk.rcv_nxt = 0 /\ ~stk.on_timeout_list /\ ~stk.on_closeq /\ stk.in_order = 1 /\ stk.merged_len = 0
        /\ stk.ooo = {}
        /\ stk.nic = <<>> /\ stk.signals = {} /\ ~stk.orphan /\ ~stk.crashed
    BY DEF Init, NoStream
  <1>2. /\ peer.st = "closed" /\ peer.nxt = 0 /\ peer.una = 0 /\ ~peer.fin /\ ~peer.gotfin
        /\ peer.snd = 0
        /\ pc = "chunks" /\ app = "accept" /\ up = <<>> /\ down = <<>>
        /\ done.sent = 0 /\ done.got = 0 /\ done.eof = "no"
        /\ done \in [sent : Int, got : Int, eof : {"no", "end", "reset"}]
    BY DEF Init
  <1>3. SenderFits(stk)
    BY <1>1, <1>2 DEF SenderFits, FinHeldBack, Connected, Unfinished
  <1>8. AcksInOrder /\ SynComesAlone
    BY <1>2 DEF AcksInOrder, SynComesAlone, SynWaits
  <1>4. ReceiverFits(stk) /\ AppFits(stk) /\ Awakes(stk) /\ Carried(stk)
    BY <1>1, <1>2 DEF ReceiverFits, AppFits, Awakes, Carried, PeerSent
  <1>5. Fits(stk)
    BY <1>1, <1>2, <1>3, <1>4 DEF Fits
  <1>6. PeerFits
    BY <1>2 DEF PeerFits, NothingYet, PeerSent
  <1>7. \A i \in DOMAIN up : Arrives(up[i])
    BY <1>2
  <1> QED BY <1>1, <1>2, <1>5, <1>6, <1>7, <1>8, TInvInit DEF CInv, Agrees

LEMMA CInvStep ==
  ASSUME CInv, [Next]_vars
  PROVE  CInv'
  <1>1. TInv'
    BY TInvStep DEF CInv
  <1>2. CASE WriteChunks \/ FlushSendbuffer \/ LeaveSendlist \/ Read \/ nty_nic_send_pkts
    BY <1>1, <1>2, WriteChunksAgrees, FlushAgrees, LeaveSendlistAgrees, ReadAgrees, NicAgrees
       DEF CInv
  <1>3. CASE Accept \/ Recv \/ Send \/ SendEnqueue \/ Close
    BY <1>1, <1>3, AcceptAgrees, RecvAgrees, SendAgrees, EnqueueAgrees, CloseAgrees DEF CInv
  <1>4. CASE PeerConnects \/ PeerAcks \/ PeerSends \/ PeerFinishes \/ PeerResets
             \/ PeerSendsAgain
    BY <1>1, <1>4, PeerSendsAgrees DEF CInv
  <1>5. CASE PeerHears \/ LosesUp \/ LosesDown
    BY <1>1, <1>5, PeerHearsAgrees, LosesAgrees DEF CInv
  <1>6. CASE UNCHANGED vars
    <2>1. Agrees'
      BY <1>6 DEF PeerSent, vars, CInv, Agrees, PeerFits, AppEnded, NothingYet, Fits, SenderFits,
                  FinHeldBack, ReceiverFits, AppFits, Awakes, Carried, Carries, Arrives,
                  AcksFrom, AcksInOrder, SynComesAlone, SynWaits, Unanswered
    <2> QED BY <1>1, <2>1 DEF CInv
  <1> QED BY <1>2, <1>3, <1>4, <1>5, <1>6 DEF Next, Stack, Application, Network

(* The stream, the application, the peer and every segment on the way      *)
(* agree about the numbers at all times: the send buffer holds what send() *)
(* took and the peer has not acknowledged, rcv_nxt is what the peer's      *)
(* bytes have come to, and the FIN has the number behind the last byte.    *)
THEOREM ConnectionInvariant == Spec => []CInv
  <1>1. Init => CInv
    BY CInvInit
  <1>2. CInv /\ [Next]_vars => CInv'
    BY CInvStep
  <1> QED BY <1>1, <1>2, PTL DEF Spec

(* No assert(0) and no exit(1) of the stack is reached: a stream is put on *)
(* send_list only with a send buffer, HandleRTO() fires only in a state it *)
(* has a case for, the third segment of the handshake acknowledges our SYN *)
(* and nothing else, and the loop of nty_tcp_flush_sendbuffer() never      *)
(* meets a snd_nxt outside the buffer.                                     *)
THEOREM NoAssertion == Spec => []NoAssertionFails
  <1>1. CInv => NoAssertionFails
    BY DEF CInv, Agrees, Fits, NoAssertionFails
  <1> QED BY <1>1, ConnectionInvariant, PTL

(* The state of the stream is right about the peer, and neither end takes  *)
(* for acknowledged what has not arrived at the other.                     *)
THEOREM StatesAgree == Spec => []StatesAgreeWithPeer
  <1>1. CInv => StatesAgreeWithPeer
    BY DEF CInv, Agrees, Fits, SenderFits, ReceiverFits, StatesAgreeWithPeer, Exists
  <1> QED BY <1>1, ConnectionInvariant, PTL

(* No thread stays in accept() while acceptq holds a connection, or in     *)
(* recv() while there is something to read or the peer has finished.       *)
THEOREM NobodySleeps == Spec => []NobodySleepsOn
  <1>1. CInv => NobodySleepsOn
    <2> SUFFICES ASSUME CInv PROVE NobodySleepsOn
      OBVIOUS
    <2>1. Awakes(stk) /\ AppFits(stk) /\ ReceiverFits(stk) /\ stk.signals = {}
      BY DEF CInv, Agrees, Fits
    <2>2. app = "await" => ~stk.in_acceptq
      BY <2>1 DEF Awakes
    <2>3. app = "rwait" /\ ~stk.have_reset => stk.merged_len = 0 /\ stk.state # "CLOSE_WAIT"
      <3> SUFFICES ASSUME app = "rwait", ~stk.have_reset
                   PROVE  stk.merged_len = 0 /\ stk.state # "CLOSE_WAIT"
        OBVIOUS
      <3>1. CASE stk.socket
        BY <2>1, <3>1 DEF Awakes
      <3>2. CASE stk.orphan
        BY <2>1, <3>2 DEF AppFits, ReceiverFits
      <3> QED BY <2>1, <3>1, <3>2 DEF AppFits
    <2> QED BY <2>2, <2>3 DEF NobodySleepsOn
  <1> QED BY <1>1, ConnectionInvariant, PTL
-----------------------------------------------------------------------------
(* The connection is a stream of bytes in each direction.                  *)

AppSteps == [AppStream!Next]_(AppStream!vars)
PeerSteps == [PeerStream!Next]_(PeerStream!vars)

(* Nothing the streams are made of but perhaps the end of the application. *)
LEMMA QuietSteps ==
  ASSUME UNCHANGED <<done, peer>>, AppEnded => AppEnded'
  PROVE  AppSteps /\ PeerSteps
  <1>1. UNCHANGED PeerStream!vars
    BY DEF PeerStream!vars, PeerSent
  <1>2. PeerGot' = PeerGot
    BY DEF PeerGot
  <1>3. CASE AppEnded' = AppEnded
    <2>1. UNCHANGED AppStream!vars
      BY <1>2, <1>3 DEF AppStream!vars, AppEnded
    <2> QED BY <1>1, <2>1 DEF AppSteps, PeerSteps
  <1>4. CASE AppEnded' /\ ~AppEnded
    <2>1. AppStream!Close
      BY <1>2, <1>4 DEF AppStream!Close, AppEnded
    <2> QED BY <1>1, <2>1 DEF AppSteps, PeerSteps, AppStream!Next
  <1> QED BY <1>3, <1>4 DEF AppEnded

LEMMA StackSteps ==
  ASSUME CInv, Stack
  PROVE  AppSteps /\ PeerSteps
  <1>1. UNCHANGED <<done, peer>>
    BY DEF Stack, WriteChunks, FlushSendbuffer, LeaveSendlist, Read, nty_nic_send_pkts
  <1>2. \E s, at : Becomes(s, at)
    BY DEF Stack, WriteChunks, nty_tcp_write_datalist, FlushSendbuffer, LeaveSendlist, Read,
           nty_nic_send_pkts
  <1>3. AppEnded => AppEnded'
    BY <1>2 DEF Becomes, Woken, AppEnded
  <1> QED BY <1>1, <1>3, QuietSteps

LEMMA ApplicationSteps ==
  ASSUME CInv, CInv', Application
  PROVE  AppSteps /\ PeerSteps
  <1>1. /\ done \in [sent : Int, got : Int, eof : {"no", "end", "reset"}]
        /\ PeerFits' /\ peer' = peer
    BY DEF CInv, Agrees, Application, Accept, Recv, Send, SendEnqueue, Close
  <1>2. PeerSent' = PeerSent /\ PeerGot' = PeerGot
    BY <1>1 DEF PeerSent, PeerGot
  <1>3. CASE Accept \/ SendEnqueue \/ Close
    <2>1. done' = done /\ ~AppEnded
      BY <1>3 DEF Accept, SendEnqueue, Close, AppEnded
    <2> QED BY <1>1, <2>1, QuietSteps
  <1>4. CASE Recv
    <2>1. /\ app \in {"idle", "recv"} /\ app' \in {"idle", "rwait"} /\ done.eof = "no"
          /\ RecvData \/ RecvNothing \/ RecvWaits
      BY <1>4 DEF Recv, RecvData, Copy, RecvNothing, RecvWaits
    <2>2. CASE RecvData
      <3>1. PICK n \in 1 .. MaxIn : done' = [done EXCEPT !.got = @ + n]
        BY <2>2 DEF RecvData, Copy
      <3>2. /\ done'.sent = done.sent /\ done'.eof = done.eof /\ done'.got = done.got + n
            /\ n \in Nat \ {0}
        BY <1>1, <3>1, TcpAssumption
      <3>3. done'.got > done.got /\ done'.got <= PeerSent
        BY <1>1, <1>2, <3>2 DEF PeerFits
      <3>4. PeerStream!Arrive
        BY <1>1, <1>2, <2>1, <3>2, <3>3 DEF PeerStream!Arrive
      <3>5. UNCHANGED AppStream!vars
        BY <1>1, <1>2, <2>1, <3>2 DEF AppStream!vars
      <3> QED BY <3>4, <3>5 DEF AppSteps, PeerSteps, PeerStream!Next
    <2>3. CASE RecvNothing
      <3>1. \E e \in {"end", "reset"} : done' = [done EXCEPT !.eof = e]
        BY <2>3 DEF RecvNothing
      <3>2. done'.sent = done.sent /\ done'.got = done.got /\ done'.eof \in {"end", "reset"}
        BY <1>1, <3>1
      <3>3. UNCHANGED AppStream!vars
        BY <1>1, <1>2, <2>1, <3>2 DEF AppStream!vars
      <3>4. CASE done'.eof = "end"
        <4>1. peer.fin /\ peer.snd >= 2 /\ done.got = peer.snd - 2
          BY <1>1, <3>2, <3>4 DEF PeerFits
        <4>2. done.got = PeerSent
          BY <4>1 DEF PeerSent
        <4>3. PeerStream!End
          BY <1>1, <1>2, <3>2, <3>4, <4>1, <4>2 DEF PeerStream!End
        <4> QED BY <3>3, <4>3 DEF AppSteps, PeerSteps, PeerStream!Next
      <3>5. CASE done'.eof = "reset"
        <4>1. UNCHANGED PeerStream!vars
          BY <1>1, <1>2, <2>1, <3>2, <3>5 DEF PeerStream!vars
        <4> QED BY <3>3, <4>1 DEF AppSteps, PeerSteps
      <3> QED BY <3>2, <3>4, <3>5
    <2>4. CASE RecvWaits
      <3>1. done' = done /\ ~AppEnded
        BY <2>1, <2>4 DEF RecvWaits, AppEnded
      <3> QED BY <1>1, <3>1, QuietSteps
    <2> QED BY <2>1, <2>2, <2>3, <2>4
  <1>5. CASE Send
    <2>1. CASE stk.snd_wnd > 0 /\ nty_copy_from_user
      <3>1. PICK n : n = Min2(stk.snd_wnd, SendLen) /\ done' = [done EXCEPT !.sent = @ + n]
        BY <2>1 DEF nty_copy_from_user
      <3>2. stk.snd_wnd \in Int /\ SendLen \in Int /\ SendLen > 0
        BY AroundHere, TcpAssumption DEF IsStream
      <3>3. n \in Int /\ n > 0
        BY <2>1, <3>1, <3>2 DEF Min2
      <3>4. done'.sent > done.sent /\ done'.got = done.got /\ done'.eof = done.eof
        BY <1>1, <3>1, <3>3
      <3>5. app # "closed" /\ app' # "closed"
        BY <1>5, <2>1 DEF Send, nty_copy_from_user
      <3>6. AppStream!Write
        BY <1>1, <1>2, <3>4, <3>5 DEF AppStream!Write
      <3>7. UNCHANGED PeerStream!vars
        BY <1>1, <1>2, <3>4 DEF PeerStream!vars
      <3> QED BY <3>6, <3>7 DEF AppSteps, PeerSteps, AppStream!Next
    <2>2. CASE done' = done
      <3>1. ~AppEnded
        BY <1>5 DEF Send, AppEnded
      <3> QED BY <1>1, <2>2, <3>1, QuietSteps
    <2> QED BY <1>5, <2>1, <2>2 DEF Send
  <1> QED BY <1>3, <1>4, <1>5 DEF Application

(* What the peer does when it sends.                                       *)
LEMMA PeerSendsSteps ==
  ASSUME CInv, PeerConnects \/ PeerAcks \/ PeerSends \/ PeerFinishes \/ PeerResets
               \/ PeerSendsAgain
  PROVE  AppSteps /\ PeerSteps
  <1>1. /\ peer \in Peers /\ UNCHANGED <<app, done>>
        /\ peer.st = "closed" => peer.snd = 0 /\ ~peer.fin
        /\ peer.st # "closed" => peer.snd >= 1
    BY AroundHere DEF Around, PeerFits, PeerConnects, PeerAcks, PeerSends, PeerFinishes, PeerResets,
                      PeerSendsAgain, Untouched
  <1>2. /\ peer'.nxt = peer.nxt /\ peer'.gotfin = peer.gotfin
        /\ \/ peer.st = "closed" /\ peer'.snd = 1 /\ peer'.fin = peer.fin
           \/ peer'.snd = peer.snd /\ peer'.fin = peer.fin
           \/ peer.st = "open" /\ ~peer.fin /\ peer'.snd = peer.snd + 1 /\ peer'.fin \in BOOLEAN
    <2>1. CASE PeerConnects
      <3>1. PICK wnd : peer' = [[peer EXCEPT !.st = "syn_sent", !.snd = 1, !.wnd = wnd]
                                  EXCEPT !.due = FALSE]
        BY <2>1 DEF PeerConnects, FromPeer
      <3>2. peer.st = "closed"
        BY <2>1 DEF PeerConnects
      <3> QED BY <1>1, <3>1, <3>2 DEF Peers
    <2>2. CASE PeerSends
      <3>1. peer' = [[peer EXCEPT !.snd = @ + 1] EXCEPT !.due = FALSE]
        BY <2>2 DEF PeerSends, FromPeer
      <3>2. peer.st = "open" /\ ~peer.fin
        BY <2>2 DEF PeerSends, Open
      <3> QED BY <1>1, <3>1, <3>2 DEF Peers
    <2>3. CASE PeerFinishes
      <3>1. peer' = [[peer EXCEPT !.snd = @ + 1, !.fin = TRUE] EXCEPT !.due = FALSE]
        BY <2>3 DEF PeerFinishes, FromPeer
      <3>2. peer.st = "open" /\ ~peer.fin
        BY <2>3 DEF PeerFinishes, Open
      <3> QED BY <1>1, <3>1, <3>2 DEF Peers
    <2>4. CASE PeerAcks \/ PeerResets \/ PeerSendsAgain
      <3>1. \/ peer' = [peer EXCEPT !.due = FALSE]
            \/ peer' = [[peer EXCEPT !.st = "reset"] EXCEPT !.due = FALSE]
        BY <2>4 DEF PeerAcks, PeerResets, PeerSendsAgain, FromPeer
      <3> QED BY <1>1, <3>1 DEF Peers
    <2> QED BY <2>1, <2>2, <2>3, <2>4
  <1>3. UNCHANGED AppStream!vars
    BY <1>1, <1>2 DEF AppStream!vars, PeerGot
  <1>4. peer.snd \in Int /\ peer.fin \in BOOLEAN
    BY <1>1 DEF Peers
  <1>5. CASE PeerSent' = PeerSent /\ peer'.fin = peer.fin
    <2>1. UNCHANGED PeerStream!vars
      BY <1>1, <1>5 DEF PeerStream!vars
    <2> QED BY <1>3, <2>1 DEF AppSteps, PeerSteps
  <1>6. CASE peer.st = "closed" /\ peer'.snd = 1 /\ peer'.fin = peer.fin
    BY <1>1, <1>5, <1>6 DEF PeerSent
  <1>7. CASE peer'.snd = peer.snd /\ peer'.fin = peer.fin
    BY <1>5, <1>7 DEF PeerSent
  <1>8. CASE peer.st = "open" /\ ~peer.fin /\ peer'.snd = peer.snd + 1 /\ peer'.fin \in BOOLEAN
    <2>1. PeerSent = peer.snd - 1 /\ PeerSent' = peer.snd - (IF peer'.fin THEN 1 ELSE 0)
      BY <1>1, <1>4, <1>8 DEF PeerSent
    <2>2. CASE peer'.fin
      <3>1. PeerStream!Close
        BY <1>1, <1>4, <1>8, <2>1, <2>2 DEF PeerStream!Close
      <3> QED BY <1>3, <3>1 DEF AppSteps, PeerSteps, PeerStream!Next
    <2>3. CASE ~peer'.fin
      <3>1. PeerSent' > PeerSent
        BY <1>4, <2>1, <2>3
      <3>3. peer'.fin = FALSE /\ peer.fin = FALSE
        BY <1>4, <1>8, <2>3
      <3>4. done'.got = done.got /\ done'.eof = done.eof
        BY <1>1
      <3>5. PeerStream!Write
        BY <3>1, <3>3, <3>4 DEF PeerStream!Write
      <3> QED BY <1>3, <3>5 DEF AppSteps, PeerSteps, PeerStream!Next
    <2> QED BY <2>2, <2>3
  <1> QED BY <1>2, <1>6, <1>7, <1>8

(* The peer takes a segment in order or not at all.                        *)
LEMMA PeerHearsSteps ==
  ASSUME CInv, CInv', PeerHears
  PROVE  AppSteps /\ PeerSteps
  <1> DEFINE p == Head(down)
             o == [peer EXCEPT !.st = "open"]
  <1>1. /\ peer \in Peers /\ down \in Seq(Segments) /\ down # <<>> /\ UNCHANGED <<app, done>>
        /\ Fits(stk) /\ PeerFits /\ PeerFits'
        /\ done.sent \in Int /\ peer' \in Peers
    BY AroundHere DEF Around, PeerHears, CInv, TInv, Agrees
  <1>2. p \in Segments /\ Carries(stk, p)
    BY <1>1, SegmentSequences, SequenceElements DEF Fits, Carried
  <1>3. p.seq \in Int /\ p.len \in Int /\ p.len >= 0 /\ peer.nxt \in Int /\ peer'.nxt \in Int
        /\ peer.gotfin \in BOOLEAN /\ peer'.gotfin \in BOOLEAN
    BY <1>1, <1>2 DEF Segments, Carries, Peers
  <1>4. \/ /\ peer'.nxt = peer.nxt /\ peer'.gotfin = peer.gotfin
           /\ peer'.snd = peer.snd /\ peer'.fin = peer.fin
        \/ /\ peer'.snd = peer.snd /\ peer'.fin = peer.fin
           /\ peer'.nxt = IF p.seq = peer.nxt THEN peer.nxt + Grows(p.flags, p.len) ELSE peer.nxt
           /\ peer'.gotfin = (peer.gotfin \/ (p.seq = peer.nxt /\ Has(p, "FIN")))
    <2>1. \/ peer' = [peer EXCEPT !.st = "reset", !.due = FALSE] \/ peer' = peer
          \/ peer' = Hears(o, p)
      BY DEF PeerHears
    <2>2. /\ o \in Peers /\ o.nxt = peer.nxt /\ o.gotfin = peer.gotfin
          /\ o.snd = peer.snd /\ o.fin = peer.fin
      BY <1>1 DEF Peers
    <2> HIDE DEF p, o
    <2>3. LET q == Hears(o, p) IN
          /\ q.snd = o.snd /\ q.fin = o.fin
          /\ q.nxt = IF p.seq = o.nxt THEN o.nxt + Grows(p.flags, p.len) ELSE o.nxt
          /\ q.gotfin = (o.gotfin \/ (p.seq = o.nxt /\ Has(p, "FIN")))
      BY <2>2 DEF Hears, Peers
    <2>4. CASE peer' = [peer EXCEPT !.st = "reset", !.due = FALSE] \/ peer' = peer
      BY <1>1, <2>4 DEF Peers
    <2>5. CASE peer' = Hears(o, p)
      BY <2>2, <2>3, <2>5
    <2> QED BY <2>1, <2>4, <2>5
  <1> HIDE DEF p
  <1>5. UNCHANGED PeerStream!vars
    BY <1>1, <1>4 DEF PeerStream!vars, PeerSent
  <1>6. peer.nxt <= peer'.nxt /\ (peer.gotfin => peer'.gotfin)
    <2>1. Grows(p.flags, p.len) \in Nat
      BY <1>3 DEF Grows
    <2> QED BY <1>3, <1>4, <2>1
  <1>7. CASE peer'.gotfin = peer.gotfin
    <2>1. PeerGot \in Int /\ PeerGot' \in Int
      BY <1>3 DEF PeerGot
    <2>2. CASE peer.gotfin
      <3>1. peer'.nxt = peer.nxt
        BY <1>1, <1>7, <2>2 DEF PeerFits
      <3>2. UNCHANGED AppStream!vars
        BY <1>1, <1>7, <3>1 DEF AppStream!vars, PeerGot
      <3> QED BY <1>5, <3>2 DEF AppSteps, PeerSteps
    <2>3. CASE ~peer.gotfin
      <3>1. peer'.nxt <= done.sent + 1 /\ peer.nxt >= 0 /\ done.sent >= 0
        BY <1>1, <1>7, <2>3 DEF PeerFits
      <3>2. PeerGot' <= done.sent /\ PeerGot <= PeerGot'
        BY <1>1, <1>3, <1>6, <1>7, <2>3, <3>1 DEF PeerGot
      <3>3. CASE PeerGot' = PeerGot
        <4>1. UNCHANGED AppStream!vars
          BY <1>1, <1>7, <3>3 DEF AppStream!vars
        <4> QED BY <1>5, <4>1 DEF AppSteps, PeerSteps
      <3>4. CASE PeerGot' > PeerGot
        <4>1. AppStream!Arrive
          BY <1>1, <1>7, <2>3, <3>2, <3>4 DEF AppStream!Arrive
        <4> QED BY <1>5, <4>1 DEF AppSteps, PeerSteps, AppStream!Next
      <3> QED BY <2>1, <3>2, <3>3, <3>4
    <2> QED BY <1>3, <2>2, <2>3
  <1>8. CASE peer'.gotfin /\ ~peer.gotfin
    <2>1. p.seq = peer.nxt /\ Has(p, "FIN")
      BY <1>3, <1>4, <1>8
    <2>2. peer.nxt = done.sent + 1 /\ AppEnded /\ done.sent >= 0
      BY <1>1, <1>2, <2>1 DEF Carries, PeerFits
    <2>3. peer'.nxt = done.sent + 2
      BY <1>1, <1>8 DEF PeerFits
    <2>4. PeerGot = done.sent /\ PeerGot' = done.sent
      BY <1>1, <1>3, <1>8, <2>2, <2>3 DEF PeerGot
    <2>5. AppStream!End
      BY <1>1, <1>8, <2>2, <2>4 DEF AppStream!End, AppEnded
    <2> QED BY <1>5, <2>5 DEF AppSteps, PeerSteps, AppStream!Next
  <1> QED BY <1>3, <1>6, <1>7, <1>8

LEMMA StreamSteps ==
  ASSUME CInv, CInv', [Next]_vars
  PROVE  AppSteps /\ PeerSteps
  <1>1. CASE Stack
    BY <1>1, StackSteps
  <1>2. CASE Application
    BY <1>2, ApplicationSteps
  <1>3. CASE PeerConnects \/ PeerAcks \/ PeerSends \/ PeerFinishes \/ PeerResets
             \/ PeerSendsAgain
    BY <1>3, PeerSendsSteps
  <1>4. CASE PeerHears
    BY <1>4, PeerHearsSteps
  <1>5. CASE LosesUp \/ LosesDown \/ UNCHANGED vars
    <2>1. UNCHANGED <<done, peer, app>>
      BY <1>5 DEF LosesUp, LosesDown, vars
    <2> QED BY <2>1, QuietSteps DEF AppEnded
  <1> QED BY <1>1, <1>2, <1>3, <1>4, <1>5 DEF Next, Network

(* The connection is a stream of bytes from the application to the peer:   *)
(* what the peer takes is what send() took, in order, once and nothing     *)
(* else, and it takes the FIN after close() and after the last byte. This  *)
(* holds whatever close() found on the lists, the timers and the wire, for *)
(* every size of the send buffer, the segments and the peer's window.      *)
THEOREM AppToPeerIsAStream == Spec => SendsAStream
  <1>1. Init => AppStream!Init
    BY DEF Init, AppStream!Init, PeerGot
  <1>2. CInv /\ CInv' /\ [Next]_vars => [AppStream!Next]_(AppStream!vars)
    BY StreamSteps DEF AppSteps
  <1>3. Spec => AppStream!Spec
    BY <1>1, <1>2, ConnectionInvariant, PTL DEF Spec, AppStream!Spec
  <1> QED BY <1>3 DEF SendsAStream

(* And from the peer to the application: recv() hands over no more than    *)
(* the peer has sent and the reassembly has put in order, nothing after    *)
(* the end, and "end" means that the peer has finished and that this was   *)
(* all of it.                                                              *)
THEOREM PeerToAppIsAStream == Spec => ReceivesAStream
  <1>1. Init => PeerStream!Init
    BY DEF Init, PeerStream!Init, PeerSent
  <1>2. CInv /\ CInv' /\ [Next]_vars => [PeerStream!Next]_(PeerStream!vars)
    BY StreamSteps DEF PeerSteps
  <1>3. Spec => PeerStream!Spec
    BY <1>1, <1>2, ConnectionInvariant, PTL DEF Spec, PeerStream!Spec
  <1> QED BY <1>3 DEF ReceivesAStream
=============================================================================
