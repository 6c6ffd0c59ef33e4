-------------------------------- MODULE NtyTcp --------------------------------
(***************************************************************************)
(* One connection of the user-space TCP stack in NtyTcp-master: the stack  *)
(* thread nty_tcp_run() (src/nty_eth.c) with the handlers, lists and       *)
(* timers of src/nty_tcp.c and src/nty_timer.c, an application thread that *)
(* calls accept, recv, send and close (src/nty_api.c, src/nty_socket.c),   *)
(* and, outside the program, a TCP at the other end of a network that      *)
(* loses segments.                                                         *)
(*                                                                         *)
(* Everything the stack keeps of the connection is the record stk; every   *)
(* function of the stack is an operator from such a record to the next     *)
(* one, and a step of the thread composes them as the loop calls them.     *)
(* Sequence numbers of both directions count from 0 (the SYN) and do not   *)
(* wrap around; NtyRecvBuffer has the arithmetic and the reassembly.       *)
(***************************************************************************)
EXTENDS Integers, Sequences, FiniteSets

CONSTANTS
  Mss, OptLen,   (* snd->mss and nty_calculate_option(ACK)                 *)
  SndBuf,        (* NTY_SEND_BUFFER_SIZE                                   *)
  TCP_MAX_RTX,
  RcvWnd,        (* rcv->rcv_wnd, always more than the peer sends          *)
  PeerWnds,      (* the windows the peer may advertise                     *)
  SendLen,       (* how much the application gives to one send()           *)
  MaxCwnd,       (* where duplicate ACKs stop the growth of cwnd: 2^32 - 1 *)
  MaxOut, MaxIn, (* bounds: bytes sent by the application, by the peer     *)
  Wire,          (* bound: segments on the way, in each direction              *)
  MaxNxt,        (* bound: snd_nxt up to which the peer answers and repeats *)
  ManyFaults     (* bound: FALSE for at most one segment lost or one reset  *)

ASSUME TcpAssumption ==
  /\ Mss \in Nat /\ OptLen \in Nat /\ OptLen < Mss
  /\ SndBuf \in Nat \ {0} /\ TCP_MAX_RTX \in Nat /\ RcvWnd \in Nat
  /\ MaxCwnd \in Nat
  /\ PeerWnds \subseteq Nat /\ SendLen \in Nat \ {0}
  /\ MaxOut \in Nat /\ MaxIn \in Nat /\ Wire \in Nat /\ MaxNxt \in Nat
  /\ ManyFaults \in BOOLEAN

VARIABLES
  pc,    (* where in its loop the stack thread is                          *)
  stk,   (* the stream, the packet buffer of the NIC, what went wrong      *)
  app,   (* what the application thread does                               *)
  done,  (* history: bytes given to send(), got from recv(), end seen      *)
  peer,  (* the TCP at the other end                                       *)
  up, down   (* segments on the way to the stack, to the peer              *)

vars == <<pc, stk, app, done, peer, up, down>>

Min2(a, b) == IF a < b THEN a ELSE b
Max2(a, b) == IF a > b THEN a ELSE b

Seg(flags, seq, ack, len, wnd) ==
  [flags |-> flags, seq |-> seq, ack |-> ack, len |-> len, wnd |-> wnd]
Has(p, f) == f \in p.flags

(* A sequence number is used by every byte, the SYN and the FIN *)
Grows(flags, len) == len + (IF flags \cap {"SYN", "FIN"} = {} THEN 0 ELSE 1)

NoBuf == [head |-> 0, len |-> -1]

(* CreateTcpStream; "NONE" where there is no stream *)
NoStream ==
  [state |-> "NONE", rcv_nxt |-> 0, in_order |-> 1, ooo |-> {}, merged_len |-> 0,
   snd_nxt |-> 0, snd_una |-> 0, fss |-> 0, is_fin_sent |-> FALSE,
   sndbuf |-> NoBuf, snd_wnd |-> SndBuf, peer_wnd |-> 0, last_ack_seq |-> 0,
   cwnd |-> 1, ssthresh |-> 0, nrtx |-> 0, window |-> 0, packets |-> 0,
   on_control_list |-> FALSE, on_send_list |-> FALSE, on_ack_list |-> FALSE,
   ack_cnt |-> 0, is_wack |-> FALSE, control_list_waiting |-> FALSE,
   on_rto |-> FALSE, on_timewait_list |-> FALSE, on_timeout_list |-> FALSE,
   on_sendq |-> FALSE, on_closeq |-> FALSE, on_closeq_int |-> FALSE,
   in_acceptq |-> FALSE, socket |-> FALSE, have_reset |-> FALSE,
   nic |-> <<>>, lost |-> FALSE, signals |-> {},
   orphan |-> FALSE, stuck |-> FALSE, crashed |-> FALSE]

Exists(s) == s.state # "NONE"
Crash(s) == [s EXCEPT !.crashed = TRUE]      (* assert(0), exit(1)         *)
(* mutant: the condition variable is not signalled *)
SignalNobody(s, who) == s
Signal(s, who) == [s EXCEPT !.signals = @ \cup {who}]

(* A stream that is freed while a queue or a socket still points to it is  *)
(* an orphan                                                               *)
DestroyTcpStream(s) ==
  [NoStream EXCEPT !.nic = s.nic, !.lost = s.lost, !.signals = s.signals,
                   !.crashed = s.crashed, !.stuck = s.stuck,
                   !.orphan = s.orphan \/ s.in_acceptq \/ s.socket
                              \/ s.on_sendq \/ s.on_closeq]

-----------------------------------------------------------------------------
(* The lists of the sender and the timers.                                 *)

nty_tcp_addto_controllist(s) == [s EXCEPT !.on_control_list = TRUE]
nty_tcp_addto_sendlist(s) ==
  IF s.sndbuf = NoBuf THEN Crash(s) ELSE [s EXCEPT !.on_send_list = TRUE]

nty_tcp_enqueue_acklist(s, opt) ==
  [s EXCEPT !.on_ack_list = TRUE,
            !.ack_cnt = CASE opt = "now" -> @ + 1
                          [] opt = "aggregate" -> Max2(@, 1)
                          [] opt = "wack" -> @,
            !.is_wack = @ \/ opt = "wack"]

(* mutant: the retransmission timer stays where it is *)
StaysOnRTOList(s) == s
RemoveFromRTOList(s) == [s EXCEPT !.on_rto = FALSE]

AddtoTimewaitList(s) ==
  [s EXCEPT !.on_timewait_list = TRUE, !.on_rto = @ /\ s.on_timewait_list]

AddtoTimeoutList(s) ==
  IF s.on_timeout_list THEN Crash(s) ELSE [s EXCEPT !.on_timeout_list = TRUE]

UpdateRetransmissionTimer(s) ==
  [s EXCEPT !.nrtx = 0, !.on_rto = s.snd_nxt > s.snd_una]

-----------------------------------------------------------------------------
(* Sending. EthernetOutput() hands out the one buffer snd_pktbuf, which    *)
(* goes out when the thread next finds nothing to read.                    *)

Counts(p) == Grows(p.flags, p.len) > 0 \/ Has(p, "RST")

Emit(s, p) ==
  [s EXCEPT !.nic = <<p>>, !.lost = @ \/ (s.nic # <<>> /\ Counts(s.nic[1]))]

nty_tcp_send_tcppkt(s, flags, len) ==
  LET seq == CASE "CWR" \in flags -> s.snd_nxt - 1
               [] "FIN" \in flags -> s.fss
               [] OTHER -> s.snd_nxt
  IN  [Emit(s, Seg(flags \ {"CWR"}, seq, s.rcv_nxt, len, RcvWnd)) EXCEPT
         !.is_fin_sent = @ \/ "FIN" \in flags,
         !.snd_nxt = @ + Grows(flags, len),
         !.on_rto = @ \/ Grows(flags, len) > 0]

(* Whether a packet of the control list has to wait for the other lists *)
MustWait(s) == /\ s.state \in {"LAST_ACK", "FIN_WAIT_1", "CLOSED"}
               /\ s.on_send_list \/ s.on_ack_list

nty_tcp_send_controlpkt(s) ==
  CASE s.state = "SYN_RCVD" ->
         nty_tcp_send_tcppkt([s EXCEPT !.snd_nxt = 0], {"SYN", "ACK"}, 0)
    [] s.state \in {"ESTABLISHED", "CLOSE_WAIT", "FIN_WAIT_2", "TIME_WAIT"} ->
         nty_tcp_send_tcppkt(s, {"ACK"}, 0)
    [] s.state \in {"LAST_ACK", "FIN_WAIT_1"} ->
         nty_tcp_send_tcppkt(s, {"FIN", "ACK"}, 0)
    [] s.state = "CLOSING" ->
         nty_tcp_send_tcppkt(s, IF s.is_fin_sent /\ s.snd_nxt # s.fss
                                THEN {"ACK"} ELSE {"FIN", "ACK"}, 0)
    [] s.state = "CLOSED" ->
         DestroyTcpStream(nty_tcp_send_tcppkt(s, {"RST"}, 0))
    [] OTHER -> s

nty_tcp_write_controllist(s) ==
  IF s.on_control_list /\ ~MustWait(s)
  THEN nty_tcp_send_controlpkt([s EXCEPT !.on_control_list = FALSE])
  ELSE s

(* mutant: a close that waits for a list is forgotten *)
StillWaiting(s, other) == s
(* A close that waits for a list goes on when the list is left *)
NoLongerWaiting(s, other) ==
  IF s.control_list_waiting /\ ~other
  THEN nty_tcp_addto_controllist([s EXCEPT !.control_list_waiting = FALSE])
  ELSE s

Acks == {"ESTABLISHED", "CLOSE_WAIT", "FIN_WAIT_1", "FIN_WAIT_2", "TIME_WAIT"}

AckSent(s) ==
  LET acked == IF s.ack_cnt > 0 THEN nty_tcp_send_tcppkt(s, {"ACK"}, 0) ELSE s
  IN  IF s.is_wack THEN nty_tcp_send_tcppkt(acked, {"ACK", "CWR"}, 0) ELSE acked

(* in_order is head_seq + merged_len of the receive buffer, which the SYN   *)
(* has made. The peer's FIN is no byte of it: once that has come to_ack is *)
(* 0 and nothing is sent                                                   *)
nty_tcp_write_acklist(s) ==
  IF ~s.on_ack_list THEN s
  ELSE LET sent == IF s.state \in Acks /\ s.rcv_nxt <= s.in_order
                   THEN AckSent(s) ELSE s
       IN  NoLongerWaiting([sent EXCEPT !.on_ack_list = FALSE, !.ack_cnt = 0,
                                        !.is_wack = FALSE], s.on_send_list)

-----------------------------------------------------------------------------
(* What the thread does before it looks at the network. Socket pointers    *)
(* are in stream->s in this configuration; the timers test stream->socket, *)
(* which nothing sets, and so destroy the stream whether or not the        *)
(* application has it open.                                                *)

(* The slow start threshold after a loss *)
HalfWindow(s) == Max2(Min2(s.cwnd, s.peer_wnd) \div 2, 2 * Mss)

Reduced(s) ==
  [s EXCEPT !.nrtx = @ + 1, !.cwnd = Mss, !.snd_nxt = s.snd_una,
            !.ssthresh = HalfWindow(s)]

HandleRTO(s) ==
  LET r == Reduced(s) IN
  CASE s.nrtx >= TCP_MAX_RTX -> DestroyTcpStream(s)
    [] s.nrtx < TCP_MAX_RTX /\ s.state = "SYN_RCVD" -> nty_tcp_addto_controllist(r)
    [] s.nrtx < TCP_MAX_RTX /\ s.state \in {"ESTABLISHED", "CLOSE_WAIT"} ->
         nty_tcp_addto_sendlist(r)
    [] s.nrtx < TCP_MAX_RTX /\ s.state \in {"FIN_WAIT_1", "CLOSING", "LAST_ACK"} ->
         IF r.snd_nxt < s.fss
         THEN nty_tcp_addto_sendlist([r EXCEPT !.on_control_list = FALSE,
                                               !.control_list_waiting = TRUE])
         ELSE nty_tcp_addto_controllist(r)
    [] OTHER -> Crash(s)

(* A timer that fires while the wheel looks at its bucket *)
CheckRtmTimeout(s, fires) ==
  IF fires /\ s.on_rto THEN HandleRTO(RemoveFromRTOList(s)) ELSE s

(* NTY_TCP_TIMEWAIT is 0: the wait is over when its last ACK has been sent *)
CheckTimewaitExpire(s) ==
  IF s.on_timewait_list /\ ~s.on_control_list THEN DestroyTcpStream(s) ELSE s

CheckConnectionTimeout(s, idle) ==
  IF idle /\ s.on_timeout_list THEN DestroyTcpStream(s) ELSE s

(* The state close() leads to *)
Closing(state) == CASE state = "ESTABLISHED" -> "FIN_WAIT_1"
                    [] state = "CLOSE_WAIT" -> "LAST_ACK"
                    [] OTHER -> state

(* mutant: the FIN takes the place of data that has not been sent yet *)
FinAtSndNxt(s) == s.snd_nxt
FinPosition(s) ==
  IF s.sndbuf = NoBuf THEN s.snd_nxt ELSE s.sndbuf.head + s.sndbuf.len

TakeSendq(s) == IF s.on_sendq THEN nty_tcp_addto_sendlist([s EXCEPT !.on_sendq = FALSE])
                ELSE s

(* A stream that is on the control list is moved to closeq_int, which      *)
(* nothing ever empties; one that is CLOSED already is left alone          *)
TakeCloseq(s) ==
  LET c == [s EXCEPT !.on_closeq = FALSE, !.fss = FinPosition(s),
                     !.on_timeout_list = FALSE]
  IN  CASE ~s.on_closeq -> s
        [] s.on_closeq /\ s.have_reset ->
             IF s.state = "CLOSED" THEN c ELSE DestroyTcpStream(c)
        [] s.on_closeq /\ ~s.have_reset /\ s.on_control_list ->
             [c EXCEPT !.on_closeq_int = TRUE]
        [] s.on_closeq /\ ~s.have_reset /\ ~s.on_control_list ->
             IF s.on_send_list \/ s.on_ack_list
             THEN [c EXCEPT !.state = Closing(@), !.control_list_waiting = TRUE]
             ELSE IF s.state = "CLOSED" THEN c
             ELSE nty_tcp_addto_controllist([c EXCEPT !.state = Closing(@)])

nty_tcp_handle_apicall(s) == TakeCloseq(TakeSendq(s))
-----------------------------------------------------------------------------
(* Receiving.                                                              *)

nty_tcp_validseq(s, p) ==
  p.seq + p.len \in s.rcv_nxt .. s.rcv_nxt + RcvWnd

(* A segment outside the window: say again what is expected *)
OutOfWindow(s, p) ==
  CASE Has(p, "RST") -> s
    [] ~Has(p, "RST") /\ s.state = "ESTABLISHED" ->
         nty_tcp_enqueue_acklist(s, IF p.seq <= s.rcv_nxt THEN "aggregate" ELSE "now")
    [] ~Has(p, "RST") /\ s.state = "TIME_WAIT" ->
         nty_tcp_addto_controllist(AddtoTimewaitList(s))
    [] OTHER -> nty_tcp_addto_controllist(s)

(* RBPut over the bytes of the segment, which is never cut *)
Stored(s, p) == s.ooo \cup {b \in p.seq .. p.seq + p.len - 1 : b >= s.in_order}
FirstGap(s, p) ==
  CHOOSE n \in s.in_order .. s.in_order + Cardinality(Stored(s, p)) :
    n \notin Stored(s, p) /\ s.in_order .. n - 1 \subseteq Stored(s, p)

nty_tcp_process_payload(s, p) ==
  LET next == FirstGap(s, p)
      r == [s EXCEPT !.in_order = next, !.rcv_nxt = next,
                     !.ooo = {b \in Stored(s, p) : b > next},
                     !.merged_len = IF s.state \in {"FIN_WAIT_1", "FIN_WAIT_2"}
                                    THEN 0 ELSE @ + next - s.in_order]
  IN  IF s.state = "ESTABLISHED" /\ s.socket /\ next > s.rcv_nxt
      THEN Signal(r, "read") ELSE r

Payload(s, p) ==
  IF p.len = 0 THEN s
  ELSE LET r == IF p.seq + p.len >= s.rcv_nxt THEN nty_tcp_process_payload(s, p) ELSE s
       IN  nty_tcp_enqueue_acklist(r, IF r.rcv_nxt > s.rcv_nxt THEN "aggregate" ELSE "now")

(* The acknowledgement number without the FIN *)
AckOfData(s, p) ==
  IF /\ s.state \in {"FIN_WAIT_1", "FIN_WAIT_2", "CLOSING", "CLOSE_WAIT", "LAST_ACK"}
     /\ s.is_fin_sent /\ p.ack = s.fss + 1
  THEN p.ack - 1 ELSE p.ack

(* SBRemove. A writer that may be waiting for room is woken with           *)
(* write_lock held, by a function that takes it again: the thread waits    *)
(* for itself                                                              *)
Acknowledged(s, a) ==
  LET rmlen == a - s.sndbuf.head
      r == [s EXCEPT
              !.sndbuf = [head |-> a, len |-> @.len - rmlen],
              !.snd_una = a,
              !.snd_wnd = SndBuf - (s.sndbuf.len - rmlen),
              !.cwnd = IF @ < s.ssthresh THEN @ + Mss * (rmlen \div (Mss - OptLen)) ELSE @]
  IN  IF s.snd_wnd = 0 THEN [r EXCEPT !.stuck = TRUE] ELSE UpdateRetransmissionTimer(r)

(* An ACK without data that repeats the last one. The program counts it    *)
(* only if a number of one direction happens to equal one of the other:    *)
(* env.dups is what dup_acks has come to, "few" if it does not count       *)
Repeats(s, p, a) == a < s.snd_nxt /\ a = s.last_ack_seq /\ p.len = 0

FastRetransmit(s, a) ==
  [nty_tcp_addto_sendlist(s) EXCEPT
     !.snd_nxt = a, !.ssthresh = HalfWindow(s), !.cwnd = HalfWindow(s) + 3 * Mss,
     !.nrtx = Min2(@ + 1, Max2(@, TCP_MAX_RTX))]

Repeated(s, a, env) ==
  CASE env.dups = "third" -> FastRetransmit(s, a)
    [] env.dups = "more" -> [s EXCEPT !.cwnd = IF @ < MaxCwnd THEN @ + Mss ELSE @]
    [] OTHER -> s

(* The test for an opened window is left out: nty_tcp_process has stored   *)
(* the new window already, with which it is compared, so it never succeeds *)
nty_tcp_process_ack(s, p, env) ==
  LET a == AckOfData(s, p)
      r == IF Repeats(s, p, a) THEN Repeated(s, a, env)
           ELSE [s EXCEPT !.last_ack_seq = a, !.snd_nxt = Max2(@, a),
                          !.on_send_list = @ /\ (a <= s.snd_nxt \/ s.sndbuf.len > 0)]
  IN  IF s.sndbuf = NoBuf \/ a > s.sndbuf.head + s.sndbuf.len THEN s
      ELSE IF a <= s.sndbuf.head THEN r ELSE Acknowledged(r, a)

-----------------------------------------------------------------------------
(* One handler per state.                                                  *)

(* mutant: any acknowledgement is taken for that of the FIN *)
AcksAnything(s, p) == s.is_fin_sent
AcksFin(s, p) == s.is_fin_sent /\ p.ack = s.fss + 1
FinInOrder(s, p) == Has(p, "FIN") /\ p.seq + p.len = s.rcv_nxt

nty_tcp_handle_listen(s, p) ==
  IF Has(p, "SYN")
  THEN nty_tcp_addto_controllist(
         [s EXCEPT !.state = "SYN_RCVD",
                   !.rcv_nxt = IF s.state = "LISTEN" THEN @ + 1 ELSE @])
  ELSE Crash(s)

(* env.room: what the other streams leave of acceptq and the memory pools; *)
(* not "enough" means here that they fill acceptq                          *)
nty_tcp_handle_syn_rcvd(s, p, env) ==
  LET e == [RemoveFromRTOList(s) EXCEPT
              !.snd_una = @ + 1, !.snd_nxt = p.ack, !.rcv_nxt = 1, !.nrtx = 0,
              !.cwnd = IF @ = 1 THEN 2 * Mss ELSE Mss]
  IN  CASE ~Has(p, "ACK") -> nty_tcp_addto_controllist([s EXCEPT !.snd_nxt = 0])
        [] Has(p, "ACK") /\ p.ack # 1 -> Crash(s)
        [] Has(p, "ACK") /\ p.ack = 1 /\ env.room # "enough" ->
             AddtoTimeoutList(nty_tcp_addto_controllist([e EXCEPT !.state = "CLOSED"]))
        [] Has(p, "ACK") /\ p.ack = 1 /\ env.room = "enough" ->
             Signal(AddtoTimeoutList([e EXCEPT !.state = "ESTABLISHED",
                                               !.in_acceptq = TRUE]), "accept")

nty_tcp_handle_established(s, p, env) ==
  LET r == Payload(s, p)
      q == IF Has(p, "ACK") THEN nty_tcp_process_ack(r, p, env) ELSE r
      f == nty_tcp_addto_controllist([q EXCEPT !.state = "CLOSE_WAIT", !.rcv_nxt = @ + 1])
  IN  CASE Has(p, "SYN") -> nty_tcp_addto_controllist([s EXCEPT !.snd_nxt = p.ack])
        [] ~Has(p, "SYN") /\ (q.stuck \/ ~Has(p, "FIN")) -> q
        [] ~Has(p, "SYN") /\ ~q.stuck /\ FinInOrder(q, p) ->
             IF q.socket THEN Signal(f, "read") ELSE f
        [] OTHER -> nty_tcp_enqueue_acklist(q, "now")

nty_tcp_handle_close_wait(s, p, env) ==
  IF p.seq < s.rcv_nxt THEN nty_tcp_addto_controllist(s) ELSE nty_tcp_process_ack(s, p, env)

nty_tcp_handle_last_ack(s, p, env) ==
  LET q == nty_tcp_process_ack(s, p, env) IN
  CASE p.seq < s.rcv_nxt -> s
    [] p.seq >= s.rcv_nxt /\ ~Has(p, "ACK") -> nty_tcp_addto_controllist(s)
    [] p.seq >= s.rcv_nxt /\ Has(p, "ACK") /\ (q.stuck \/ ~q.is_fin_sent) -> q
    [] p.seq >= s.rcv_nxt /\ Has(p, "ACK") /\ ~q.stuck /\ q.is_fin_sent ->
         IF AcksFin(q, p) THEN DestroyTcpStream(q) ELSE nty_tcp_addto_controllist(q)

(* NTY_TCP_TIMEWAIT, the length of the wait, is the number of the state    *)
(* NTY_TCP_CLOSED: that is where a FIN leads which acknowledges ours       *)
FinInFinWait(s) ==
  nty_tcp_addto_controllist(
    IF s.state = "FIN_WAIT_1" THEN [s EXCEPT !.state = "CLOSING", !.rcv_nxt = @ + 1]
    ELSE AddtoTimewaitList([s EXCEPT !.state = "CLOSED", !.rcv_nxt = @ + 1]))

nty_tcp_handle_fin_wait_1(s, p, env) ==
  LET q == nty_tcp_process_ack(s, p, env)
      w == IF AcksFin(q, p)
           THEN [RemoveFromRTOList(q) EXCEPT !.state = "FIN_WAIT_2", !.nrtx = 0,
                                             !.snd_una = p.ack, !.snd_nxt = Max2(@, p.ack)]
           ELSE q
      d == Payload(w, p)
  IN  CASE p.seq < s.rcv_nxt -> nty_tcp_addto_controllist(s)
        [] p.seq >= s.rcv_nxt /\ ~Has(p, "ACK") -> s
        [] p.seq >= s.rcv_nxt /\ Has(p, "ACK") /\ q.stuck -> q
        [] p.seq >= s.rcv_nxt /\ Has(p, "ACK") /\ ~q.stuck ->
             IF FinInOrder(d, p) THEN FinInFinWait(d) ELSE d

nty_tcp_handle_fin_wait_2(s, p, env) ==
  LET q == nty_tcp_process_ack(s, p, env)
      d == Payload(q, p)
  IN  CASE ~Has(p, "ACK") -> s
        [] Has(p, "ACK") /\ q.stuck -> q
        [] Has(p, "ACK") /\ ~q.stuck ->
             IF FinInOrder(d, p)
             THEN nty_tcp_addto_controllist(AddtoTimewaitList(
                    [d EXCEPT !.state = "TIME_WAIT", !.rcv_nxt = @ + 1]))
             ELSE d

nty_tcp_handle_closing(s, p, env) ==
  LET q == nty_tcp_process_ack(s, p, env) IN
  IF Has(p, "ACK") /\ ~q.stuck /\ AcksFin(q, p)
  THEN AddtoTimewaitList(UpdateRetransmissionTimer(
         [q EXCEPT !.snd_una = p.ack, !.snd_nxt = p.ack, !.state = "TIME_WAIT"]))
  ELSE IF Has(p, "ACK") THEN q ELSE s

(* mutant: a reset frees the stream at once in every state *)
ResetFrees(s, p) == DestroyTcpStream(s)
(* An application that waits in recv() is not woken *)
nty_tcp_process_rst(s, p) ==
  CASE s.state = "SYN_RCVD" -> IF p.ack = s.snd_nxt THEN DestroyTcpStream(s) ELSE s
    [] s.state \in {"FIN_WAIT_1", "FIN_WAIT_2", "LAST_ACK", "CLOSING", "TIME_WAIT"} ->
         DestroyTcpStream(s)
    [] s.state \in {"ESTABLISHED", "CLOSE_WAIT"} ->
         IF s.on_closeq \/ s.on_closeq_int THEN s ELSE [s EXCEPT !.state = "CLOSE_WAIT"]
    [] OTHER -> s

Handle(s, p, env) ==
  CASE s.state = "LISTEN" -> nty_tcp_handle_listen(s, p)
    [] s.state = "SYN_RCVD" ->
         IF Has(p, "SYN") THEN nty_tcp_handle_listen(s, p)
         ELSE LET e == nty_tcp_handle_syn_rcvd(s, p, env)
              IN  IF p.len > 0 /\ e.state = "ESTABLISHED"
                  THEN nty_tcp_handle_established(e, p, env) ELSE e
    [] s.state = "ESTABLISHED" -> nty_tcp_handle_established(s, p, env)
    [] s.state = "CLOSE_WAIT" -> nty_tcp_handle_close_wait(s, p, env)
    [] s.state = "LAST_ACK" -> nty_tcp_handle_last_ack(s, p, env)
    [] s.state = "FIN_WAIT_1" -> nty_tcp_handle_fin_wait_1(s, p, env)
    [] s.state = "FIN_WAIT_2" -> nty_tcp_handle_fin_wait_2(s, p, env)
    [] s.state = "CLOSING" -> nty_tcp_handle_closing(s, p, env)
    [] s.state = "TIME_WAIT" -> nty_tcp_addto_controllist(s)
    [] OTHER -> s

(* No stream: a SYN makes one with its receive buffer, anything else is    *)
(* answered with a reset. A stream for which there is no buffer stays in   *)
(* the table as CLOSED; a SYN for which there is no stream is refused      *)
nty_create_stream(s, p, env) ==
  CASE Has(p, "SYN") /\ ~Has(p, "ACK") /\ env.room = "none" ->
         Emit(s, Seg({"RST", "ACK"}, 0, p.seq + p.len + 1, 0, 0))
    [] Has(p, "SYN") /\ ~Has(p, "ACK") /\ env.room # "none" ->
         [s EXCEPT !.state = IF env.room = "no buffer" THEN "CLOSED" ELSE "LISTEN",
                   !.rcv_nxt = p.seq]
    [] ~(Has(p, "SYN") /\ ~Has(p, "ACK")) /\ Has(p, "RST") -> s
    [] OTHER -> Emit(s, Seg({"RST"}, p.ack, 0, 0, 0))

nty_tcp_process(s, p, env) ==
  LET c == IF Exists(s) THEN s ELSE nty_create_stream(s, p, env)
      w == [c EXCEPT !.peer_wnd = p.wnd, !.have_reset = @ \/ Has(p, "RST")]
  IN  CASE ~Exists(c) -> c
        [] Exists(c) /\ c.state \notin {"CLOSED", "LISTEN", "SYN_RCVD"}
             /\ ~nty_tcp_validseq(c, p) -> OutOfWindow(c, p)
        [] OTHER -> IF Has(p, "RST") /\ c.state \notin {"CLOSED", "LISTEN"}
                    THEN nty_tcp_process_rst(w, p) ELSE Handle(w, p, env)
-----------------------------------------------------------------------------
(* The stack thread: nty_tcp_run() and nty_tcp_write_chunks().             *)

(* Who is waiting on a condition variable when it is signalled *)
Woken(signals) ==
  CASE app = "await" /\ "accept" \in signals -> "accept"
    [] app = "rwait" /\ "read" \in signals -> "recv"
    [] OTHER -> app

Becomes(s, at) ==
  /\ stk' = [s EXCEPT !.signals = {}]
  /\ app' = Woken(s.signals)
  /\ pc' = IF s.crashed \/ s.stuck THEN "dead" ELSE at

Quiet == up = <<>> /\ down = <<>> /\ stk.nic = <<>>

Flushes(s) ==
  \/ s.state = "ESTABLISHED" /\ ~s.on_control_list
  \/ s.state \in {"CLOSE_WAIT", "FIN_WAIT_1", "LAST_ACK"}

(* nty_tcp_write_datalist up to the loop in nty_tcp_flush_sendbuffer, in   *)
(* which the thread holds write_lock                                       *)
nty_tcp_write_datalist(s) ==
  Becomes(IF s.on_send_list /\ Flushes(s)
          THEN [s EXCEPT !.window = Min2(s.cwnd, s.peer_wnd), !.packets = 0] ELSE s,
          IF ~s.on_send_list \/ (s.state = "ESTABLISHED" /\ s.on_control_list)
          THEN "net" ELSE IF Flushes(s) THEN "flushing" ELSE "unlist")

(* What only looks at the stream between two waits is one step: the timers,*)
(* the calls of the application, the lists.                                *)
(* fires: a timer is due in the bucket of the wheel that is looked at,     *)
(* which never moves; idle: nothing has come for NTY_TCP_TIMEOUT seconds   *)
Timers(fires, idle) ==
  CheckConnectionTimeout(CheckTimewaitExpire(CheckRtmTimeout(stk, fires)), idle)

WriteChunks ==
  /\ pc = "chunks"
  /\ \E fires, idle \in BOOLEAN :
       /\ idle => Quiet
       /\ \E t \in {Timers(fires, idle)} :
          \E s \in {nty_tcp_write_controllist(nty_tcp_handle_apicall(t))} :
          \E r \in {nty_tcp_write_acklist(s)} : nty_tcp_write_datalist(r)
  /\ UNCHANGED <<done, peer, up, down>>

InFlight(s) == s.snd_nxt - s.snd_una
Unsent(s) == s.sndbuf.head + s.sndbuf.len - s.snd_nxt

(* Before the buffer is the assert(0) of the loop; behind it buffered_len,  *)
(* which is unsigned, would be almost 2^32                                 *)
SndNxtInBuffer == stk.snd_nxt \in stk.sndbuf.head .. stk.sndbuf.head + stk.sndbuf.len

(* One turn of the loop: a packet that does not fit the window is left for  *)
(* later, an empty one is the end                                          *)
FlushSendbuffer ==
  /\ pc = "flushing"
  /\ LET len == Min2(Min2(Unsent(stk), Mss - OptLen), stk.window)
         left == [stk EXCEPT !.window = 0, !.packets = 0]
     IN
     CASE stk.sndbuf.len = 0 \/ (SndNxtInBuffer /\ len = 0) ->
            Becomes([stk EXCEPT !.window = 0], "unlist")
       [] stk.sndbuf.len > 0 /\ ~SndNxtInBuffer -> Becomes(Crash(stk), "dead")
       [] stk.sndbuf.len > 0 /\ SndNxtInBuffer /\ len > 0
            /\ InFlight(stk) + len > stk.window ->
            \E late \in BOOLEAN :
              Becomes(IF late /\ InFlight(stk) + len > stk.peer_wnd
                      THEN nty_tcp_enqueue_acklist(left, "wack") ELSE left, "net")
       [] OTHER -> Becomes(nty_tcp_send_tcppkt([stk EXCEPT !.window = @ - len,
                                                           !.packets = @ + 1], {"ACK"}, len),
                           "flushing")
  /\ UNCHANGED <<done, peer, up, down>>

(* The stream leaves send_list, which the application may have read just   *)
(* before; a packet that has gone out stands for an ACK that was due       *)
LeaveSendlist ==
  /\ pc = "unlist"
  /\ LET s == [stk EXCEPT !.on_send_list = FALSE, !.packets = 0,
                          !.ack_cnt = IF @ > stk.packets THEN @ - stk.packets ELSE 0]
     IN  Becomes(NoLongerWaiting(s, s.on_ack_list), "net")
  /\ UNCHANGED <<done, peer, up, down>>

(* What the handling of a segment depends on besides the stream; a SYN and *)
(* the ACK of ours do not depend on dups, the other segments not on room   *)
Env == [room : {"enough", "no buffer", "none"}, dups : {"few"}]
       \cup [room : {"enough"}, dups : {"few", "third", "more"}]

Read ==
  /\ pc = "net" /\ up # <<>>
  /\ \E s \in {nty_tcp_process(stk, Head(up), env) : env \in Env} : Becomes(s, "chunks")
  /\ up' = Tail(up)
  /\ UNCHANGED <<done, peer, down>>

nty_nic_send_pkts ==
  /\ pc = "net" /\ up = <<>>
  /\ Len(down) < Wire
  /\ Becomes([stk EXCEPT !.nic = <<>>], "chunks")
  /\ down' = down \o stk.nic
  /\ UNCHANGED <<done, peer, up>>

Stack == WriteChunks \/ FlushSendbuffer \/ LeaveSendlist \/ Read \/ nty_nic_send_pkts

-----------------------------------------------------------------------------
(* The application: a thread with one connection and blocking calls. Once  *)
(* the stream has been freed behind its back anything may happen.          *)

Alive == ~stk.orphan
HasSocket == Alive /\ stk.socket

Accept ==
  /\ app = "accept" /\ Alive
  /\ IF stk.in_acceptq
     THEN /\ stk' = [stk EXCEPT !.in_acceptq = FALSE, !.socket = TRUE]
          /\ app' = "idle"
     ELSE app' = "await" /\ UNCHANGED stk
  /\ UNCHANGED <<pc, done, peer, up, down>>

Copy(n) ==
  /\ n > 0
  /\ stk' = [stk EXCEPT !.merged_len = @ - n]
  /\ done' = [done EXCEPT !.got = @ + n]
  /\ app' = "idle"

RecvData == \E n \in 1 .. MaxIn : n <= stk.merged_len /\ Copy(n)

(* mutant: the end is reported as soon as the state is not ESTABLISHED *)
RecvNothingUnread ==
  /\ stk.state # "ESTABLISHED"
  /\ done' = [done EXCEPT !.eof = IF stk.have_reset THEN "reset" ELSE "end"]
  /\ app' = "idle" /\ UNCHANGED stk

RecvNothing ==
  /\ stk.merged_len = 0 /\ stk.state # "ESTABLISHED"
  /\ done' = [done EXCEPT !.eof = IF stk.have_reset THEN "reset" ELSE "end"]
  /\ app' = "idle" /\ UNCHANGED stk

(* mutant: recv() waits without a look at the buffer *)
RecvWaitsBlindly ==
  /\ stk.state = "ESTABLISHED"
  /\ app' = "rwait" /\ UNCHANGED <<stk, done>>

RecvWaits ==
  /\ stk.merged_len = 0 /\ stk.state = "ESTABLISHED"
  /\ app' = "rwait" /\ UNCHANGED <<stk, done>>

Recv ==
  /\ HasSocket /\ app \in {"idle", "recv"} /\ done.eof = "no"
  /\ RecvData \/ RecvNothing \/ RecvWaits
  /\ UNCHANGED <<pc, peer, up, down>>

nty_copy_from_user ==
  LET n == Min2(stk.snd_wnd, SendLen)
      buf == IF stk.sndbuf = NoBuf THEN [head |-> 1, len |-> 0] ELSE stk.sndbuf
  IN  /\ stk' = [stk EXCEPT !.sndbuf = [buf EXCEPT !.len = @ + n],
                            !.snd_wnd = SndBuf - (buf.len + n)]
      /\ done' = [done EXCEPT !.sent = @ + n]
      /\ app' = "enq"

Send ==
  /\ HasSocket /\ app = "idle" /\ pc # "flushing"
  /\ \/ stk.snd_wnd > 0 /\ done.sent + SendLen <= MaxOut /\ nty_copy_from_user
     \/ /\ stk.snd_wnd = 0 /\ stk.state = "ESTABLISHED"
        /\ app' = "swait" /\ UNCHANGED <<stk, done>>
  /\ UNCHANGED <<pc, peer, up, down>>

SendEnqueue ==
  /\ HasSocket /\ app = "enq"
  /\ stk' = [stk EXCEPT !.on_sendq = @ \/ ~stk.on_send_list]
  /\ app' = "idle"
  /\ UNCHANGED <<pc, done, peer, up, down>>

Close ==
  /\ HasSocket /\ app = "idle"
  /\ stk' = [stk EXCEPT !.socket = FALSE, !.on_closeq = TRUE]
  /\ app' = "closed"
  /\ UNCHANGED <<pc, done, peer, up, down>>

Application == Accept \/ Recv \/ Send \/ SendEnqueue \/ Close

-----------------------------------------------------------------------------
(* The network and the peer, which are not part of the program.            *)

Goes(p) == Len(up) < Wire /\ up' = Append(up, p)
FromPeer(flags, seq, len, r) ==
  Goes(Seg(flags, seq, r.nxt, len, r.wnd)) /\ peer' = [r EXCEPT !.due = FALSE]
Untouched == UNCHANGED <<pc, stk, app, done, down>>

PeerConnects ==
  /\ peer.st = "closed"
  /\ \E wnd \in PeerWnds :
       FromPeer({"SYN"}, 0, 0, [peer EXCEPT !.st = "syn_sent", !.snd = 1, !.wnd = wnd])
  /\ Untouched

Open == peer.st = "open"

PeerAcks == Open /\ peer.due /\ stk.snd_nxt < MaxNxt /\ FromPeer({"ACK"}, peer.snd, 0, peer) /\ Untouched

PeerSends ==
  /\ Open /\ ~peer.fin /\ peer.snd <= MaxIn
  /\ FromPeer({"ACK"}, peer.snd, 1, [peer EXCEPT !.snd = @ + 1])
  /\ Untouched

PeerFinishes ==
  /\ Open /\ ~peer.fin
  /\ FromPeer({"FIN", "ACK"}, peer.snd, 0, [peer EXCEPT !.snd = @ + 1, !.fin = TRUE])
  /\ Untouched

PeerResets ==
  /\ Open /\ (ManyFaults \/ ~stk.lost)
  /\ FromPeer({"RST"}, peer.snd, 0, [peer EXCEPT !.st = "reset"])
  /\ Untouched

PeerSendsAgain ==
  /\ peer.st \in {"syn_sent", "open"} /\ peer.una < peer.snd
  /\ ~peer.due /\ Quiet /\ stk.snd_nxt < MaxNxt
  /\ CASE peer.st = "syn_sent" -> FromPeer({"SYN"}, 0, 0, peer)
       [] Open /\ peer.fin /\ peer.una = peer.snd - 1 ->
            FromPeer({"FIN", "ACK"}, peer.una, 0, peer)
       [] OTHER -> FromPeer({"ACK"}, peer.una, 1, peer)
  /\ Untouched

Hears(r, p) ==
  LET fresh == p.seq = r.nxt IN
  [r EXCEPT !.una = Max2(@, p.ack),
            !.nxt = IF fresh THEN @ + Grows(p.flags, p.len) ELSE @,
            !.gotfin = @ \/ (fresh /\ Has(p, "FIN")),
            !.due = @ \/ Grows(p.flags, p.len) > 0 \/ p.seq < r.nxt]

PeerHears ==
  /\ down # <<>>
  /\ down' = Tail(down)
  /\ LET p == Head(down) IN
     peer' = CASE Has(p, "RST") /\ peer.st \in {"syn_sent", "open"} ->
                    [peer EXCEPT !.st = "reset", !.due = FALSE]
               [] ~Has(p, "RST") /\ (Open \/ (peer.st = "syn_sent" /\ Has(p, "SYN"))) ->
                    Hears([peer EXCEPT !.st = "open"], p)
               [] OTHER -> peer
  /\ UNCHANGED <<pc, stk, app, done, up>>

(* A segment is lost on the way *)
Loses == ManyFaults \/ (~stk.lost /\ peer.st # "reset")
LosesUp == /\ up # <<>> /\ Loses /\ up' = Tail(up)
           /\ stk' = [stk EXCEPT !.lost = TRUE]
           /\ UNCHANGED <<pc, app, done, peer, down>>
LosesDown == /\ down # <<>> /\ Loses /\ down' = Tail(down)
             /\ stk' = [stk EXCEPT !.lost = TRUE]
             /\ UNCHANGED <<pc, app, done, peer, up>>

Network == PeerConnects \/ PeerAcks \/ PeerSends \/ PeerFinishes \/ PeerResets
           \/ PeerSendsAgain \/ PeerHears \/ LosesUp \/ LosesDown

-----------------------------------------------------------------------------
Init ==
  /\ pc = "chunks" /\ stk = NoStream /\ app = "accept"
  /\ done = [sent |-> 0, got |-> 0, eof |-> "no"]
  /\ peer = [st |-> "closed", snd |-> 0, una |-> 0, nxt |-> 0,
             wnd |-> 0, fin |-> FALSE, gotfin |-> FALSE, due |-> FALSE]
  /\ up = <<>> /\ down = <<>>

Next == Stack \/ Application \/ Network

Spec == Init /\ [][Next]_vars

(* The stack thread always has something to do, unless it waits for itself *)
StackCan == CASE pc = "net" -> up # <<>> \/ Len(down) < Wire
              [] pc = "dead" -> FALSE
              [] OTHER -> TRUE

(* The stack thread runs: this is WF_vars(Stack), StackCan being the       *)
(* ENABLED of it written out. A thread that is woken in accept() goes on.  *)
(* The peer listens, answers, repeats and comes to its end                 *)
FairSpec == Spec /\ ([]<>~StackCan \/ []<><<Stack>>_vars) /\ WF_vars(Accept)
            /\ WF_vars(PeerHears) /\ WF_vars(PeerAcks \/ PeerFinishes \/ PeerSendsAgain)

-----------------------------------------------------------------------------
(* No assert(0) or exit(1) of the stack is reached, and nothing is sent    *)
(* from beyond the send buffer, whatever the peer, the network and the     *)
(* application do: neither the retransmission timer nor a list ever meets  *)
(* a state it is not written for                                           *)
NoAssertionFails == ~stk.crashed

(* The retransmission timer and the TIME_WAIT list share one link field of *)
(* the stream, so it is never on both; and the timer runs only in a state  *)
(* in which something of ours is unacknowledged                            *)
OneTimerOnly ==
  /\ ~(stk.on_rto /\ stk.on_timewait_list)
  /\ stk.on_rto => stk.state \in {"SYN_RCVD", "ESTABLISHED", "CLOSE_WAIT",
                                 "FIN_WAIT_1", "CLOSING", "LAST_ACK"}

(* The bytes the peer has sent, and those of ours it has taken in order:   *)
(* its numbers without the SYN and the FIN                                 *)
PeerSent == IF peer.snd = 0 THEN 0 ELSE peer.snd - (IF peer.fin THEN 2 ELSE 1)
PeerGot == IF peer.nxt = 0 THEN 0 ELSE peer.nxt - (IF peer.gotfin THEN 2 ELSE 1)

(* From the application to the peer the connection is a ByteStream: the    *)
(* peer takes the bytes that send() took, in order and once, and our FIN   *)
(* only after the application has closed and after every byte, however     *)
(* close() meets the lists, the timers and data not yet sent               *)
AppStream == INSTANCE ByteStream WITH
  sent <- done.sent, got <- PeerGot,
  closed <- app = "closed", ended <- peer.gotfin
SendsAStream == AppStream!Spec

(* And so it is from the peer to the application: recv() never hands over  *)
(* more than the peer has sent, whatever the network loses and the peer    *)
(* repeats, and says "end" only when the peer has finished and every byte  *)
(* has been handed over. (After a RST it says the same: see "reset".)      *)
(* Which bytes of the buffer the copy takes is NtyRecvBuffer's question:   *)
(* ReadsInOrder                                                            *)
PeerStream == INSTANCE ByteStream WITH
  sent <- PeerSent, got <- done.got,
  closed <- peer.fin, ended <- done.eof = "end"
ReceivesAStream == PeerStream!Spec

(* What our state says of the other end is so: it has our FIN, it has sent *)
(* its own, and neither end believes more acknowledged than has arrived    *)
StatesAgreeWithPeer ==
  /\ stk.state \in {"FIN_WAIT_2", "TIME_WAIT"} => peer.gotfin
  /\ stk.state \in {"LAST_ACK", "CLOSING", "TIME_WAIT"} => peer.fin
  /\ stk.snd_una <= peer.nxt
  /\ peer.una <= stk.rcv_nxt \/ ~Exists(stk)

(* Nobody stays asleep: not in accept() while a connection waits in the    *)
(* queue, nor in recv() while there is data to read or the peer has        *)
(* finished                                                                *)
NobodySleepsOn ==
  /\ app = "await" => ~stk.in_acceptq
  /\ app = "rwait" /\ ~stk.have_reset => stk.merged_len = 0 /\ stk.state # "CLOSE_WAIT"

(* A stream the application can still reach (in acceptq, in a socket, in   *)
(* sendq or closeq) is freed by a timer or not at all: no segment and no   *)
(* call takes it away                                                      *)
OnlyTimersTakeItAway == [][stk'.orphan /\ ~stk.orphan => pc = "chunks"]_vars

(* After close() the connection comes to its end, unless a segment was     *)
(* lost (only one bucket of timers ever fires), a reset came, the stream   *)
(* was put on closeq_int or has data left that no list will send, the      *)
(* thread waits for its own lock, or the bound on repetition is reached    *)
Excused ==
  \/ stk.lost \/ peer.st = "reset" \/ stk.on_closeq_int \/ pc = "dead"
  \/ Exists(stk) /\ stk.sndbuf # NoBuf /\ Unsent(stk) > 0 /\ ~stk.on_send_list
  \/ stk.snd_nxt >= MaxNxt
CloseEnds == app = "closed" ~> ~Exists(stk) \/ Excused
=============================================================================
