----------------------------- MODULE RecvMachine -----------------------------
(***************************************************************************)
(* The receive state machine of one connection object                      *)
(* (linux_c++_6_4/nginx/net/ngx_c_socket_request.cxx), through any number  *)
(* of clients.  epoll is level triggered: each readable event makes one    *)
(* call of ngx_wait_request_handler(), which recv()s at most irecvlen      *)
(* bytes and moves the machine                                             *)
(*                                                                         *)
(*     HD_INIT -> HD_RECVING -> BD_INIT -> BD_RECVING -> HD_INIT           *)
(*                                                                         *)
(* A byte is represented by its position in what all clients send;         *)
(* stream[p] is the pkgLen that a header beginning at byte p declares.     *)
(* EAGAIN and EINTR make the handler return with nothing changed: stutter. *)
(***************************************************************************)
EXTENDS Integers, Sequences

CONSTANTS
  HdrLen,     (* sizeof(COMM_PKG_HEADER)                                    *)
  MaxLen,     (* _PKG_MAX_LENGTH - 1000                                     *)
  HeadSize,   (* _DATA_BUFSIZE_                                             *)
  Lens,       (* the values the field pkgLen can have                       *)
  StreamLen,  (* bound: how many bytes the clients send                     *)
  Junk,       (* a byte of memory never written                             *)
  Null        (* the null pointer                                           *)

(* ngx_comm.h: the buffer for headers must be large enough for one *)
ASSUME SizesAssumption ==
  /\ HdrLen \in Nat \ {0} /\ MaxLen \in Nat /\ StreamLen \in Nat
  /\ HeadSize \in Nat /\ HdrLen <= HeadSize
  /\ Lens \subseteq Nat
ASSUME MemoryAssumption ==
  /\ Junk \notin Nat
  /\ \A len \in 0 .. MaxLen : Null \notin [0 .. len - 1 -> Nat \cup {Junk}]

VARIABLES
  stream,           (* what the clients send                                *)
  pos,              (* how many of these bytes recv() has returned          *)
  curStat,          (* the state of the machine                             *)
  at,               (* precvbuf: where the next byte goes, counted from the *)
                    (* packet header, in dataHeadInfo or in the message     *)
                    (* buffer according to curStat                          *)
  irecvlen,         (* how many bytes are missing                           *)
  dataHeadInfo,     (* the buffer for the header                            *)
  precvMemPointer,  (* Null or the bytes of the message buffer              *)
  place,            (* the object is "used", "closed" or "free"             *)
  delivered         (* the message buffers handed to the pool threads       *)

machine == <<curStat, at, irecvlen, dataHeadInfo, precvMemPointer>>
vars == <<stream, pos, machine, place, delivered>>

HeadStates == {"HD_INIT", "HD_RECVING"}
BodyStates == {"BD_INIT", "BD_RECVING"}

(* the three assignments that every end of a packet makes *)
AwaitHeader == curStat' = "HD_INIT" /\ at' = 0 /\ irecvlen' = HdrLen

Init ==
  /\ stream \in [0 .. StreamLen -> Lens]
  /\ pos = 0
  /\ curStat = "HD_INIT" /\ at = 0 /\ irecvlen = HdrLen
  /\ dataHeadInfo = [i \in 0 .. HeadSize - 1 |-> Junk]
  /\ precvMemPointer = Null
  /\ place = "used"
  /\ delivered = <<>>

-----------------------------------------------------------------------------
(* recv() put n bytes at the place where precvbuf points *)
Filled(buf, n) ==
  [i \in DOMAIN buf |-> IF at <= i /\ i < at + n THEN pos + (i - at) ELSE buf[i]]

(* recvproc() returns n > 0 *)
Recv(n) == /\ place = "used"
           /\ n \in 1 .. irecvlen
           /\ pos + n <= StreamLen
           /\ pos' = pos + n
           /\ UNCHANGED <<stream, place>>

(* the test of the handler; in HD_INIT it is written with m_iLenPkgHeader *)
Complete(n) == n = IF curStat = "HD_INIT" THEN HdrLen ELSE irecvlen

(* the header or the body is not complete yet *)
ReceivePart(n) ==
  /\ Recv(n)
  /\ ~Complete(n)
  /\ at' = at + n
  /\ irecvlen' = irecvlen - n
  /\ curStat' = IF curStat \in HeadStates THEN "HD_RECVING" ELSE "BD_RECVING"
  /\ IF curStat \in HeadStates
     THEN dataHeadInfo' = Filled(dataHeadInfo, n) /\ UNCHANGED precvMemPointer
     ELSE precvMemPointer' = Filled(precvMemPointer, n) /\ UNCHANGED dataHeadInfo
  /\ UNCHANGED delivered

(* the header is complete: proc_p1() reads pkgLen from dataHeadInfo *)
HeaderComplete(n) ==
  /\ Recv(n)
  /\ curStat \in HeadStates
  /\ Complete(n)
  /\ dataHeadInfo' = Filled(dataHeadInfo, n)

e_pkgLen == stream[dataHeadInfo'[0]]

(* not a packet: shorter than its header, or too long *)
BadLength == e_pkgLen < HdrLen \/ e_pkgLen > MaxLen

(* mutant: the position is not put back *)
HeaderRejectedNoRewind(n) ==
  /\ HeaderComplete(n)
  /\ BadLength
  /\ curStat' = "HD_INIT" /\ irecvlen' = HdrLen
  /\ UNCHANGED <<at, precvMemPointer, delivered>>

(* a bad header is dropped and the machine waits for the next one *)
HeaderRejected(n) ==
  /\ HeaderComplete(n)
  /\ BadLength
  /\ AwaitHeader
  /\ UNCHANGED <<precvMemPointer, delivered>>

(* AllocMemory() and the copy of the header *)
MessageBuffer ==
  [i \in 0 .. e_pkgLen - 1 |-> IF i < HdrLen THEN dataHeadInfo'[i] ELSE Junk]

(* a packet without a body goes to the pool at once: proc_plast() *)
HeaderOnly(n) ==
  /\ HeaderComplete(n)
  /\ ~BadLength /\ e_pkgLen = HdrLen
  /\ delivered' = Append(delivered, MessageBuffer)
  /\ precvMemPointer' = Null
  /\ AwaitHeader

(* mutant: one byte too many *)
BodyFollowsOneMore(n) ==
  /\ HeaderComplete(n)
  /\ ~BadLength /\ e_pkgLen # HdrLen
  /\ precvMemPointer' = MessageBuffer
  /\ curStat' = "BD_INIT"
  /\ at' = HdrLen
  /\ irecvlen' = e_pkgLen - HdrLen + 1
  /\ UNCHANGED delivered

(* a body follows *)
BodyFollows(n) ==
  /\ HeaderComplete(n)
  /\ ~BadLength /\ e_pkgLen # HdrLen
  /\ precvMemPointer' = MessageBuffer
  /\ curStat' = "BD_INIT"
  /\ at' = HdrLen
  /\ irecvlen' = e_pkgLen - HdrLen
  /\ UNCHANGED delivered

(* the body is complete: proc_plast() *)
BodyComplete(n) ==
  /\ Recv(n)
  /\ curStat \in BodyStates
  /\ Complete(n)
  /\ delivered' = Append(delivered, Filled(precvMemPointer, n))
  /\ precvMemPointer' = Null
  /\ AwaitHeader
  /\ UNCHANGED <<dataHeadInfo>>

(* ngx_wait_request_handler() *)
ngx_wait_request_handler ==
  \E n \in 1 .. StreamLen :
    \/ ReceivePart(n) \/ HeaderRejected(n) \/ HeaderOnly(n) \/ BodyFollows(n)
    \/ BodyComplete(n)

-----------------------------------------------------------------------------
(* recv() returned 0 or an error: close() and inRecyConnectQueue(); the    *)
(* machine is left as it is                                                *)
Close == /\ place = "used"
         /\ place' = "closed"
         /\ UNCHANGED <<stream, pos, machine, delivered>>

(* PutOneToFree(), when the recycler gives the object back *)
PutOneToFree == /\ place = "closed"
                /\ place' = "free"
                /\ precvMemPointer' = Null
                /\ UNCHANGED <<stream, pos, curStat, at, irecvlen, dataHeadInfo,
                               delivered>>

(* mutant: precvbuf is not put back *)
GetOneToUseNoRewind ==
  /\ place = "free"
  /\ place' = "used"
  /\ curStat' = "HD_INIT" /\ irecvlen' = HdrLen
  /\ precvMemPointer' = Null
  /\ UNCHANGED <<stream, pos, at, dataHeadInfo, delivered>>

(* GetOneToUse(): another client *)
GetOneToUse ==
  /\ place = "free"
  /\ place' = "used"
  /\ AwaitHeader
  /\ precvMemPointer' = Null
  /\ UNCHANGED <<stream, pos, dataHeadInfo, delivered>>

Next == ngx_wait_request_handler \/ Close \/ PutOneToFree \/ GetOneToUse

Spec == Init /\ [][Next]_vars
-----------------------------------------------------------------------------
Byte == Nat \cup {Junk}

TypeOK ==
  /\ stream \in [0 .. StreamLen -> Lens]
  /\ pos \in 0 .. StreamLen
  /\ curStat \in HeadStates \cup BodyStates
  /\ at \in Nat /\ irecvlen \in Nat
  /\ dataHeadInfo \in [0 .. HeadSize - 1 -> Byte]
  /\ \/ precvMemPointer = Null
     \/ \E len \in 0 .. MaxLen : precvMemPointer \in [0 .. len - 1 -> Byte]
  /\ place \in {"used", "closed", "free"}

(* The first byte of the packet being received. *)
begin == pos - at

Acceptable(len) == HdrLen <= len /\ len <= MaxLen

(* recv() never writes outside the buffer it is given, and is never asked  *)
(* for 0 bytes: it would return 0, which recvproc() takes for a client     *)
(* that has gone.                                                          *)
WritesInBounds ==
  place = "used" =>
    /\ irecvlen > 0
    /\ curStat \in HeadStates => at + irecvlen <= HeadSize
    /\ curStat \in BodyStates => /\ precvMemPointer # Null
                                 /\ \A i \in at .. at + irecvlen - 1 :
                                      i \in DOMAIN precvMemPointer

(* The machine relates to the stream: at bytes of the packet that begins   *)
(* at begin have been received, and they are in place in the buffer.       *)
HeaderInPlace ==
  curStat \in HeadStates =>
    /\ at + irecvlen = HdrLen
    /\ irecvlen > 0
    /\ curStat = "HD_INIT" => at = 0
    /\ precvMemPointer = Null
    /\ \A i \in 0 .. at - 1 : dataHeadInfo[i] = begin + i

BodyInPlace ==
  curStat \in BodyStates =>
    /\ Acceptable(stream[begin])
    /\ at + irecvlen = stream[begin]
    /\ at >= HdrLen /\ irecvlen > 0
    /\ place # "free" =>
         /\ precvMemPointer \in [0 .. stream[begin] - 1 -> Byte]
         /\ \A i \in 0 .. at - 1 : precvMemPointer[i] = begin + i

IInv == TypeOK /\ at <= pos /\ HeaderInPlace /\ BodyInPlace

(* The bytes delivered are those of the stream, cut at the declared        *)
(* lengths, however recv() splits them and however often the object is     *)
(* reused in the middle of a packet.                                       *)
Frames == INSTANCE Framing WITH boundary <- begin
FramingSpec == Frames!Spec

=============================================================================
