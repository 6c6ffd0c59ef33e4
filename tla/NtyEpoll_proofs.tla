--------------------------- MODULE NtyEpoll_proofs ---------------------------
(***************************************************************************)
(* Theorems about NtyEpoll, for any set of clients and any sizes of the    *)
(* accept queue, of the event array and of the buffer.  The argument rests *)
(* on the ready list being exactly the descriptors whose flag is set, each *)
(* once, although the flag is tested without the lock.                     *)
(***************************************************************************)
EXTENDS NtyEpoll, TLAPS

NoneTwice == \A i, j \in 1 .. Len(rdlist) : rdlist[i] = rdlist[j] => i = j

(* who works on a connection has one in hand *)
ClientInHand ==
  /\ server \in {"add", "inserting", "recv", "blocked", "del", "removing", "close"}
       => cur \in Clients
  /\ stack # "idle" => target \in Fds

(* nobody but the stack thread sets the flag it has found unset *)
ReadyList ==
  /\ NoneTwice
  /\ rdy = ToSet(rdlist)
  /\ stack = "insert" => target \notin rdy

EInv == TypeOK /\ ClientInHand /\ ReadyList /\ EveryEdgeReported

(* what epoll_wait() takes from the ready list, and what it leaves *)
LEMMA TakenSplits ==
  ASSUME TypeOK, NoneTwice
  PROVE  LET e == SubSeq(rdlist, 1, Taken)
             r == SubSeq(rdlist, Taken + 1, Len(rdlist))
         IN /\ e \in Seq(Fds) /\ r \in Seq(Fds)
            /\ \A i, j \in 1 .. Len(r) : r[i] = r[j] => i = j
            /\ ToSet(r) = ToSet(rdlist) \ ToSet(e)
  <1> DEFINE n == Len(rdlist)
             e == SubSeq(rdlist, 1, Taken)
             r == SubSeq(rdlist, Taken + 1, n)
  <1>0. rdlist \in Seq(Fds)
    BY DEF TypeOK
  <1>1. n \in Nat /\ rdlist \in Seq(Fds)
    BY <1>0
  <1>2. Taken \in 0 .. n
    <2>1. MaxEvents \in Nat
      BY EpollAssumption
    <2>2. \E x \in {MaxEvents, n} : \A y \in {MaxEvents, n} : x <= y
      <3>1. CASE MaxEvents <= n
        BY <1>1, <2>1, <3>1
      <3>2. CASE n <= MaxEvents
        BY <1>1, <2>1, <3>2
      <3> QED BY <1>1, <2>1, <3>1, <3>2
    <2>3. Taken \in {MaxEvents, n} /\ \A y \in {MaxEvents, n} : Taken <= y
      BY <2>2 DEF Taken, Min
    <2> QED BY <1>1, <2>1, <2>3
  <1>3. /\ e \in Seq(Fds) /\ Len(e) = Taken
        /\ \A i \in 1 .. Taken : e[i] = rdlist[i]
    BY <1>1, <1>2
  <1>4. /\ r \in Seq(Fds) /\ Len(r) = n - Taken
        /\ \A i \in 1 .. (n - Taken) : r[i] = rdlist[Taken + i]
    BY <1>1, <1>2
  <1> HIDE DEF e, r
  <1>5. \A i, j \in 1 .. Len(r) : r[i] = r[j] => i = j
    BY <1>1, <1>2, <1>4 DEF NoneTwice
  <1>6. ToSet(r) \subseteq ToSet(rdlist) \ ToSet(e)
    <2> SUFFICES ASSUME NEW i \in 1 .. (n - Taken)
                 PROVE  r[i] \in ToSet(rdlist) /\ r[i] \notin ToSet(e)
      BY <1>4 DEF ToSet
    <2>1. Taken + i \in 1 .. n /\ r[i] = rdlist[Taken + i]
      BY <1>1, <1>2, <1>4
    <2>2. \A j \in 1 .. Taken : e[j] = rdlist[j] /\ j \in 1 .. n /\ j # Taken + i
      BY <1>1, <1>2, <1>3
    <2>3. \A j \in 1 .. Taken : e[j] # r[i]
      BY <2>1, <2>2 DEF NoneTwice
    <2> QED BY <1>1, <1>3, <2>1, <2>3 DEF ToSet
  <1>7. ToSet(rdlist) \ ToSet(e) \subseteq ToSet(r)
    <2> SUFFICES ASSUME NEW i \in 1 .. n, rdlist[i] \notin ToSet(e)
                 PROVE  rdlist[i] \in ToSet(r)
      BY <1>1 DEF ToSet
    <2>1. i \notin 1 .. Taken
      BY <1>3 DEF ToSet
    <2>2. i - Taken \in 1 .. (n - Taken) /\ Taken + (i - Taken) = i
      BY <1>1, <1>2, <2>1
    <2>3. r[i - Taken] = rdlist[i]
      BY <1>4, <2>2
    <2> QED BY <1>4, <2>2, <2>3 DEF ToSet
  <1> QED BY <1>3, <1>4, <1>5, <1>6, <1>7 DEF e, r

-----------------------------------------------------------------------------
(* The steps that leave the epoll alone and report nothing. *)
LEMMA QuietStep ==
  ASSUME EInv, UNCHANGED <<rdy, rdlist>>,
         \/ UNCHANGED <<stack, target, fresh>>
         \/ stack \notin {"find", "test", "insert"} /\ UNCHANGED <<target, fresh>>
            /\ stack' # "insert"
  PROVE  ReadyList' /\ (Alive => EveryEdgeReported')
  BY DEF EInv, ReadyList, NoneTwice, EveryEdgeReported

(* A report comes from an idle stack thread: it adds one descriptor to     *)
(* those that are not told, and takes it in hand.                          *)
LEMMA ReportStep ==
  ASSUME EInv, Alive, NEW i \in Fds, stack = "idle", Reports(i),
         UNCHANGED <<rdy, rdlist>>
  PROVE  ReadyList' /\ EveryEdgeReported'
  BY DEF EInv, ReadyList, NoneTwice, EveryEdgeReported, Reports

LEMMA InputStep ==
  ASSUME EInv, Alive, NEW k \in Clients, Establish(k) \/ Data(k) \/ Fin(k)
  PROVE  EInv'
  <1> USE DEF EInv, TypeOK
  <1>0. k \in Fds /\ Listener \in Fds
    BY DEF Fds
  <1>1. CASE Establish(k)
    <2>1. ReadyList' /\ EveryEdgeReported'
      BY <1>0, <1>1, ReportStep DEF Establish, epoll
    <2>2. TypeOK' /\ ClientInHand'
      <3>1. state' \in [Clients -> {"SYN_RCVD", "ESTABLISHED", "CLOSE_WAIT", "CLOSED"}]
        BY <1>1 DEF Establish
      <3>2. acceptq' \in Seq(Clients)
        <4>1. acceptq \in Seq(Clients) /\ Append(acceptq, k) \in Seq(Clients)
          OBVIOUS
        <4> QED BY <1>1, <4>1 DEF Establish
      <3>3. /\ UNCHANGED <<unread, sent, socket, items, rdy, rdlist, server, cur,
                            events, fault>>
            /\ stack' = "find" /\ target' = Listener /\ fresh' = fresh \cup {Listener}
        BY <1>1 DEF Establish, epoll, Reports
      <3> QED BY <1>0, <3>1, <3>2, <3>3 DEF ClientInHand
    <2> QED BY <2>1, <2>2
  <1>2. CASE Data(k)
    <2>1. ReadyList' /\ EveryEdgeReported'
      <3>1. CASE k \in socket
        BY <1>0, <1>2, <3>1, ReportStep DEF Data, epoll
      <3>2. CASE k \notin socket
        BY <1>2, <3>2, QuietStep DEF Data, epoll, Silent
      <3> QED BY <3>1, <3>2
    <2>2. /\ sent' \in [Clients -> Nat] /\ unread' \in [Clients -> Nat]
          /\ \A c \in Clients : unread'[c] <= sent'[c] /\ sent'[c] <= MaxData[c]
      <3>1. /\ sent' = [sent EXCEPT ![k] = sent[k] + 1] /\ sent[k] < MaxData[k]
            /\ unread' = [unread EXCEPT ![k] = unread[k] + 1]
        BY <1>2 DEF Data
      <3>2. sent' \in [Clients -> Nat] /\ unread' \in [Clients -> Nat]
        BY <3>1
      <3>3. ASSUME NEW c \in Clients PROVE unread'[c] <= sent'[c] /\ sent'[c] <= MaxData[c]
        <4>1. MaxData[c] \in Nat /\ sent[c] \in Nat /\ unread[c] \in Nat
          BY EpollAssumption
        <4>2. unread[c] <= sent[c] /\ sent[c] <= MaxData[c]
          OBVIOUS
        <4> QED BY <3>1, <4>1, <4>2
      <3> QED BY <3>2, <3>3
    <2>3. TypeOK' /\ ClientInHand'
      <3>1. CASE k \in socket
        BY <1>0, <1>2, <2>2, <3>1 DEF Data, epoll, ClientInHand, Reports
      <3>2. CASE k \notin socket
        BY <1>2, <2>2, <3>2 DEF Data, epoll, ClientInHand, Silent
      <3> QED BY <3>1, <3>2
    <2> QED BY <2>1, <2>3
  <1>3. CASE Fin(k)
    <2>1. ReadyList' /\ EveryEdgeReported'
      <3>1. CASE k \in socket
        BY <1>0, <1>3, <3>1, ReportStep DEF Fin, epoll
      <3>2. CASE k \notin socket
        BY <1>3, <3>2, QuietStep DEF Fin, epoll, Silent, EveryEdgeReported, Alive
      <3> QED BY <3>1, <3>2
    <2>2. TypeOK' /\ ClientInHand'
      BY <1>0, <1>3 DEF Fin, epoll, ClientInHand, Reports, Silent
    <2> QED BY <2>1, <2>2
  <1> QED BY <1>1, <1>2, <1>3

LEMMA CallbackStep ==
  ASSUME EInv, Alive, Callback
  PROVE  EInv'
  <1> USE DEF EInv
  <1>1. CASE FindItem \/ FindNothing
    <2>1. ReadyList' /\ EveryEdgeReported'
      BY <1>1 DEF FindItem, FindNothing, epoll, ReadyList, NoneTwice,
                  EveryEdgeReported, Alive
    <2>2. TypeOK' /\ ClientInHand'
      BY <1>1 DEF FindItem, FindNothing, stream, epoll, ClientInHand, TypeOK
    <2> QED BY <2>1, <2>2
  <1>2. CASE TestReady
    <2>1. ReadyList' /\ EveryEdgeReported'
      BY <1>2 DEF TestReady, epoll, ReadyList, NoneTwice, EveryEdgeReported, Alive
    <2>2. TypeOK' /\ ClientInHand'
      BY <1>2 DEF TestReady, stream, epoll, ClientInHand, TypeOK
    <2> QED BY <2>1, <2>2
  <1>3. CASE InsertReady
    <2>1. /\ rdlist' = <<target>> \o rdlist /\ rdlist \in Seq(Fds) /\ target \in Fds
          /\ target \notin ToSet(rdlist) /\ rdy' = rdy \cup {target}
      BY <1>3 DEF InsertReady, ClientInHand, ReadyList, TypeOK
    <2>2. /\ Len(rdlist') = Len(rdlist) + 1 /\ rdlist'[1] = target /\ Len(rdlist) \in Nat
          /\ \A i \in 2 .. Len(rdlist') : rdlist'[i] = rdlist[i - 1] /\ i - 1 \in 1 .. Len(rdlist)
          /\ rdlist' \in Seq(Fds)
      BY <2>1
    <2>3. \A i \in 1 .. Len(rdlist) : rdlist[i] # target
      BY <2>1 DEF ToSet
    <2>4. NoneTwice'
      <3> SUFFICES ASSUME NEW i \in 1 .. Len(rdlist'), NEW j \in 1 .. Len(rdlist'),
                          rdlist'[i] = rdlist'[j]
                   PROVE  i = j
        BY DEF NoneTwice
      <3>1. CASE i = 1 \/ j = 1
        BY <2>2, <2>3, <3>1
      <3>2. CASE i # 1 /\ j # 1
        <4>1. i \in 2 .. Len(rdlist') /\ j \in 2 .. Len(rdlist')
          BY <2>2, <3>2
        <4>2. i - 1 = j - 1
          BY <2>2, <4>1 DEF ReadyList, NoneTwice
        <4> QED BY <2>2, <4>2
      <3> QED BY <3>1, <3>2
    <2>5. ToSet(rdlist') = ToSet(rdlist) \cup {target}
      <3>1. ToSet(rdlist') \subseteq ToSet(rdlist) \cup {target}
        BY <2>2 DEF ToSet
      <3>2. \A i \in 1 .. Len(rdlist) : i + 1 \in 1 .. Len(rdlist') /\ rdlist'[i + 1] = rdlist[i]
        BY <2>2
      <3>3. ToSet(rdlist) \subseteq ToSet(rdlist')
        <4>1. DOMAIN rdlist = 1 .. Len(rdlist) /\ DOMAIN rdlist' = 1 .. Len(rdlist')
          BY <2>1, <2>2
        <4> QED BY <3>2, <4>1 DEF ToSet
      <3>4. target \in ToSet(rdlist')
        BY <2>2 DEF ToSet
      <3> QED BY <3>1, <3>3, <3>4
    <2>6. ReadyList' /\ EveryEdgeReported'
      BY <1>3, <2>1, <2>4, <2>5 DEF InsertReady, ReadyList, EveryEdgeReported, Alive
    <2>7. TypeOK' /\ ClientInHand'
      <3>1. rdy' \subseteq Fds
        BY <2>1 DEF TypeOK
      <3> QED BY <1>3, <2>2, <3>1 DEF InsertReady, ClientInHand, TypeOK, stream
    <2> QED BY <2>6, <2>7
  <1>4. CASE Signal
    <2>1. ReadyList' /\ EveryEdgeReported'
      BY <1>4 DEF Signal, epoll, ReadyList, NoneTwice, EveryEdgeReported, Alive
    <2>2. server' \in {server, "wait"} /\ stack' = "flush"
      BY <1>4 DEF Signal
    <2>3. TypeOK' /\ ClientInHand'
      BY <1>4, <2>2 DEF Signal, stream, epoll, ClientInHand, TypeOK
    <2> QED BY <2>1, <2>3
  <1>5. CASE FlushEvent
    <2>1. server' \in {server, "accept", "recv"} /\ (server' = "recv" => cur \in Clients)
      BY <1>5 DEF FlushEvent, ClientInHand
    <2>3. ReadyList' /\ EveryEdgeReported'
      BY <1>5 DEF FlushEvent, epoll, ReadyList, NoneTwice, EveryEdgeReported, Alive
    <2>4. TypeOK' /\ ClientInHand'
      BY <1>5, <2>1 DEF FlushEvent, stream, epoll, ClientInHand, TypeOK
    <2> QED BY <2>3, <2>4
  <1> QED BY <1>1, <1>2, <1>3, <1>4, <1>5 DEF Callback

(* The server's steps: only Take touches the ready list. *)
LEMMA TakeStep ==
  ASSUME EInv, Alive, Take
  PROVE  EInv'
  <1> USE DEF EInv
  <1>1. /\ events' = SubSeq(rdlist, 1, Taken)
        /\ rdlist' = SubSeq(rdlist, Taken + 1, Len(rdlist))
        /\ rdy' = rdy \ ToSet(events') /\ fresh' = fresh \ ToSet(events')
        /\ server' = "next"
        /\ UNCHANGED <<state, unread, sent, acceptq, socket, items, stack, target,
                       cur, fault>>
    BY DEF Take, stream
  <1>2. /\ events' \in Seq(Fds) /\ rdlist' \in Seq(Fds) /\ NoneTwice'
        /\ ToSet(rdlist') = ToSet(rdlist) \ ToSet(events')
    BY <1>1, TakenSplits DEF ReadyList, NoneTwice
  <1>3. ReadyList' /\ EveryEdgeReported'
    BY <1>1, <1>2 DEF ReadyList, EveryEdgeReported, Alive
  <1>4. TypeOK' /\ ClientInHand'
    BY <1>1, <1>2 DEF TypeOK, ClientInHand
  <1> QED BY <1>3, <1>4

LEMMA ServerStep ==
  ASSUME EInv, Alive, Server, ~Take
  PROVE  EInv'
  <1> USE DEF EInv
  <1>1. UNCHANGED <<rdy, rdlist, stack, target, fresh>>
    BY DEF Server, Wait, NextEvent, AcceptWaits, Accept, BeginChange, Inserted,
           Removed, Close, RecvData, RecvNothing, epoll
  <1>2. ReadyList' /\ EveryEdgeReported'
    BY <1>1, QuietStep
  <1>3. Listener \in Fds /\ Clients \subseteq Fds /\ Fds = Clients \cup {Listener}
    BY DEF Fds
  <1>4. TypeOK' /\ ClientInHand'
    <2> USE DEF TypeOK, ClientInHand
    <2>1. CASE Wait \/ AcceptWaits \/ BeginChange \/ Inserted
      BY <1>3, <2>1 DEF Wait, AcceptWaits, BeginChange, Inserted, stream, epoll
    <2>2. CASE NextEvent
      <3>1. CASE events = <<>>
        BY <2>2, <3>1 DEF NextEvent, stream, epoll
      <3>2. CASE events # <<>>
        <4>1. Head(events) \in Fds /\ Tail(events) \in Seq(Fds)
          BY <3>2
        <4>2. cur' = Head(events) /\ events' = Tail(events)
              /\ server' = IF Head(events) = Listener THEN "accept" ELSE "recv"
          BY <2>2, <3>2 DEF NextEvent
        <4>3. UNCHANGED <<stream, acceptq, socket, epoll, stack, target, fault, fresh>>
          BY <2>2 DEF NextEvent
        <4>4. server' = "accept" \/ (server' = "recv" /\ cur' \in Clients)
          BY <1>3, <4>1, <4>2
        <4> QED BY <4>1, <4>2, <4>3, <4>4 DEF stream, epoll
      <3> QED BY <3>1, <3>2
    <2>3. CASE Accept
      BY <1>3, <2>3 DEF Accept, stream, epoll
    <2>4. CASE Removed
      <3>1. cur \in Clients /\ fault' \in {"freed", "no"} /\ items' \subseteq Fds
        BY <2>4 DEF Removed
      <3> QED BY <2>4, <3>1 DEF Removed, stream, epoll
    <2>7. CASE Close
      <3>1. events' \in Seq(Fds) /\ socket' \subseteq Clients
        BY <2>7 DEF Close
      <3> QED BY <2>7, <3>1 DEF Close, stream, epoll
    <2>6. CASE RecvNothing
      <3>1. cur \in Clients /\ server' \in {"del", "blocked"}
        BY <2>6 DEF RecvNothing
      <3> QED BY <2>6, <3>1 DEF RecvNothing, stream, epoll
    <2>5. CASE RecvData
      <3>1. unread' \in [Clients -> Nat] /\ \A k \in Clients : unread'[k] <= unread[k]
        <4> DEFINE n == Min({unread[cur], BufferLen})
        <4>1. cur \in Clients /\ unread[cur] \in Nat /\ BufferLen \in Nat
          BY <2>5, EpollAssumption DEF RecvData
        <4>2. \E x \in {unread[cur], BufferLen} : \A y \in {unread[cur], BufferLen} : x <= y
          <5>1. CASE unread[cur] <= BufferLen
            BY <4>1, <5>1
          <5>2. CASE BufferLen <= unread[cur]
            BY <4>1, <5>2
          <5> QED BY <4>1, <5>1, <5>2
        <4>3. n \in {unread[cur], BufferLen} /\ n <= unread[cur]
          BY <4>2 DEF Min
        <4>4. unread' = [unread EXCEPT ![cur] = unread[cur] - n]
          BY <2>5 DEF RecvData
        <4> HIDE DEF n
        <4>5. n \in Nat /\ unread[cur] - n \in Nat /\ unread[cur] - n <= unread[cur]
          BY <4>1, <4>3
        <4> QED BY <4>1, <4>4, <4>5
      <3>2. \A k \in Clients : unread'[k] <= sent[k]
        BY <3>1
      <3> QED BY <1>3, <2>5, <3>1, <3>2 DEF RecvData, epoll
    <2> QED BY <2>1, <2>2, <2>3, <2>4, <2>5, <2>6, <2>7 DEF Server
  <1> QED BY <1>2, <1>4

-----------------------------------------------------------------------------
(* Every state that either thread can reach has the ready list in order.   *)
LEMMA Invariance == Spec => []EInv
  <1>1. Init => EInv
    <2> SUFFICES ASSUME Init PROVE EInv
      OBVIOUS
    <2>1. TypeOK
      BY EpollAssumption DEF Init, TypeOK, Fds
    <2>2. ReadyList /\ ClientInHand /\ EveryEdgeReported
      BY DEF Init, ReadyList, NoneTwice, ToSet, ClientInHand, EveryEdgeReported
    <2> QED BY <2>1, <2>2 DEF EInv
  <1>2. EInv /\ [Next]_vars => EInv'
    <2> SUFFICES ASSUME EInv, [Next]_vars PROVE EInv'
      OBVIOUS
    <2>1. CASE UNCHANGED vars
      BY <2>1 DEF vars, stream, epoll, EInv, TypeOK, ClientInHand, ReadyList,
                  NoneTwice, EveryEdgeReported, Alive
    <2>2. CASE Next
      BY <2>2, InputStep, CallbackStep, TakeStep, ServerStep DEF Next, Input
    <2> QED BY <2>1, <2>2
  <1> QED BY <1>1, <1>2, PTL DEF Spec

(* Every variable keeps its type; in particular recv() is only called on a *)
(* client, and no client has more unread bytes than it sent.               *)
THEOREM TypeCorrect == Spec => []TypeOK
  <1>1. EInv => TypeOK
    BY DEF EInv
  <1> QED BY <1>1, Invariance, PTL

(* No edge is missed, although the flag is tested before the lock is       *)
(* taken: what came in since the last report is on the ready list or on    *)
(* its way there.                                                          *)
THEOREM NoEdgeLost == Spec => []EveryEdgeReported
  <1>1. EInv => EveryEdgeReported
    BY DEF EInv
  <1> QED BY <1>1, Invariance, PTL

(* The flag of a descriptor is set while it is on the ready list, once.    *)
THEOREM ReadyOnce == Spec => []ReadyList
  <1>1. EInv => ReadyList
    BY DEF EInv
  <1> QED BY <1>1, Invariance, PTL
=============================================================================
