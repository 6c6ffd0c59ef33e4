------------------------------- MODULE Server -------------------------------
(***************************************************************************)
(* One worker process: the main thread's epoll loop, the pool threads that *)
(* handle messages and the recycler, meeting in the connection objects and *)
(* in the kernel's tables (linux_c++_6_4/nginx/net/ngx_c_socket*.cxx,      *)
(* logic/ngx_c_slogic.cxx).                                                *)
(*                                                                         *)
(* A descriptor is a small number the kernel uses again as soon as it is   *)
(* closed; epoll remembers for each descriptor the connection object it    *)
(* was registered with.  _HandleRegister() changes that registration from  *)
(* a pool thread, after a test of the sequence number made earlier.        *)
(*                                                                         *)
(* Packets are whole here (RecvMachine.tla cuts the stream), the pool is a *)
(* queue (ThreadPool.tla), the lists have no mutexes (ConnPool.tla).       *)
(***************************************************************************)
EXTENDS Integers, Sequences, FiniteSets, SequencesExt, FiniteSetsExt

CONSTANTS
  Conns,         (* the connection objects                                 *)
  Fds,           (* the descriptors, numbers; bound: the limit of them     *)
  NClients,      (* bound: how many clients connect                        *)
  MaxSend,       (* bound: how many packets each of them sends, a sequence *)
  Handlers,      (* the threads of the pool                                *)
  Listen, None,  (* the listening socket's connection; nothing             *)
  HandlersBeatReuse,    (* timing: a handler that has passed the test is   *)
                        (* done before its descriptor goes to a new client *)
  HandlersBeatRecycler  (* timing: or before its connection is released,   *)
                        (* m_RecyConnectionWaitTime seconds later          *)

(* what epoll can have in its table for a descriptor *)
Registrations == [conn : Conns, events : SUBSET {"IN", "OUT"}]

ASSUME ServerAssumption ==
  /\ IsFiniteSet(Conns) /\ IsFiniteSet(Handlers)
  /\ Fds \subseteq Nat /\ IsFiniteSet(Fds)
  /\ NClients \in Nat /\ MaxSend \in [1 .. NClients -> Nat]
  /\ Listen \notin Conns
  /\ None \notin Conns \cup Nat \cup Registrations
  /\ HandlersBeatReuse \in BOOLEAN /\ HandlersBeatRecycler \in BOOLEAN

Clients == 1 .. NClients

VARIABLES
  arrived, accepted, (* how many clients have connected, been accepted     *)
  sent, pending,     (* packets sent by a client, not yet read             *)
  gone,              (* clients that closed or reset their connection      *)
  sock,              (* the client at the other end of a descriptor        *)
  interest,          (* epoll: [conn, events] of a registered descriptor   *)
  fd, seq, events,   (* the fields of a connection object                  *)
  freeList, recyList,
  batch,             (* events of the last epoll_wait() still to process   *)
  pc, cur,           (* the main thread, the connection it works on        *)
  queue,             (* messages on their way to the pool threads          *)
  hpc, hmsg, hev,    (* handlers: place, message, epoll_ctl() arguments    *)
  answered,          (* clients a message of whom was processed            *)
  misdirected        (* history: an EPOLL_CTL_MOD has reached the          *)
                     (* registration of a client it was not meant for      *)

client == <<arrived, accepted, sent, pending, gone>>
kernel == <<sock, interest>>
object == <<fd, seq, events, freeList, recyList>>
main == <<batch, pc, cur>>
handler == <<hpc, hmsg, hev, answered, misdirected>>
vars == <<client, kernel, object, main, queue, handler>>

Init ==
  /\ arrived = 0 /\ accepted = 0
  /\ sent = [k \in Clients |-> 0] /\ pending = sent
  /\ gone = {}
  /\ sock = [s \in Fds |-> None] /\ interest = sock
  /\ fd = [c \in Conns |-> None]
  /\ seq = [c \in Conns |-> 1] /\ events = [c \in Conns |-> {}]
  /\ freeList = SetToSeq(Conns) /\ recyList = <<>>
  /\ batch = {} /\ pc = "events" /\ cur = None
  /\ queue = <<>>
  /\ hpc = [h \in Handlers |-> "idle"]
  /\ hmsg = [h \in Handlers |-> None] /\ hev = hmsg
  /\ answered = {} /\ misdirected = FALSE

-----------------------------------------------------------------------------
(* The clients and the other workers.                                      *)

Connect == /\ arrived < NClients
           /\ arrived' = arrived + 1
           /\ UNCHANGED <<accepted, sent, pending, gone, kernel, object, main,
                          queue, handler>>

(* another worker process was faster: its accept4() got the client *)
TakenElsewhere ==
  /\ accepted < arrived
  /\ accepted' = accepted + 1
  /\ UNCHANGED <<arrived, sent, pending, gone, kernel, object, main, queue,
                 handler>>

Send(k) == /\ k <= arrived /\ k \notin gone
           /\ sent[k] < MaxSend[k]
           /\ sent' = [sent EXCEPT ![k] = @ + 1]
           /\ pending' = [pending EXCEPT ![k] = @ + 1]
           /\ UNCHANGED <<arrived, accepted, gone, kernel, object, main, queue,
                          handler>>

(* the client closes; if it resets, the kernel drops what was not read *)
Leave(k) == /\ k <= arrived /\ k \notin gone
            /\ gone' = gone \cup {k}
            /\ \E kept \in {0, pending[k]} :
                 pending' = [pending EXCEPT ![k] = kept]
            /\ UNCHANGED <<arrived, accepted, sent, kernel, object, main, queue,
                           handler>>

-----------------------------------------------------------------------------
(* The main thread.                                                        *)

(* level triggered: as long as there is something to read *)
Ready(s) == /\ interest[s] # None /\ "IN" \in interest[s].events
            /\ pending[sock[s]] > 0 \/ sock[s] \in gone

(* epoll_wait(); events without EPOLLIN (EPOLLOUT alone) make the loop do  *)
(* nothing and are left out                                                *)
EpollWait ==
  /\ pc = "events" /\ batch = {}
  /\ batch' = {[fd |-> s, conn |-> interest[s].conn] : s \in {t \in Fds : Ready(t)}}
              \cup IF accepted < arrived THEN {[fd |-> None, conn |-> Listen]} ELSE {}
  /\ batch' # {}
  /\ UNCHANGED <<client, kernel, object, pc, cur, queue, handler>>

(* a descriptor that a handler is about to use is not given away, if that  *)
(* timing is assumed                                                       *)
Held(s) == \E h \in Handlers : /\ hpc[h] \in {"lock", "prepare", "ctl"}
                               /\ fd[hmsg[h].conn] = s

(* ngx_event_accept(): the kernel gives the lowest descriptor, the pool    *)
(* the first free connection                                               *)
Accept(e) ==
  /\ pc = "events" /\ e \in batch /\ e.conn = Listen
  /\ accepted < arrived
  /\ freeList # <<>>
  /\ \E s \in Fds :
       /\ sock[s] = None /\ \A t \in Fds : t < s => sock[t] # None
       /\ HandlersBeatReuse => ~Held(s)
       /\ sock' = [sock EXCEPT ![s] = accepted + 1]
       /\ fd' = [fd EXCEPT ![Head(freeList)] = s]
  /\ accepted' = accepted + 1
  /\ cur' = Head(freeList)
  /\ freeList' = Tail(freeList)
  /\ seq' = [seq EXCEPT ![cur'] = @ + 1]
  /\ events' = [events EXCEPT ![cur'] = {}]
  /\ batch' = batch \ {e}
  /\ pc' = "add"
  /\ UNCHANGED <<arrived, sent, pending, gone, interest, recyList, queue, handler>>

(* accept4() fails: nobody there any more, or no descriptor left *)
AcceptFails(e) ==
  /\ pc = "events" /\ e \in batch /\ e.conn = Listen
  /\ batch' = batch \ {e}
  /\ UNCHANGED <<client, kernel, object, pc, cur, queue, handler>>

(* mutant: edge triggered *)
AddEdgeTriggered ==
  /\ pc = "add"
  /\ events' = [events EXCEPT ![cur] = {"IN", "ET"}]
  /\ interest' = [interest EXCEPT ![fd[cur]] =
                    [conn |-> cur, events |-> {"IN", "ET"}]]
  /\ pc' = "events" /\ cur' = None
  /\ UNCHANGED <<client, sock, fd, seq, freeList, recyList, batch, queue, handler>>

(* EPOLL_CTL_ADD *)
Add ==
  /\ pc = "add"
  /\ events' = [events EXCEPT ![cur] = {"IN"}]
  /\ interest' = [interest EXCEPT ![fd[cur]] = [conn |-> cur, events |-> {"IN"}]]
  /\ pc' = "events" /\ cur' = None
  /\ UNCHANGED <<client, sock, fd, seq, freeList, recyList, batch, queue, handler>>

(* mutant: the connection is freed, the socket not closed *)
AddFailsNoClose ==
  /\ pc = "add"
  /\ events' = [events EXCEPT ![cur] = {"IN"}]
  /\ seq' = [seq EXCEPT ![cur] = @ + 1]
  /\ freeList' = Append(freeList, cur)
  /\ pc' = "events" /\ cur' = None
  /\ UNCHANGED <<client, kernel, fd, recyList, batch, queue, handler>>

(* EPOLL_CTL_ADD fails: ngx_close_connection() *)
AddFails ==
  /\ pc = "add"
  /\ events' = [events EXCEPT ![cur] = {"IN"}]
  /\ seq' = [seq EXCEPT ![cur] = @ + 1]
  /\ freeList' = Append(freeList, cur)
  /\ sock' = [sock EXCEPT ![fd[cur]] = None]
  /\ pc' = "events" /\ cur' = None
  /\ UNCHANGED <<client, interest, fd, recyList, batch, queue, handler>>

(* recvproc() reads whatever is at the descriptor of the event's object *)
Read(e) ==
  /\ pc = "events" /\ e \in batch /\ e.conn # Listen
  /\ LET k == sock[fd[e.conn]] IN
       /\ k # None /\ pending[k] > 0
       /\ pending' = [pending EXCEPT ![k] = @ - 1]
       /\ queue' = Append(queue, [conn |-> e.conn, seq |-> seq[e.conn], from |-> k])
  /\ batch' = batch \ {e}
  /\ UNCHANGED <<arrived, accepted, sent, gone, kernel, object, pc, cur, handler>>

(* recv() returns 0 or an error; unless it would block, the object's       *)
(* descriptor is to be closed                                              *)
ReadFails(e) ==
  /\ pc = "events" /\ e \in batch /\ e.conn # Listen
  /\ LET k == sock[fd[e.conn]] IN
       /\ k # None => pending[k] = 0
       /\ IF k # None /\ k \notin gone
          THEN UNCHANGED <<pc, cur>>
          ELSE pc' = "close" /\ cur' = e.conn
  /\ batch' = batch \ {e}
  /\ UNCHANGED <<client, kernel, object, queue, handler>>

(* mutant: close() forgotten *)
CloseNothing ==
  /\ pc = "close"
  /\ pc' = "recycle"
  /\ UNCHANGED <<client, kernel, object, batch, cur, queue, handler>>

(* close(): the kernel forgets the descriptor, EBADF has no effect *)
Close ==
  /\ pc = "close"
  /\ sock' = [sock EXCEPT ![fd[cur]] = None]
  /\ interest' = [interest EXCEPT ![fd[cur]] = None]
  /\ pc' = "recycle"
  /\ UNCHANGED <<client, object, batch, cur, queue, handler>>

(* inRecyConnectQueue() *)
Recycle ==
  /\ pc = "recycle"
  /\ seq' = [seq EXCEPT ![cur] = @ + 1]
  /\ recyList' = Append(recyList, cur)
  /\ pc' = "events" /\ cur' = None
  /\ UNCHANGED <<client, kernel, fd, events, freeList, batch, queue, handler>>

-----------------------------------------------------------------------------
(* The recycler: the connection that waited longest is released.           *)

InHandler(c) == \E h \in Handlers : /\ hpc[h] \in {"lock", "prepare", "ctl"}
                                    /\ hmsg[h].conn = c

(* mutant: released, but not taken off the list *)
ReleaseNotErased ==
  /\ recyList # <<>>
  /\ HandlersBeatRecycler => ~InHandler(Head(recyList))
  /\ Len(freeList) <= Cardinality(Conns)
  /\ seq' = [seq EXCEPT ![Head(recyList)] = @ + 1]
  /\ freeList' = Append(freeList, Head(recyList))
  /\ UNCHANGED <<client, kernel, fd, events, recyList, main, queue, handler>>

Release ==
  /\ recyList # <<>>
  /\ HandlersBeatRecycler => ~InHandler(Head(recyList))
  /\ seq' = [seq EXCEPT ![Head(recyList)] = @ + 1]
  /\ freeList' = Append(freeList, Head(recyList))
  /\ recyList' = Tail(recyList)
  /\ UNCHANGED <<client, kernel, fd, events, main, queue, handler>>

-----------------------------------------------------------------------------
(* The pool threads: threadRecvProcFunc() and _HandleRegister().           *)

Take(h) ==
  /\ hpc[h] = "idle" /\ queue # <<>>
  /\ hmsg' = [hmsg EXCEPT ![h] = Head(queue)]
  /\ queue' = Tail(queue)
  /\ hpc' = [hpc EXCEPT ![h] = "check"]
  /\ UNCHANGED <<client, kernel, object, main, hev, answered, misdirected>>

(* mutant: the sequence number is not looked at *)
CheckNothing(h) ==
  /\ hpc[h] = "check"
  /\ hpc' = [hpc EXCEPT ![h] = "lock"]
  /\ answered' = answered \cup {hmsg[h].from}
  /\ UNCHANGED <<client, kernel, object, main, queue, hmsg, hev, misdirected>>

(* the client is still there, and the message is one to be answered *)
Check(h) ==
  /\ hpc[h] = "check"
  /\ seq[hmsg[h].conn] = hmsg[h].seq
  /\ hpc' = [hpc EXCEPT ![h] = "lock"]
  /\ answered' = answered \cup {hmsg[h].from}
  /\ UNCHANGED <<client, kernel, object, main, queue, hmsg, hev, misdirected>>

(* the client is gone, or the message is corrupt, unknown, or a login *)
Ignore(h) ==
  /\ hpc[h] = "check"
  /\ hpc' = [hpc EXCEPT ![h] = "idle"]
  /\ hmsg' = [hmsg EXCEPT ![h] = None]
  /\ UNCHANGED <<client, kernel, object, main, queue, hev, answered, misdirected>>

(* CLock lock(&pConn->logicPorcMutex): one handler per connection *)
LockConn(h) ==
  /\ hpc[h] = "lock"
  /\ \A g \in Handlers :
       hpc[g] \in {"prepare", "ctl"} => hmsg[g].conn # hmsg[h].conn
  /\ hpc' = [hpc EXCEPT ![h] = "prepare"]
  /\ UNCHANGED <<client, kernel, object, main, queue, hmsg, hev, answered,
                 misdirected>>

(* mutant: EPOLL_CTL_MOD replaces the flags *)
PrepareOverwrite(h) ==
  /\ hpc[h] = "prepare"
  /\ LET c == hmsg[h].conn IN
       /\ events' = [events EXCEPT ![c] = {"OUT"}]
       /\ hev' = [hev EXCEPT ![h] = [fd |-> fd[c], events |-> events'[c]]]
  /\ hpc' = [hpc EXCEPT ![h] = "ctl"]
  /\ UNCHANGED <<client, kernel, fd, seq, freeList, recyList, main, queue, hmsg,
                 answered, misdirected>>

(* ngx_epoll_oper_event(pConn->fd, EPOLL_CTL_MOD, EPOLLOUT, 0, pConn) *)
Prepare(h) ==
  /\ hpc[h] = "prepare"
  /\ LET c == hmsg[h].conn IN
       /\ events' = [events EXCEPT ![c] = @ \cup {"OUT"}]
       /\ hev' = [hev EXCEPT ![h] = [fd |-> fd[c], events |-> events'[c]]]
  /\ hpc' = [hpc EXCEPT ![h] = "ctl"]
  /\ UNCHANGED <<client, kernel, fd, seq, freeList, recyList, main, queue, hmsg,
                 answered, misdirected>>

(* epoll_ctl() changes what is registered there, if anything is *)
Ctl(h) ==
  /\ hpc[h] = "ctl"
  /\ LET ev == hev[h] IN
       interest' = [interest EXCEPT ![ev.fd] =
         IF @ = None THEN None
         ELSE [conn |-> hmsg[h].conn, events |-> ev.events]]
  /\ misdirected' = \/ misdirected
                    \/ /\ interest[hev[h].fd] # None
                       /\ sock[hev[h].fd] # hmsg[h].from
  /\ hpc' = [hpc EXCEPT ![h] = "idle"]
  /\ hmsg' = [hmsg EXCEPT ![h] = None]
  /\ hev' = [hev EXCEPT ![h] = None]
  /\ UNCHANGED <<client, sock, object, main, queue, answered>>

-----------------------------------------------------------------------------
ngx_epoll_process_events ==
  \/ EpollWait \/ Add \/ AddFails \/ Close \/ Recycle
  \/ \E e \in batch : Accept(e) \/ AcceptFails(e) \/ Read(e) \/ ReadFails(e)

threadRecvProcFunc(h) == \/ Take(h) \/ Check(h) \/ Ignore(h) \/ LockConn(h)
                         \/ Prepare(h) \/ Ctl(h)

Environment == \/ Connect \/ TakenElsewhere
               \/ \E k \in Clients : Send(k) \/ Leave(k)

Next == \/ ngx_epoll_process_events \/ Release \/ Environment
        \/ \E h \in Handlers : threadRecvProcFunc(h)

Spec == Init /\ [][Next]_vars

(* The kernel schedules every thread; clients do as they like. *)
FairSpec == /\ Spec
            /\ WF_vars(ngx_epoll_process_events)
            /\ \A h \in Handlers : WF_vars(threadRecvProcFunc(h))
-----------------------------------------------------------------------------
Messages == [conn : Conns, seq : Nat, from : Clients]

TypeOK ==
  /\ arrived \in 0 .. NClients /\ accepted \in 0 .. arrived
  /\ sent \in [Clients -> Nat] /\ pending \in [Clients -> Nat]
  /\ \A k \in Clients : sent[k] <= MaxSend[k] /\ pending[k] <= sent[k]
  /\ gone \subseteq 1 .. arrived /\ answered \subseteq 1 .. accepted
  /\ misdirected \in BOOLEAN
  /\ sock \in [Fds -> Clients \cup {None}]
  /\ interest \in [Fds -> Registrations \cup {None}]
  /\ fd \in [Conns -> Fds \cup {None}] /\ seq \in [Conns -> Nat]
  /\ events \in [Conns -> SUBSET {"IN", "OUT"}]
  /\ freeList \in Seq(Conns) /\ recyList \in Seq(Conns)
  /\ batch \subseteq [fd : Fds \cup {None}, conn : Conns \cup {Listen}]
  /\ pc \in {"events", "add", "close", "recycle"} /\ cur \in Conns \cup {None}
  /\ queue \in Seq(Messages)
  /\ hpc \in [Handlers -> {"idle", "check", "lock", "prepare", "ctl"}]
  /\ hmsg \in [Handlers -> Messages \cup {None}]
  /\ hev \in [Handlers -> [fd : Fds \cup {None}, events : SUBSET {"IN", "OUT"}] \cup {None}]

InUse(c) == c \notin Range(freeList) \cup Range(recyList)

(* "Events that get here are not stale" (net/ngx_c_socket.cxx:645): the    *)
(* object an event leads to is serving the client whose socket the event   *)
(* came from.                                                              *)
NoStaleEvent ==
  \A e \in batch : e.conn # Listen => InUse(e.conn) /\ fd[e.conn] = e.fd

(* Every connection object is in one place, once: an object that is        *)
(* recycled twice would be given to two clients at a time.                 *)
RecycledOnce ==
  \A c \in Conns :
    Cardinality({i \in DOMAIN freeList : freeList[i] = c})
      + Cardinality({i \in DOMAIN recyList : recyList[i] = c}) <= 1

(* A client that is connected has a registered object of its own, so that  *)
(* its data are read and its end is noticed; outside accept and close.     *)
(* The field events of the object says what epoll was told, except while a *)
(* handler is between the two.                                             *)
NobodyForgotten ==
  \A s \in Fds :
    /\ pc = "events" /\ sock[s] # None =>
         /\ interest[s] # None /\ "IN" \in interest[s].events
         /\ InUse(interest[s].conn) /\ fd[interest[s].conn] = s
    /\ interest[s] # None /\ ~InHandler(interest[s].conn) =>
         events[interest[s].conn] = interest[s].events

(* EPOLLOUT is asked for only on the socket of a client one of whose       *)
(* messages was processed: the answer goes to the sender.                  *)
AnswerToSender ==
  \A s \in Fds :
    interest[s] # None /\ "OUT" \in interest[s].events => sock[s] \in answered

Connected(k) == \E s \in Fds : sock[s] = k

(* Every packet that has arrived is read, unless the connection is closed,  *)
(* and the descriptor of every client that goes is closed.                 *)
EveryClientServed ==
  \A k \in Clients :
    /\ (Connected(k) /\ pending[k] > 0) ~> (pending[k] = 0 \/ ~Connected(k))
    /\ (Connected(k) /\ k \in gone) ~> ~Connected(k)

=============================================================================
