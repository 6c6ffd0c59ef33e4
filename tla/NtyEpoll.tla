------------------------------- MODULE NtyEpoll -------------------------------
(***************************************************************************)
(* The epoll of NtyTcp-master (src/nty_epoll_rb.c) between the two threads *)
(* that use it: the stack thread, which establishes connections and        *)
(* receives data and the end of clients (src/nty_tcp.c) and reports them   *)
(* with epoll_event_callback(), and a server that accepts, reads and       *)
(* closes in the loop of app/nty_example_epoll_rb_server.c.                *)
(*                                                                         *)
(* The tree is the set items; rdnum is the length of rdlist, both change   *)
(* together under ep->lock.  Every registration asks for EPOLLIN and every *)
(* callback reports it, so event masks are left out.  Descriptors are not  *)
(* used again.                                                             *)
(***************************************************************************)
EXTENDS Integers, Sequences, SequencesExt

CONSTANTS
  Clients, Listener, None,
  Backlog,       (* how many connections acceptq holds                    *)
  MaxEvents,     (* EPOLL_SIZE of the server                              *)
  BufferLen,     (* BUFFER_LENGTH of the server                           *)
  MaxData        (* bound: how much each client sends                    *)

ASSUME EpollAssumption ==
  /\ Listener \notin Clients /\ None \notin Clients \cup {Listener}
  /\ Backlog \in Nat /\ MaxEvents \in Nat \ {0} /\ BufferLen \in Nat \ {0} /\ MaxData \in [Clients -> Nat]

VARIABLES
  state, unread, sent,   (* of each client's stream; sent is history      *)
  acceptq, socket,       (* connections not accepted; clients with a socket *)
  items, rdy, rdlist,    (* the tree, the flags epi->rdy, the ready list  *)
  stack, target,         (* the stack thread: where, about which descriptor *)
  server, cur, events,   (* the server: where, with which, what is left   *)
  fault,                 (* how the program ended                         *)
  fresh                  (* history: input came that no wait has told     *)

stream == <<state, unread, sent>>
epoll == <<items, rdy, rdlist>>
vars == <<stream, acceptq, socket, epoll, stack, target, server, cur, events,
          fault, fresh>>

Alive == fault = "no"

-----------------------------------------------------------------------------
(* The stack thread.                                                       *)

Reports(i) == stack' = "find" /\ target' = i /\ fresh' = fresh \cup {i}
Silent == UNCHANGED <<stack, target, fresh>>

(* nty_tcp_handle_syn_rcvd(): a connection acceptq has no room for is      *)
(* reported, too                                                           *)
Establish(k) ==
  /\ stack = "idle" /\ state[k] = "SYN_RCVD"
  /\ IF Len(acceptq) < Backlog
     THEN /\ state' = [state EXCEPT ![k] = "ESTABLISHED"]
          /\ acceptq' = Append(acceptq, k)
     ELSE /\ state' = [state EXCEPT ![k] = "CLOSED"]
          /\ UNCHANGED acceptq
  /\ Reports(Listener)
  /\ UNCHANGED <<unread, sent, socket, epoll, server, cur, events, fault>>

(* nty_tcp_process_payload(): nobody is told of what comes before accept() *)
Data(k) ==
  /\ stack = "idle" /\ state[k] = "ESTABLISHED" /\ sent[k] < MaxData[k]
  /\ unread' = [unread EXCEPT ![k] = @ + 1]
  /\ sent' = [sent EXCEPT ![k] = @ + 1]
  /\ IF k \in socket THEN Reports(k) ELSE Silent
  /\ UNCHANGED <<state, acceptq, socket, epoll, server, cur, events, fault>>

(* nty_tcp_handle_established(), FIN: the socket is looked at untested *)
Fin(k) ==
  /\ stack = "idle" /\ state[k] = "ESTABLISHED"
  /\ state' = [state EXCEPT ![k] = "CLOSE_WAIT"]
  /\ IF k \in socket THEN Reports(k) /\ UNCHANGED fault
     ELSE fault' = "no_socket" /\ Silent
  /\ UNCHANGED <<unread, sent, acceptq, socket, epoll, server, cur, events>>

(* epoll_event_callback() searches the tree without ep->mtx: while the     *)
(* server changes it, anything may be missed.  assert(0) if nothing is     *)
(* found                                                                   *)
InFlux == server \in {"inserting", "removing"}

FindItem ==
  /\ stack = "find" /\ target \in items
  /\ stack' = "test"
  /\ UNCHANGED <<stream, acceptq, socket, epoll, target, server, cur, events,
                 fault, fresh>>

FindNothing ==
  /\ stack = "find" /\ (target \notin items \/ InFlux)
  /\ fault' = "assert"
  /\ UNCHANGED <<stream, acceptq, socket, epoll, stack, target, server, cur,
                 events, fresh>>

(* the flag is read without ep->lock *)
TestReady ==
  /\ stack = "test"
  /\ stack' = IF target \in rdy THEN "flush" ELSE "insert"
  /\ UNCHANGED <<stream, acceptq, socket, epoll, target, server, cur, events,
                 fault, fresh>>

InsertReady ==
  /\ stack = "insert"
  /\ rdy' = rdy \cup {target}
  /\ rdlist' = <<target>> \o rdlist
  /\ stack' = "signal"
  /\ UNCHANGED <<stream, acceptq, socket, items, target, server, cur, events,
                 fault, fresh>>

(* mutant: no signal is sent *)
SignalNot ==
  /\ stack = "signal"
  /\ stack' = "flush"
  /\ UNCHANGED <<stream, acceptq, socket, epoll, target, server, cur, events,
                 fault, fresh>>

Signal ==
  /\ stack = "signal"
  /\ server' = IF server = "asleep" THEN "wait" ELSE server
  /\ stack' = "flush"
  /\ UNCHANGED <<stream, acceptq, socket, epoll, target, cur, events, fault,
                 fresh>>

(* nty_tcp_flush_accept_event(), nty_tcp_flush_read_event(): the second    *)
(* wakes the reader whatever is in the receive buffer, which the SYN has   *)
(* made, so also for the end of a client that has sent nothing             *)
FlushEvent ==
  /\ stack = "flush"
  /\ server' = CASE server = "accepting" /\ target = Listener /\ acceptq # <<>> -> "accept"
                 [] server = "blocked" /\ target = cur -> "recv"
                 [] OTHER -> server
  /\ stack' = "idle" /\ target' = None
  /\ UNCHANGED <<stream, acceptq, socket, epoll, cur, events, fault, fresh>>

Callback == FindItem \/ FindNothing \/ TestReady \/ InsertReady \/ Signal
            \/ FlushEvent

-----------------------------------------------------------------------------
(* The server.                                                             *)

(* epoll_wait() tests rdnum with cdmtx held, up to pthread_cond_wait *)
Wait ==
  /\ server = "wait"
  /\ server' = IF rdlist = <<>> THEN "asleep" ELSE "take"
  /\ UNCHANGED <<stream, acceptq, socket, epoll, stack, target, cur, events,
                 fault, fresh>>

Taken == Min({MaxEvents, Len(rdlist)})

(* mutant: epi->rdy is not reset *)
TakeStillReady ==
  /\ server = "take"
  /\ events' = SubSeq(rdlist, 1, Taken)
  /\ rdlist' = SubSeq(rdlist, Taken + 1, Len(rdlist))
  /\ fresh' = fresh \ ToSet(events')
  /\ server' = "next"
  /\ UNCHANGED <<stream, acceptq, socket, items, rdy, stack, target, cur, fault>>

(* the second half of epoll_wait(), with ep->lock *)
Take ==
  /\ server = "take"
  /\ events' = SubSeq(rdlist, 1, Taken)
  /\ rdlist' = SubSeq(rdlist, Taken + 1, Len(rdlist))
  /\ rdy' = rdy \ ToSet(events')
  /\ fresh' = fresh \ ToSet(events')
  /\ server' = "next"
  /\ UNCHANGED <<stream, acceptq, socket, items, stack, target, cur, fault>>

(* for (i = 0; i < nready; i ++) *)
NextEvent ==
  /\ server = "next"
  /\ IF events = <<>> THEN server' = "wait" /\ UNCHANGED <<cur, events>>
     ELSE /\ cur' = Head(events) /\ events' = Tail(events)
          /\ server' = IF cur' = Listener THEN "accept" ELSE "recv"
  /\ UNCHANGED <<stream, acceptq, socket, epoll, stack, target, fault, fresh>>

(* accept(), on a blocking socket *)
AcceptWaits ==
  /\ server = "accept" /\ acceptq = <<>>
  /\ server' = "accepting"
  /\ UNCHANGED <<stream, acceptq, socket, epoll, stack, target, cur, events,
                 fault, fresh>>

Accept ==
  /\ server = "accept" /\ acceptq # <<>>
  /\ cur' = Head(acceptq) /\ acceptq' = Tail(acceptq)
  /\ socket' = socket \cup {cur'}
  /\ server' = "add"
  /\ UNCHANGED <<stream, epoll, stack, target, events, fault, fresh>>

(* EPOLL_CTL_ADD and EPOLL_CTL_DEL change the tree *)
BeginChange ==
  /\ server \in {"add", "del"}
  /\ server' = IF server = "add" THEN "inserting" ELSE "removing"
  /\ UNCHANGED <<stream, acceptq, socket, epoll, stack, target, cur, events,
                 fault, fresh>>

Inserted ==
  /\ server = "inserting"
  /\ items' = items \cup {cur}
  /\ server' = "next"
  /\ UNCHANGED <<stream, acceptq, socket, rdy, rdlist, stack, target, cur,
                 events, fault, fresh>>

(* free(epi), though it is still on the ready list or in the callback *)
Freed == cur \in rdy \/ (stack \in {"test", "insert"} /\ target = cur)

Removed ==
  /\ server = "removing"
  /\ items' = items \ {cur}
  /\ fault' = IF Freed THEN "freed" ELSE "no"
  /\ server' = "close"
  /\ UNCHANGED <<stream, acceptq, socket, rdy, rdlist, stack, target, cur,
                 events, fresh>>

(* close(), and the break that forgets the events that are left *)
Close ==
  /\ server = "close"
  /\ socket' = socket \ {cur}
  /\ events' = <<>>
  /\ server' = "wait"
  /\ UNCHANGED <<stream, acceptq, epoll, stack, target, cur, fault, fresh>>

RecvData ==
  /\ server = "recv" /\ unread[cur] > 0
  /\ unread' = [unread EXCEPT ![cur] = @ - Min({@, BufferLen})]
  /\ server' = "next"
  /\ UNCHANGED <<state, sent, acceptq, socket, epoll, stack, target, cur,
                 events, fault, fresh>>

(* the end, or nothing to read: the socket is a blocking one *)
RecvNothing ==
  /\ server = "recv" /\ unread[cur] = 0
  /\ server' = IF state[cur] = "CLOSE_WAIT" THEN "del" ELSE "blocked"
  /\ UNCHANGED <<stream, acceptq, socket, epoll, stack, target, cur, events,
                 fault, fresh>>

Server == \/ Wait \/ Take \/ NextEvent \/ AcceptWaits \/ Accept \/ BeginChange
          \/ Inserted \/ Removed \/ Close \/ RecvData \/ RecvNothing

-----------------------------------------------------------------------------
(* The server has registered its listener and waits.                       *)
Init ==
  /\ state = [k \in Clients |-> "SYN_RCVD"]
  /\ unread = [k \in Clients |-> 0] /\ sent = [k \in Clients |-> 0]
  /\ acceptq = <<>> /\ socket = {}
  /\ items = {Listener} /\ rdy = {} /\ rdlist = <<>>
  /\ stack = "idle" /\ target = None
  /\ server = "wait" /\ cur = None /\ events = <<>>
  /\ fault = "no" /\ fresh = {}

Input == \E k \in Clients : Establish(k) \/ Data(k) \/ Fin(k)

Next == Alive /\ (Callback \/ Server \/ Input)

Spec == Init /\ [][Next]_vars

(* Both threads are scheduled; clients do as they like *)
FairSpec == Spec /\ WF_vars(Alive /\ Callback) /\ WF_vars(Alive /\ Server)

-----------------------------------------------------------------------------
Fds == Clients \cup {Listener}

TypeOK ==
  /\ state \in [Clients -> {"SYN_RCVD", "ESTABLISHED", "CLOSE_WAIT", "CLOSED"}]
  /\ sent \in [Clients -> Nat] /\ unread \in [Clients -> Nat]
  /\ \A k \in Clients : unread[k] <= sent[k] /\ sent[k] <= MaxData[k]
  /\ acceptq \in Seq(Clients) /\ socket \subseteq Clients
  /\ items \subseteq Fds /\ rdy \subseteq Fds /\ rdlist \in Seq(Fds)
  /\ stack \in {"idle", "find", "test", "insert", "signal", "flush"}
  /\ target \in Fds \cup {None} /\ cur \in Fds \cup {None}
  /\ server \in {"wait", "asleep", "take", "next", "accept", "accepting", "add",
                 "inserting", "recv", "blocked", "del", "removing", "close"}
  /\ events \in Seq(Fds) /\ fresh \subseteq Fds
  /\ fault \in {"no", "assert", "no_socket", "freed"}

(* Edge-triggered: whatever came in for a descriptor since epoll_wait()    *)
(* last told of it is on the ready list or about to be put there, although *)
(* epi->rdy is tested outside the lock under which it changes.             *)
EveryEdgeReported ==
  Alive => \A i \in fresh :
             \/ i \in ToSet(rdlist)
             \/ i = target /\ stack \in {"find", "test", "insert"}

(* What is on the ready list is told, unless the program has ended or the  *)
(* server blocks in accept() or in recv(), after an event that came too    *)
(* often: no wakeup of epoll_wait() is lost.                               *)
EventsAreTold ==
  \A i \in Fds :
    i \in ToSet(rdlist)
      ~> (i \notin ToSet(rdlist) \/ ~Alive
          \/ server \in {"accepting", "blocked"})
=============================================================================
