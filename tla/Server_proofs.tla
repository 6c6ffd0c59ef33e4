---------------------------- MODULE Server_proofs ----------------------------
(***************************************************************************)
(* Theorems about Server, for any set of connection objects, descriptors   *)
(* and pool threads, any number of clients and any timing of the threads.  *)
(* Nothing keeps a handler that has passed the test of the sequence number *)
(* from being late, and its EPOLL_CTL_MOD may then reach a client it was   *)
(* not meant for.  The theorems say that this is the only thing that goes  *)
(* wrong: until it has happened (misdirected), every event is fresh,       *)
(* nothing is recycled twice, nobody is forgotten and answers go to their  *)
(* senders, however late the handlers are, and whatever descriptors and    *)
(* objects have been given to others behind their backs.                   *)
(*                                                                         *)
(* The invariant is a one-to-one correspondence between the objects that   *)
(* are served and the descriptors that are registered (Bindings); events   *)
(* and messages point into it from the outside, and a client is never      *)
(* registered with two objects, so that a late handler which still finds   *)
(* its client finds the client's object too (Own).                         *)
(*                                                                         *)
(* Server is one worker process.  The theorems about its parent, the       *)
(* master process of MasterCycle, are at the end.                          *)
(***************************************************************************)
EXTENDS Server, MasterCycle, FiniteSetTheorems, TLAPS

-----------------------------------------------------------------------------
(* Lists without repetition, as the free list and the recycling list are:  *)
(* what appending and taking off the head do to their elements.            *)

LEMMA AppendList ==
  ASSUME NEW S, NEW l \in Seq(S), NEW c \in S
  PROVE  /\ Append(l, c) \in Seq(S) /\ Len(Append(l, c)) = Len(l) + 1
         /\ Range(Append(l, c)) = Range(l) \cup {c}
         /\ IsInjective(l) /\ c \notin Range(l) => IsInjective(Append(l, c))
  <1> DEFINE a == Append(l, c)
  <1>1. /\ a \in Seq(S) /\ Len(a) = Len(l) + 1 /\ Len(l) \in Nat
        /\ a[Len(l) + 1] = c /\ \A i \in 1 .. Len(l) : a[i] = l[i]
        /\ DOMAIN l = 1 .. Len(l) /\ DOMAIN a = 1 .. Len(l) + 1
    OBVIOUS
  <1> HIDE DEF a
  <1>2. Range(a) = Range(l) \cup {c}
    <2>1. Range(a) \subseteq Range(l) \cup {c}
      BY <1>1 DEF Range
    <2>2. \A i \in 1 .. Len(l) : i \in 1 .. Len(l) + 1
      BY <1>1
    <2>3. Range(l) \subseteq Range(a)
      BY <1>1, <2>2 DEF Range
    <2>4. Len(l) + 1 \in 1 .. Len(l) + 1
      BY <1>1
    <2>5. c \in Range(a)
      BY <1>1, <2>4 DEF Range
    <2> QED BY <2>1, <2>3, <2>5
  <1>3. ASSUME IsInjective(l), c \notin Range(l) PROVE IsInjective(a)
    <2> SUFFICES ASSUME NEW i \in 1 .. Len(l) + 1, NEW j \in 1 .. Len(l) + 1, a[i] = a[j]
                 PROVE  i = j
      BY <1>1 DEF IsInjective
    <2>1. \A k \in 1 .. Len(l) : a[k] # c
      BY <1>1, <1>3 DEF Range
    <2>2. CASE i \in 1 .. Len(l) /\ j \in 1 .. Len(l)
      BY <1>1, <1>3, <2>2 DEF IsInjective
    <2>3. CASE i \notin 1 .. Len(l) \/ j \notin 1 .. Len(l)
      BY <1>1, <2>1, <2>3
    <2> QED BY <2>2, <2>3
  <1> QED BY <1>1, <1>2, <1>3 DEF a

LEMMA TailList ==
  ASSUME NEW S, NEW l \in Seq(S), l # <<>>, IsInjective(l)
  PROVE  /\ Tail(l) \in Seq(S) /\ Len(Tail(l)) = Len(l) - 1
         /\ Range(Tail(l)) = Range(l) \ {Head(l)}
         /\ IsInjective(Tail(l)) /\ Head(l) \in Range(l) /\ Head(l) \in S
         /\ Len(l) > 0
  <1> DEFINE t == Tail(l)
             n == Len(l)
  <1>1. /\ n \in Nat /\ n > 0 /\ DOMAIN l = 1 .. n /\ 1 \in 1 .. n
        /\ Head(l) = l[1] /\ l[1] \in S
        /\ t \in Seq(S) /\ Len(t) = n - 1 /\ DOMAIN t = 1 .. n - 1
        /\ \A i \in 1 .. n - 1 : t[i] = l[i + 1] /\ i + 1 \in 1 .. n
    OBVIOUS
  <1> HIDE DEF t, n
  <1>2. \A i, j \in 1 .. n : l[i] = l[j] => i = j
    BY <1>1 DEF IsInjective
  <1>3. ASSUME NEW i \in 1 .. n - 1, NEW j \in 1 .. n - 1, t[i] = t[j] PROVE i = j
    <2>1. i + 1 = j + 1
      BY <1>1, <1>2, <1>3
    <2> QED BY <1>1, <2>1
  <1>4. IsInjective(t)
    BY <1>1, <1>3 DEF IsInjective
  <1>5. ASSUME NEW i \in 1 .. n - 1 PROVE t[i] \in Range(l) \ {l[1]}
    <2>1. i + 1 # 1 /\ i + 1 \in 1 .. n /\ t[i] = l[i + 1]
      BY <1>1
    <2> QED BY SMTT(30), <1>1, <1>2, <2>1 DEF Range
  <1>6. ASSUME NEW k \in 1 .. n, k # 1 PROVE l[k] \in Range(t)
    <2>1. k - 1 \in 1 .. n - 1 /\ (k - 1) + 1 = k
      BY <1>1, <1>6
    <2>2. t[k - 1] = l[k]
      BY <1>1, <2>1
    <2> QED BY <1>1, <2>1, <2>2 DEF Range
  <1>7. Range(t) \subseteq Range(l) \ {l[1]}
    BY <1>1, <1>5 DEF Range
  <1>8. Range(l) \ {l[1]} \subseteq Range(t)
    BY <1>1, <1>6 DEF Range
  <1>9. Head(l) \in Range(l)
    BY <1>1 DEF Range
  <1> QED BY <1>1, <1>4, <1>7, <1>8, <1>9 DEF t, n

LEMMA RangeInSet == ASSUME NEW S, NEW l \in Seq(S) PROVE Range(l) \subseteq S
  BY DEF Range

(* any list: the head and the tail are made of its elements *)
LEMMA HeadTail ==
  ASSUME NEW S, NEW l \in Seq(S), l # <<>>
  PROVE  /\ Head(l) \in S /\ Tail(l) \in Seq(S)
         /\ Head(l) \in Range(l) /\ Range(Tail(l)) \subseteq Range(l)
  <1>1. /\ Head(l) = l[1] /\ DOMAIN l = 1 .. Len(l) /\ 1 \in DOMAIN l
        /\ Tail(l) \in Seq(S) /\ DOMAIN Tail(l) = 1 .. Len(l) - 1
        /\ \A i \in 1 .. Len(l) - 1 : Tail(l)[i] = l[i + 1] /\ i + 1 \in 1 .. Len(l)
    OBVIOUS
  <1>2. Range(Tail(l)) \subseteq Range(l)
    BY <1>1 DEF Range
  <1> QED BY <1>1, <1>2 DEF Range

(* how often a list without repetition holds an object *)
LEMMA CountInList ==
  ASSUME NEW S, NEW l \in Seq(S), IsInjective(l), NEW c
  PROVE  Cardinality({i \in DOMAIN l : l[i] = c}) = IF c \in Range(l) THEN 1 ELSE 0
  <1> DEFINE at == {i \in DOMAIN l : l[i] = c}
  <1>1. CASE c \in Range(l)
    <2>1. PICK i \in DOMAIN l : l[i] = c
      BY <1>1 DEF Range
    <2>2. at = {i}
      BY <2>1 DEF IsInjective
    <2> QED BY <1>1, <2>2, FS_Singleton
  <1>2. CASE c \notin Range(l)
    <2>1. at = {}
      BY <1>2 DEF Range
    <2> QED BY <1>2, <2>1, FS_EmptySet
  <1> QED BY <1>1, <1>2

(* The list of a finite set holds each of its elements once. *)
LEMMA SetToSeqList ==
  ASSUME NEW S, IsFiniteSet(S)
  PROVE  /\ SetToSeq(S) \in Seq(S) /\ Len(SetToSeq(S)) = Cardinality(S)
         /\ Range(SetToSeq(S)) = S /\ IsInjective(SetToSeq(S))
  <1> DEFINE n == Cardinality(S)
             l == SetToSeq(S)
  <1>1. n \in Nat /\ ExistsBijection(1 .. n, S)
    BY FS_CardinalityType
  <1>2. \E f \in [1 .. n -> S] : IsInjective(f)
    BY <1>1 DEF ExistsBijection, Bijection, Injection, IsInjective
  <1>3. l \in [1 .. n -> S] /\ IsInjective(l)
    BY <1>2 DEF SetToSeq
  <1> HIDE DEF l
  <1>4. l \in Seq(S) /\ Len(l) = n
    BY <1>1, <1>3
  <1>5. IsFiniteSet(1 .. n) /\ Cardinality(1 .. n) = n
    BY <1>1, FS_Interval
  <1>6. l \in Injection(1 .. n, S)
    BY <1>3 DEF Injection, IsInjective
  <1>7. l \in Surjection(1 .. n, S)
    BY <1>5, <1>6, FS_Injection
  <1>8. Range(l) = S
    BY <1>3, <1>7 DEF Surjection, Range
  <1> QED BY <1>3, <1>4, <1>8 DEF l

-----------------------------------------------------------------------------
(* The inductive invariant.  The first part holds whatever has happened:   *)
(* what the program takes for a descriptor is one.                         *)

References ==
  /\ \A s \in Fds :
       /\ interest[s] # None => sock[s] # None /\ fd[interest[s].conn] \in Fds
       /\ sock[s] # None => sock[s] <= accepted
  /\ pc = "add" => /\ cur \in Conns /\ fd[cur] \in Fds
                   /\ sock[fd[cur]] # None /\ interest[fd[cur]] = None
  /\ pc \in {"close", "recycle"} => cur \in Conns /\ fd[cur] \in Fds
  /\ \A e \in batch : e.conn # Listen => fd[e.conn] \in Fds
  /\ \A m \in Range(queue) : fd[m.conn] \in Fds /\ m.from <= accepted
  /\ \A h \in Handlers :
       /\ hpc[h] # "idle" => /\ hmsg[h] \in Messages /\ fd[hmsg[h].conn] \in Fds
                             /\ hmsg[h].from <= accepted
       /\ hpc[h] = "ctl" => hev[h] \in [fd : Fds, events : SUBSET {"IN", "OUT"}]

TInv == TypeOK /\ References

(* The second part holds until a handler has changed the registration of   *)
(* another client than its own.                                            *)

Listed == Range(freeList) \cup Range(recyList)

(* registered and not yet on its way to a list *)
Served(c) == c \in Conns \ Listed /\ (pc \in {"add", "recycle"} => c # cur)

Lists ==
  /\ IsInjective(freeList) /\ IsInjective(recyList)
  /\ Range(freeList) \cap Range(recyList) = {}

(* Served objects and registered descriptors belong together one to one;   *)
(* only a descriptor that is being accepted is open and not registered.    *)
Bindings ==
  /\ \A c \in Conns : Served(c) =>
       /\ fd[c] \in Fds /\ sock[fd[c]] # None /\ interest[fd[c]] # None
       /\ interest[fd[c]].conn = c /\ "IN" \in interest[fd[c]].events \cap events[c]
  /\ \A s \in Fds :
       /\ interest[s] # None => Served(interest[s].conn) /\ fd[interest[s].conn] = s
       /\ sock[s] # None /\ interest[s] = None => pc = "add" /\ s = fd[cur]
  /\ \A s, t \in Fds : sock[s] = sock[t] /\ sock[s] # None => s = t
  /\ pc = "add" => /\ cur \in Conns \ Listed /\ fd[cur] \in Fds
                   /\ sock[fd[cur]] # None /\ interest[fd[cur]] = None
  /\ pc = "close" => Served(cur)
  /\ pc = "recycle" => cur \in Conns \ Listed /\ interest[fd[cur]] = None

Batch ==
  \A e \in batch : e.conn # Listen =>
    Served(e.conn) /\ fd[e.conn] = e.fd /\ (pc = "close" => e.conn # cur)

(* the client that sent m is served by the object of m, or just left it *)
Sender(m) == \/ Served(m.conn) /\ sock[fd[m.conn]] = m.from
             \/ pc = "recycle" /\ cur = m.conn

(* the client that sent m, if it still has a descriptor, is registered     *)
(* with the object of m                                                    *)
Own(m) == \A s \in Fds : sock[s] = m.from =>
            interest[s] # None /\ interest[s].conn = m.conn

(* A number that is still that of the object says the sender is there. *)
Sound(m) == /\ m.seq <= seq[m.conn]
            /\ m.seq = seq[m.conn] => Sender(m)
            /\ Own(m)

InFlight ==
  /\ \A m \in Range(queue) : Sound(m)
  /\ \A h \in Handlers : hpc[h] # "idle" => Sound(hmsg[h])

Working(h) == hpc[h] \in {"lock", "prepare", "ctl"}

(* A handler that has prepared its request may be late, but if its client  *)
(* is still at that descriptor, the request says what the object says.     *)
Work ==
  /\ \A h \in Handlers :
       /\ Working(h) => hmsg[h].from \in answered
       /\ hpc[h] = "ctl" /\ sock[hev[h].fd] = hmsg[h].from =>
            hev[h].events = events[hmsg[h].conn]
  /\ \A g, h \in Handlers :
       /\ g # h /\ hpc[g] \in {"prepare", "ctl"} /\ hpc[h] \in {"prepare", "ctl"}
       => hmsg[g].conn # hmsg[h].conn

Told(c) == \A h \in Handlers :
             hpc[h] = "ctl" /\ hmsg[h].conn = c => hev[h].fd # fd[c]

(* What epoll was told is what the object says, unless a handler is        *)
(* between the two, and epoll is asked for output only after a message.    *)
Requests ==
  \A c \in Conns : Served(c) =>
    /\ Told(c) => interest[fd[c]].events = events[c]
    /\ "OUT" \in interest[fd[c]].events => sock[fd[c]] \in answered

Rest == Lists /\ Bindings /\ Batch /\ InFlight /\ Work /\ Requests

SInv == TInv /\ Rest

-----------------------------------------------------------------------------
(* The case split on the next-state relation. *)
LEMMA NextCases ==
  ASSUME [Next]_vars
  PROVE  \/ EpollWait \/ Add \/ AddFails \/ Close \/ Recycle \/ Release
         \/ \E e \in batch : Accept(e) \/ AcceptFails(e) \/ Read(e) \/ ReadFails(e)
         \/ Connect \/ TakenElsewhere \/ \E k \in Clients : Send(k) \/ Leave(k)
         \/ \E h \in Handlers :
              Take(h) \/ Check(h) \/ Ignore(h) \/ LockConn(h) \/ Prepare(h) \/ Ctl(h)
         \/ UNCHANGED vars
  BY DEF Next, ngx_epoll_process_events, Environment, threadRecvProcFunc

(* Data types: the fields of the variables as the actions see them. *)
LEMMA EventTypes ==
  ASSUME TInv, NEW e \in batch, e.conn # Listen
  PROVE  /\ e.conn \in Conns /\ fd[e.conn] \in Fds
         /\ sock[fd[e.conn]] \in Clients \cup {None}
         /\ e = [fd |-> e.fd, conn |-> e.conn]
  BY DEF TInv, TypeOK, References

LEMMA CurTypes ==
  ASSUME TInv, pc \in {"add", "close", "recycle"}
  PROVE  cur \in Conns /\ fd[cur] \in Fds
  BY DEF TInv, References

LEMMA HandlerTypes ==
  ASSUME TInv, NEW h \in Handlers, hpc[h] # "idle"
  PROVE  /\ hmsg[h] \in Messages /\ hmsg[h].conn \in Conns /\ hmsg[h].seq \in Nat
         /\ hmsg[h].from \in Clients /\ hmsg[h].from <= accepted
         /\ fd[hmsg[h].conn] \in Fds
  BY DEF TInv, References, Messages

LEMMA TypesStep == TInv /\ [Next]_vars => TypeOK'
  <1> SUFFICES ASSUME TInv, [Next]_vars PROVE TypeOK'
    OBVIOUS
  <1> USE ServerAssumption DEF TInv, client, kernel, object, main, handler
  <1>0. arrived \in Nat /\ accepted \in Nat /\ accepted <= arrived /\ NClients \in Nat
    BY DEF TypeOK
  <1>1. CASE EpollWait
    <2>1. \A s \in Fds : Ready(s) => interest[s].conn \in Conns
      BY DEF Ready, TypeOK, Registrations
    <2>2. batch' \subseteq [fd : Fds \cup {None}, conn : Conns \cup {Listen}]
      BY <1>1, <2>1 DEF EpollWait
    <2> QED BY <1>1, <2>2 DEF EpollWait, TypeOK
  <1>2. CASE Add
    <2>1. cur \in Conns /\ fd[cur] \in Fds
      BY <1>2, CurTypes DEF Add
    <2>2. [conn |-> cur, events |-> {"IN"}] \in Registrations
      BY <2>1 DEF Registrations
    <2>3. interest' \in [Fds -> Registrations \cup {None}] /\ events' \in [Conns -> SUBSET {"IN", "OUT"}]
      BY <1>2, <2>1, <2>2 DEF Add, TypeOK
    <2> QED BY <1>2, <2>3 DEF Add, TypeOK
  <1>3. CASE AddFails
    <2>1. cur \in Conns /\ fd[cur] \in Fds
      BY <1>3, CurTypes DEF AddFails
    <2>2. freeList' \in Seq(Conns)
      BY <1>3, <2>1, AppendList DEF AddFails, TypeOK
    <2>3. seq[cur] + 1 \in Nat /\ seq' = [seq EXCEPT ![cur] = seq[cur] + 1]
      BY <1>3, <2>1 DEF AddFails, TypeOK
    <2>4. /\ seq' \in [Conns -> Nat] /\ events' \in [Conns -> SUBSET {"IN", "OUT"}]
          /\ sock' \in [Fds -> Clients \cup {None}]
      BY <1>3, <2>1, <2>3 DEF AddFails, TypeOK
    <2> QED BY <1>3, <2>2, <2>4 DEF AddFails, TypeOK
  <1>4. CASE Close
    BY <1>4 DEF Close, TypeOK
  <1>5. CASE Recycle
    <2>1. cur \in Conns
      BY <1>5, CurTypes DEF Recycle
    <2>2. recyList' \in Seq(Conns)
      BY <1>5, <2>1, AppendList DEF Recycle, TypeOK
    <2>3. seq[cur] + 1 \in Nat /\ seq' = [seq EXCEPT ![cur] = seq[cur] + 1]
      BY <1>5, <2>1 DEF Recycle, TypeOK
    <2>4. seq' \in [Conns -> Nat]
      BY <2>3 DEF TypeOK
    <2> QED BY <1>5, <2>2, <2>4 DEF Recycle, TypeOK
  <1>6. CASE Release
    <2>1. Head(recyList) \in Conns /\ recyList' \in Seq(Conns)
      BY <1>6, HeadTail DEF Release, TypeOK
    <2>2. freeList' \in Seq(Conns)
      BY <1>6, <2>1, AppendList DEF Release, TypeOK
    <2>3. /\ seq[Head(recyList)] + 1 \in Nat
          /\ seq' = [seq EXCEPT ![Head(recyList)] = seq[Head(recyList)] + 1]
      BY <1>6, <2>1 DEF Release, TypeOK
    <2>4. seq' \in [Conns -> Nat]
      BY <2>3 DEF TypeOK
    <2> QED BY <1>6, <2>1, <2>2, <2>4 DEF Release, TypeOK
  <1>7. ASSUME NEW e \in batch, Accept(e) PROVE TypeOK'
    <2> DEFINE c == Head(freeList)
    <2>1. c \in Conns /\ freeList' \in Seq(Conns)
      BY <1>7, HeadTail DEF Accept, TypeOK
    <2> HIDE DEF c
    <2>2. /\ cur' = c /\ seq' = [seq EXCEPT ![c] = seq[c] + 1] /\ events' = [events EXCEPT ![c] = {}]
          /\ accepted' = accepted + 1 /\ accepted < arrived
      BY <1>7 DEF Accept, c
    <2>3. accepted + 1 \in Clients /\ accepted' \in 0 .. arrived /\ 1 .. accepted \subseteq 1 .. accepted'
      BY <1>0, <2>2 DEF TypeOK, Clients
    <2>4. PICK s \in Fds : sock' = [sock EXCEPT ![s] = accepted + 1] /\ fd' = [fd EXCEPT ![c] = s]
      BY <1>7 DEF Accept, c
    <2>5. sock' \in [Fds -> Clients \cup {None}] /\ fd' \in [Conns -> Fds \cup {None}]
      BY <2>1, <2>3, <2>4 DEF TypeOK
    <2>6. seq[c] + 1 \in Nat
      BY <2>1 DEF TypeOK
    <2>7. seq' \in [Conns -> Nat] /\ events' \in [Conns -> SUBSET {"IN", "OUT"}]
      BY <2>1, <2>2, <2>6 DEF TypeOK
    <2> QED BY <1>7, <2>1, <2>2, <2>3, <2>5, <2>7 DEF Accept, TypeOK
  <1>8. ASSUME NEW e \in batch, AcceptFails(e) PROVE TypeOK'
    BY <1>8 DEF AcceptFails, TypeOK
  <1>9. ASSUME NEW e \in batch, Read(e) PROVE TypeOK'
    <2> DEFINE k == sock[fd[e.conn]]
               m == [conn |-> e.conn, seq |-> seq[e.conn], from |-> k]
    <2>1. e.conn \in Conns /\ k \in Clients
      BY <1>9, EventTypes DEF Read
    <2>2. m \in Messages
      BY <2>1 DEF Messages, TypeOK
    <2>3. /\ pending[k] \in Nat /\ pending[k] > 0 /\ pending[k] - 1 \in Nat
          /\ pending' = [pending EXCEPT ![k] = pending[k] - 1]
          /\ queue' = Append(queue, m)
      BY <1>9, <2>1 DEF Read, TypeOK
    <2> HIDE DEF k, m
    <2>4. queue' \in Seq(Messages)
      BY <2>2, <2>3 DEF TypeOK
    <2>5. pending' \in [Clients -> Nat]
      BY <2>1, <2>3 DEF TypeOK
    <2>6. \A j \in Clients : pending'[j] <= sent[j]
      <3> TAKE j \in Clients
      <3>1. pending[j] \in Nat /\ sent[j] \in Nat /\ pending[j] <= sent[j] /\ DOMAIN pending = Clients
        BY DEF TypeOK
      <3> QED BY <2>1, <2>3, <3>1
    <2> QED BY <1>9, <2>4, <2>5, <2>6 DEF Read, TypeOK
  <1>10. ASSUME NEW e \in batch, ReadFails(e) PROVE TypeOK'
    <2>1. e.conn \in Conns
      BY <1>10, EventTypes DEF ReadFails
    <2> QED BY <1>10, <2>1 DEF ReadFails, TypeOK
  <1>11. CASE Connect
    BY <1>0, <1>11 DEF Connect, TypeOK
  <1>12. CASE TakenElsewhere
    BY <1>0, <1>12 DEF TakenElsewhere, TypeOK
  <1>13. ASSUME NEW k \in Clients, Send(k) PROVE TypeOK'
    <2>1. /\ sent[k] \in Nat /\ pending[k] \in Nat /\ sent[k] < MaxSend[k] /\ MaxSend[k] \in Nat
          /\ sent' = [sent EXCEPT ![k] = sent[k] + 1] /\ pending' = [pending EXCEPT ![k] = pending[k] + 1]
      BY <1>13 DEF Send, TypeOK, Clients
    <2>2. sent[k] + 1 \in Nat /\ pending[k] + 1 \in Nat
      BY <2>1
    <2>3. sent' \in [Clients -> Nat] /\ pending' \in [Clients -> Nat]
      BY <2>1, <2>2 DEF TypeOK
    <2>4. \A j \in Clients : sent'[j] <= MaxSend[j] /\ pending'[j] <= sent'[j]
      <3> TAKE j \in Clients
      <3>1. /\ pending[j] \in Nat /\ sent[j] \in Nat /\ pending[j] <= sent[j] /\ sent[j] <= MaxSend[j]
            /\ DOMAIN pending = Clients /\ DOMAIN sent = Clients /\ MaxSend[j] \in Nat
        BY DEF TypeOK, Clients
      <3> QED BY <2>1, <3>1
    <2> QED BY <1>13, <2>3, <2>4 DEF Send, TypeOK
  <1>14. ASSUME NEW k \in Clients, Leave(k) PROVE TypeOK'
    <2>1. PICK n \in {0, pending[k]} : pending' = [pending EXCEPT ![k] = n]
      BY <1>14 DEF Leave
    <2>2. n \in Nat /\ n <= pending[k] /\ pending[k] \in Nat
      BY <2>1 DEF TypeOK
    <2>3. pending' \in [Clients -> Nat]
      BY <2>1, <2>2 DEF TypeOK
    <2>4. \A j \in Clients : pending'[j] <= sent[j]
      <3> TAKE j \in Clients
      <3>1. pending[j] \in Nat /\ sent[j] \in Nat /\ pending[j] <= sent[j] /\ DOMAIN pending = Clients
        BY DEF TypeOK
      <3> QED BY <2>1, <2>2, <3>1
    <2>5. gone' \subseteq 1 .. arrived
      <3>1. k \in 1 .. arrived /\ gone' = gone \cup {k}
        BY <1>0, <1>14 DEF Leave, Clients
      <3> QED BY <3>1 DEF TypeOK
    <2> QED BY <1>14, <2>3, <2>4, <2>5 DEF Leave, TypeOK
  <1>15. ASSUME NEW h \in Handlers, Take(h) PROVE TypeOK'
    <2>1. Head(queue) \in Messages /\ queue' \in Seq(Messages)
      BY <1>15 DEF Take, TypeOK
    <2> QED BY <1>15, <2>1 DEF Take, TypeOK
  <1>16. ASSUME NEW h \in Handlers, Check(h) PROVE TypeOK'
    <2>1. hmsg[h].from \in 1 .. accepted
      <3>1. hmsg[h].from \in Clients /\ hmsg[h].from <= accepted
        BY <1>16, HandlerTypes DEF Check
      <3> QED BY <1>0, <3>1 DEF Clients
    <2> QED BY <1>16, <2>1 DEF Check, TypeOK
  <1>17. ASSUME NEW h \in Handlers, Ignore(h) PROVE TypeOK'
    BY <1>17 DEF Ignore, TypeOK
  <1>18. ASSUME NEW h \in Handlers, LockConn(h) PROVE TypeOK'
    BY <1>18 DEF LockConn, TypeOK
  <1>19. ASSUME NEW h \in Handlers, Prepare(h) PROVE TypeOK'
    <2> DEFINE c == hmsg[h].conn
    <2>1. c \in Conns
      BY <1>19, HandlerTypes DEF Prepare
    <2>2. events' = [events EXCEPT ![c] = events[c] \cup {"OUT"}]
      BY <1>19 DEF Prepare
    <2>3. events' \in [Conns -> SUBSET {"IN", "OUT"}]
      BY <2>1, <2>2 DEF TypeOK
    <2>4. hev' = [hev EXCEPT ![h] = [fd |-> fd[c], events |-> events'[c]]]
      BY <1>19 DEF Prepare
    <2>5. [fd |-> fd[c], events |-> events'[c]] \in [fd : Fds \cup {None}, events : SUBSET {"IN", "OUT"}]
      BY <2>1, <2>3 DEF TypeOK
    <2> HIDE DEF c
    <2>6. hev' \in [Handlers -> [fd : Fds \cup {None}, events : SUBSET {"IN", "OUT"}] \cup {None}]
      BY <2>4, <2>5 DEF TypeOK
    <2>7. hpc' \in [Handlers -> {"idle", "check", "lock", "prepare", "ctl"}]
      BY <1>19 DEF Prepare, TypeOK
    <2> QED BY <1>19, <2>3, <2>6, <2>7 DEF Prepare, TypeOK
  <1>20. ASSUME NEW h \in Handlers, Ctl(h) PROVE TypeOK'
    <2> DEFINE s == hev[h].fd
    <2>1. hmsg[h].conn \in Conns /\ hev[h].events \in SUBSET {"IN", "OUT"}
      <3>1. hmsg[h].conn \in Conns /\ hpc[h] = "ctl"
        BY <1>20, HandlerTypes DEF Ctl
      <3> QED BY <3>1 DEF References
    <2>2. [conn |-> hmsg[h].conn, events |-> hev[h].events] \in Registrations
      BY <2>1 DEF Registrations
    <2>3. interest' = [interest EXCEPT ![s] = IF interest[s] = None THEN None
                         ELSE [conn |-> hmsg[h].conn, events |-> hev[h].events]]
      BY <1>20 DEF Ctl
    <2>4. interest' \in [Fds -> Registrations \cup {None}]
      BY <2>2, <2>3 DEF TypeOK
    <2>5. misdirected' \in BOOLEAN
      BY <1>20 DEF Ctl, TypeOK
    <2> QED BY <1>20, <2>4, <2>5 DEF Ctl, TypeOK
  <1>21. CASE UNCHANGED vars
    BY <1>21 DEF vars, TypeOK
  <1> QED
    BY <1>1, <1>2, <1>3, <1>4, <1>5, <1>6, <1>7, <1>8, <1>9, <1>10, <1>11, <1>12, <1>13,
       <1>14, <1>15, <1>16, <1>17, <1>18, <1>19, <1>20, <1>21, NextCases

(* The first part, action by action. *)
LEMMA ReferencesStep == TInv /\ [Next]_vars /\ TypeOK' => References'
  <1> SUFFICES ASSUME TInv, [Next]_vars, TypeOK' PROVE References'
    OBVIOUS
  <1> USE ServerAssumption DEF TInv, client, kernel, object, main, handler
  <1>0. /\ accepted \in Nat /\ accepted' \in Nat
        /\ \A s \in Fds : sock[s] # None => sock[s] \in Nat /\ sock[s] <= accepted
        /\ \A s \in Fds : interest[s] # None =>
             interest[s].conn \in Conns /\ sock[s] # None /\ fd[interest[s].conn] \in Fds
        /\ Range(queue) \subseteq Messages
        /\ \A m \in Messages : m.conn \in Conns /\ m.from \in Nat
    <2>1. accepted \in Nat /\ accepted' \in Nat
      BY DEF TypeOK
    <2>2. \A s \in Fds : sock[s] # None => sock[s] \in Clients
      BY DEF TypeOK
    <2>3. Range(queue) \subseteq Messages
      BY RangeInSet DEF TypeOK
    <2>4. \A s \in Fds : interest[s] # None => interest[s] \in Registrations
      BY DEF TypeOK
    <2>5. \A s \in Fds : interest[s] # None => interest[s].conn \in Conns
      BY <2>4 DEF Registrations
    <2>6. \A s \in Fds : /\ interest[s] # None => sock[s] # None /\ fd[interest[s].conn] \in Fds
                         /\ sock[s] # None => sock[s] <= accepted
      BY DEF References
    <2>7. \A m \in Messages : m.conn \in Conns /\ m.from \in Nat
      BY DEF Messages, Clients
    <2> QED BY <2>1, <2>2, <2>3, <2>5, <2>6, <2>7 DEF Clients
  <1>1. ASSUME UNCHANGED <<sock, interest, fd, pc, cur, queue, hpc, hmsg, hev>>,
               batch' \subseteq batch, accepted <= accepted'
        PROVE  References'
    <2>1. \A s \in Fds : sock[s] # None => sock[s] <= accepted'
      BY <1>0, <1>1
    <2>2. \A m \in Range(queue) : m.from <= accepted'
      BY <1>0, <1>1 DEF References
    <2>3. \A h \in Handlers : hpc[h] # "idle" => hmsg[h].from <= accepted'
      BY <1>0, <1>1, HandlerTypes
    <2> QED BY <1>1, <2>1, <2>2, <2>3 DEF References
  <1>2. CASE \/ Connect \/ TakenElsewhere \/ Release \/ UNCHANGED vars
             \/ (\E k \in Clients : Send(k) \/ Leave(k)) \/ (\E e \in batch : AcceptFails(e))
    <2>1. /\ UNCHANGED <<sock, interest, fd, pc, cur, queue, hpc, hmsg, hev>>
          /\ batch' \subseteq batch /\ accepted <= accepted'
      BY <1>0, <1>2 DEF Connect, TakenElsewhere, Release, Send, Leave, AcceptFails, vars
    <2> QED BY <1>1, <2>1
  <1>3. CASE EpollWait
    <2>1. ASSUME NEW e \in batch', e.conn # Listen PROVE fd[e.conn] \in Fds
      <3>1. batch' = {[fd |-> s, conn |-> interest[s].conn] : s \in {t \in Fds : Ready(t)}}
                     \cup IF accepted < arrived THEN {[fd |-> None, conn |-> Listen]} ELSE {}
        BY <1>3 DEF EpollWait
      <3>2. PICK s \in Fds : Ready(s) /\ e.conn = interest[s].conn
        BY <2>1, <3>1
      <3> QED BY <1>0, <3>2 DEF Ready
    <2> QED BY <1>3, <2>1 DEF EpollWait, References
  <1>4. CASE Add
    <2> DEFINE r == [conn |-> cur, events |-> {"IN"}]
    <2>1. cur \in Conns /\ fd[cur] \in Fds /\ sock[fd[cur]] # None
      BY <1>4 DEF Add, References
    <2>2. /\ interest'[fd[cur]] = r /\ r.conn = cur
          /\ \A s \in Fds : s # fd[cur] => interest'[s] = interest[s]
      BY <1>4, <2>1 DEF Add, TypeOK
    <2> HIDE DEF r
    <2>3. \A s \in Fds : interest'[s] # None =>
            sock[s] # None /\ fd[interest'[s].conn] \in Fds
      BY <1>0, <2>1, <2>2
    <2>4. pc' = "events" /\ UNCHANGED <<accepted, sock, fd, batch, queue, hpc, hmsg, hev>>
      BY <1>4 DEF Add
    <2> QED BY <1>0, <2>3, <2>4 DEF References
  <1>5. CASE AddFails \/ Close
    <2>1. /\ cur \in Conns /\ fd[cur] \in Fds
          /\ interest'[fd[cur]] = None
      BY <1>5 DEF AddFails, Close, References, TypeOK
    <2>2. /\ sock' = [sock EXCEPT ![fd[cur]] = None]
          /\ \A s \in Fds : s # fd[cur] => interest'[s] = interest[s]
          /\ pc' \in {"events", "recycle"} /\ (pc' = "recycle" => cur' = cur)
          /\ UNCHANGED <<accepted, fd, batch, queue, hpc, hmsg, hev>>
      BY <1>5, <2>1 DEF AddFails, Close, TypeOK
    <2>3. /\ sock'[fd[cur]] = None /\ \A s \in Fds : s # fd[cur] => sock'[s] = sock[s]
      BY <2>1, <2>2 DEF TypeOK
    <2>4. \A s \in Fds : /\ interest'[s] # None => sock'[s] # None /\ fd[interest'[s].conn] \in Fds
                         /\ sock'[s] # None => sock'[s] <= accepted
      BY <1>0, <2>1, <2>2, <2>3
    <2> QED BY <2>1, <2>2, <2>4 DEF References
  <1>6. CASE Recycle
    BY <1>6 DEF Recycle, References
  <1>7. ASSUME NEW e \in batch, Accept(e) PROVE References'
    <2> DEFINE c == Head(freeList)
    <2>1. c \in Conns
      BY <1>7, HeadTail DEF Accept, TypeOK
    <2> HIDE DEF c
    <2>2. /\ pc' = "add" /\ cur' = c /\ accepted' = accepted + 1 /\ batch' \subseteq batch
          /\ UNCHANGED <<interest, queue, hpc, hmsg, hev>>
      BY <1>7 DEF Accept, c
    <2>3. PICK s \in Fds : /\ sock[s] = None
                           /\ sock' = [sock EXCEPT ![s] = accepted + 1] /\ fd' = [fd EXCEPT ![c] = s]
      BY <1>7 DEF Accept, c
    <2>4. /\ sock'[s] = accepted + 1 /\ \A t \in Fds : t # s => sock'[t] = sock[t]
          /\ fd'[c] = s /\ \A x \in Conns : fd[x] \in Fds => fd'[x] \in Fds
          /\ interest[s] = None /\ accepted + 1 # None
      BY <1>0, <2>1, <2>3 DEF TypeOK
    <2>5. \A t \in Fds : sock'[t] # None => sock'[t] <= accepted'
      BY <1>0, <2>2, <2>4
    <2>6. \A t \in Fds : interest[t] # None => sock'[t] # None /\ fd'[interest[t].conn] \in Fds
      BY <1>0, <2>4
    <2>7. \A d \in batch' : d.conn # Listen => fd'[d.conn] \in Fds
      BY <2>2, <2>4, EventTypes
    <2>8. \A m \in Range(queue) : fd'[m.conn] \in Fds /\ m.from <= accepted'
      BY <1>0, <2>2, <2>4 DEF References
    <2>9. \A h \in Handlers : hpc[h] # "idle" =>
            /\ hmsg[h] \in Messages /\ fd'[hmsg[h].conn] \in Fds /\ hmsg[h].from <= accepted'
      BY <1>0, <2>2, <2>4, HandlerTypes
    <2> QED BY <2>1, <2>2, <2>4, <2>5, <2>6, <2>7, <2>8, <2>9 DEF References
  <1>8. ASSUME NEW e \in batch, Read(e) PROVE References'
    <2> DEFINE m == [conn |-> e.conn, seq |-> seq[e.conn], from |-> sock[fd[e.conn]]]
    <2>1. m \in Messages /\ fd[m.conn] \in Fds /\ m.from <= accepted
      BY <1>0, <1>8, EventTypes DEF Read, Messages, TypeOK
    <2>2. queue' = Append(queue, m) /\ batch' \subseteq batch
          /\ UNCHANGED <<accepted, sock, interest, fd, pc, cur, hpc, hmsg, hev>>
      BY <1>8 DEF Read
    <2> HIDE DEF m
    <2>3. Range(queue') = Range(queue) \cup {m}
      BY <2>1, <2>2, AppendList DEF TypeOK
    <2> QED BY <2>1, <2>2, <2>3 DEF References
  <1>9. ASSUME NEW e \in batch, ReadFails(e) PROVE References'
    BY <1>9, EventTypes DEF ReadFails, References
  <1>10. ASSUME NEW h \in Handlers, Take(h) PROVE References'
    <2>1. /\ Head(queue) \in Range(queue) /\ Range(queue') \subseteq Range(queue)
      BY <1>10, HeadTail DEF Take, TypeOK
    <2>2. /\ hpc'[h] = "check" /\ hmsg'[h] = Head(queue)
          /\ \A g \in Handlers : g # h => hpc'[g] = hpc[g] /\ hmsg'[g] = hmsg[g]
          /\ UNCHANGED <<accepted, sock, interest, fd, pc, cur, batch, hev>>
      BY <1>10 DEF Take, TypeOK
    <2> QED BY <1>0, <2>1, <2>2 DEF References
  <1>11. ASSUME NEW h \in Handlers, Check(h) \/ Ignore(h) \/ LockConn(h) PROVE References'
    <2>1. /\ hpc'[h] \in {"lock", "idle", "prepare"} /\ (hpc'[h] # "idle" => hmsg'[h] = hmsg[h])
          /\ hpc[h] # "idle"
          /\ \A g \in Handlers : g # h => hpc'[g] = hpc[g] /\ hmsg'[g] = hmsg[g]
          /\ UNCHANGED <<accepted, sock, interest, fd, pc, cur, batch, queue, hev>>
      BY <1>11 DEF Check, Ignore, LockConn, TypeOK
    <2> QED BY <2>1 DEF References
  <1>12. ASSUME NEW h \in Handlers, Prepare(h) PROVE References'
    <2>1. hmsg[h].conn \in Conns /\ fd[hmsg[h].conn] \in Fds
      BY <1>12, HandlerTypes DEF Prepare
    <2>2. /\ hpc'[h] = "ctl" /\ hpc[h] = "prepare"
          /\ hev'[h] = [fd |-> fd[hmsg[h].conn], events |-> events'[hmsg[h].conn]]
          /\ \A g \in Handlers : g # h => hpc'[g] = hpc[g] /\ hev'[g] = hev[g]
          /\ UNCHANGED <<accepted, sock, interest, fd, pc, cur, batch, queue, hmsg>>
      BY <1>12 DEF Prepare, TypeOK
    <2>3. hev'[h] \in [fd : Fds, events : SUBSET {"IN", "OUT"}]
      BY <2>1, <2>2 DEF TypeOK
    <2> QED BY <2>1, <2>2, <2>3 DEF References
  <1>13. ASSUME NEW h \in Handlers, Ctl(h) PROVE References'
    <2> DEFINE s == hev[h].fd
    <2>1. /\ s \in Fds /\ hmsg[h].conn \in Conns /\ fd[hmsg[h].conn] \in Fds
      BY <1>13, HandlerTypes DEF Ctl, References
    <2>2. /\ interest'[s] = IF interest[s] = None THEN None
                            ELSE [conn |-> hmsg[h].conn, events |-> hev[h].events]
          /\ \A t \in Fds : t # s => interest'[t] = interest[t]
          /\ hpc'[h] = "idle"
          /\ \A g \in Handlers : g # h => hpc'[g] = hpc[g] /\ hmsg'[g] = hmsg[g] /\ hev'[g] = hev[g]
          /\ UNCHANGED <<accepted, sock, fd, pc, cur, batch, queue>>
      BY <1>13, <2>1 DEF Ctl, TypeOK
    <2> HIDE DEF s
    <2>3. \A t \in Fds : /\ interest'[t] # None => interest[t] # None
                         /\ interest'[t] # None => fd[interest'[t].conn] \in Fds
      BY <1>0, <2>1, <2>2
    <2>4. pc = "add" => fd[cur] \in Fds /\ interest'[fd[cur]] = None
      <3>1. pc = "add" => fd[cur] \in Fds /\ interest[fd[cur]] = None
        BY DEF References
      <3> QED BY <2>1, <2>2, <3>1
    <2>5. /\ \A e \in batch : e.conn # Listen => fd[e.conn] \in Fds
          /\ \A m \in Range(queue) : fd[m.conn] \in Fds /\ m.from <= accepted
      BY DEF References
    <2>6. ASSUME NEW g \in Handlers, hpc'[g] # "idle"
          PROVE  /\ hmsg'[g] \in Messages /\ fd[hmsg'[g].conn] \in Fds /\ hmsg'[g].from <= accepted
                 /\ hpc'[g] = "ctl" => hev'[g] \in [fd : Fds, events : SUBSET {"IN", "OUT"}]
      <3>1. g # h /\ hpc[g] # "idle"
        BY <2>2, <2>6
      <3> QED BY <2>2, <3>1, HandlerTypes DEF References
    <2>7. /\ pc = "add" => cur \in Conns /\ sock[fd[cur]] # None
          /\ pc \in {"close", "recycle"} => cur \in Conns /\ fd[cur] \in Fds
      BY DEF References
    <2> QED BY <1>0, <2>2, <2>3, <2>4, <2>5, <2>6, <2>7 DEF References
  <1> QED
    BY <1>2, <1>3, <1>4, <1>5, <1>6, <1>7, <1>8, <1>9, <1>10, <1>11, <1>12, <1>13, NextCases

-----------------------------------------------------------------------------
(* The second part: one lemma per action, or per kind of action.           *)

(* A step of a client, an event that leads to nothing. *)
LEMMA QuietStep ==
  ASSUME SInv, UNCHANGED <<kernel, object, pc, cur, queue, handler>>, batch' \subseteq batch
  PROVE  Rest'
  <1> USE DEF SInv, TInv, kernel, object, handler, Rest
  <1>1. Listed' = Listed /\ \A c : Served(c)' <=> Served(c)
    BY DEF Served, Listed
  <1>2. \A m : Sound(m)' <=> Sound(m)
    BY <1>1 DEF Sound, Sender, Own
  <1>3. Lists' /\ Bindings' /\ Batch'
    BY <1>1 DEF Lists, Bindings, Batch
  <1>4. InFlight' /\ Work'
    BY <1>2 DEF InFlight, Work, Working
  <1>5. Requests'
    BY <1>1 DEF Requests, Told
  <1> QED BY <1>3, <1>4, <1>5

LEMMA EpollWaitStep == ASSUME SInv, EpollWait PROVE Rest'
  <1> USE DEF SInv, TInv, kernel, object, handler, client, Rest
  <1>0. /\ pc = "events" /\ pc' = "events"
        /\ batch' = {[fd |-> s, conn |-> interest[s].conn] : s \in {t \in Fds : Ready(t)}}
                    \cup IF accepted < arrived THEN {[fd |-> None, conn |-> Listen]} ELSE {}
        /\ UNCHANGED <<accepted, kernel, object, cur, queue, handler>>
    BY DEF EpollWait
  <1>1. Listed' = Listed /\ \A c : Served(c)' <=> Served(c)
    BY <1>0 DEF Served, Listed
  <1>2. Lists' /\ InFlight' /\ Work' /\ Requests'
    BY <1>0, <1>1 DEF Lists, InFlight, Sound, Sender, Own, Work, Working, Requests, Told
  <1>3. Bindings'
    BY <1>0, <1>1 DEF Bindings
  <1>4. Batch'
    <2>1. ASSUME NEW e \in batch', e.conn # Listen
          PROVE  Served(e.conn) /\ fd[e.conn] = e.fd
      <3>1. PICK s \in Fds : Ready(s) /\ e.fd = s /\ e.conn = interest[s].conn
        BY <1>0, <2>1
      <3> QED BY <3>1 DEF Ready, Bindings
    <2> QED BY <1>0, <1>1, <2>1 DEF Batch
  <1> QED BY <1>2, <1>3, <1>4

(* A handler whose client is still there works on an object that is served:*)
(* the main thread, at an object that is not, does not touch its request.  *)
LEMMA WorksOnServed ==
  ASSUME SInv, NEW h \in Handlers, hpc[h] = "ctl", sock[hev[h].fd] = hmsg[h].from
  PROVE  /\ hmsg[h].conn \in Conns /\ Served(hmsg[h].conn)
         /\ hev[h].fd \in Fds /\ hev[h].events = events[hmsg[h].conn]
  <1> USE DEF SInv, TInv, Rest
  <1>1. hmsg[h].conn \in Conns /\ hev[h].fd \in Fds
    BY HandlerTypes DEF References
  <1>2. hev[h].events = events[hmsg[h].conn]
    BY DEF Work
  <1>3. Own(hmsg[h])
    BY DEF InFlight, Sound
  <1>4. interest[hev[h].fd] # None /\ interest[hev[h].fd].conn = hmsg[h].conn
    BY <1>1, <1>3 DEF Own
  <1>5. Served(hmsg[h].conn)
    BY <1>1, <1>4 DEF Bindings
  <1> QED BY <1>1, <1>2, <1>5

LEMMA AddStep == ASSUME SInv, Add PROVE Rest'
  <1> USE DEF SInv, TInv, handler, client, Rest
  <1> DEFINE r == [conn |-> cur, events |-> {"IN"}]
  <1>0. /\ pc = "add" /\ pc' = "events" /\ cur' = None
        /\ events' = [events EXCEPT ![cur] = {"IN"}] /\ interest' = [interest EXCEPT ![fd[cur]] = r]
        /\ UNCHANGED <<accepted, sock, fd, seq, freeList, recyList, batch, queue, handler>>
    BY DEF Add
  <1>1. /\ cur \in Conns \ Listed /\ fd[cur] \in Fds /\ sock[fd[cur]] # None
        /\ interest[fd[cur]] = None /\ ~Served(cur)
    BY <1>0 DEF Bindings, Served
  <1>2. r # None /\ r.conn = cur /\ r.events = {"IN"}
    <2>1. r \in Registrations
      BY <1>1 DEF Registrations
    <2> QED BY <2>1, ServerAssumption
  <1> HIDE DEF r
  <1>3. /\ Listed' = Listed
        /\ \A c \in Conns : Served(c)' <=> Served(c) \/ c = cur
    BY <1>0, <1>1 DEF Served, Listed
  <1>4. /\ interest'[fd[cur]] = r /\ events'[cur] = {"IN"}
        /\ \A s \in Fds : s # fd[cur] => interest'[s] = interest[s]
        /\ \A c \in Conns : c # cur => events'[c] = events[c]
        /\ \A c \in Conns : Served(c) => fd[c] # fd[cur]
    BY <1>0, <1>1 DEF TypeOK, Bindings
  <1>5. Lists'
    BY <1>0 DEF Lists
  <1>6. Bindings'
    <2>1. ASSUME NEW c \in Conns, Served(c)'
          PROVE  /\ fd[c] \in Fds /\ sock[fd[c]] # None /\ interest'[fd[c]] # None
                 /\ interest'[fd[c]].conn = c /\ "IN" \in interest'[fd[c]].events \cap events'[c]
      <3>1. CASE c = cur
        BY <1>1, <1>2, <1>4, <3>1
      <3>2. CASE c # cur
        BY <1>3, <1>4, <2>1, <3>2 DEF Bindings
      <3> QED BY <3>1, <3>2
    <2>2. ASSUME NEW s \in Fds
          PROVE  /\ interest'[s] # None => Served(interest[s].conn)' /\ fd[interest'[s].conn] = s
                 /\ sock[s] # None => interest'[s] # None
      <3>1. CASE s = fd[cur]
        BY <1>1, <1>2, <1>3, <1>4, <3>1 DEF Bindings
      <3>2. CASE s # fd[cur]
        <4>1. interest[s] # None => interest[s].conn \in Conns
          BY DEF TypeOK, Registrations
        <4> QED BY <1>3, <1>4, <3>2, <4>1 DEF Bindings
      <3> QED BY <3>1, <3>2
    <2>3. \A s, t \in Fds : sock[s] = sock[t] /\ sock[s] # None => s = t
      BY DEF Bindings
    <2> QED BY <1>0, <2>1, <2>2, <2>3 DEF Bindings
  <1>7. Batch'
    BY <1>0, <1>3, EventTypes DEF Batch
  <1>8. InFlight'
    <2>1. \A m \in Messages : Sound(m) => Sound(m)'
      BY <1>0, <1>1, <1>3, <1>4 DEF Sound, Sender, Own, Messages
    <2>2. Range(queue) \subseteq Messages
      BY RangeInSet DEF TypeOK
    <2> QED BY <1>0, <2>1, <2>2, HandlerTypes DEF InFlight
  <1>9. Work'
    <2>1. ASSUME NEW h \in Handlers, hpc[h] = "ctl", sock[hev[h].fd] = hmsg[h].from
          PROVE  hev[h].events = events'[hmsg[h].conn]
      <3>1. hmsg[h].conn \in Conns /\ hmsg[h].conn # cur /\ hev[h].events = events[hmsg[h].conn]
        BY <1>1, <2>1, WorksOnServed
      <3> QED BY <1>4, <3>1
    <2> QED BY <1>0, <2>1 DEF Work, Working
  <1>10. Requests'
    <2>1. ASSUME NEW c \in Conns, Served(c)'
          PROVE  /\ Told(c) => interest'[fd[c]].events = events'[c]
                 /\ "OUT" \in interest'[fd[c]].events => sock[fd[c]] \in answered
      <3>1. CASE c = cur
        BY <1>2, <1>4, <3>1
      <3>2. CASE c # cur
        <4>1. Served(c) /\ fd[c] \in Fds
          BY <1>3, <2>1, <3>2 DEF Bindings
        <4> QED BY <1>4, <3>2, <4>1 DEF Requests
      <3> QED BY <3>1, <3>2
    <2> QED BY <1>0, <2>1 DEF Requests, Told
  <1> QED BY <1>5, <1>6, <1>7, <1>8, <1>9, <1>10

LEMMA AddFailsStep == ASSUME SInv, AddFails PROVE Rest'
  <1> USE DEF SInv, TInv, handler, client, Rest
  <1>0. /\ pc = "add" /\ pc' = "events" /\ cur' = None
        /\ events' = [events EXCEPT ![cur] = {"IN"}] /\ seq' = [seq EXCEPT ![cur] = seq[cur] + 1]
        /\ freeList' = Append(freeList, cur) /\ sock' = [sock EXCEPT ![fd[cur]] = None]
        /\ UNCHANGED <<accepted, interest, fd, recyList, batch, queue, handler>>
    BY DEF AddFails
  <1>1. /\ cur \in Conns \ Listed /\ fd[cur] \in Fds /\ sock[fd[cur]] # None
        /\ interest[fd[cur]] = None /\ ~Served(cur)
    BY <1>0 DEF Bindings, Served
  <1>2. /\ Range(freeList') = Range(freeList) \cup {cur} /\ IsInjective(freeList')
    BY <1>0, <1>1, AppendList DEF Lists, Listed, TypeOK
  <1>3. /\ Listed' = Listed \cup {cur}
        /\ \A c \in Conns : Served(c)' <=> Served(c)
    BY <1>0, <1>1, <1>2 DEF Served, Listed
  <1>4. /\ sock'[fd[cur]] = None
        /\ \A s \in Fds : s # fd[cur] => sock'[s] = sock[s]
        /\ \A c \in Conns : c # cur => events'[c] = events[c] /\ seq'[c] = seq[c]
        /\ \A c \in Conns : Served(c) => fd[c] # fd[cur] /\ fd[c] \in Fds
        /\ seq'[cur] = seq[cur] + 1 /\ seq[cur] \in Nat
    BY <1>0, <1>1 DEF TypeOK, Bindings
  <1>5. Lists'
    BY <1>0, <1>1, <1>2 DEF Lists, Listed
  <1>6. Bindings'
    <2>1. \A s \in Fds : interest[s] # None => interest[s].conn \in Conns
      BY DEF TypeOK, Registrations
    <2>2. ASSUME NEW c \in Conns, Served(c)
          PROVE  /\ sock'[fd[c]] # None /\ "IN" \in interest[fd[c]].events \cap events'[c]
                 /\ interest[fd[c]] # None /\ interest[fd[c]].conn = c /\ fd[c] \in Fds
      BY <1>1, <1>4, <2>2 DEF Bindings
    <2>3. ASSUME NEW s \in Fds
          PROVE  /\ interest[s] # None => Served(interest[s].conn)' /\ fd[interest[s].conn] = s
                 /\ sock'[s] # None => interest[s] # None
      BY <1>0, <1>3, <1>4, <2>1 DEF Bindings
    <2>4. \A s, t \in Fds : sock'[s] = sock'[t] /\ sock'[s] # None => s = t
      BY <1>4 DEF Bindings
    <2> QED BY <1>0, <1>3, <2>2, <2>3, <2>4 DEF Bindings
  <1>7. Batch'
    BY <1>0, <1>3, EventTypes DEF Batch
  <1>8. InFlight'
    <2>1. ASSUME NEW m \in Messages, Sound(m) PROVE Sound(m)'
      <3>1. /\ m.conn \in Conns /\ m.seq \in Nat /\ seq[m.conn] \in Nat
            /\ m.from # None
        BY ServerAssumption DEF Messages, TypeOK, Clients
      <3>2. Own(m)'
        BY <1>0, <1>4, <2>1, <3>1 DEF Sound, Own
      <3>3. CASE m.conn = cur
        BY <1>0, <1>4, <2>1, <3>1, <3>2, <3>3 DEF Sound
      <3>4. CASE m.conn # cur
        <4>1. Sender(m) => Sender(m)'
          BY <1>0, <1>3, <1>4, <3>1 DEF Sender
        <4> QED BY <1>4, <2>1, <3>1, <3>2, <3>4, <4>1 DEF Sound
      <3> QED BY <3>3, <3>4
    <2>2. Range(queue) \subseteq Messages
      BY RangeInSet DEF TypeOK
    <2> QED BY <1>0, <2>1, <2>2, HandlerTypes DEF InFlight
  <1>9. Work'
    <2>1. ASSUME NEW h \in Handlers, hpc[h] = "ctl", sock'[hev[h].fd] = hmsg[h].from
          PROVE  hev[h].events = events'[hmsg[h].conn]
      <3>1. hev[h].fd \in Fds /\ hmsg[h].from # None
        BY <2>1, HandlerTypes, ServerAssumption DEF References, Clients
      <3>2. sock[hev[h].fd] = hmsg[h].from
        BY <1>4, <2>1, <3>1
      <3>3. hmsg[h].conn \in Conns /\ hmsg[h].conn # cur /\ hev[h].events = events[hmsg[h].conn]
        BY <1>1, <2>1, <3>2, WorksOnServed
      <3> QED BY <1>4, <3>3
    <2> QED BY <1>0, <2>1 DEF Work, Working
  <1>10. Requests'
    <2>1. \A c \in Conns : Served(c) => c # cur
      BY <1>1
    <2> QED BY <1>0, <1>3, <1>4, <2>1 DEF Requests, Told
  <1> QED BY <1>5, <1>6, <1>7, <1>8, <1>9, <1>10

LEMMA CloseStep == ASSUME SInv, Close PROVE Rest'
  <1> USE DEF SInv, TInv, handler, object, client, Rest
  <1>0. /\ pc = "close" /\ pc' = "recycle"
        /\ sock' = [sock EXCEPT ![fd[cur]] = None] /\ interest' = [interest EXCEPT ![fd[cur]] = None]
        /\ UNCHANGED <<accepted, object, batch, cur, queue, handler>>
    BY DEF Close
  <1>1. /\ Served(cur) /\ cur \in Conns \ Listed /\ fd[cur] \in Fds
        /\ interest[fd[cur]] # None /\ interest[fd[cur]].conn = cur
    BY <1>0 DEF Bindings, Served
  <1>2. /\ Listed' = Listed
        /\ \A c \in Conns : Served(c)' <=> Served(c) /\ c # cur
    BY <1>0 DEF Served, Listed
  <1>3. /\ sock'[fd[cur]] = None /\ interest'[fd[cur]] = None
        /\ \A s \in Fds : s # fd[cur] => sock'[s] = sock[s] /\ interest'[s] = interest[s]
        /\ \A c \in Conns : Served(c) /\ c # cur => fd[c] # fd[cur] /\ fd[c] \in Fds
        /\ \A s \in Fds : interest[s] # None => interest[s].conn \in Conns
    BY <1>0, <1>1 DEF TypeOK, Registrations, Bindings
  <1>5. Lists'
    BY <1>0 DEF Lists
  <1>6. Bindings'
    <2>1. ASSUME NEW c \in Conns, Served(c)'
          PROVE  /\ fd[c] \in Fds /\ sock'[fd[c]] # None /\ interest'[fd[c]] # None
                 /\ interest'[fd[c]].conn = c /\ "IN" \in interest'[fd[c]].events \cap events[c]
      BY <1>2, <1>3, <2>1 DEF Bindings
    <2>2. ASSUME NEW s \in Fds
          PROVE  /\ interest'[s] # None => Served(interest[s].conn)' /\ fd[interest'[s].conn] = s
                 /\ sock'[s] # None => interest'[s] # None
      <3>1. CASE s = fd[cur]
        BY <1>3, <3>1
      <3>2. CASE s # fd[cur]
        <4>1. /\ interest[s] # None => Served(interest[s].conn) /\ fd[interest[s].conn] = s
              /\ sock[s] # None => interest[s] # None
          BY <1>0 DEF Bindings
        <4>2. interest[s] # None => interest[s].conn # cur
          BY <3>2, <4>1
        <4> QED BY <1>2, <1>3, <3>2, <4>1, <4>2
      <3> QED BY <3>1, <3>2
    <2>3. \A s, t \in Fds : sock'[s] = sock'[t] /\ sock'[s] # None => s = t
      BY <1>3 DEF Bindings
    <2> QED BY <1>0, <1>1, <1>2, <1>3, <2>1, <2>2, <2>3 DEF Bindings
  <1>7. Batch'
    BY <1>0, <1>2, EventTypes DEF Batch
  <1>9. InFlight'
    <2>1. ASSUME NEW m \in Messages, Sound(m) PROVE Sound(m)'
      <3>1. m.conn \in Conns /\ m.from # None
        BY ServerAssumption DEF Messages, Clients
      <3>2. Sender(m) => Sender(m)'
        BY <1>0, <1>2, <1>3, <3>1 DEF Sender
      <3>3. Own(m) => Own(m)'
        BY <1>3, <3>1 DEF Own
      <3> QED BY <1>0, <2>1, <3>2, <3>3 DEF Sound
    <2>2. Range(queue) \subseteq Messages
      BY RangeInSet DEF TypeOK
    <2> QED BY <1>0, <2>1, <2>2, HandlerTypes DEF InFlight
  <1>10. Work'
    <2>1. ASSUME NEW h \in Handlers, hpc[h] = "ctl", sock'[hev[h].fd] = hmsg[h].from
          PROVE  sock[hev[h].fd] = hmsg[h].from
      <3>1. hev[h].fd \in Fds /\ hmsg[h].from # None
        BY <2>1, HandlerTypes, ServerAssumption DEF References, Clients
      <3> QED BY <1>3, <2>1, <3>1
    <2> QED BY <1>0, <2>1 DEF Work, Working
  <1>11. Requests'
    BY <1>0, <1>2, <1>3 DEF Requests, Told
  <1> QED BY <1>5, <1>6, <1>7, <1>9, <1>10, <1>11

LEMMA RecycleStep == ASSUME SInv, Recycle PROVE Rest'
  <1> USE DEF SInv, TInv, handler, kernel, client, Rest
  <1>0. /\ pc = "recycle" /\ pc' = "events"
        /\ seq' = [seq EXCEPT ![cur] = seq[cur] + 1] /\ recyList' = Append(recyList, cur)
        /\ UNCHANGED <<accepted, kernel, fd, events, freeList, batch, queue, handler>>
    BY DEF Recycle
  <1>1. cur \in Conns \ Listed /\ ~Served(cur)
    BY <1>0 DEF Bindings, Served
  <1>2. /\ Range(recyList') = Range(recyList) \cup {cur} /\ IsInjective(recyList')
    BY <1>0, <1>1, AppendList DEF Lists, Listed, TypeOK
  <1>3. /\ Listed' = Listed \cup {cur}
        /\ \A c \in Conns : Served(c)' <=> Served(c)
    BY <1>0, <1>1, <1>2 DEF Served, Listed
  <1>4. /\ \A c \in Conns : c # cur => seq'[c] = seq[c]
        /\ seq'[cur] = seq[cur] + 1 /\ seq[cur] \in Nat
        /\ \A s \in Fds : interest[s] # None => interest[s].conn \in Conns
    BY <1>0, <1>1 DEF TypeOK, Registrations
  <1>5. Lists'
    BY <1>0, <1>1, <1>2 DEF Lists, Listed
  <1>6. Bindings'
    BY <1>0, <1>3, <1>4 DEF Bindings
  <1>7. Batch'
    BY <1>0, <1>3, EventTypes DEF Batch
  <1>8. InFlight'
    <2>1. ASSUME NEW m \in Messages, Sound(m) PROVE Sound(m)'
      <3>1. m.conn \in Conns /\ m.seq \in Nat /\ seq[m.conn] \in Nat
        BY DEF Messages, TypeOK
      <3>2. CASE m.conn = cur
        BY <1>0, <1>4, <2>1, <3>1, <3>2 DEF Sound, Own
      <3>3. CASE m.conn # cur
        BY <1>0, <1>3, <1>4, <2>1, <3>1, <3>3 DEF Sound, Sender, Own
      <3> QED BY <3>2, <3>3
    <2>2. Range(queue) \subseteq Messages
      BY RangeInSet DEF TypeOK
    <2> QED BY <1>0, <2>1, <2>2, HandlerTypes DEF InFlight
  <1>9. Work'
    BY <1>0 DEF Work, Working
  <1>10. Requests'
    BY <1>0, <1>3 DEF Requests, Told
  <1> QED BY <1>5, <1>6, <1>7, <1>8, <1>9, <1>10

LEMMA ReleaseStep == ASSUME SInv, Release PROVE Rest'
  <1> USE DEF SInv, TInv, handler, kernel, main, client, Rest
  <1> DEFINE x == Head(recyList)
  <1>0. /\ recyList # <<>>
        /\ seq' = [seq EXCEPT ![x] = seq[x] + 1] /\ recyList' = Tail(recyList)
        /\ freeList' = Append(freeList, x)
        /\ UNCHANGED <<accepted, kernel, fd, events, batch, pc, cur, queue, handler>>
    BY DEF Release
  <1>1. /\ Range(recyList') = Range(recyList) \ {x} /\ IsInjective(recyList')
        /\ x \in Range(recyList) /\ x \in Conns
    BY <1>0, TailList DEF Lists, TypeOK
  <1> HIDE DEF x
  <1>2. /\ Range(freeList') = Range(freeList) \cup {x} /\ IsInjective(freeList')
    BY <1>0, <1>1, AppendList DEF Lists, TypeOK
  <1>3. /\ Listed' = Listed /\ ~Served(x)
        /\ \A c : Served(c)' <=> Served(c)
    BY <1>0, <1>1, <1>2 DEF Served, Listed
  <1>4. /\ \A c \in Conns : c # x => seq'[c] = seq[c]
        /\ seq'[x] = seq[x] + 1 /\ seq[x] \in Nat
    BY <1>0, <1>1 DEF TypeOK
  <1>5. Lists'
    BY <1>0, <1>1, <1>2 DEF Lists
  <1>6. Bindings' /\ Batch' /\ Requests'
    BY <1>0, <1>3 DEF Bindings, Batch, Requests, Told
  <1>8. InFlight'
    <2>1. ASSUME NEW m \in Messages, Sound(m) PROVE Sound(m)'
      <3>1. m.conn \in Conns /\ m.seq \in Nat /\ seq[m.conn] \in Nat
        BY DEF Messages, TypeOK
      <3>2. CASE m.conn = x
        BY <1>0, <1>4, <2>1, <3>1, <3>2 DEF Sound, Own
      <3>3. CASE m.conn # x
        BY <1>0, <1>3, <1>4, <2>1, <3>1, <3>3 DEF Sound, Sender, Own
      <3> QED BY <3>2, <3>3
    <2>2. Range(queue) \subseteq Messages
      BY RangeInSet DEF TypeOK
    <2> QED BY <1>0, <2>1, <2>2, HandlerTypes DEF InFlight
  <1>9. Work'
    BY <1>0 DEF Work, Working
  <1> QED BY <1>5, <1>6, <1>8, <1>9

LEMMA AcceptStep == ASSUME SInv, NEW e \in batch, Accept(e) PROVE Rest'
  <1> USE DEF SInv, TInv, handler, client, Rest
  <1> DEFINE c == Head(freeList)
  <1>0. /\ pc = "events" /\ pc' = "add" /\ cur' = c /\ freeList # <<>> /\ freeList' = Tail(freeList)
        /\ seq' = [seq EXCEPT ![c] = seq[c] + 1] /\ events' = [events EXCEPT ![c] = {}]
        /\ accepted' = accepted + 1 /\ batch' \subseteq batch
        /\ UNCHANGED <<interest, recyList, queue, handler>>
    BY DEF Accept
  <1>1. PICK s \in Fds : /\ sock[s] = None
                         /\ sock' = [sock EXCEPT ![s] = accepted + 1] /\ fd' = [fd EXCEPT ![c] = s]
    BY DEF Accept
  <1>2. /\ Range(freeList') = Range(freeList) \ {c} /\ IsInjective(freeList')
        /\ c \in Range(freeList) /\ c \in Conns
    BY <1>0, TailList DEF Lists, TypeOK
  <1> HIDE DEF c
  <1>3. /\ Listed' = Listed \ {c} /\ c \in Listed /\ ~Served(c)
        /\ \A x \in Conns : Served(x)' <=> Served(x)
    BY <1>0, <1>2 DEF Served, Listed, Lists
  <1>4. /\ \A x \in Conns : x # c => fd'[x] = fd[x] /\ seq'[x] = seq[x] /\ events'[x] = events[x]
        /\ fd'[c] = s /\ seq'[c] = seq[c] + 1 /\ seq[c] \in Nat
        /\ \A t \in Fds : t # s => sock'[t] = sock[t]
        /\ sock'[s] = accepted + 1 /\ accepted \in Nat
    BY <1>0, <1>1, <1>2 DEF TypeOK
  <1>5. /\ \A x \in Conns : Served(x) => x # c /\ fd[x] # s /\ fd[x] \in Fds
        /\ \A t \in Fds : interest[t] # None => interest[t].conn \in Conns /\ interest[t].conn # c
        /\ interest[s] = None
    <2>1. \A t \in Fds : interest[t] # None =>
            /\ interest[t].conn \in Conns /\ Served(interest[t].conn) /\ fd[interest[t].conn] = t
      BY DEF Bindings, TypeOK, Registrations
    <2>2. \A x \in Conns : Served(x) => x # c /\ fd[x] \in Fds /\ sock[fd[x]] # None
      BY <1>3 DEF Bindings
    <2>3. interest[s] = None
      BY <1>1, <2>1, <2>2
    <2> QED BY <1>1, <2>1, <2>2, <2>3
  <1>6. Lists'
    BY <1>0, <1>2 DEF Lists
  <1>7. Bindings'
    <2>1. ASSUME NEW x \in Conns, Served(x)
          PROVE  /\ fd'[x] \in Fds /\ sock'[fd'[x]] # None /\ interest[fd'[x]] # None
                 /\ interest[fd'[x]].conn = x /\ "IN" \in interest[fd'[x]].events \cap events'[x]
      BY <1>4, <1>5, <2>1 DEF Bindings
    <2>2. ASSUME NEW t \in Fds
          PROVE  /\ interest[t] # None => Served(interest[t].conn) /\ fd'[interest[t].conn] = t
                 /\ sock'[t] # None /\ interest[t] = None => t = s
      BY <1>0, <1>4, <1>5, <2>1 DEF Bindings
    <2>3. \A t \in Fds : t # s /\ sock'[t] # None => sock'[t] # accepted + 1
      <3>1. \A t \in Fds : sock[t] # None => sock[t] \in Nat /\ sock[t] <= accepted
        BY DEF TypeOK, References, Clients
      <3> QED BY <1>4, <3>1
    <2>4. \A t, u \in Fds : sock'[t] = sock'[u] /\ sock'[t] # None => t = u
      BY <1>4, <2>3 DEF Bindings
    <2>5. \A t \in Fds : interest[t] # None => Served(interest[t].conn)'
      BY <1>0, <1>3, <1>5, <2>2
    <2>6. c \in Conns \ Listed' /\ s \in Fds /\ sock'[s] # None
      BY <1>2, <1>3, <1>4, ServerAssumption
    <2> QED BY <1>0, <1>3, <1>4, <1>5, <2>1, <2>2, <2>4, <2>5, <2>6 DEF Bindings
  <1>8. Batch'
    <2>1. ASSUME NEW d \in batch', d.conn # Listen
          PROVE  d.conn \in Conns /\ Served(d.conn)' /\ fd'[d.conn] = d.fd
      <3>1. d \in batch /\ d.conn \in Conns /\ Served(d.conn) /\ fd[d.conn] = d.fd
        BY <1>0, <2>1, EventTypes DEF Batch
      <3> QED BY <1>3, <1>4, <1>5, <3>1
    <2> QED BY <1>0, <2>1 DEF Batch
  <1>9. ASSUME NEW m \in Messages, m.from <= accepted
        PROVE  \A t \in Fds : sock'[t] = m.from => t # s /\ sock[t] = m.from
    <2>1. m.from \in Nat /\ m.from # accepted + 1
      BY <1>4, <1>9 DEF Messages, Clients
    <2> QED BY <1>4, <2>1
  <1>10. InFlight'
    <2>1. ASSUME NEW m \in Messages, m.from <= accepted, Sound(m) PROVE Sound(m)'
      <3>1. m.conn \in Conns /\ m.seq \in Nat /\ seq[m.conn] \in Nat
        BY DEF Messages, TypeOK
      <3>2. Own(m)'
        BY <1>0, <1>9, <2>1 DEF Sound, Own
      <3>3. CASE m.conn = c
        BY <1>4, <2>1, <3>1, <3>2, <3>3 DEF Sound
      <3>4. CASE m.conn # c
        <4>1. Sender(m) => Sender(m)'
          BY <1>0, <1>3, <1>4, <1>5, <3>1 DEF Sender
        <4> QED BY <1>4, <2>1, <3>1, <3>2, <3>4, <4>1 DEF Sound
      <3> QED BY <3>3, <3>4
    <2>2. \A m \in Range(queue) : m \in Messages /\ m.from <= accepted
      BY RangeInSet DEF TypeOK, References
    <2> QED BY <1>0, <2>1, <2>2, HandlerTypes DEF InFlight
  <1>11. Work'
    <2>1. ASSUME NEW h \in Handlers, hpc[h] = "ctl", sock'[hev[h].fd] = hmsg[h].from
          PROVE  hev[h].events = events'[hmsg[h].conn]
      <3>1. hev[h].fd \in Fds /\ hmsg[h] \in Messages /\ hmsg[h].from <= accepted
        BY <2>1, HandlerTypes DEF References
      <3>2. sock[hev[h].fd] = hmsg[h].from
        BY <1>9, <2>1, <3>1
      <3>3. /\ hmsg[h].conn \in Conns /\ hmsg[h].conn # c
            /\ hev[h].events = events[hmsg[h].conn]
        BY <1>5, <2>1, <3>2, WorksOnServed
      <3> QED BY <1>4, <3>3
    <2> QED BY <1>0, <2>1 DEF Work, Working
  <1>12. Requests'
    BY <1>0, <1>3, <1>4, <1>5 DEF Requests, Told
  <1> QED BY <1>6, <1>7, <1>8, <1>10, <1>11, <1>12

LEMMA ReadStep == ASSUME SInv, NEW e \in batch, Read(e) PROVE Rest'
  <1> USE DEF SInv, TInv, handler, kernel, object, client, Rest
  <1> DEFINE m == [conn |-> e.conn, seq |-> seq[e.conn], from |-> sock[fd[e.conn]]]
  <1>0. /\ queue' = Append(queue, m) /\ batch' \subseteq batch /\ e.conn # Listen
        /\ sock[fd[e.conn]] # None
        /\ UNCHANGED <<accepted, kernel, object, pc, cur, handler>>
    BY DEF Read
  <1>1. /\ e.conn \in Conns /\ Served(e.conn) /\ sock[fd[e.conn]] \in Clients
        /\ fd[e.conn] \in Fds /\ interest[fd[e.conn]] # None /\ interest[fd[e.conn]].conn = e.conn
    BY <1>0, EventTypes DEF Batch, Bindings
  <1>2. m \in Messages /\ Sound(m)
    <2>1. m.conn = e.conn /\ m.seq = seq[e.conn] /\ m.from = sock[fd[e.conn]] /\ seq[e.conn] \in Nat
      BY <1>1 DEF TypeOK
    <2>2. Own(m)
      BY <1>0, <1>1, <2>1 DEF Own, Bindings
    <2>3. Sender(m)
      BY <1>1, <2>1 DEF Sender
    <2> QED BY <1>1, <2>1, <2>2, <2>3 DEF Sound, Messages
  <1> HIDE DEF m
  <1>3. Range(queue') = Range(queue) \cup {m}
    BY <1>0, <1>2, AppendList DEF TypeOK
  <1>4. Listed' = Listed /\ \A x : Served(x)' <=> Served(x)
    BY <1>0 DEF Served, Listed
  <1>5. \A x : Sound(x)' <=> Sound(x)
    BY <1>0, <1>4 DEF Sound, Sender, Own
  <1>6. InFlight'
    BY <1>0, <1>2, <1>3, <1>5 DEF InFlight
  <1>7. Lists' /\ Batch' /\ Work' /\ Requests'
    BY <1>0, <1>4 DEF Lists, Batch, Work, Working, Requests, Told
  <1>8. Bindings'
    BY <1>0, <1>4 DEF Bindings
  <1> QED BY <1>6, <1>7, <1>8

LEMMA ReadFailsStep == ASSUME SInv, NEW e \in batch, ReadFails(e) PROVE Rest'
  <1> USE DEF SInv, TInv, handler, kernel, object, client, Rest
  <1>0. /\ batch' = batch \ {e} /\ e.conn # Listen /\ pc = "events"
        /\ UNCHANGED <<accepted, kernel, object, queue, handler>>
        /\ UNCHANGED <<pc, cur>> \/ (pc' = "close" /\ cur' = e.conn)
    BY DEF ReadFails
  <1>1. CASE UNCHANGED <<pc, cur>>
    <2>1. batch' \subseteq batch
      BY <1>0
    <2> QED BY <1>0, <1>1, <2>1, QuietStep
  <1>2. CASE pc' = "close" /\ cur' = e.conn
    <2>1. e.conn \in Conns /\ Served(e.conn) /\ e = [fd |-> fd[e.conn], conn |-> e.conn]
      BY <1>0, EventTypes DEF Batch
    <2>2. Listed' = Listed /\ \A x : Served(x)' <=> Served(x)
      BY <1>0, <1>2 DEF Served, Listed
    <2>3. \A x : Sound(x)' <=> Sound(x)
      BY <1>0, <1>2, <2>2 DEF Sound, Sender, Own
    <2>4. Lists' /\ InFlight' /\ Work' /\ Requests'
      BY <1>0, <1>2, <2>2, <2>3 DEF Lists, InFlight, Work, Working, Requests, Told
    <2>5. Bindings'
      BY <1>0, <1>2, <2>1, <2>2 DEF Bindings
    <2>6. Batch'
      <3>1. ASSUME NEW d \in batch', d.conn # Listen
            PROVE  Served(d.conn)' /\ fd[d.conn] = d.fd /\ d.conn # e.conn
        <4>1. d \in batch /\ d # e
          BY <1>0
        <4>2. Served(d.conn) /\ d = [fd |-> fd[d.conn], conn |-> d.conn] /\ d.fd = fd[d.conn]
          BY <3>1, <4>1, EventTypes DEF Batch
        <4> QED BY <2>1, <2>2, <4>1, <4>2
      <3> QED BY <1>0, <1>2, <3>1 DEF Batch
    <2> QED BY <2>4, <2>5, <2>6
  <1> QED BY <1>0, <1>1, <1>2

(* The steps of a handler.                                                 *)
LEMMA HandlerQuiet ==
  ASSUME SInv, UNCHANGED <<accepted, kernel, object, main>>
  PROVE  /\ Lists' /\ Bindings' /\ Batch'
         /\ \A x : (Served(x)' <=> Served(x)) /\ (Sound(x)' <=> Sound(x))
  <1> USE DEF SInv, Rest, kernel, object, main
  <1>1. Listed' = Listed /\ \A x : Served(x)' <=> Served(x)
    BY DEF Served, Listed
  <1>2. \A x : Sound(x)' <=> Sound(x)
    BY <1>1 DEF Sound, Sender, Own
  <1> QED BY <1>1, <1>2 DEF Lists, Bindings, Batch

LEMMA TakeStep == ASSUME SInv, NEW h \in Handlers, Take(h) PROVE Rest'
  <1> USE DEF SInv, TInv, Rest
  <1>0. /\ hpc[h] = "idle" /\ queue # <<>> /\ hmsg' = [hmsg EXCEPT ![h] = Head(queue)]
        /\ queue' = Tail(queue) /\ hpc' = [hpc EXCEPT ![h] = "check"]
        /\ UNCHANGED <<accepted, kernel, object, main, hev, answered>>
    BY DEF Take, client
  <1>1. /\ Head(queue) \in Range(queue)
        /\ Range(queue') \subseteq Range(queue)
    BY <1>0, HeadTail DEF TypeOK
  <1>2. /\ hpc'[h] = "check" /\ hmsg'[h] = Head(queue)
        /\ \A g \in Handlers : g # h => hpc'[g] = hpc[g] /\ hmsg'[g] = hmsg[g]
    BY <1>0 DEF TypeOK
  <1>3. /\ Lists' /\ Bindings' /\ Batch'
        /\ \A x : (Served(x)' <=> Served(x)) /\ (Sound(x)' <=> Sound(x))
    BY <1>0, HandlerQuiet
  <1>4. InFlight'
    BY <1>0, <1>1, <1>2, <1>3 DEF InFlight
  <1>5. Work'
    BY <1>0, <1>2 DEF Work, Working, kernel, object
  <1>6. Requests'
    <2>1. \A x : Told(x)' <=> Told(x)
      BY <1>0, <1>2 DEF Told, object
    <2> QED BY <1>0, <1>3, <2>1 DEF Requests, kernel, object
  <1> QED BY <1>3, <1>4, <1>5, <1>6

LEMMA CheckStep == ASSUME SInv, NEW h \in Handlers, Check(h) PROVE Rest'
  <1> USE DEF SInv, TInv, Rest
  <1>0. /\ hpc[h] = "check" /\ hpc' = [hpc EXCEPT ![h] = "lock"]
        /\ answered' = answered \cup {hmsg[h].from}
        /\ UNCHANGED <<accepted, kernel, object, main, queue, hmsg, hev>>
    BY DEF Check, client
  <1>2. /\ hpc'[h] = "lock"
        /\ \A g \in Handlers : g # h => hpc'[g] = hpc[g]
    BY <1>0 DEF TypeOK
  <1>3. /\ Lists' /\ Bindings' /\ Batch'
        /\ \A x : (Served(x)' <=> Served(x)) /\ (Sound(x)' <=> Sound(x))
    BY <1>0, HandlerQuiet
  <1>4. InFlight'
    BY <1>0, <1>2, <1>3 DEF InFlight
  <1>5. Work'
    BY <1>0, <1>2 DEF Work, Working, kernel, object
  <1>6. Requests'
    <2>1. \A x : Told(x)' <=> Told(x)
      BY <1>0, <1>2 DEF Told, object
    <2> QED BY <1>0, <1>3, <2>1 DEF Requests, kernel, object
  <1> QED BY <1>3, <1>4, <1>5, <1>6

LEMMA IgnoreStep == ASSUME SInv, NEW h \in Handlers, Ignore(h) PROVE Rest'
  <1> USE DEF SInv, TInv, Rest
  <1>0. /\ hpc[h] = "check" /\ hpc' = [hpc EXCEPT ![h] = "idle"] /\ hmsg' = [hmsg EXCEPT ![h] = None]
        /\ UNCHANGED <<accepted, kernel, object, main, queue, hev, answered>>
    BY DEF Ignore, client
  <1>2. /\ hpc'[h] = "idle"
        /\ \A g \in Handlers : g # h => hpc'[g] = hpc[g] /\ hmsg'[g] = hmsg[g]
    BY <1>0 DEF TypeOK
  <1>3. /\ Lists' /\ Bindings' /\ Batch'
        /\ \A x : (Served(x)' <=> Served(x)) /\ (Sound(x)' <=> Sound(x))
    BY <1>0, HandlerQuiet
  <1>4. InFlight'
    BY <1>0, <1>2, <1>3 DEF InFlight
  <1>5. Work'
    BY <1>0, <1>2 DEF Work, Working, kernel, object
  <1>6. Requests'
    <2>1. \A x : Told(x)' <=> Told(x)
      BY <1>0, <1>2 DEF Told, object
    <2> QED BY <1>0, <1>3, <2>1 DEF Requests, kernel, object
  <1> QED BY <1>3, <1>4, <1>5, <1>6

LEMMA LockStep == ASSUME SInv, NEW h \in Handlers, LockConn(h) PROVE Rest'
  <1> USE DEF SInv, TInv, Rest
  <1>0. /\ hpc[h] = "lock" /\ hpc' = [hpc EXCEPT ![h] = "prepare"]
        /\ \A g \in Handlers : hpc[g] \in {"prepare", "ctl"} => hmsg[g].conn # hmsg[h].conn
        /\ UNCHANGED <<accepted, kernel, object, main, queue, hmsg, hev, answered>>
    BY DEF LockConn, client
  <1>2. /\ hpc'[h] = "prepare"
        /\ \A g \in Handlers : g # h => hpc'[g] = hpc[g]
    BY <1>0 DEF TypeOK
  <1>3. /\ Lists' /\ Bindings' /\ Batch'
        /\ \A x : (Served(x)' <=> Served(x)) /\ (Sound(x)' <=> Sound(x))
    BY <1>0, HandlerQuiet
  <1>4. InFlight'
    BY <1>0, <1>2, <1>3 DEF InFlight
  <1>5. Work'
    BY <1>0, <1>2 DEF Work, Working, kernel, object
  <1>6. Requests'
    <2>1. \A x : Told(x)' <=> Told(x)
      BY <1>0, <1>2 DEF Told, object
    <2> QED BY <1>0, <1>3, <2>1 DEF Requests, kernel, object
  <1> QED BY <1>3, <1>4, <1>5, <1>6

LEMMA PrepareStep == ASSUME SInv, NEW h \in Handlers, Prepare(h) PROVE Rest'
  <1> USE DEF SInv, TInv, Rest, kernel, main
  <1> DEFINE c == hmsg[h].conn
  <1>0. /\ hpc[h] = "prepare" /\ hpc' = [hpc EXCEPT ![h] = "ctl"]
        /\ events' = [events EXCEPT ![c] = events[c] \cup {"OUT"}]
        /\ hev' = [hev EXCEPT ![h] = [fd |-> fd[c], events |-> events'[c]]]
        /\ UNCHANGED <<accepted, kernel, fd, seq, freeList, recyList, main, queue, hmsg, answered>>
    BY DEF Prepare, client
  <1>1. c \in Conns
    BY <1>0, HandlerTypes
  <1>2. /\ hpc'[h] = "ctl" /\ hev'[h] = [fd |-> fd[c], events |-> events'[c]]
        /\ \A g \in Handlers : g # h => hpc'[g] = hpc[g] /\ hev'[g] = hev[g]
    BY <1>0 DEF TypeOK
  <1>3. events'[c] = events[c] \cup {"OUT"} /\ \A x \in Conns : x # c => events'[x] = events[x]
    BY <1>0, <1>1 DEF TypeOK
  <1>4. Listed' = Listed /\ \A x : Served(x)' <=> Served(x)
    BY <1>0 DEF Served, Listed
  <1>5. \A x : Sound(x)' <=> Sound(x)
    BY <1>0, <1>4 DEF Sender, Sound, Own
  <1>6. Lists' /\ Batch'
    BY <1>0, <1>4 DEF Lists, Batch
  <1>7. Bindings'
    <2>1. \A x \in Conns : events[x] \subseteq events'[x]
      BY <1>3
    <2> QED BY <1>0, <1>4, <2>1 DEF Bindings
  <1>8. InFlight'
    BY <1>0, <1>2, <1>5 DEF InFlight
  <1>9. Work'
    <2>1. \A g \in Handlers : g # h /\ hpc[g] = "ctl" => hmsg[g].conn \in Conns /\ hmsg[g].conn # c
      BY <1>0, HandlerTypes DEF Work
    <2>2. ASSUME NEW g \in Handlers, hpc'[g] = "ctl", sock[hev'[g].fd] = hmsg[g].from
          PROVE  hev'[g].events = events'[hmsg[g].conn]
      <3>1. CASE g = h
        BY <1>2, <3>1
      <3>2. CASE g # h
        <4>1. hev[g].events = events[hmsg[g].conn]
          BY <1>2, <2>2, <3>2 DEF Work
        <4> QED BY <1>2, <1>3, <2>1, <2>2, <3>2, <4>1
      <3> QED BY <3>1, <3>2
    <2>3. \A g \in Handlers : /\ Working(g)' <=> Working(g)
                              /\ hpc'[g] \in {"prepare", "ctl"} <=> hpc[g] \in {"prepare", "ctl"}
      BY <1>0, <1>2 DEF Working
    <2> QED BY <1>0, <2>2, <2>3 DEF Work
  <1>10. Requests'
    <2>1. ASSUME NEW x \in Conns, Served(x)
          PROVE  Told(x)' => interest[fd[x]].events = events'[x]
      <3>1. CASE x = c
        BY <1>0, <1>2, <3>1 DEF Told
      <3>2. CASE x # c
        <4>1. Told(x)' <=> Told(x)
          BY <1>0, <1>2, <3>2 DEF Told
        <4> QED BY <1>3, <2>1, <3>2, <4>1 DEF Requests
      <3> QED BY <3>1, <3>2
    <2> QED BY <1>0, <1>4, <2>1 DEF Requests
  <1> QED BY <1>6, <1>7, <1>8, <1>9, <1>10

(* The step that may go wrong: unless it does, what it changes is the      *)
(* registration of the object that the message was read by.                *)
LEMMA CtlStep == ASSUME SInv, NEW h \in Handlers, Ctl(h), ~misdirected' PROVE Rest'
  <1> USE DEF SInv, TInv, Rest, object, main
  <1> DEFINE c == hmsg[h].conn
             s == hev[h].fd
             r == [conn |-> c, events |-> hev[h].events]
  <1>0. /\ hpc[h] = "ctl" /\ hpc' = [hpc EXCEPT ![h] = "idle"] /\ hmsg' = [hmsg EXCEPT ![h] = None]
        /\ UNCHANGED <<accepted, sock, object, main, queue, answered>>
        /\ hev' = [hev EXCEPT ![h] = None]
        /\ interest' = [interest EXCEPT ![s] = IF interest[s] = None THEN None ELSE r]
        /\ interest[s] # None => sock[s] = hmsg[h].from
    BY DEF Ctl, client
  <1>1. /\ c \in Conns /\ s \in Fds /\ hev[h].events \in SUBSET {"IN", "OUT"}
        /\ hmsg[h].from \in answered /\ Own(hmsg[h])
    BY <1>0, HandlerTypes DEF References, Work, Working, InFlight, Sound
  <1>2. /\ hpc'[h] = "idle"
        /\ \A g \in Handlers : g # h => hpc'[g] = hpc[g] /\ hmsg'[g] = hmsg[g] /\ hev'[g] = hev[g]
    BY <1>0 DEF TypeOK
  <1>3. r # None /\ r.conn = c /\ r.events = hev[h].events
    <2>1. r \in Registrations
      BY <1>1 DEF Registrations
    <2> QED BY <2>1, ServerAssumption
  <1>4. /\ interest'[s] = IF interest[s] = None THEN None ELSE r
        /\ \A t \in Fds : t # s => interest'[t] = interest[t]
    BY <1>0, <1>1 DEF TypeOK
  <1>5. interest[s] # None => /\ interest[s].conn = c /\ r.events = events[c]
                              /\ sock[s] \in answered
    BY <1>0, <1>1, <1>3 DEF Own, Work
  <1> HIDE DEF s, r
  <1>6. Listed' = Listed /\ \A x : Served(x)' <=> Served(x)
    BY <1>0 DEF Served, Listed
  <1>7. \A t \in Fds : /\ interest'[t] = None <=> interest[t] = None
                       /\ interest[t] # None => interest'[t].conn = interest[t].conn
    BY <1>1, <1>3, <1>4, <1>5
  <1>8. \A x : Sound(x)' <=> Sound(x)
    <2>1. \A x : Own(x)' <=> Own(x)
      BY <1>0, <1>7 DEF Own
    <2> QED BY <1>0, <1>6, <2>1 DEF Sender, Sound
  <1>9. Lists' /\ Batch'
    BY <1>0, <1>6 DEF Lists, Batch
  <1>10. Bindings'
    <2>1. ASSUME NEW x \in Conns, Served(x)
          PROVE  "IN" \in interest'[fd[x]].events
      <3>1. fd[x] \in Fds /\ interest[fd[x]] # None /\ interest[fd[x]].conn = x
            /\ "IN" \in interest[fd[x]].events \cap events[x]
        BY <2>1 DEF Bindings
      <3>2. CASE fd[x] = s
        BY <1>4, <1>5, <3>1, <3>2
      <3>3. CASE fd[x] # s
        BY <1>4, <3>1, <3>3
      <3> QED BY <3>2, <3>3
    <2>2. \A t \in Fds : interest[t] # None => Served(interest'[t].conn) /\ fd[interest'[t].conn] = t
      BY <1>7 DEF Bindings
    <2>3. \A t \in Fds : interest[t] # None => Served(interest[t].conn)'
      BY <1>6, <1>7, <2>2
    <2>4. \A x \in Conns : Served(x) =>
            interest'[fd[x]] # None /\ interest'[fd[x]].conn = x
      BY <1>7 DEF Bindings
    <2> QED BY <1>0, <1>6, <1>7, <2>1, <2>2, <2>3, <2>4 DEF Bindings
  <1>11. InFlight'
    BY <1>0, <1>2, <1>8 DEF InFlight
  <1>12. Work'
    BY <1>0, <1>2 DEF Work, Working
  <1>13. Requests'
    <2>1. ASSUME NEW x \in Conns, Served(x)
          PROVE  /\ Told(x)' => interest'[fd[x]].events = events[x]
                 /\ "OUT" \in interest'[fd[x]].events => sock[fd[x]] \in answered
      <3>1. fd[x] \in Fds /\ interest[fd[x]] # None /\ interest[fd[x]].conn = x
        BY <2>1 DEF Bindings
      <3>2. CASE fd[x] = s
        BY <1>4, <1>5, <3>1, <3>2
      <3>3. CASE fd[x] # s
        <4>1. Told(x)' => Told(x)
          BY <1>0, <1>2, <3>3 DEF Told, s
        <4> QED BY <1>4, <2>1, <3>1, <3>3, <4>1 DEF Requests
      <3> QED BY <3>2, <3>3
    <2> QED BY <1>0, <1>6, <2>1 DEF Requests
  <1> QED BY <1>9, <1>10, <1>11, <1>12, <1>13

LEMMA SInvStep == TInv /\ (misdirected \/ Rest) /\ [Next]_vars => TInv' /\ (misdirected \/ Rest)'
  <1> SUFFICES ASSUME TInv, misdirected \/ Rest, [Next]_vars
               PROVE  TInv' /\ (misdirected \/ Rest)'
    OBVIOUS
  <1>0. TInv'
    BY TypesStep, ReferencesStep DEF TInv
  <1>1. CASE misdirected
    <2>1. misdirected'
      BY <1>1 DEF Next, ngx_epoll_process_events, Environment, threadRecvProcFunc,
                  EpollWait, Add, AddFails, Close, Recycle, Release, Accept, AcceptFails,
                  Read, ReadFails, Connect, TakenElsewhere, Send, Leave, Take, Check, Ignore,
                  LockConn, Prepare, Ctl, vars, handler
    <2> QED BY <1>0, <2>1
  <1>2. CASE Rest
    <2>0. SInv
      BY <1>2 DEF SInv
    <2>1. CASE Connect \/ TakenElsewhere \/ (\E k \in Clients : Send(k) \/ Leave(k)) \/ UNCHANGED vars
      <3>1. UNCHANGED <<kernel, object, pc, cur, queue, handler>> /\ batch' \subseteq batch
        BY <2>1 DEF Connect, TakenElsewhere, Send, Leave, vars, client, main
      <3> QED BY <1>0, <2>0, <3>1, QuietStep
    <2>2. ASSUME NEW e \in batch, AcceptFails(e) PROVE Rest'
      <3>1. UNCHANGED <<kernel, object, pc, cur, queue, handler>> /\ batch' \subseteq batch
        BY <2>2 DEF AcceptFails, client
      <3> QED BY <2>0, <3>1, QuietStep
    <2>3. ASSUME NEW e \in batch, Accept(e) \/ Read(e) \/ ReadFails(e) PROVE Rest'
      BY <2>0, <2>3, AcceptStep, ReadStep, ReadFailsStep
    <2>4. CASE EpollWait \/ Add \/ AddFails \/ Close \/ Recycle \/ Release
      BY <1>0, <2>0, <2>4, EpollWaitStep, AddStep, AddFailsStep, CloseStep, RecycleStep, ReleaseStep
    <2>5. ASSUME NEW h \in Handlers,
                 Take(h) \/ Check(h) \/ Ignore(h) \/ LockConn(h) \/ Prepare(h) \/ Ctl(h)
          PROVE  misdirected' \/ Rest'
      BY <2>0, <2>5, TakeStep, CheckStep, IgnoreStep, LockStep, PrepareStep, CtlStep
    <2> QED BY <1>0, <2>1, <2>2, <2>3, <2>4, <2>5, NextCases
  <1> QED BY <1>1, <1>2

LEMMA SInvInit == Init => TInv /\ Rest
  <1> SUFFICES ASSUME Init PROVE TInv /\ Rest
    OBVIOUS
  <1> USE ServerAssumption
  <1>1. /\ freeList \in Seq(Conns) /\ Range(freeList) = Conns /\ IsInjective(freeList)
    BY SetToSeqList DEF Init
  <1>2. recyList = <<>> /\ recyList \in Seq(Conns) /\ Range(recyList) = {} /\ IsInjective(recyList)
    BY DEF Init, Range, IsInjective
  <1>3. TypeOK
    <2>1. /\ sent \in [Clients -> Nat] /\ pending \in [Clients -> Nat]
          /\ \A k \in Clients : sent[k] <= MaxSend[k] /\ pending[k] <= sent[k]
      <3>1. \A k \in Clients : MaxSend[k] \in Nat
        BY DEF Clients
      <3> QED BY <3>1 DEF Init
    <2>2. /\ sock \in [Fds -> Clients \cup {None}] /\ interest \in [Fds -> Registrations \cup {None}]
          /\ fd \in [Conns -> Fds \cup {None}] /\ seq \in [Conns -> Nat]
          /\ events \in [Conns -> SUBSET {"IN", "OUT"}]
      BY DEF Init
    <2>3. /\ hpc \in [Handlers -> {"idle", "check", "lock", "prepare", "ctl"}]
          /\ hmsg \in [Handlers -> Messages \cup {None}]
          /\ hev \in [Handlers -> [fd : Fds \cup {None}, events : SUBSET {"IN", "OUT"}] \cup {None}]
          /\ queue \in Seq(Messages)
      BY DEF Init
    <2>4. /\ arrived \in 0 .. NClients /\ accepted \in 0 .. arrived
          /\ gone \subseteq 1 .. arrived /\ answered \subseteq 1 .. accepted
          /\ batch \subseteq [fd : Fds \cup {None}, conn : Conns \cup {Listen}]
          /\ pc \in {"events", "add", "close", "recycle"} /\ cur \in Conns \cup {None}
      BY DEF Init
    <2>5. misdirected \in BOOLEAN
      BY DEF Init
    <2> QED BY <1>1, <1>2, <2>1, <2>2, <2>3, <2>4, <2>5 DEF TypeOK
  <1>4. \A c : ~Served(c)
    BY <1>1 DEF Served, Listed
  <1>5. Lists /\ Bindings /\ Batch /\ Requests
    BY <1>1, <1>2, <1>4 DEF Lists, Bindings, Batch, Requests, Init
  <1>6. InFlight /\ Work /\ References
    BY DEF InFlight, Work, Working, References, Init, Range
  <1> QED BY <1>3, <1>5, <1>6 DEF TInv, Rest

LEMMA Invariant == Spec => []TInv /\ [](misdirected \/ Rest)
  <1> QED BY SInvInit, SInvStep, PTL DEF Spec

-----------------------------------------------------------------------------
(* However late the handlers are, the tables of the kernel, the objects    *)
(* and the messages keep their types, and no client answered, served or    *)
(* gone is one that never came.                                            *)
THEOREM TypeCorrect == Spec => []TypeOK
  <1>1. TInv => TypeOK
    BY DEF TInv
  <1> QED BY <1>1, Invariant, PTL

(* The theorems that follow are about every execution, with no assumption  *)
(* on the speed of a thread.  Each says: as long as no EPOLL_CTL_MOD has   *)
(* reached the registration of a client it was not meant for               *)
(* (_HandleRegister(), after the test of the sequence number), ...         *)

(* ... every event still to be processed leads to the object that serves   *)
(* the client whose descriptor it came from (the comment in                *)
(* ngx_epoll_process_events() takes this for granted).                     *)
THEOREM EventsAreFresh == Spec => [](misdirected \/ NoStaleEvent)
  <1>1. Rest => NoStaleEvent
    BY DEF Rest, Batch, NoStaleEvent, Served, Listed, InUse
  <1> QED BY <1>1, Invariant, PTL

(* ... no object is put on a list while it is on one: it is never given to *)
(* two clients at a time.                                                  *)
THEOREM ListedOnce == Spec => [](misdirected \/ RecycledOnce)
  <1>1. ASSUME TInv, Rest, NEW c \in Conns
        PROVE  Cardinality({i \in DOMAIN freeList : freeList[i] = c})
                 + Cardinality({i \in DOMAIN recyList : recyList[i] = c}) <= 1
    <2>1. Cardinality({i \in DOMAIN freeList : freeList[i] = c}) = IF c \in Range(freeList) THEN 1 ELSE 0
      BY <1>1, CountInList DEF TInv, Rest, TypeOK, Lists
    <2>2. Cardinality({i \in DOMAIN recyList : recyList[i] = c}) = IF c \in Range(recyList) THEN 1 ELSE 0
      BY <1>1, CountInList DEF TInv, Rest, TypeOK, Lists
    <2>3. ~(c \in Range(freeList) /\ c \in Range(recyList))
      BY <1>1 DEF Rest, Lists
    <2> QED BY <2>1, <2>2, <2>3
  <1>2. TInv /\ Rest => RecycledOnce
    BY <1>1 DEF RecycledOnce
  <1> QED BY <1>2, Invariant, PTL

(* ... every client that was accepted has a registered object of its own,  *)
(* and the object says what epoll was told.                                *)
THEOREM EverybodyRegistered == Spec => [](misdirected \/ NobodyForgotten)
  <1>1. ASSUME Rest, NEW s \in Fds, pc = "events", sock[s] # None
        PROVE  /\ interest[s] # None /\ "IN" \in interest[s].events
               /\ InUse(interest[s].conn) /\ fd[interest[s].conn] = s
    <2>1. interest[s] # None /\ Served(interest[s].conn) /\ fd[interest[s].conn] = s
      BY <1>1 DEF Rest, Bindings
    <2>2. "IN" \in interest[fd[interest[s].conn]].events
      BY <1>1, <2>1 DEF Rest, Bindings, Served
    <2> QED BY <2>1, <2>2 DEF Served, Listed, InUse
  <1>2. ASSUME Rest, NEW s \in Fds, interest[s] # None, ~InHandler(interest[s].conn)
        PROVE  events[interest[s].conn] = interest[s].events
    <2>1. Served(interest[s].conn) /\ fd[interest[s].conn] = s /\ interest[s].conn \in Conns
      BY <1>2 DEF Rest, Bindings, Served
    <2>2. Told(interest[s].conn)
      BY <1>2 DEF InHandler, Told
    <2> QED BY <1>2, <2>1, <2>2 DEF Rest, Requests
  <1>3. Rest => NobodyForgotten
    BY <1>1, <1>2 DEF NobodyForgotten
  <1> QED BY <1>3, Invariant, PTL

(* ... output is asked for only on the descriptor of a client one of whose *)
(* messages was processed.                                                 *)
THEOREM AnswersGoToSenders == Spec => [](misdirected \/ AnswerToSender)
  <1>1. ASSUME Rest, NEW s \in Fds, interest[s] # None, "OUT" \in interest[s].events
        PROVE  sock[s] \in answered
    <2>1. Served(interest[s].conn) /\ fd[interest[s].conn] = s /\ interest[s].conn \in Conns
      BY <1>1 DEF Rest, Bindings, Served
    <2> QED BY <1>1, <2>1 DEF Rest, Requests
  <1>2. Rest => AnswerToSender
    BY <1>1 DEF AnswerToSender
  <1> QED BY <1>2, Invariant, PTL

-----------------------------------------------------------------------------
(* The master process, which forks the workers and waits for them.         *)

(* MasterTypeOK is inductive, for every number of workers. *)
THEOREM MasterTypes == MasterSpec => []MasterTypeOK
<1> USE WorkersAssumption DEF WorkersAssumption, Workers
<1>1. MasterInit => MasterTypeOK
  <2> SUFFICES ASSUME MasterInit PROVE MasterTypeOK
    OBVIOUS
  <2>1. forked \in 0 .. WorkerProcesses
    BY DEF MasterInit
  <2>2. worker \in [Workers -> {"none", "running", "zombie", "reaped"}]
    BY DEF MasterInit
  <2> QED BY <2>1, <2>2 DEF MasterInit, MasterTypeOK
<1>2. MasterTypeOK /\ [MasterNext]_masterVars => MasterTypeOK'
  <2> SUFFICES ASSUME MasterTypeOK, [MasterNext]_masterVars PROVE MasterTypeOK'
    OBVIOUS
  <2>1. CASE Spawn
    BY <2>1 DEF MasterTypeOK, Spawn
  <2>2. CASE AllSpawned \/ HandleChild \/ HandleOther \/ NoneLeft \/ Sleep
    BY <2>2
    DEF MasterTypeOK, AllSpawned, HandleChild, HandleOther, NoneLeft, Sleep
  <2>3. CASE Reap
    BY <2>3 DEF MasterTypeOK, Reap
  <2>4. ASSUME NEW w \in Workers, Die(w) PROVE MasterTypeOK'
    BY <2>4 DEF MasterTypeOK, Die
  <2>5. CASE UNCHANGED masterVars
    BY <2>5 DEF MasterTypeOK, masterVars
  <2> QED
    BY <2>1, <2>2, <2>3, <2>4, <2>5 DEF MasterNext, ngx_master_process_cycle
<1> QED BY <1>1, <1>2, PTL DEF MasterSpec

(* No dead worker is overlooked, although pending signals are merged: the  *)
(* waitpid() loop ends only when nobody is left.                           *)
THEOREM NoZombieOverlooked == MasterSpec => []ZombieNoticed
<1>1. MasterInit => ZombieNoticed
  BY DEF MasterInit, ZombieNoticed
<1>2. MasterTypeOK /\ ZombieNoticed /\ [MasterNext]_masterVars => ZombieNoticed'
  <2> SUFFICES ASSUME MasterTypeOK, ZombieNoticed, [MasterNext]_masterVars
               PROVE  ZombieNoticed'
    OBVIOUS
  <2>1. CASE Spawn
    BY <2>1 DEF MasterTypeOK, ZombieNoticed, Spawn
  <2>2. CASE AllSpawned \/ HandleChild \/ HandleOther \/ NoneLeft \/ Sleep
    BY <2>2
    DEF ZombieNoticed, AllSpawned, HandleChild, HandleOther, NoneLeft, Sleep
  <2>3. CASE Reap
    BY <2>3 DEF ZombieNoticed, Reap
  <2>4. ASSUME NEW w \in Workers, Die(w) PROVE ZombieNoticed'
    BY <2>4 DEF MasterTypeOK, ZombieNoticed, Die
  <2>5. CASE UNCHANGED masterVars
    BY <2>5 DEF ZombieNoticed, masterVars
  <2> QED
    BY <2>1, <2>2, <2>3, <2>4, <2>5 DEF MasterNext, ngx_master_process_cycle
<1> QED BY <1>1, <1>2, MasterTypes, PTL DEF MasterSpec

=============================================================================
