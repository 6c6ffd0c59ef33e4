------------------------------ MODULE ConnPool ------------------------------
(***************************************************************************)
(* The connection pool of CSocekt and the thread that reclaims closed      *)
(* connections after a delay (linux_c++_6_4/nginx/net/                     *)
(* ngx_c_socket_conn.cxx).  The main thread takes connections out of the   *)
(* pool and gives them back, at once after a failed accept, otherwise      *)
(* through the recycling list; ServerRecyConnectionThread empties that     *)
(* list.  Two mutexes protect the two lists, the recycler takes one inside *)
(* the other, and the counters are read without any.                       *)
(*                                                                         *)
(* A connection is an object that is reused; every change of hands adds    *)
(* one to its iCurrsequence, and a message remembers the value it saw when *)
(* its header was complete.  Clients are numbered in order of arrival;     *)
(* clients and owner are not in the program, they say which client a       *)
(* message really came from.                                               *)
(***************************************************************************)
EXTENDS Integers, Sequences, FiniteSets, SequencesExt

CONSTANTS
  Conns,       (* the connection objects that can ever be created       *)
  InitConns,   (* those created by initconnection()                     *)
  WaitTime,    (* m_RecyConnectionWaitTime, in ticks                    *)
  MaxTime,     (* bound: last tick of the clock                         *)
  MaxClients,  (* bound: how many clients connect                       *)
  MaxMsgs,     (* bound: messages in flight                             *)
  Main, Recy,  (* the two threads, as holders of the mutexes            *)
  None         (* nobody                                                *)

ASSUME ConnsAssumption == IsFiniteSet(Conns) /\ InitConns \subseteq Conns
ASSUME BoundsAssumption == /\ WaitTime \in Nat /\ MaxTime \in Nat
                           /\ MaxClients \in Nat /\ MaxMsgs \in Nat
ASSUME NamesAssumption == /\ Main # Recy /\ None \notin {Main, Recy}
                          /\ None \notin Conns

VARIABLES
  pool,       (* m_connectionList: every connection created so far         *)
  freeList,   (* m_freeconnectionList                                      *)
  recyList,   (* m_recyconnectionList                                      *)
  freeN,      (* m_free_connection_n                                       *)
  totalN,     (* m_total_connection_n                                      *)
  recyN,      (* m_totol_recyconnection_n                                  *)
  seq,        (* iCurrsequence of each connection                          *)
  buf,        (* whether precvMemPointer holds a buffer                    *)
  hdrSeq,     (* the iCurrsequence written into that buffer's header       *)
  recyTime,   (* inRecyTime                                                *)
  clients,    (* how many clients have connected                           *)
  owner,      (* the client the connection was last given to               *)
  used,       (* connections bound to a client                             *)
  msgs,       (* messages of the pool threads: [conn, seq, from]           *)
  now,        (* time(NULL)                                                *)
  stop,       (* g_stopEvent                                               *)
  connMutex,  (* the holder of m_connectionMutex                           *)
  recyMutex,  (* the holder of m_recyconnqueueMutex                        *)
  mainPc, cur,             (* the main thread and the connection it holds  *)
  recPc, victim, currtime  (* the recycler, what it frees, its clock       *)

conn == <<pool, freeList, recyList, freeN, totalN, recyN>>
data == <<seq, buf, hdrSeq, recyTime, clients, owner>>
recycler == <<recPc, victim, currtime>>
vars == <<conn, data, used, msgs, now, stop, connMutex, recyMutex, mainPc, cur,
          recycler>>

Init ==
  /\ pool = InitConns
  /\ freeList = SetToSeq(InitConns)
  /\ recyList = <<>>
  /\ freeN = Cardinality(InitConns) /\ totalN = freeN /\ recyN = 0
  /\ seq = [c \in Conns |-> IF c \in InitConns THEN 1 ELSE 0]
  /\ buf = [c \in Conns |-> FALSE]
  /\ hdrSeq = [c \in Conns |-> 0]
  /\ recyTime = [c \in Conns |-> 0]
  /\ clients = 0 /\ owner = [c \in Conns |-> 0]
  /\ used = {} /\ msgs = {}
  /\ now = 0 /\ stop = FALSE
  /\ connMutex = None /\ recyMutex = None
  /\ mainPc = "idle" /\ cur = None
  /\ recPc = "sleep" /\ victim = None /\ currtime = 0

-----------------------------------------------------------------------------
(* GetOneToUse(), and the connection leaves the pool *)
TakeOut(c) ==
  /\ seq' = [seq EXCEPT ![c] = @ + 1]
  /\ buf' = [buf EXCEPT ![c] = FALSE]
  /\ clients' = clients + 1
  /\ owner' = [owner EXCEPT ![c] = clients']
  /\ UNCHANGED <<hdrSeq, recyTime>>

(* mutant: the receive buffer is forgotten *)
PutBackWithBuffer(c) ==
  /\ seq' = [seq EXCEPT ![c] = @ + 1]
  /\ freeList' = Append(freeList, c)
  /\ freeN' = freeN + 1
  /\ UNCHANGED <<buf, hdrSeq, recyTime, clients, owner, pool, totalN>>

(* the body of ngx_free_connection(): PutOneToFree() and the free list *)
PutBack(c) ==
  /\ seq' = [seq EXCEPT ![c] = @ + 1]
  /\ buf' = [buf EXCEPT ![c] = FALSE]
  /\ freeList' = Append(freeList, c)
  /\ freeN' = freeN + 1
  /\ UNCHANGED <<hdrSeq, recyTime, clients, owner, pool, totalN>>

-----------------------------------------------------------------------------
(* The main thread.                                                        *)

(* a client connected: ngx_get_connection() locks ... *)
GetLock ==
  /\ mainPc = "idle" /\ ~stop
  /\ clients < MaxClients /\ (freeList # <<>> \/ pool # Conns)
  /\ connMutex = None
  /\ connMutex' = Main
  /\ mainPc' = "get"
  /\ UNCHANGED <<conn, data, used, msgs, now, stop, recyMutex, cur, recycler>>

(* mutant: front() without pop_front() *)
GetFreeWithoutPop ==
  /\ mainPc = "get"
  /\ freeList # <<>>
  /\ cur' = Head(freeList)
  /\ TakeOut(cur')
  /\ connMutex' = None
  /\ mainPc' = "open"
  /\ UNCHANGED <<conn, used, msgs, now, stop, recyMutex, recycler>>

(* ... and takes the first free connection ... *)
GetFree ==
  /\ mainPc = "get"
  /\ freeList # <<>>
  /\ cur' = Head(freeList)
  /\ TakeOut(cur')
  /\ freeList' = Tail(freeList)
  /\ freeN' = freeN - 1
  /\ connMutex' = None
  /\ mainPc' = "open"
  /\ UNCHANGED <<pool, recyList, totalN, recyN, used, msgs, now, stop, recyMutex,
                 recycler>>

(* ... or creates one *)
GetNew ==
  /\ mainPc = "get"
  /\ freeList = <<>>
  /\ cur' \in Conns \ pool
  /\ TakeOut(cur')
  /\ pool' = pool \cup {cur'}
  /\ totalN' = totalN + 1
  /\ connMutex' = None
  /\ mainPc' = "open"
  /\ UNCHANGED <<freeList, recyList, freeN, recyN, used, msgs, now, stop,
                 recyMutex, recycler>>

(* ngx_event_accept() registers the socket: the client is served *)
Opened ==
  /\ mainPc = "open"
  /\ used' = used \cup {cur}
  /\ mainPc' = "idle" /\ cur' = None
  /\ UNCHANGED <<conn, data, msgs, now, stop, connMutex, recyMutex, recycler>>

(* setnonblocking() or epoll_ctl() failed: ngx_close_connection() frees at *)
(* once                                                                    *)
OpenFails ==
  /\ mainPc = "open"
  /\ connMutex = None
  /\ connMutex' = Main
  /\ mainPc' = "free"
  /\ UNCHANGED <<conn, data, used, msgs, now, stop, recyMutex, cur, recycler>>

FreeNow ==
  /\ mainPc = "free"
  /\ PutBack(cur)
  /\ connMutex' = None
  /\ mainPc' = "idle" /\ cur' = None
  /\ UNCHANGED <<recyList, recyN, used, msgs, now, stop, recyMutex, recycler>>

(* a packet header is complete: proc_p1() allocates the message buffer and *)
(* writes the connection and its sequence number into it                   *)
HeaderComplete(c) ==
  /\ mainPc = "idle" /\ ~stop
  /\ c \in used /\ ~buf[c]
  /\ buf' = [buf EXCEPT ![c] = TRUE]
  /\ hdrSeq' = [hdrSeq EXCEPT ![c] = seq[c]]
  /\ UNCHANGED <<conn, seq, recyTime, clients, owner, used, msgs, now, stop,
                 connMutex, recyMutex, mainPc, cur, recycler>>

(* the body is complete: proc_plast() hands the buffer to the pool threads *)
PacketComplete(c) ==
  /\ mainPc = "idle" /\ ~stop
  /\ c \in used /\ buf[c]
  /\ Cardinality(msgs) < MaxMsgs
  /\ msgs' = msgs \cup {[conn |-> c, seq |-> hdrSeq[c], from |-> owner[c]]}
  /\ buf' = [buf EXCEPT ![c] = FALSE]
  /\ UNCHANGED <<conn, seq, hdrSeq, recyTime, clients, owner, used, now, stop,
                 connMutex, recyMutex, mainPc, cur, recycler>>

(* a pool thread is done with a message *)
MessageDone ==
  /\ \E m \in msgs : msgs' = msgs \ {m}
  /\ UNCHANGED <<conn, data, used, now, stop, connMutex, recyMutex, mainPc, cur,
                 recycler>>

(* recvproc() saw the client go and closed the socket:                     *)
(* inRecyConnectQueue() locks ...                                          *)
Disconnect(c) ==
  /\ mainPc = "idle" /\ ~stop
  /\ c \in used
  /\ used' = used \ {c}
  /\ mainPc' = "recylock" /\ cur' = c
  /\ UNCHANGED <<conn, data, msgs, now, stop, connMutex, recyMutex, recycler>>

RecyLock ==
  /\ mainPc = "recylock"
  /\ recyMutex = None
  /\ recyMutex' = Main
  /\ mainPc' = "recy"
  /\ UNCHANGED <<conn, data, used, msgs, now, stop, connMutex, cur, recycler>>

(* mutant: the sequence number changes only when the recycler is done *)
EnterRecyListSameSeq ==
  /\ mainPc = "recy"
  /\ recyTime' = [recyTime EXCEPT ![cur] = now]
  /\ recyList' = Append(recyList, cur)
  /\ recyN' = recyN + 1
  /\ recyMutex' = None
  /\ mainPc' = "idle" /\ cur' = None
  /\ UNCHANGED <<pool, freeList, freeN, totalN, seq, buf, hdrSeq, clients, owner,
                 used, msgs, now, stop, connMutex, recycler>>

(* mutant: the list grows, its counter does not *)
EnterRecyListUncounted ==
  /\ mainPc = "recy"
  /\ recyTime' = [recyTime EXCEPT ![cur] = now]
  /\ seq' = [seq EXCEPT ![cur] = @ + 1]
  /\ recyList' = Append(recyList, cur)
  /\ recyMutex' = None
  /\ mainPc' = "idle" /\ cur' = None
  /\ UNCHANGED <<pool, freeList, freeN, totalN, recyN, buf, hdrSeq, clients,
                 owner, used, msgs, now, stop, connMutex, recycler>>

(* ... and puts the connection on the recycling list, with the time *)
EnterRecyList ==
  /\ mainPc = "recy"
  /\ recyTime' = [recyTime EXCEPT ![cur] = now]
  /\ seq' = [seq EXCEPT ![cur] = @ + 1]
  /\ recyList' = Append(recyList, cur)
  /\ recyN' = recyN + 1
  /\ recyMutex' = None
  /\ mainPc' = "idle" /\ cur' = None
  /\ UNCHANGED <<pool, freeList, freeN, totalN, buf, hdrSeq, clients, owner, used,
                 msgs, now, stop, connMutex, recycler>>

(* Shutdown_subproc() joins the recycler; clearconnection() destroys every *)
(* connection on m_connectionList, wherever else it may be listed          *)
Shutdown ==
  /\ mainPc = "idle" /\ stop
  /\ recPc = "exit"
  /\ pool' = {}
  /\ mainPc' = "exit"
  /\ UNCHANGED <<freeList, recyList, freeN, totalN, recyN, data, used, msgs, now,
                 stop, connMutex, recyMutex, cur, recycler>>

-----------------------------------------------------------------------------
(* ServerRecyConnectionThread.                                             *)

(* after each sleep it looks at the counter, without the mutex, *)
Wake ==
  /\ recPc = "sleep"
  /\ recPc' = IF recyN > 0 THEN "time" ELSE "teststop"
  /\ UNCHANGED <<conn, data, used, msgs, now, stop, connMutex, recyMutex, mainPc,
                 cur, victim, currtime>>

(* takes the time, *)
ReadClock ==
  /\ recPc = "time"
  /\ currtime' = now
  /\ recPc' = "lock"
  /\ UNCHANGED <<conn, data, used, msgs, now, stop, connMutex, recyMutex, mainPc,
                 cur, victim>>

(* and only then the mutex; the forced release at exit takes it again *)
ScanLock ==
  /\ recPc \in {"lock", "lastlock"}
  /\ recyMutex = None
  /\ recyMutex' = Recy
  /\ recPc' = IF recPc = "lock" THEN "scan" ELSE "lastscan"
  /\ UNCHANGED <<conn, data, used, msgs, now, stop, connMutex, mainPc, cur,
                 victim, currtime>>

(* mutant: off by one *)
DueEarly(c) == recyTime[c] + WaitTime <= currtime + 1 \/ stop

(* may the connection be released in this scan? *)
Due(c) == recyTime[c] + WaitTime <= currtime \/ stop

(* the scan stops at the first connection that is due; the forced release  *)
(* takes whatever comes first                                              *)
Releasable(i) == i \in DOMAIN recyList /\ (recPc = "lastscan" \/ Due(recyList[i]))
FirstReleasable(i) == Releasable(i) /\ \A j \in 1 .. i - 1 : ~Releasable(j)

(* --counter, erase; the scan starts again after the release *)
Erase ==
  /\ recPc \in {"scan", "lastscan"}
  /\ \E i \in DOMAIN recyList :
       /\ FirstReleasable(i)
       /\ victim' = recyList[i]
       /\ recyList' = RemoveAt(recyList, i)
  /\ recyN' = recyN - 1
  /\ recPc' = IF recPc = "scan" THEN "freelock" ELSE "lastfreelock"
  /\ UNCHANGED <<pool, freeList, freeN, totalN, data, used, msgs, now, stop,
                 connMutex, recyMutex, mainPc, cur, currtime>>

(* ngx_free_connection() takes the second mutex inside the first one *)
ReleaseLock ==
  /\ recPc \in {"freelock", "lastfreelock"}
  /\ connMutex = None
  /\ connMutex' = Recy
  /\ recPc' = IF recPc = "freelock" THEN "free" ELSE "lastfree"
  /\ UNCHANGED <<conn, data, used, msgs, now, stop, recyMutex, mainPc, cur,
                 victim, currtime>>

Release ==
  /\ recPc \in {"free", "lastfree"}
  /\ PutBack(victim)
  /\ connMutex' = None
  /\ victim' = None
  /\ recPc' = IF recPc = "free" THEN "scan" ELSE "lastscan"
  /\ UNCHANGED <<recyList, recyN, used, msgs, now, stop, recyMutex, mainPc, cur,
                 currtime>>

(* mutant: the mutex is kept *)
ScanEndsLocked ==
  /\ recPc \in {"scan", "lastscan"}
  /\ \A i \in DOMAIN recyList : ~Releasable(i)
  /\ recPc' = IF recPc = "scan" THEN "teststop" ELSE "exit"
  /\ UNCHANGED <<conn, data, used, msgs, now, stop, connMutex, recyMutex, mainPc,
                 cur, victim, currtime>>

(* the end of a scan *)
ScanEnds ==
  /\ recPc \in {"scan", "lastscan"}
  /\ \A i \in DOMAIN recyList : ~Releasable(i)
  /\ recyMutex' = None
  /\ recPc' = IF recPc = "scan" THEN "teststop" ELSE "exit"
  /\ UNCHANGED <<conn, data, used, msgs, now, stop, connMutex, mainPc, cur,
                 victim, currtime>>

TestStop ==
  /\ recPc = "teststop"
  /\ recPc' = IF ~stop THEN "sleep" ELSE IF recyN > 0 THEN "lastlock" ELSE "exit"
  /\ UNCHANGED <<conn, data, used, msgs, now, stop, connMutex, recyMutex, mainPc,
                 cur, victim, currtime>>

-----------------------------------------------------------------------------
(* The environment: the clock, and whoever sets g_stopEvent (the only       *)
(* assignment, in the worker's loop, is commented out at this commit).      *)

Tick == /\ now < MaxTime
        /\ now' = now + 1
        /\ UNCHANGED <<conn, data, used, msgs, stop, connMutex, recyMutex, mainPc,
                       cur, recycler>>

SetStop == /\ ~stop
           /\ stop' = TRUE
           /\ UNCHANGED <<conn, data, used, msgs, now, connMutex, recyMutex,
                          mainPc, cur, recycler>>

MainThread ==
  \/ GetLock \/ GetFree \/ GetNew \/ Opened \/ OpenFails \/ FreeNow
  \/ \E c \in Conns : HeaderComplete(c) \/ PacketComplete(c) \/ Disconnect(c)
  \/ RecyLock \/ EnterRecyList \/ Shutdown

RecyThread == \/ Wake \/ ReadClock \/ ScanLock \/ Erase \/ ReleaseLock \/ Release
              \/ ScanEnds \/ TestStop

Exited == mainPc = "exit" /\ UNCHANGED vars

Next == \/ MainThread \/ Exited
        \/ mainPc # "exit" /\ (RecyThread \/ MessageDone \/ Tick \/ SetStop)

(* The recycler and the clock never stop; the main thread finishes the     *)
(* calls it is in, but no client has to come or to go.                     *)
Fairness ==
  /\ WF_vars(RecyThread) /\ WF_vars(Tick)
  /\ WF_vars(GetFree \/ GetNew \/ Opened \/ FreeNow \/ EnterRecyList \/ Shutdown)

Spec == Init /\ [][Next]_vars
FairSpec == Spec /\ Fairness
-----------------------------------------------------------------------------
MainPcs == {"idle", "get", "open", "free", "recylock", "recy", "exit"}
RecPcs == {"sleep", "time", "lock", "scan", "freelock", "free", "teststop",
           "lastlock", "lastscan", "lastfreelock", "lastfree", "exit"}

TypeOK ==
  /\ pool \subseteq Conns /\ used \subseteq Conns
  /\ freeList \in Seq(Conns) /\ recyList \in Seq(Conns)
  /\ freeN \in Nat /\ totalN \in Nat /\ recyN \in Nat
  /\ seq \in [Conns -> Nat] /\ hdrSeq \in [Conns -> Nat]
  /\ buf \in [Conns -> BOOLEAN]
  /\ recyTime \in [Conns -> 0 .. now] /\ owner \in [Conns -> 0 .. clients]
  /\ clients \in 0 .. MaxClients
  /\ msgs \subseteq [conn : Conns, seq : Nat, from : Nat]
  /\ now \in 0 .. MaxTime /\ currtime \in 0 .. now
  /\ stop \in BOOLEAN
  /\ connMutex \in {Main, Recy, None} /\ recyMutex \in {Main, Recy, None}
  /\ mainPc \in MainPcs /\ recPc \in RecPcs
  /\ cur \in Conns \cup {None} /\ victim \in Conns \cup {None}

(* Every connection that was created is in exactly one place: with a       *)
(* client, in the hands of one of the two threads, on the recycling list   *)
(* once or on the free list once.  A connection listed twice would be      *)
(* handed to two clients, one listed nowhere is lost to the server.        *)
OnePlaceEach ==
  mainPc # "exit" =>
    \A c \in Conns :
      Cardinality({i \in DOMAIN freeList : freeList[i] = c})
        + Cardinality({i \in DOMAIN recyList : recyList[i] = c})
        + Cardinality({x \in {"used", "main", "recycler"} :
                         \/ x = "used" /\ c \in used
                         \/ x = "main" /\ c = cur
                         \/ x = "recycler" /\ c = victim})
      = IF c \in pool THEN 1 ELSE 0

(* The three counters, which the threads read without a mutex, agree with  *)
(* the lists; the recycler sleeps through its list if recyN is too small.  *)
CountersMatch ==
  mainPc # "exit" =>
    /\ freeN = Len(freeList)
    /\ recyN = Len(recyList)
    /\ totalN = Cardinality(pool)

(* Lists, counters and the hands of the threads account for every object.  *)
NothingLost == OnePlaceEach /\ CountersMatch

(* A message carries the sequence number its connection has now if and     *)
(* only if the client that sent it is still served by that connection: the *)
(* test in threadRecvProcFunc() drops every message of a client that is    *)
(* gone, however often the object was reused, and no other message.        *)
StaleMessagesShow ==
  \A m \in msgs :
    m.seq = seq[m.conn] <=>
      /\ m.from = owner[m.conn]
      /\ m.conn \in used \/ (mainPc \in {"recylock", "recy"} /\ cur = m.conn)

(* The recycler takes a closed connection off the list only when its time  *)
(* is over, although it reads the clock before it waits for the mutex and  *)
(* the list changes meanwhile; unless the server is stopped.               *)
NoEarlyRelease ==
  victim # None => stop \/ recyTime[victim] + WaitTime <= now

(* No receive buffer is lost: a connection that could be given out next    *)
(* has none (GetOneToUse() overwrites precvMemPointer unseen).             *)
NoBufferLost ==
  \A c \in pool : buf[c] => \/ c \in used
                            \/ c = cur /\ mainPc \in {"recylock", "recy"}
                            \/ c \in Range(recyList) \/ c = victim

(* Every connection on the recycling list is given back to the pool once   *)
(* its time is over ("ServerRecyConnectionThread will see to it").         *)
EventuallyReclaimed ==
  \A c \in Conns :
    (c \in Range(recyList) /\ recyTime[c] + WaitTime <= MaxTime)
      ~> (c \in Range(freeList) \/ mainPc = "exit")

(* Once the server is stopped the recycler ends, so that Shutdown_subproc  *)
(* can join it: the nested mutexes never block both threads.               *)
StopEndsRecycler == stop ~> (recPc = "exit")

=============================================================================
