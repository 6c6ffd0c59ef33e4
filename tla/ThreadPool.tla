----------------------------- MODULE ThreadPool -----------------------------
(***************************************************************************)
(* CThreadPool (linux_c++_6_4/nginx/misc/ngx_c_threadpool.cxx): one queue  *)
(* of received messages, one mutex, one condition variable and a fixed     *)
(* number of worker threads.  The main thread creates the pool, hands      *)
(* messages over and may stop the pool; it is the only caller of Create,   *)
(* inMsgRecvQueueAndSignal and StopAll.                                    *)
(*                                                                         *)
(* A critical section that touches only what the mutex protects is one     *)
(* step.  m_shutdown and ifrunning are read or written outside the mutex:  *)
(* every such access is a step of its own.  Messages are the numbers       *)
(* 1 .. MaxMsgs in the order in which the main thread hands them over.     *)
(***************************************************************************)
EXTENDS Integers, Sequences, FiniteSets

CONSTANTS
  Workers,   (* the threads of m_threadVector                    *)
  MaxMsgs,   (* bound: how many messages the main thread queues  *)
  None       (* no worker holds the mutex / no message in hand   *)

ASSUME WorkersAssumption == IsFiniteSet(Workers) /\ Workers # {}
ASSUME MaxMsgsAssumption == MaxMsgs \in Nat
ASSUME NoneAssumption == None \notin Workers /\ None \notin 1 .. MaxMsgs

VARIABLES
  queue,      (* m_MsgRecvQueue                                          *)
  count,      (* m_iRecvMsgQueueCount                                    *)
  shutdown,   (* m_shutdown                                              *)
  mutex,      (* the holder of m_pthreadMutex                            *)
  condWait,   (* the threads blocked in pthread_cond_wait                *)
  running,    (* m_iRunningThreadNum                                     *)
  ifrunning,  (* ThreadItem::ifrunning                                   *)
  pc,         (* where each worker is in ThreadFunc                      *)
  job,        (* jobbuf of each worker                                   *)
  mainPc,     (* where the main thread is                                *)
  sent,       (* how many messages were queued                           *)
  freed       (* for each message, how often FreeMemory was called on it *)

vars == <<queue, count, shutdown, mutex, condWait, running, ifrunning, pc,
          job, mainPc, sent, freed>>

Msgs == 1 .. MaxMsgs

(* a worker that is past ++m_iRunningThreadNum and before the decrement *)
Busy(w) == pc[w] \in {"handle", "end"}
BusyWorkers == {w \in Workers : Busy(w)}

Init ==
  /\ queue = <<>> /\ count = 0 /\ sent = 0
  /\ shutdown = FALSE
  /\ mutex = None /\ condWait = {}
  /\ running = 0
  /\ ifrunning = [w \in Workers |-> FALSE]
  /\ pc = [w \in Workers |-> "none"]
  /\ job = [w \in Workers |-> None]
  /\ mainPc = "create"
  /\ freed = [m \in Msgs |-> 0]

-----------------------------------------------------------------------------
(* The main thread: Create().                                              *)

CreateThread(w) ==
  /\ mainPc = "create"
  /\ pc[w] = "none"
  /\ pc' = [pc EXCEPT ![w] = "lock"]
  /\ UNCHANGED <<queue, count, shutdown, mutex, condWait, running, ifrunning,
                 job, mainPc, sent, freed>>

(* pthread_create fails, Create() returns false and the process exits *)
CreateFails ==
  /\ mainPc = "create"
  /\ \E w \in Workers : pc[w] = "none"
  /\ mainPc' = "exit"
  /\ UNCHANGED <<queue, count, shutdown, mutex, condWait, running, ifrunning,
                 pc, job, sent, freed>>

(* the polling loop at lblfor finds every ifrunning set *)
CreateReturns ==
  /\ mainPc = "create"
  /\ \A w \in Workers : pc[w] # "none" /\ ifrunning[w]
  /\ mainPc' = "serve"
  /\ UNCHANGED <<queue, count, shutdown, mutex, condWait, running, ifrunning,
                 pc, job, sent, freed>>

-----------------------------------------------------------------------------
(* The main thread: inMsgRecvQueueAndSignal() and Call().                  *)

Enqueue ==
  /\ mainPc = "serve"
  /\ sent < MaxMsgs
  /\ mutex = None
  /\ queue' = Append(queue, sent + 1)
  /\ count' = count + 1
  /\ sent' = sent + 1
  /\ mainPc' = "signal"
  /\ UNCHANGED <<shutdown, mutex, condWait, running, ifrunning, pc, job, freed>>

(* mutant: the signal is forgotten *)
CallUnsignalled ==
  /\ mainPc = "signal"
  /\ mainPc' = "serve"
  /\ UNCHANGED <<queue, count, shutdown, mutex, condWait, running, ifrunning,
                 pc, job, sent, freed>>

(* pthread_cond_signal, after the mutex was released: it wakes one waiter  *)
(* if there is one; a signal nobody waits for leaves no trace              *)
Call ==
  /\ mainPc = "signal"
  /\ \/ condWait = {} /\ UNCHANGED condWait
     \/ \E w \in condWait : condWait' = condWait \ {w}
  /\ mainPc' = "serve"
  /\ UNCHANGED <<queue, count, shutdown, mutex, running, ifrunning, pc, job,
                 sent, freed>>

-----------------------------------------------------------------------------
(* The main thread: StopAll() and the destructor.                          *)

(* m_shutdown = true, written without the mutex *)
StopAllSet ==
  /\ mainPc = "serve"
  /\ ~shutdown
  /\ shutdown' = TRUE
  /\ mainPc' = "broadcast"
  /\ UNCHANGED <<queue, count, mutex, condWait, running, ifrunning, pc, job,
                 sent, freed>>

(* mutant: one thread is woken instead of all *)
StopAllSignal ==
  /\ mainPc = "broadcast"
  /\ \/ condWait = {} /\ UNCHANGED condWait
     \/ \E w \in condWait : condWait' = condWait \ {w}
  /\ mainPc' = "join"
  /\ UNCHANGED <<queue, count, shutdown, mutex, running, ifrunning, pc, job,
                 sent, freed>>

StopAllBroadcast ==
  /\ mainPc = "broadcast"
  /\ condWait' = {}
  /\ mainPc' = "join"
  /\ UNCHANGED <<queue, count, shutdown, mutex, running, ifrunning, pc, job,
                 sent, freed>>

(* every pthread_join has returned: mutex, condition variable and          *)
(* ThreadItems are destroyed                                               *)
StopAllJoined ==
  /\ mainPc = "join"
  /\ \A w \in Workers : pc[w] = "exited"
  /\ mainPc' = "stopped"
  /\ UNCHANGED <<queue, count, shutdown, mutex, condWait, running, ifrunning,
                 pc, job, sent, freed>>

(* ~CThreadPool(): clearMsgRecvQueue() frees what nobody took; the counter *)
(* is left as it is                                                        *)
Destroy ==
  /\ mainPc = "stopped"
  /\ freed' = [m \in Msgs |->
                 freed[m] + Cardinality({i \in 1 .. Len(queue) : queue[i] = m})]
  /\ queue' = <<>>
  /\ mainPc' = "exit"
  /\ UNCHANGED <<count, shutdown, mutex, condWait, running, ifrunning, pc, job,
                 sent>>

-----------------------------------------------------------------------------
(* A worker thread: ThreadFunc().                                          *)

Lock(w) ==
  /\ pc[w] = "lock"
  /\ mutex = None
  /\ mutex' = w
  /\ pc' = [pc EXCEPT ![w] = "test"]
  /\ UNCHANGED <<queue, count, shutdown, condWait, running, ifrunning, job,
                 mainPc, sent, freed>>

(* the while condition holds: mark the thread as started, go and wait *)
TestWait(w) ==
  /\ pc[w] = "test"
  /\ queue = <<>>
  /\ ~shutdown
  /\ ifrunning' = [ifrunning EXCEPT ![w] = TRUE]
  /\ pc' = [pc EXCEPT ![w] = "wait"]
  /\ UNCHANGED <<queue, count, shutdown, mutex, condWait, running, job, mainPc,
                 sent, freed>>

TestLeave(w) ==
  /\ pc[w] = "test"
  /\ queue # <<>> \/ shutdown
  /\ pc' = [pc EXCEPT ![w] = "leave"]
  /\ UNCHANGED <<queue, count, shutdown, mutex, condWait, running, ifrunning,
                 job, mainPc, sent, freed>>

(* pthread_cond_wait blocks the thread and releases the mutex atomically *)
CondWait(w) ==
  /\ pc[w] = "wait"
  /\ mutex' = None
  /\ condWait' = condWait \cup {w}
  /\ pc' = [pc EXCEPT ![w] = "blocked"]
  /\ UNCHANGED <<queue, count, shutdown, running, ifrunning, job, mainPc, sent,
                 freed>>

(* POSIX lets pthread_cond_wait return without a signal *)
SpuriousWakeup(w) ==
  /\ mainPc # "exit"
  /\ w \in condWait
  /\ condWait' = condWait \ {w}
  /\ UNCHANGED <<queue, count, shutdown, mutex, running, ifrunning, pc, job,
                 mainPc, sent, freed>>

(* mutant: the queue is tested with if instead of while *)
RelockUntested(w) ==
  /\ pc[w] = "blocked"
  /\ w \notin condWait
  /\ mutex = None
  /\ mutex' = w
  /\ pc' = [pc EXCEPT ![w] = "leave"]
  /\ UNCHANGED <<queue, count, shutdown, condWait, running, ifrunning, job,
                 mainPc, sent, freed>>

(* a woken thread owns the mutex again before pthread_cond_wait returns *)
Relock(w) ==
  /\ pc[w] = "blocked"
  /\ w \notin condWait
  /\ mutex = None
  /\ mutex' = w
  /\ pc' = [pc EXCEPT ![w] = "test"]
  /\ UNCHANGED <<queue, count, shutdown, condWait, running, ifrunning, job,
                 mainPc, sent, freed>>

(* if (m_shutdown): leave the thread function; queued messages stay *)
Quit(w) ==
  /\ pc[w] = "leave"
  /\ shutdown
  /\ mutex' = None
  /\ pc' = [pc EXCEPT ![w] = "exited"]
  /\ UNCHANGED <<queue, count, shutdown, condWait, running, ifrunning, job,
                 mainPc, sent, freed>>

(* mutant: the newest message is taken *)
TakeNewest(w) ==
  /\ pc[w] = "leave"
  /\ ~shutdown
  /\ job' = [job EXCEPT ![w] = queue[Len(queue)]]
  /\ queue' = SubSeq(queue, 1, Len(queue) - 1)
  /\ count' = count - 1
  /\ mutex' = None
  /\ pc' = [pc EXCEPT ![w] = "begin"]
  /\ UNCHANGED <<shutdown, condWait, running, ifrunning, mainPc, sent, freed>>

Take(w) ==
  /\ pc[w] = "leave"
  /\ ~shutdown
  /\ job' = [job EXCEPT ![w] = Head(queue)]
  /\ queue' = Tail(queue)
  /\ count' = count - 1
  /\ mutex' = None
  /\ pc' = [pc EXCEPT ![w] = "begin"]
  /\ UNCHANGED <<shutdown, condWait, running, ifrunning, mainPc, sent, freed>>

BeginWork(w) ==
  /\ pc[w] = "begin"
  /\ running' = running + 1
  /\ pc' = [pc EXCEPT ![w] = "handle"]
  /\ UNCHANGED <<queue, count, shutdown, mutex, condWait, ifrunning, job,
                 mainPc, sent, freed>>

(* threadRecvProcFunc(jobbuf); FreeMemory(jobbuf) *)
Handle(w) ==
  /\ pc[w] = "handle"
  /\ freed' = [freed EXCEPT ![job[w]] = @ + 1]
  /\ job' = [job EXCEPT ![w] = None]
  /\ pc' = [pc EXCEPT ![w] = "end"]
  /\ UNCHANGED <<queue, count, shutdown, mutex, condWait, running, ifrunning,
                 mainPc, sent>>

(* mutant: the number of busy threads is not decremented *)
EndWorkUncounted(w) ==
  /\ pc[w] = "end"
  /\ pc' = [pc EXCEPT ![w] = "lock"]
  /\ UNCHANGED <<queue, count, shutdown, mutex, condWait, running, ifrunning,
                 job, mainPc, sent, freed>>

EndWork(w) ==
  /\ pc[w] = "end"
  /\ running' = running - 1
  /\ pc' = [pc EXCEPT ![w] = "lock"]
  /\ UNCHANGED <<queue, count, shutdown, mutex, condWait, ifrunning, job,
                 mainPc, sent, freed>>

-----------------------------------------------------------------------------
MainStep == \/ \E w \in Workers : CreateThread(w)
            \/ CreateFails \/ CreateReturns
            \/ Enqueue \/ Call
            \/ StopAllSet \/ StopAllBroadcast \/ StopAllJoined \/ Destroy

ThreadFunc(w) ==
  /\ mainPc # "exit"
  /\ \/ Lock(w) \/ TestWait(w) \/ TestLeave(w) \/ CondWait(w) \/ Relock(w)
     \/ Quit(w) \/ Take(w) \/ BeginWork(w) \/ Handle(w) \/ EndWork(w)

(* the process is gone *)
Exited == mainPc = "exit" /\ UNCHANGED vars

Next == \/ MainStep
        \/ \E w \in Workers : ThreadFunc(w) \/ SpuriousWakeup(w)
        \/ Exited

(* Every thread that can run is eventually scheduled.  The main thread is  *)
(* under no obligation to queue another message, to stop the pool or to    *)
(* see pthread_create fail; what it has begun it carries on with.          *)
Fairness ==
  /\ \A w \in Workers : WF_vars(ThreadFunc(w))
  /\ WF_vars(\E w \in Workers : CreateThread(w))
  /\ WF_vars(CreateReturns \/ Call \/ StopAllBroadcast \/ StopAllJoined \/ Destroy)

Spec == Init /\ [][Next]_vars
FairSpec == Spec /\ Fairness
-----------------------------------------------------------------------------
Pcs == {"none", "lock", "test", "wait", "blocked", "leave", "begin", "handle",
        "end", "exited"}
MainPcs == {"create", "serve", "signal", "broadcast", "join", "stopped", "exit"}

TypeOK ==
  /\ queue \in Seq(Msgs)
  /\ count \in 0 .. MaxMsgs
  /\ shutdown \in BOOLEAN
  /\ mutex \in Workers \cup {None}
  /\ condWait \subseteq Workers
  /\ running \in 0 .. Cardinality(Workers)
  /\ ifrunning \in [Workers -> BOOLEAN]
  /\ pc \in [Workers -> Pcs]
  /\ job \in [Workers -> Msgs \cup {None}]
  /\ mainPc \in MainPcs
  /\ sent \in 0 .. MaxMsgs
  /\ freed \in [Msgs -> Nat]

(***************************************************************************)
(* The invariant that is inductive: who holds the mutex, who may sleep,    *)
(* why a worker left the wait loop, what a worker holds, and which phase   *)
(* of its life the pool is in.                                             *)
(***************************************************************************)
MutexHeld == \A w \in Workers : mutex = w <=> pc[w] \in {"test", "wait", "leave"}
SleeperBlocked == \A w \in condWait : pc[w] = "blocked"
EmptyBeforeSleep == \A w \in Workers : pc[w] = "wait" => queue = <<>>
LeaveReason ==
  \A w \in Workers : pc[w] = "leave" => queue # <<>> \/ shutdown
JobInHand ==
  \A w \in Workers : job[w] # None <=> pc[w] \in {"begin", "handle"}
QueueCounted ==
  /\ Len(queue) <= sent
  /\ count \in 0 .. sent
  /\ mainPc # "exit" => count = Len(queue)
Phases ==
  /\ mainPc \in {"broadcast", "join", "stopped"} => shutdown
  /\ mainPc = "stopped" => \A w \in Workers : pc[w] = "exited"

IInv == /\ MutexHeld /\ SleeperBlocked /\ EmptyBeforeSleep /\ LeaveReason
        /\ JobInHand /\ QueueCounted /\ Phases

(* A worker that leaves the wait loop without a shutdown finds a message:  *)
(* front() is never called on an empty queue, although m_shutdown is read  *)
(* twice and a wakeup may be spurious or come too late.                    *)
TakeFindsMessage ==
  \A w \in Workers : pc[w] = "leave" /\ ~shutdown => queue # <<>>

(* m_iRecvMsgQueueCount is the length of the queue as long as the pool     *)
(* lives, and m_iRunningThreadNum, which Call() compares with the number   *)
(* of threads, counts the workers that serve a message.                    *)
CountersAgree ==
  /\ mainPc # "exit" => count = Len(queue)
  /\ running = Cardinality(BusyWorkers)

(* a worker that will look at the queue before it sleeps again *)
Awake(w) == \/ pc[w] \in {"lock", "test", "leave"}
            \/ pc[w] = "blocked" /\ w \notin condWait
AwakeWorkers == {w \in Workers : Awake(w)}

(* No wakeup is lost, although Call() signals after the mutex was          *)
(* released: while some thread sleeps on the condition variable, there is  *)
(* for every queued message a thread that is on its way to the queue       *)
(* (short of one while Call() is still to be made).                        *)
EveryMessageHasAThread ==
  condWait # {} /\ ~shutdown =>
    Len(queue) <= Cardinality(AwakeWorkers)
                    + (IF mainPc = "signal" THEN 1 ELSE 0)

(* The pool delivers messages as MsgDelivery says: in order, each to one   *)
(* thread, and the rest discarded only after the last thread is done.      *)
Delivery == INSTANCE MsgDelivery WITH
  arrived <- sent,
  line <- queue,
  serving <- {job[w] : w \in Workers} \ {None},
  released <- {m \in Msgs : freed[m] > 0},
  closed <- mainPc = "exit"

DeliverySpec == Delivery!Spec

(* Every message that was queued is served, unless the pool is stopped:    *)
(* the comment at the end of Call() argues that a lost wakeup would not    *)
(* matter because ThreadFunc() goes on until the queue is empty.           *)
EveryMessageServed ==
  \A m \in Msgs : (sent >= m) ~> (freed[m] > 0 \/ shutdown)

(* StopAll() returns if no worker stands between its test of m_shutdown    *)
(* and pthread_cond_wait when the broadcast is about to be made.           *)
StopAllReturnsIfNoneGoesToSleep ==
  (mainPc = "broadcast" /\ \A w \in Workers : pc[w] # "wait")
    ~> (mainPc \in {"stopped", "exit"})

(* "Stop all threads": StopAll() returns, every worker having ended.       *)
StopAllReturns == (mainPc = "broadcast") ~> (mainPc \in {"stopped", "exit"})
=============================================================================
