------------------------- MODULE ThreadPool_proofs -------------------------
(***************************************************************************)
(* Theorems about ThreadPool, for any finite set of workers and any number *)
(* of messages.  IInv says where the mutex is and why a worker is where it *)
(* is; the counters and the lost-wakeup invariant rest on it.              *)
(***************************************************************************)
EXTENDS ThreadPool, FiniteSetTheorems, TLAPS

(* The case split on the next-state relation used by every proof below. *)
LEMMA NextCases ==
  ASSUME Next
  PROVE  \/ CreateFails \/ CreateReturns \/ Enqueue \/ Call \/ StopAllSet
         \/ StopAllBroadcast \/ StopAllJoined \/ Destroy \/ UNCHANGED vars
         \/ \E w \in Workers :
              \/ CreateThread(w) \/ SpuriousWakeup(w) \/ Lock(w) \/ TestWait(w)
              \/ TestLeave(w) \/ CondWait(w) \/ Relock(w) \/ Quit(w)
              \/ Take(w) /\ mainPc # "exit"
              \/ BeginWork(w) \/ Handle(w) \/ EndWork(w)
  BY DEF Next, MainStep, ThreadFunc, Exited

(* Data types without the bounds that rest on the counters. *)
Types ==
  /\ queue \in Seq(Msgs)
  /\ count \in Int
  /\ shutdown \in BOOLEAN
  /\ mutex \in Workers \cup {None}
  /\ condWait \subseteq Workers
  /\ running \in Int
  /\ ifrunning \in [Workers -> BOOLEAN]
  /\ pc \in [Workers -> Pcs]
  /\ job \in [Workers -> Msgs \cup {None}]
  /\ mainPc \in MainPcs
  /\ sent \in 0 .. MaxMsgs
  /\ freed \in [Msgs -> Nat]

LEMMA TypesStep == Types /\ IInv /\ [Next]_vars => Types'
  <1> SUFFICES ASSUME Types, IInv, [Next]_vars PROVE Types'
    OBVIOUS
  <1> USE MaxMsgsAssumption DEF Types, Msgs, Pcs, MainPcs
  <1>1. ASSUME NEW w \in Workers, CreateThread(w) PROVE Types'
    BY <1>1 DEF CreateThread
  <1>2. ASSUME CreateFails PROVE Types'
    BY <1>2 DEF CreateFails
  <1>3. ASSUME CreateReturns PROVE Types'
    BY <1>3 DEF CreateReturns
  <1>4. ASSUME Enqueue PROVE Types'
    BY <1>4 DEF Enqueue
  <1>5. ASSUME Call PROVE Types'
    BY <1>5 DEF Call
  <1>6. ASSUME StopAllSet PROVE Types'
    BY <1>6 DEF StopAllSet
  <1>7. ASSUME StopAllBroadcast PROVE Types'
    BY <1>7 DEF StopAllBroadcast
  <1>8. ASSUME StopAllJoined PROVE Types'
    BY <1>8 DEF StopAllJoined
  <1>9. ASSUME Destroy PROVE Types'
    <2> DEFINE c == [m \in Msgs |-> Cardinality({i \in 1 .. Len(queue) : queue[i] = m})]
    <2>1. \A m \in Msgs : Cardinality({i \in 1 .. Len(queue) : queue[i] = m}) \in Nat
      <3> TAKE m \in Msgs
      <3>1. IsFiniteSet(1 .. Len(queue))
        BY FS_Interval
      <3> QED BY <3>1, FS_Subset, FS_CardinalityType
    <2>2. c \in [Msgs -> Nat]
      BY <2>1
    <2>3. freed' = [m \in Msgs |-> freed[m] + c[m]]
      BY <1>9 DEF Destroy
    <2> HIDE DEF c
    <2>4. freed' \in [Msgs -> Nat]
      BY <2>2, <2>3
    <2> QED BY <1>9, <2>4 DEF Destroy
  <1>10. ASSUME NEW w \in Workers, SpuriousWakeup(w) PROVE Types'
    BY <1>10 DEF SpuriousWakeup
  <1>11. ASSUME NEW w \in Workers, Lock(w) PROVE Types'
    BY <1>11 DEF Lock
  <1>12. ASSUME NEW w \in Workers, TestWait(w) PROVE Types'
    BY <1>12 DEF TestWait
  <1>13. ASSUME NEW w \in Workers, TestLeave(w) PROVE Types'
    BY <1>13 DEF TestLeave
  <1>14. ASSUME NEW w \in Workers, CondWait(w) PROVE Types'
    BY <1>14 DEF CondWait
  <1>15. ASSUME NEW w \in Workers, Relock(w) PROVE Types'
    BY <1>15 DEF Relock
  <1>16. ASSUME NEW w \in Workers, Quit(w) PROVE Types'
    BY <1>16 DEF Quit
  <1>17. ASSUME NEW w \in Workers, Take(w), mainPc # "exit" PROVE Types'
    <2>1. Head(queue) \in Msgs /\ Tail(queue) \in Seq(Msgs)
      BY <1>17 DEF Take, IInv, LeaveReason
    <2> QED BY <1>17, <2>1 DEF Take
  <1>18. ASSUME NEW w \in Workers, BeginWork(w) PROVE Types'
    BY <1>18 DEF BeginWork
  <1>19. ASSUME NEW w \in Workers, Handle(w) PROVE Types'
    BY <1>19, NoneAssumption DEF Handle, IInv, JobInHand
  <1>20. ASSUME NEW w \in Workers, EndWork(w) PROVE Types'
    BY <1>20 DEF EndWork
  <1>21. CASE UNCHANGED vars
    BY <1>21 DEF vars
  <1> QED
    BY <1>1, <1>2, <1>3, <1>4, <1>5, <1>6, <1>7, <1>8, <1>9, <1>10, <1>11,
       <1>12, <1>13, <1>14, <1>15, <1>16, <1>17, <1>18, <1>19, <1>20, <1>21, NextCases

LEMMA IInvStep == Types /\ IInv /\ [Next]_vars => IInv'
  <1> SUFFICES ASSUME Types, IInv, [Next]_vars PROVE IInv'
    OBVIOUS
  <1> USE MaxMsgsAssumption, NoneAssumption
      DEF Types, Msgs, Pcs, IInv, MutexHeld, SleeperBlocked, EmptyBeforeSleep,
          LeaveReason, JobInHand, QueueCounted, Phases
  <1>1. ASSUME NEW w \in Workers, CreateThread(w) PROVE IInv'
    BY <1>1 DEF CreateThread
  <1>2. ASSUME CreateFails PROVE IInv'
    BY <1>2 DEF CreateFails
  <1>3. ASSUME CreateReturns PROVE IInv'
    BY <1>3 DEF CreateReturns
  <1>4. ASSUME Enqueue PROVE IInv'
    BY <1>4 DEF Enqueue
  <1>5. ASSUME Call PROVE IInv'
    BY <1>5 DEF Call
  <1>6. ASSUME StopAllSet PROVE IInv'
    BY <1>6 DEF StopAllSet
  <1>7. ASSUME StopAllBroadcast PROVE IInv'
    BY <1>7 DEF StopAllBroadcast
  <1>8. ASSUME StopAllJoined PROVE IInv'
    BY <1>8 DEF StopAllJoined
  <1>9. ASSUME Destroy PROVE IInv'
    BY <1>9 DEF Destroy
  <1>10. ASSUME NEW w \in Workers, SpuriousWakeup(w) PROVE IInv'
    BY <1>10 DEF SpuriousWakeup
  <1>11. ASSUME NEW w \in Workers, Lock(w) PROVE IInv'
    BY <1>11 DEF Lock
  <1>12. ASSUME NEW w \in Workers, TestWait(w) PROVE IInv'
    BY <1>12 DEF TestWait
  <1>13. ASSUME NEW w \in Workers, TestLeave(w) PROVE IInv'
    BY <1>13 DEF TestLeave
  <1>14. ASSUME NEW w \in Workers, CondWait(w) PROVE IInv'
    BY <1>14 DEF CondWait
  <1>15. ASSUME NEW w \in Workers, Relock(w) PROVE IInv'
    BY <1>15 DEF Relock
  <1>16. ASSUME NEW w \in Workers, Quit(w) PROVE IInv'
    BY <1>16 DEF Quit
  <1>17. ASSUME NEW w \in Workers, Take(w), mainPc # "exit" PROVE IInv'
    <2>1. Head(queue) \in Msgs /\ Len(queue') = Len(queue) - 1 /\ Len(queue) > 0
      BY <1>17 DEF Take
    <2>2. QueueCounted'
      BY <1>17, <2>1 DEF Take
    <2> QED BY <1>17, <2>1, <2>2 DEF Take
  <1>18. ASSUME NEW w \in Workers, BeginWork(w) PROVE IInv'
    BY <1>18 DEF BeginWork
  <1>19. ASSUME NEW w \in Workers, Handle(w) PROVE IInv'
    BY <1>19 DEF Handle
  <1>20. ASSUME NEW w \in Workers, EndWork(w) PROVE IInv'
    BY <1>20 DEF EndWork
  <1>21. CASE UNCHANGED vars
    BY <1>21 DEF vars
  <1> QED
    BY <1>1, <1>2, <1>3, <1>4, <1>5, <1>6, <1>7, <1>8, <1>9, <1>10, <1>11,
       <1>12, <1>13, <1>14, <1>15, <1>16, <1>17, <1>18, <1>19, <1>20, <1>21, NextCases

(* m_iRunningThreadNum follows the set of busy workers. *)
RunningCounted == running = Cardinality(BusyWorkers)

LEMMA BusyFinite == IsFiniteSet(BusyWorkers) /\ Cardinality(BusyWorkers) \in Nat
                    /\ Cardinality(BusyWorkers) <= Cardinality(Workers)
  <1>1. BusyWorkers \in SUBSET Workers
    BY DEF BusyWorkers
  <1> QED BY <1>1, WorkersAssumption, FS_Subset, FS_CardinalityType

LEMMA RunningStep ==
  Types /\ IInv /\ RunningCounted /\ [Next]_vars => RunningCounted'
  <1> SUFFICES ASSUME Types, IInv, RunningCounted, [Next]_vars
               PROVE  RunningCounted'
    OBVIOUS
  <1> USE DEF Types
  <1>1. ASSUME NEW w \in Workers, CreateThread(w) PROVE RunningCounted'
    <2>1. BusyWorkers' = BusyWorkers
      BY <1>1 DEF CreateThread, BusyWorkers, Busy
    <2> QED BY <1>1, <2>1 DEF CreateThread, RunningCounted
  <1>2. ASSUME CreateFails PROVE RunningCounted'
    <2>1. BusyWorkers' = BusyWorkers
      BY <1>2 DEF CreateFails, BusyWorkers, Busy
    <2> QED BY <1>2, <2>1 DEF CreateFails, RunningCounted
  <1>3. ASSUME CreateReturns PROVE RunningCounted'
    <2>1. BusyWorkers' = BusyWorkers
      BY <1>3 DEF CreateReturns, BusyWorkers, Busy
    <2> QED BY <1>3, <2>1 DEF CreateReturns, RunningCounted
  <1>4. ASSUME Enqueue PROVE RunningCounted'
    <2>1. BusyWorkers' = BusyWorkers
      BY <1>4 DEF Enqueue, BusyWorkers, Busy
    <2> QED BY <1>4, <2>1 DEF Enqueue, RunningCounted
  <1>5. ASSUME Call PROVE RunningCounted'
    <2>1. BusyWorkers' = BusyWorkers
      BY <1>5 DEF Call, BusyWorkers, Busy
    <2> QED BY <1>5, <2>1 DEF Call, RunningCounted
  <1>6. ASSUME StopAllSet PROVE RunningCounted'
    <2>1. BusyWorkers' = BusyWorkers
      BY <1>6 DEF StopAllSet, BusyWorkers, Busy
    <2> QED BY <1>6, <2>1 DEF StopAllSet, RunningCounted
  <1>7. ASSUME StopAllBroadcast PROVE RunningCounted'
    <2>1. BusyWorkers' = BusyWorkers
      BY <1>7 DEF StopAllBroadcast, BusyWorkers, Busy
    <2> QED BY <1>7, <2>1 DEF StopAllBroadcast, RunningCounted
  <1>8. ASSUME StopAllJoined PROVE RunningCounted'
    <2>1. BusyWorkers' = BusyWorkers
      BY <1>8 DEF StopAllJoined, BusyWorkers, Busy
    <2> QED BY <1>8, <2>1 DEF StopAllJoined, RunningCounted
  <1>9. ASSUME Destroy PROVE RunningCounted'
    <2>1. BusyWorkers' = BusyWorkers
      BY <1>9 DEF Destroy, BusyWorkers, Busy
    <2> QED BY <1>9, <2>1 DEF Destroy, RunningCounted
  <1>10. ASSUME NEW w \in Workers, SpuriousWakeup(w) PROVE RunningCounted'
    <2>1. BusyWorkers' = BusyWorkers
      BY <1>10 DEF SpuriousWakeup, BusyWorkers, Busy
    <2> QED BY <1>10, <2>1 DEF SpuriousWakeup, RunningCounted
  <1>11. ASSUME NEW w \in Workers, Lock(w) PROVE RunningCounted'
    <2>1. BusyWorkers' = BusyWorkers
      BY <1>11 DEF Lock, BusyWorkers, Busy
    <2> QED BY <1>11, <2>1 DEF Lock, RunningCounted
  <1>12. ASSUME NEW w \in Workers, TestWait(w) PROVE RunningCounted'
    <2>1. BusyWorkers' = BusyWorkers
      BY <1>12 DEF TestWait, BusyWorkers, Busy
    <2> QED BY <1>12, <2>1 DEF TestWait, RunningCounted
  <1>13. ASSUME NEW w \in Workers, TestLeave(w) PROVE RunningCounted'
    <2>1. BusyWorkers' = BusyWorkers
      BY <1>13 DEF TestLeave, BusyWorkers, Busy
    <2> QED BY <1>13, <2>1 DEF TestLeave, RunningCounted
  <1>14. ASSUME NEW w \in Workers, CondWait(w) PROVE RunningCounted'
    <2>1. BusyWorkers' = BusyWorkers
      BY <1>14 DEF CondWait, BusyWorkers, Busy
    <2> QED BY <1>14, <2>1 DEF CondWait, RunningCounted
  <1>15. ASSUME NEW w \in Workers, Relock(w) PROVE RunningCounted'
    <2>1. BusyWorkers' = BusyWorkers
      BY <1>15 DEF Relock, BusyWorkers, Busy
    <2> QED BY <1>15, <2>1 DEF Relock, RunningCounted
  <1>16. ASSUME NEW w \in Workers, Quit(w) PROVE RunningCounted'
    <2>1. BusyWorkers' = BusyWorkers
      BY <1>16 DEF Quit, BusyWorkers, Busy
    <2> QED BY <1>16, <2>1 DEF Quit, RunningCounted
  <1>17. ASSUME NEW w \in Workers, Take(w), mainPc # "exit" PROVE RunningCounted'
    <2>1. BusyWorkers' = BusyWorkers
      BY <1>17 DEF Take, BusyWorkers, Busy
    <2> QED BY <1>17, <2>1 DEF Take, RunningCounted
  <1>18. ASSUME NEW w \in Workers, BeginWork(w) PROVE RunningCounted'
    <2>1. BusyWorkers' = BusyWorkers \cup {w} /\ w \notin BusyWorkers
      BY <1>18 DEF BeginWork, BusyWorkers, Busy
    <2>2. Cardinality(BusyWorkers') = Cardinality(BusyWorkers) + 1
      BY <2>1, BusyFinite, FS_AddElement
    <2> QED BY <1>18, <2>2 DEF BeginWork, RunningCounted
  <1>19. ASSUME NEW w \in Workers, Handle(w) PROVE RunningCounted'
    <2>1. BusyWorkers' = BusyWorkers
      BY <1>19 DEF Handle, BusyWorkers, Busy
    <2> QED BY <1>19, <2>1 DEF Handle, RunningCounted
  <1>20. ASSUME NEW w \in Workers, EndWork(w) PROVE RunningCounted'
    <2>1. BusyWorkers' = BusyWorkers \ {w} /\ w \in BusyWorkers
      BY <1>20 DEF EndWork, BusyWorkers, Busy
    <2>2. Cardinality(BusyWorkers') = Cardinality(BusyWorkers) - 1
      BY <2>1, BusyFinite, FS_RemoveElement
    <2> QED BY <1>20, <2>2 DEF EndWork, RunningCounted
  <1>21. CASE UNCHANGED vars
    BY <1>21 DEF vars, RunningCounted, BusyWorkers, Busy
  <1> QED
    BY <1>1, <1>2, <1>3, <1>4, <1>5, <1>6, <1>7, <1>8, <1>9, <1>10, <1>11,
       <1>12, <1>13, <1>14, <1>15, <1>16, <1>17, <1>18, <1>19, <1>20, <1>21, NextCases

LEMMA AwakeFinite == IsFiniteSet(AwakeWorkers) /\ Cardinality(AwakeWorkers) \in Nat
  <1>1. AwakeWorkers \in SUBSET Workers
    BY DEF AwakeWorkers
  <1> QED BY <1>1, WorkersAssumption, FS_Subset, FS_CardinalityType

LEMMA AwakeFiniteNext ==
  IsFiniteSet(AwakeWorkers') /\ Cardinality(AwakeWorkers') \in Nat
  <1>1. AwakeWorkers' \in SUBSET Workers
    BY DEF AwakeWorkers
  <1> QED BY <1>1, WorkersAssumption, FS_Subset, FS_CardinalityType

(* A step that lets nobody fall asleep leaves at least as many awake. *)
LEMMA MoreAwake ==
  ASSUME AwakeWorkers \subseteq AwakeWorkers'
  PROVE  /\ Cardinality(AwakeWorkers) <= Cardinality(AwakeWorkers')
         /\ Cardinality(AwakeWorkers) \in Nat /\ Cardinality(AwakeWorkers') \in Nat
  BY AwakeFinite, AwakeFiniteNext, FS_Subset

LEMMA ThreadOnItsWayStep ==
  Types /\ IInv /\ EveryMessageHasAThread /\ [Next]_vars => EveryMessageHasAThread'
  <1> SUFFICES ASSUME Types, IInv, EveryMessageHasAThread, [Next]_vars
               PROVE  EveryMessageHasAThread'
    OBVIOUS
  <1> USE AwakeFinite DEF Types, EveryMessageHasAThread
  <1>1. ASSUME NEW w \in Workers, CreateThread(w) PROVE EveryMessageHasAThread'
    <2>1. AwakeWorkers \subseteq AwakeWorkers'
      BY <1>1 DEF CreateThread, AwakeWorkers, Awake
    <2> QED BY <1>1, <2>1, MoreAwake DEF CreateThread
  <1>2. ASSUME CreateFails PROVE EveryMessageHasAThread'
    <2>1. AwakeWorkers \subseteq AwakeWorkers'
      BY <1>2 DEF CreateFails, AwakeWorkers, Awake
    <2> QED BY <1>2, <2>1, MoreAwake DEF CreateFails
  <1>3. ASSUME CreateReturns PROVE EveryMessageHasAThread'
    <2>1. AwakeWorkers \subseteq AwakeWorkers'
      BY <1>3 DEF CreateReturns, AwakeWorkers, Awake
    <2> QED BY <1>3, <2>1, MoreAwake DEF CreateReturns
  <1>4. ASSUME Enqueue PROVE EveryMessageHasAThread'
    <2>1. AwakeWorkers \subseteq AwakeWorkers'
      BY <1>4 DEF Enqueue, AwakeWorkers, Awake
    <2> QED BY <1>4, <2>1, MoreAwake DEF Enqueue
  <1>5. ASSUME Call PROVE EveryMessageHasAThread'
    <2>1. CASE condWait = {}
      BY <1>5, <2>1 DEF Call
    <2>2. ASSUME NEW v \in condWait, condWait' = condWait \ {v} PROVE EveryMessageHasAThread'
      <3>1. AwakeWorkers' = AwakeWorkers \cup {v} /\ v \notin AwakeWorkers
        BY <1>5, <2>2 DEF Call, AwakeWorkers, Awake, IInv, SleeperBlocked
      <3>2. Cardinality(AwakeWorkers') = Cardinality(AwakeWorkers) + 1
        BY <3>1, FS_AddElement
      <3> QED BY <1>5, <3>2 DEF Call
    <2> QED BY <1>5, <2>1, <2>2 DEF Call
  <1>6. ASSUME StopAllSet PROVE EveryMessageHasAThread'
    BY <1>6 DEF StopAllSet
  <1>7. ASSUME StopAllBroadcast PROVE EveryMessageHasAThread'
    BY <1>7 DEF StopAllBroadcast
  <1>8. ASSUME StopAllJoined PROVE EveryMessageHasAThread'
    <2>1. AwakeWorkers \subseteq AwakeWorkers'
      BY <1>8 DEF StopAllJoined, AwakeWorkers, Awake
    <2> QED BY <1>8, <2>1, MoreAwake DEF StopAllJoined
  <1>9. ASSUME Destroy PROVE EveryMessageHasAThread'
    <2>1. Len(queue') = 0 /\ Cardinality(AwakeWorkers') \in Nat
      BY <1>9, AwakeFiniteNext DEF Destroy, IInv, EmptyBeforeSleep
    <2> QED BY <1>9, <2>1 DEF Destroy
  <1>10. ASSUME NEW w \in Workers, SpuriousWakeup(w) PROVE EveryMessageHasAThread'
    <2>1. AwakeWorkers \subseteq AwakeWorkers'
      BY <1>10 DEF SpuriousWakeup, AwakeWorkers, Awake
    <2> QED BY <1>10, <2>1, MoreAwake DEF SpuriousWakeup
  <1>11. ASSUME NEW w \in Workers, Lock(w) PROVE EveryMessageHasAThread'
    <2>1. AwakeWorkers \subseteq AwakeWorkers'
      BY <1>11 DEF Lock, AwakeWorkers, Awake
    <2> QED BY <1>11, <2>1, MoreAwake DEF Lock
  <1>12. ASSUME NEW w \in Workers, TestWait(w) PROVE EveryMessageHasAThread'
    <2>1. Len(queue') = 0 /\ Cardinality(AwakeWorkers') \in Nat
      BY <1>12, AwakeFiniteNext DEF TestWait, IInv, EmptyBeforeSleep
    <2> QED BY <1>12, <2>1 DEF TestWait
  <1>13. ASSUME NEW w \in Workers, TestLeave(w) PROVE EveryMessageHasAThread'
    <2>1. AwakeWorkers \subseteq AwakeWorkers'
      BY <1>13 DEF TestLeave, AwakeWorkers, Awake
    <2> QED BY <1>13, <2>1, MoreAwake DEF TestLeave
  <1>14. ASSUME NEW w \in Workers, CondWait(w) PROVE EveryMessageHasAThread'
    <2>1. Len(queue') = 0 /\ Cardinality(AwakeWorkers') \in Nat
      BY <1>14, AwakeFiniteNext DEF CondWait, IInv, EmptyBeforeSleep
    <2> QED BY <1>14, <2>1 DEF CondWait
  <1>15. ASSUME NEW w \in Workers, Relock(w) PROVE EveryMessageHasAThread'
    <2>1. AwakeWorkers \subseteq AwakeWorkers'
      BY <1>15 DEF Relock, AwakeWorkers, Awake
    <2> QED BY <1>15, <2>1, MoreAwake DEF Relock
  <1>16. ASSUME NEW w \in Workers, Quit(w) PROVE EveryMessageHasAThread'
    BY <1>16 DEF Quit
  <1>17. ASSUME NEW w \in Workers, Take(w), mainPc # "exit" PROVE EveryMessageHasAThread'
    <2>1. AwakeWorkers' = AwakeWorkers \ {w} /\ w \in AwakeWorkers
      BY <1>17 DEF Take, AwakeWorkers, Awake
    <2>2. Cardinality(AwakeWorkers') = Cardinality(AwakeWorkers) - 1
      BY <2>1, FS_RemoveElement
    <2>3. Len(queue') = Len(queue) - 1
      BY <1>17 DEF Take, IInv, LeaveReason
    <2> QED BY <1>17, <2>2, <2>3 DEF Take
  <1>18. ASSUME NEW w \in Workers, BeginWork(w) PROVE EveryMessageHasAThread'
    <2>1. AwakeWorkers \subseteq AwakeWorkers'
      BY <1>18 DEF BeginWork, AwakeWorkers, Awake
    <2> QED BY <1>18, <2>1, MoreAwake DEF BeginWork
  <1>19. ASSUME NEW w \in Workers, Handle(w) PROVE EveryMessageHasAThread'
    <2>1. AwakeWorkers \subseteq AwakeWorkers'
      BY <1>19 DEF Handle, AwakeWorkers, Awake
    <2> QED BY <1>19, <2>1, MoreAwake DEF Handle
  <1>20. ASSUME NEW w \in Workers, EndWork(w) PROVE EveryMessageHasAThread'
    <2>1. AwakeWorkers \subseteq AwakeWorkers'
      BY <1>20 DEF EndWork, AwakeWorkers, Awake
    <2> QED BY <1>20, <2>1, MoreAwake DEF EndWork
  <1>21. CASE UNCHANGED vars
    BY <1>21 DEF vars, AwakeWorkers, Awake
  <1> QED
    BY <1>1, <1>2, <1>3, <1>4, <1>5, <1>6, <1>7, <1>8, <1>9, <1>10, <1>11,
       <1>12, <1>13, <1>14, <1>15, <1>16, <1>17, <1>18, <1>19, <1>20, <1>21, NextCases

-----------------------------------------------------------------------------
(* The invariant behind all theorems below. *)
Inv == Types /\ IInv /\ RunningCounted /\ EveryMessageHasAThread

LEMMA Invariance == Spec => []Inv
  <1>1. Init => Inv
    <2> SUFFICES ASSUME Init PROVE Inv
      OBVIOUS
    <2>1. BusyWorkers = {}
      BY DEF Init, BusyWorkers, Busy
    <2>2. RunningCounted
      BY <2>1, FS_EmptySet DEF Init, RunningCounted
    <2>3. Types
      <3>1. queue \in Seq(Msgs) /\ freed \in [Msgs -> Nat]
        BY DEF Init
      <3>2. pc \in [Workers -> Pcs] /\ job \in [Workers -> Msgs \cup {None}]
        BY DEF Init, Pcs
      <3>3. ifrunning \in [Workers -> BOOLEAN]
        BY DEF Init
      <3>4. sent \in 0 .. MaxMsgs /\ count \in Int /\ running \in Int
        <4>1. sent = 0 /\ count = 0 /\ running = 0
          BY DEF Init
        <4> QED BY <4>1, MaxMsgsAssumption
      <3>5. /\ mutex \in Workers \cup {None} /\ condWait \subseteq Workers
            /\ mainPc \in MainPcs /\ shutdown \in BOOLEAN
        BY DEF Init, MainPcs
      <3> QED BY <3>1, <3>2, <3>3, <3>4, <3>5 DEF Types
    <2>5. EveryMessageHasAThread
      BY DEF Init, EveryMessageHasAThread
    <2>4. IInv
      BY MaxMsgsAssumption, NoneAssumption
      DEF Init, IInv, MutexHeld, SleeperBlocked, EmptyBeforeSleep, LeaveReason,
          JobInHand, QueueCounted, Phases
    <2> QED BY <2>2, <2>3, <2>4, <2>5 DEF Inv
  <1>2. Inv /\ [Next]_vars => Inv'
    BY TypesStep, IInvStep, RunningStep, ThreadOnItsWayStep DEF Inv
  <1> QED BY <1>1, <1>2, PTL DEF Spec

(* Every variable keeps its type; in particular both counters stay within  *)
(* their bounds: no message is subtracted twice and no thread counted      *)
(* twice.                                                                  *)
THEOREM TypeCorrect == Spec => []TypeOK
  <1>1. Inv => TypeOK
    BY BusyFinite, MaxMsgsAssumption
    DEF Inv, Types, IInv, QueueCounted, RunningCounted, TypeOK
  <1> QED BY <1>1, Invariance, PTL

(* The strengthening is itself an invariant. *)
THEOREM InductiveInvariant == Spec => []IInv
  <1>1. Inv => IInv
    BY DEF Inv
  <1> QED BY <1>1, Invariance, PTL

(* front() is never called on an empty queue, whatever m_shutdown does     *)
(* between its two reads and however often a thread is woken for nothing.  *)
THEOREM NoEmptyTake == Spec => []TakeFindsMessage
  <1>1. Inv => TakeFindsMessage
    BY DEF Inv, IInv, LeaveReason, TakeFindsMessage
  <1> QED BY <1>1, Invariance, PTL

(* Both counters of the pool agree with what they count. *)
THEOREM CountersCorrect == Spec => []CountersAgree
  <1>1. Inv => CountersAgree
    BY DEF Inv, IInv, QueueCounted, RunningCounted, CountersAgree
  <1> QED BY <1>1, Invariance, PTL

(* No wakeup is lost: while a thread sleeps, every queued message has a    *)
(* thread on its way to the queue.                                         *)
THEOREM NoLostWakeup == Spec => []EveryMessageHasAThread
  <1>1. Inv => EveryMessageHasAThread
    BY DEF Inv
  <1> QED BY <1>1, Invariance, PTL

-----------------------------------------------------------------------------
(* Refinement.  The queue holds the last messages sent, without a gap;     *)
(* workers hold older ones, no two the same; while the pool is created     *)
(* there is nothing to hold.                                               *)
LineOf(q, s) == \A i \in 1 .. Len(q) : q[i] = s - Len(q) + i

InLine ==
  /\ LineOf(queue, sent)
  /\ \A w \in Workers : job[w] # None => job[w] <= sent - Len(queue)
  /\ \A v, w \in Workers : job[v] # None /\ job[v] = job[w] => v = w
  /\ mainPc = "create" =>
       /\ queue = <<>> /\ ~shutdown
       /\ \A w \in Workers : job[w] = None

Serving == {job[w] : w \in Workers} \ {None}
Released == {m \in Msgs : freed[m] > 0}

(* A step that touches no message changes nothing MsgDelivery shows. *)
LEMMA InternalStep ==
  ASSUME InLine, UNCHANGED <<queue, sent, job, freed>>,
         (mainPc = "exit") = (mainPc = "exit")',
         mainPc' = "create" => mainPc = "create" /\ shutdown' = shutdown
  PROVE  InLine' /\ UNCHANGED Delivery!vars
  BY DEF InLine, LineOf, Delivery!vars

LEMMA ArriveStep ==
  ASSUME Types, InLine, Enqueue
  PROVE  InLine' /\ Delivery!Arrive
  <1> USE DEF Types
  <1>1. /\ queue' = Append(queue, sent + 1) /\ sent' = sent + 1 /\ sent \in Nat
        /\ Len(queue') = Len(queue) + 1 /\ Len(queue) \in Nat
        /\ UNCHANGED <<job, freed, shutdown>> /\ mainPc = "serve" /\ mainPc' = "signal"
        /\ sent < MaxMsgs
    BY MaxMsgsAssumption DEF Enqueue
  <1>2. LineOf(queue', sent')
    <2> SUFFICES ASSUME NEW i \in 1 .. Len(queue')
                 PROVE  queue'[i] = sent' - Len(queue') + i
      BY DEF LineOf
    <2>1. CASE i \in 1 .. Len(queue)
      <3>1. queue'[i] = queue[i]
        BY <1>1, <2>1
      <3>2. queue[i] = sent - Len(queue) + i
        BY <2>1 DEF InLine, LineOf
      <3> QED BY <1>1, <3>1, <3>2, <2>1
    <2>2. CASE i = Len(queue) + 1
      BY <1>1, <2>2
    <2> QED BY <1>1, <2>1, <2>2
  <1>3. InLine'
    <2>1. sent' - Len(queue') = sent - Len(queue)
      BY <1>1
    <2> QED BY <1>1, <1>2, <2>1 DEF InLine
  <1> QED BY <1>1, <1>3 DEF Delivery!Arrive

LEMMA ServeStep ==
  ASSUME Types, IInv, InLine, NEW w \in Workers, Take(w), mainPc # "exit"
  PROVE  InLine' /\ Delivery!Serve
  <1> USE DEF Types
  <1>1. /\ queue # <<>> /\ queue' = Tail(queue) /\ Len(queue) \in Nat \ {0}
        /\ Len(queue') = Len(queue) - 1 /\ sent \in Nat
        /\ job' = [job EXCEPT ![w] = Head(queue)] /\ job[w] = None
        /\ Head(queue) \in Msgs /\ Head(queue) = queue[1]
        /\ UNCHANGED <<sent, freed, mainPc, shutdown>>
    <2>1. queue # <<>> /\ queue \in Seq(Msgs)
      BY DEF Take, IInv, LeaveReason
    <2>2. /\ Len(queue) \in Nat \ {0} /\ Len(Tail(queue)) = Len(queue) - 1
          /\ Head(queue) \in Msgs /\ Head(queue) = queue[1] /\ sent \in Nat
      BY <2>1, MaxMsgsAssumption
    <2>3. job[w] = None
      BY DEF Take, IInv, JobInHand
    <2> QED BY <2>1, <2>2, <2>3 DEF Take
  <1>2. Head(queue) = sent - Len(queue) + 1
    BY <1>1 DEF InLine, LineOf
  <1>3. LineOf(queue', sent')
    <2> SUFFICES ASSUME NEW i \in 1 .. Len(queue')
                 PROVE  queue'[i] = sent' - Len(queue') + i
      BY DEF LineOf
    <2>1. queue'[i] = queue[i + 1] /\ i + 1 \in 1 .. Len(queue)
      BY <1>1
    <2>2. queue[i + 1] = sent - Len(queue) + (i + 1)
      BY <2>1 DEF InLine, LineOf
    <2> QED BY <1>1, <2>1, <2>2
  <1>4. \A v \in Workers : job'[v] # None => job'[v] <= sent' - Len(queue')
    <2> TAKE v \in Workers
    <2>1. CASE v = w
      BY <1>1, <1>2, <2>1
    <2>2. CASE v # w
      <3>1. job'[v] = job[v] /\ job[v] \in Msgs \cup {None}
        BY <1>1, <2>2
      <3>2. ASSUME job[v] # None PROVE job[v] <= sent - Len(queue)
        BY <3>2 DEF InLine
      <3> QED BY <1>1, <3>1, <3>2 DEF Msgs
    <2> QED BY <2>1, <2>2
  <1>5. \A v \in Workers \ {w} : job'[v] = job[v] /\ job[v] # Head(queue)
    <2> TAKE v \in Workers \ {w}
    <2>1. job[v] # None => job[v] <= sent - Len(queue) /\ job[v] \in Nat
      BY DEF InLine, Msgs
    <2> QED BY <1>1, <1>2, <2>1, NoneAssumption DEF Msgs
  <1>6. InLine'
    <2>1. mainPc # "create"
      BY <1>1 DEF InLine
    <2>2. \A v, u \in Workers : job'[v] # None /\ job'[v] = job'[u] => v = u
      BY <1>1, <1>5 DEF InLine
    <2> QED BY <1>1, <1>3, <1>4, <2>1, <2>2 DEF InLine
  <1>7. Serving' = Serving \cup {Head(queue)}
    BY <1>1, <1>5, NoneAssumption DEF Serving, Msgs
  <1> QED BY <1>1, <1>6, <1>7 DEF Delivery!Serve, Serving

LEMMA FinishStep ==
  ASSUME Types, IInv, InLine, NEW w \in Workers, Handle(w)
  PROVE  InLine' /\ Delivery!Finish
  <1> USE DEF Types
  <1> DEFINE m == job[w]
  <1>1. /\ m \in Msgs /\ m # None
        /\ freed' = [freed EXCEPT ![m] = @ + 1]
        /\ job' = [job EXCEPT ![w] = None]
        /\ UNCHANGED <<queue, sent, mainPc, shutdown>>
    BY DEF Handle, IInv, JobInHand
  <1>2. InLine'
    <2>1. \A v \in Workers : job'[v] # None => job'[v] = job[v] /\ v # w
      BY <1>1
    <2> QED BY <1>1, <2>1 DEF InLine, LineOf
  <1>3. Serving' = Serving \ {m}
    BY <1>1 DEF Serving, InLine
  <1>4. Released' = Released \cup {m}
    BY <1>1 DEF Released
  <1>5. m \in Serving
    BY <1>1 DEF Serving
  <1> QED
    BY <1>1, <1>2, <1>3, <1>4, <1>5 DEF Delivery!Finish, Serving, Released

LEMMA DestroyStep ==
  ASSUME Types, IInv, InLine, Destroy
  PROVE  InLine' /\ Delivery!Discard
  <1> USE DEF Types
  <1> DEFINE at(m) == {i \in 1 .. Len(queue) : queue[i] = m}
  <1>1. /\ freed' = [m \in Msgs |-> freed[m] + Cardinality(at(m))]
        /\ queue' = <<>> /\ mainPc = "stopped" /\ mainPc' = "exit"
        /\ UNCHANGED <<job, sent, shutdown>>
    BY DEF Destroy
  <1>2. \A w \in Workers : job[w] = None
    BY <1>1 DEF IInv, Phases, JobInHand
  <1>3. InLine'
    BY <1>1, <1>2 DEF InLine, LineOf
  <1>4. ASSUME NEW m \in Msgs PROVE m \in Released' <=> m \in Released \/ at(m) # {}
    <2>1. IsFiniteSet(at(m))
      <3>1. IsFiniteSet(1 .. Len(queue))
        BY FS_Interval
      <3> QED BY <3>1, FS_Subset
    <2>2. Cardinality(at(m)) \in Nat /\ (Cardinality(at(m)) = 0 <=> at(m) = {})
      BY <2>1, FS_CardinalityType, FS_EmptySet
    <2>3. freed'[m] = freed[m] + Cardinality(at(m)) /\ freed[m] \in Nat
      BY <1>1
    <2> HIDE DEF at
    <2> QED BY <2>2, <2>3 DEF Released
  <1>5. Released' = Released \cup {queue[i] : i \in DOMAIN queue}
    <2>1. DOMAIN queue = 1 .. Len(queue) /\ \A i \in DOMAIN queue : queue[i] \in Msgs
      OBVIOUS
    <2>2. Released \subseteq Msgs /\ Released' \subseteq Msgs
      BY DEF Released
    <2> QED BY <1>4, <2>1, <2>2
  <1>6. Serving = {} /\ Serving' = {}
    BY <1>1, <1>2 DEF Serving
  <1> QED BY <1>1, <1>3, <1>5, <1>6 DEF Delivery!Discard, Serving, Released

LEMMA CreateFailsStep ==
  ASSUME Types, InLine, CreateFails
  PROVE  InLine' /\ Delivery!Discard
  <1>1. /\ queue = <<>> /\ UNCHANGED <<queue, sent, job, freed, shutdown>>
        /\ mainPc = "create" /\ mainPc' = "exit"
        /\ \A w \in Workers : job[w] = None
    BY DEF CreateFails, InLine
  <1>2. InLine'
    BY <1>1 DEF InLine, LineOf
  <1>3. Serving = {} /\ Serving' = {}
    BY <1>1 DEF Serving
  <1>4. {queue[i] : i \in DOMAIN queue} = {} /\ Released' = Released
    BY <1>1 DEF Released
  <1> QED BY <1>1, <1>2, <1>3, <1>4 DEF Delivery!Discard, Serving, Released

LEMMA DeliveryStep ==
  ASSUME Types, IInv, InLine, [Next]_vars
  PROVE  InLine' /\ [Delivery!Next]_(Delivery!vars)
  <1>1. CASE UNCHANGED vars \/ CreateReturns \/ Call \/ StopAllSet
             \/ StopAllBroadcast \/ StopAllJoined
    BY <1>1, InternalStep
    DEF vars, CreateReturns, Call, StopAllSet, StopAllBroadcast, StopAllJoined
  <1>2. ASSUME NEW w \in Workers,
               \/ CreateThread(w) \/ SpuriousWakeup(w) \/ Lock(w) \/ TestWait(w)
               \/ TestLeave(w) \/ CondWait(w) \/ Relock(w) \/ Quit(w)
               \/ BeginWork(w) \/ EndWork(w)
        PROVE  InLine' /\ UNCHANGED Delivery!vars
    BY <1>2, InternalStep
    DEF CreateThread, SpuriousWakeup, Lock, TestWait, TestLeave, CondWait,
        Relock, Quit, BeginWork, EndWork
  <1> QED
    BY <1>1, <1>2, ArriveStep, ServeStep, FinishStep, DestroyStep,
       CreateFailsStep, NextCases DEF Delivery!Next

(* The pool implements MsgDelivery: for any number of workers and          *)
(* messages, in order, each message to one worker, each released, and the  *)
(* rest discarded only when no worker has one in hand.                     *)
THEOREM ImplementsDelivery == Spec => DeliverySpec
  <1>1. Init => InLine /\ Delivery!Init
    <2> SUFFICES ASSUME Init PROVE InLine /\ Delivery!Init
      OBVIOUS
    <2>1. InLine
      BY DEF Init, InLine, LineOf
    <2>2. Serving = {} /\ Released = {}
      BY DEF Init, Serving, Released
    <2> QED BY <2>1, <2>2 DEF Init, Delivery!Init, Serving, Released
  <1>2. Inv /\ InLine /\ [Next]_vars => InLine' /\ [Delivery!Next]_(Delivery!vars)
    BY DeliveryStep DEF Inv
  <1>3. Spec => Delivery!Spec
    BY <1>1, <1>2, Invariance, PTL DEF Spec, Delivery!Spec
  <1> QED BY <1>3 DEF DeliverySpec
=============================================================================
