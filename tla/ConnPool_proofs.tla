--------------------------- MODULE ConnPool_proofs ---------------------------
(***************************************************************************)
(* Theorems about ConnPool, for any finite set of connection objects, any  *)
(* waiting time and any number of clients and messages.                    *)
(*                                                                         *)
(* Everything rests on Places: the two lists, the clients and the hands of *)
(* the two threads share no object, although an object is in no list       *)
(* between two lock scopes.  So nobody but its holder changes the sequence *)
(* number, the buffer or the time of an object.                            *)
(***************************************************************************)
EXTENDS ConnPool, FiniteSetTheorems, TLAPS

-----------------------------------------------------------------------------
(* Lists without repetition, as the free list and the recycling list are:  *)
(* what appending, erasing and taking off the head do to their elements.   *)

LEMMA AppendList ==
  ASSUME NEW S, NEW l \in Seq(S), NEW c \in S
  PROVE  /\ Append(l, c) \in Seq(S) /\ Len(Append(l, c)) = Len(l) + 1
         /\ Range(Append(l, c)) = Range(l) \cup {c}
         /\ IsInjective(l) /\ c \notin Range(l) => IsInjective(Append(l, c))
  <1> DEFINE a == Append(l, c)
  <1>1. /\ a \in Seq(S) /\ Len(a) = Len(l) + 1 /\ Len(l) \in Nat
        /\ a[Len(l) + 1] = c /\ \A i \in 1 .. Len(l) : a[i] = l[i]
        /\ DOMAIN l = 1 .. Len(l) /\ DOMAIN a = 1 .. Len(l) + 1
    OBVIOUS
  <1> HIDE DEF a
  <1>2. Range(a) = Range(l) \cup {c}
    <2>1. Range(a) \subseteq Range(l) \cup {c}
      BY <1>1 DEF Range
    <2>2. \A i \in 1 .. Len(l) : i \in 1 .. Len(l) + 1
      BY <1>1
    <2>3. Range(l) \subseteq Range(a)
      BY <1>1, <2>2 DEF Range
    <2>4. Len(l) + 1 \in 1 .. Len(l) + 1
      BY <1>1
    <2>5. c \in Range(a)
      BY <1>1, <2>4 DEF Range
    <2> QED BY <2>1, <2>3, <2>5
  <1>3. ASSUME IsInjective(l), c \notin Range(l) PROVE IsInjective(a)
    <2> SUFFICES ASSUME NEW i \in 1 .. Len(l) + 1, NEW j \in 1 .. Len(l) + 1, a[i] = a[j]
                 PROVE  i = j
      BY <1>1 DEF IsInjective
    <2>1. \A k \in 1 .. Len(l) : a[k] # c
      BY <1>1, <1>3 DEF Range
    <2>2. CASE i \in 1 .. Len(l) /\ j \in 1 .. Len(l)
      BY <1>1, <1>3, <2>2 DEF IsInjective
    <2>3. CASE i \notin 1 .. Len(l) \/ j \notin 1 .. Len(l)
      BY <1>1, <2>1, <2>3
    <2> QED BY <2>2, <2>3
  <1> QED BY <1>1, <1>2, <1>3 DEF a

LEMMA RemoveList ==
  ASSUME NEW S, NEW l \in Seq(S), NEW i \in DOMAIN l, IsInjective(l)
  PROVE  /\ RemoveAt(l, i) \in Seq(S) /\ Len(RemoveAt(l, i)) = Len(l) - 1
         /\ Range(RemoveAt(l, i)) = Range(l) \ {l[i]}
         /\ IsInjective(RemoveAt(l, i)) /\ l[i] \in Range(l) /\ l[i] \in S
         /\ Len(l) > 0
  <1> DEFINE r == RemoveAt(l, i)
             n == Len(l)
  <1>1. n \in Nat /\ i \in 1 .. n /\ DOMAIN l = 1 .. n
    OBVIOUS
  <1>2. /\ SubSeq(l, 1, i - 1) \in Seq(S) /\ Len(SubSeq(l, 1, i - 1)) = i - 1
        /\ \A k \in 1 .. i - 1 : SubSeq(l, 1, i - 1)[k] = l[k]
    BY <1>1
  <1>3. /\ SubSeq(l, i + 1, n) \in Seq(S) /\ Len(SubSeq(l, i + 1, n)) = n - i
        /\ \A k \in 1 .. n - i : SubSeq(l, i + 1, n)[k] = l[i + k]
    BY <1>1
  <1>4. /\ r \in Seq(S) /\ Len(r) = n - 1 /\ DOMAIN r = 1 .. n - 1
        /\ \A k \in 1 .. n - 1 : r[k] = IF k < i THEN l[k] ELSE l[k + 1]
    <2> DEFINE x == SubSeq(l, 1, i - 1)
               y == SubSeq(l, i + 1, n)
    <2>1. r = x \o y /\ x \in Seq(S) /\ y \in Seq(S) /\ Len(x) = i - 1 /\ Len(y) = n - i
      BY <1>2, <1>3 DEF RemoveAt
    <2> HIDE DEF x, y, r, n
    <2>2. /\ r \in Seq(S) /\ Len(r) = n - 1 /\ DOMAIN r = 1 .. n - 1
          /\ \A k \in 1 .. n - 1 : r[k] = IF k <= i - 1 THEN x[k] ELSE y[k - (i - 1)]
      BY <1>1, <2>1
    <2>3. ASSUME NEW k \in 1 .. n - 1 PROVE r[k] = IF k < i THEN l[k] ELSE l[k + 1]
      <3>1. CASE k < i
        BY <1>1, <1>2, <2>2, <3>1 DEF x
      <3>2. CASE ~(k < i)
        <4>1. k - (i - 1) \in 1 .. n - i /\ i + (k - (i - 1)) = k + 1
          BY <1>1, <3>2
        <4>2. y[k - (i - 1)] = l[i + (k - (i - 1))]
          BY <1>3, <4>1 DEF y
        <4> QED BY <1>1, <2>2, <3>2, <4>1, <4>2
      <3> QED BY <3>1, <3>2
    <2> QED BY <2>2, <2>3
  <1> HIDE DEF r
  <1>5. IsInjective(r)
    <2>1. SUFFICES ASSUME NEW j \in 1 .. n - 1, NEW k \in 1 .. n - 1, r[j] = r[k]
                   PROVE  j = k
      BY <1>4 DEF IsInjective
    <2>2. \A x, y \in 1 .. n : l[x] = l[y] => x = y
      BY <1>1 DEF IsInjective
    <2> HIDE DEF n
    <2>3. /\ j \in 1 .. n /\ k \in 1 .. n /\ j + 1 \in 1 .. n /\ k + 1 \in 1 .. n
          /\ j # i - 1 \/ j + 1 = i
      BY <1>1
    <2>4. CASE j < i /\ k < i
      BY <1>4, <2>1, <2>2, <2>3, <2>4
    <2>5. CASE ~(j < i) /\ ~(k < i)
      <3>1. l[j + 1] = l[k + 1]
        BY <1>4, <2>1, <2>5
      <3>2. j + 1 = k + 1
        BY <2>2, <2>3, <3>1
      <3> QED BY <3>2
    <2>6. CASE j < i /\ ~(k < i)
      <3>1. l[j] = l[k + 1]
        BY <1>4, <2>1, <2>6
      <3>2. j = k + 1
        BY <2>2, <2>3, <3>1
      <3> QED BY <1>1, <2>6, <3>2
    <2>7. CASE ~(j < i) /\ k < i
      <3>1. l[j + 1] = l[k]
        BY <1>4, <2>1, <2>7
      <3>2. j + 1 = k
        BY <2>2, <2>3, <3>1
      <3> QED BY <1>1, <2>7, <3>2
    <2> QED BY <2>4, <2>5, <2>6, <2>7
  <1>6. Range(r) = Range(l) \ {l[i]}
    <2>1. ASSUME NEW k \in 1 .. n - 1 PROVE r[k] \in Range(l) \ {l[i]}
      <3>1. CASE k < i
        BY <1>1, <1>4, <3>1 DEF IsInjective, Range
      <3>2. CASE ~(k < i)
        <4>1. k + 1 \in 1 .. n /\ k + 1 # i /\ r[k] = l[k + 1]
          BY <1>1, <1>4, <3>2
        <4> QED BY <1>1, <4>1 DEF IsInjective, Range
      <3> QED BY <3>1, <3>2
    <2>2. ASSUME NEW k \in 1 .. n, k # i PROVE l[k] \in Range(r)
      <3>1. CASE k < i
        <4>1. k \in 1 .. n - 1 /\ r[k] = l[k]
          BY <1>1, <1>4, <3>1
        <4> QED BY <1>4, <4>1 DEF Range
      <3>2. CASE k > i
        <4>1. k - 1 \in 1 .. n - 1 /\ ~(k - 1 < i) /\ (k - 1) + 1 = k
          BY <1>1, <3>2
        <4>2. r[k - 1] = l[k]
          BY <1>4, <4>1
        <4> QED BY <1>4, <4>1, <4>2 DEF Range
      <3> QED BY <1>1, <2>2, <3>1, <3>2
    <2>3. Range(r) \subseteq Range(l) \ {l[i]}
      BY <1>4, <2>1 DEF Range
    <2>4. Range(l) \ {l[i]} \subseteq Range(r)
      BY <1>1, <2>2 DEF Range
    <2> QED BY <2>3, <2>4
  <1>7. l[i] \in Range(l) /\ l[i] \in S
    BY DEF Range
  <1> QED BY <1>1, <1>4, <1>5, <1>6, <1>7 DEF r

LEMMA TailList ==
  ASSUME NEW S, NEW l \in Seq(S), l # <<>>, IsInjective(l)
  PROVE  /\ Tail(l) \in Seq(S) /\ Len(Tail(l)) = Len(l) - 1
         /\ Range(Tail(l)) = Range(l) \ {Head(l)}
         /\ IsInjective(Tail(l)) /\ Head(l) \in Range(l) /\ Head(l) \in S
         /\ Len(l) > 0
  <1>1. 1 \in DOMAIN l /\ Head(l) = l[1] /\ Len(l) \in Nat
    OBVIOUS
  <1>2. Tail(l) = RemoveAt(l, 1)
    <2>1. SubSeq(l, 1, 1 - 1) = <<>>
      BY <1>1
    <2>2. SubSeq(l, 1 + 1, Len(l)) = Tail(l) /\ Tail(l) \in Seq(S)
      BY <1>1
    <2> QED BY <2>1, <2>2 DEF RemoveAt
  <1>3. /\ RemoveAt(l, 1) \in Seq(S) /\ Len(RemoveAt(l, 1)) = Len(l) - 1
        /\ Range(RemoveAt(l, 1)) = Range(l) \ {l[1]}
        /\ IsInjective(RemoveAt(l, 1)) /\ l[1] \in Range(l) /\ l[1] \in S
        /\ Len(l) > 0
    BY <1>1, RemoveList
  <1> QED BY <1>1, <1>2, <1>3

LEMMA RangeInSet == ASSUME NEW S, NEW l \in Seq(S) PROVE Range(l) \subseteq S
  BY DEF Range

(* how often a list without repetition holds an object *)
LEMMA CountInList ==
  ASSUME NEW S, NEW l \in Seq(S), IsInjective(l), NEW c
  PROVE  Cardinality({i \in DOMAIN l : l[i] = c}) = IF c \in Range(l) THEN 1 ELSE 0
  <1> DEFINE at == {i \in DOMAIN l : l[i] = c}
  <1>1. CASE c \in Range(l)
    <2>1. PICK i \in DOMAIN l : l[i] = c
      BY <1>1 DEF Range
    <2>2. at = {i}
      BY <2>1 DEF IsInjective
    <2> QED BY <1>1, <2>2, FS_Singleton
  <1>2. CASE c \notin Range(l)
    <2>1. at = {}
      BY <1>2 DEF Range
    <2> QED BY <1>2, <2>1, FS_EmptySet
  <1> QED BY <1>1, <1>2

(* The list of a finite set holds each of its elements once. *)
LEMMA SetToSeqList ==
  ASSUME NEW S, IsFiniteSet(S)
  PROVE  /\ SetToSeq(S) \in Seq(S) /\ Len(SetToSeq(S)) = Cardinality(S)
         /\ Range(SetToSeq(S)) = S /\ IsInjective(SetToSeq(S))
  <1> DEFINE n == Cardinality(S)
             l == SetToSeq(S)
  <1>1. n \in Nat /\ ExistsBijection(1 .. n, S)
    BY FS_CardinalityType
  <1>2. \E f \in [1 .. n -> S] : IsInjective(f)
    BY <1>1 DEF ExistsBijection, Bijection, Injection, IsInjective
  <1>3. l \in [1 .. n -> S] /\ IsInjective(l)
    BY <1>2 DEF SetToSeq
  <1> HIDE DEF l
  <1>4. l \in Seq(S) /\ Len(l) = n
    BY <1>1, <1>3
  <1>5. IsFiniteSet(1 .. n) /\ Cardinality(1 .. n) = n
    BY <1>1, FS_Interval
  <1>6. l \in Injection(1 .. n, S)
    BY <1>3 DEF Injection, IsInjective
  <1>7. l \in Surjection(1 .. n, S)
    BY <1>5, <1>6, FS_Injection
  <1>8. Range(l) = S
    BY <1>3, <1>7 DEF Surjection, Range
  <1> QED BY <1>3, <1>4, <1>8 DEF l

-----------------------------------------------------------------------------
(* The inductive invariant.                                                *)

(* what each thread has in hand, and why the recycler may take all *)
Control ==
  /\ cur # None <=> mainPc \in {"open", "free", "recylock", "recy"}
  /\ victim # None <=> recPc \in {"freelock", "free", "lastfreelock", "lastfree"}
  /\ recPc \in {"lastlock", "lastscan", "lastfreelock", "lastfree"} => stop
  /\ mainPc = "get" => clients < MaxClients

Listed == Range(freeList) \cup Range(recyList)

Places ==
  /\ IsInjective(freeList) /\ IsInjective(recyList)
  /\ Range(freeList) \cap Range(recyList) = {} /\ used \cap Listed = {}
  /\ cur \notin used \cup Listed /\ victim \notin used \cup Listed
  /\ cur = victim => cur = None
  /\ mainPc # "exit" => pool = used \cup Listed \cup ({cur, victim} \ {None})

(* A message never has a number or a client its object has not had yet;    *)
(* who begins to be served is the sender of no message.                    *)
Messages ==
  /\ \A m \in msgs : m.seq <= seq[m.conn] /\ m.from <= clients
  /\ StaleMessagesShow
  /\ \A c \in used : buf[c] => hdrSeq[c] = seq[c]
  /\ mainPc = "open" => ~buf[cur] /\ \A m \in msgs : m.conn = cur => m.from # owner[cur]

CInv == /\ TypeOK /\ Control /\ Places /\ CountersMatch
        /\ NoEarlyRelease /\ Messages /\ NoBufferLost

(* The case split on the next-state relation. *)
LEMMA NextCases ==
  ASSUME [Next]_vars
  PROVE  \/ GetLock \/ GetFree \/ GetNew \/ Opened \/ OpenFails \/ FreeNow
         \/ \E c \in Conns : HeaderComplete(c) \/ PacketComplete(c) \/ Disconnect(c)
         \/ RecyLock \/ EnterRecyList \/ Shutdown \/ UNCHANGED vars
         \/ /\ mainPc # "exit"
            /\ \/ Wake \/ ReadClock \/ ScanLock \/ Erase \/ ReleaseLock
               \/ Release \/ ScanEnds \/ TestStop \/ MessageDone \/ Tick \/ SetStop
  BY DEF Next, MainThread, RecyThread, Exited

(* what GetOneToUse() and PutOneToFree() leave in an object *)
LEMMA TakeOutTypes ==
  ASSUME TypeOK, clients < MaxClients, NEW c \in Conns, TakeOut(c)
  PROVE  /\ seq' \in [Conns -> Nat] /\ buf' \in [Conns -> BOOLEAN]
         /\ clients' \in 0 .. MaxClients /\ owner' \in [Conns -> 0 .. clients']
         /\ hdrSeq' = hdrSeq /\ recyTime' = recyTime
  <1>1. clients' = clients + 1 /\ clients' \in 0 .. MaxClients /\ 0 .. clients \subseteq 0 .. clients'
    BY BoundsAssumption DEF TypeOK, TakeOut
  <1>2. owner' = [owner EXCEPT ![c] = clients'] /\ clients' \in 0 .. clients'
    BY <1>1, BoundsAssumption DEF TakeOut
  <1>3. owner' \in [Conns -> 0 .. clients']
    BY <1>1, <1>2 DEF TypeOK
  <1>4. seq[c] + 1 \in Nat /\ seq' = [seq EXCEPT ![c] = seq[c] + 1] /\ seq \in [Conns -> Nat]
    BY DEF TypeOK, TakeOut
  <1>5. seq' \in [Conns -> Nat]
    BY <1>4
  <1>6. buf' \in [Conns -> BOOLEAN]
    BY DEF TypeOK, TakeOut
  <1> QED BY <1>1, <1>3, <1>5, <1>6 DEF TakeOut

LEMMA PutBackTypes ==
  ASSUME TypeOK, NEW c \in Conns, PutBack(c)
  PROVE  /\ seq' \in [Conns -> Nat] /\ buf' \in [Conns -> BOOLEAN]
         /\ freeList' \in Seq(Conns) /\ freeN' \in Nat
         /\ UNCHANGED <<hdrSeq, recyTime, clients, owner, pool, totalN>>
  <1>3. seq \in [Conns -> Nat] /\ seq[c] \in Nat
    BY DEF TypeOK
  <1>4. seq[c] + 1 \in Nat /\ seq' = [seq EXCEPT ![c] = seq[c] + 1]
    BY <1>3 DEF PutBack
  <1>5. seq' \in [Conns -> Nat]
    BY <1>3, <1>4
  <1>6. buf' \in [Conns -> BOOLEAN]
    BY DEF TypeOK, PutBack
  <1>7. freeList' \in Seq(Conns) /\ freeN' \in Nat
    BY DEF TypeOK, PutBack
  <1> QED BY <1>5, <1>6, <1>7 DEF PutBack

LEMMA TypesStep == CInv /\ [Next]_vars => TypeOK' /\ Control'
  <1> SUFFICES ASSUME CInv, [Next]_vars PROVE TypeOK' /\ Control'
    OBVIOUS
  <1> USE NamesAssumption, BoundsAssumption
      DEF CInv, TypeOK, Control, MainPcs, RecPcs, conn, data, recycler
  <1>0. now \in Nat /\ clients \in Nat /\ MaxTime \in Nat /\ MaxClients \in Nat
    OBVIOUS
  <1>1. CASE GetLock
    BY <1>1 DEF GetLock
  <1>2. CASE GetFree
    <2>1. /\ Tail(freeList) \in Seq(Conns) /\ Head(freeList) \in Conns
          /\ Len(freeList) > 0 /\ freeN = Len(freeList) /\ IsInjective(freeList)
      BY <1>2, TailList DEF GetFree, Places, CountersMatch
    <2>2. freeN' \in Nat /\ freeList' \in Seq(Conns) /\ cur' \in Conns
      BY <1>2, <2>1 DEF GetFree
    <2>3. /\ seq' \in [Conns -> Nat] /\ buf' \in [Conns -> BOOLEAN]
          /\ clients' \in 0 .. MaxClients /\ owner' \in [Conns -> 0 .. clients']
      BY <1>2, <2>2, TakeOutTypes DEF GetFree
    <2>4. UNCHANGED <<hdrSeq, recyTime>>
      BY <1>2 DEF GetFree, TakeOut
    <2> QED BY <1>2, <2>2, <2>3, <2>4 DEF GetFree
  <1>3. CASE GetNew
    <2>2. cur' \in Conns
      BY <1>3 DEF GetNew
    <2>3. /\ seq' \in [Conns -> Nat] /\ buf' \in [Conns -> BOOLEAN]
          /\ clients' \in 0 .. MaxClients /\ owner' \in [Conns -> 0 .. clients']
      BY <1>3, <2>2, TakeOutTypes DEF GetNew
    <2>4. UNCHANGED <<hdrSeq, recyTime>>
      BY <1>3 DEF GetNew, TakeOut
    <2>5. pool' \subseteq Conns /\ totalN' \in Nat
      BY <1>3, <2>2 DEF GetNew
    <2> QED BY <1>3, <2>2, <2>3, <2>4, <2>5 DEF GetNew
  <1>4. CASE Opened
    BY <1>4 DEF Opened
  <1>5. CASE OpenFails
    BY <1>5 DEF OpenFails
  <1>6. CASE FreeNow
    <2>1. cur \in Conns /\ PutBack(cur)
      BY <1>6 DEF FreeNow
    <2>2. /\ seq' \in [Conns -> Nat] /\ buf' \in [Conns -> BOOLEAN]
          /\ freeList' \in Seq(Conns) /\ freeN' \in Nat
          /\ UNCHANGED <<hdrSeq, recyTime, clients, owner, pool, totalN>>
      BY <2>1, PutBackTypes
    <2> QED BY <1>6, <2>2 DEF FreeNow
  <1>7. ASSUME NEW c \in Conns, HeaderComplete(c) PROVE TypeOK' /\ Control'
    BY <1>7 DEF HeaderComplete
  <1>8. ASSUME NEW c \in Conns, PacketComplete(c) PROVE TypeOK' /\ Control'
    <2>1. msgs' \subseteq [conn : Conns, seq : Nat, from : Nat]
      BY <1>8 DEF PacketComplete
    <2> QED BY <1>8, <2>1 DEF PacketComplete
  <1>9. ASSUME NEW c \in Conns, Disconnect(c) PROVE TypeOK' /\ Control'
    BY <1>9 DEF Disconnect
  <1>10. CASE RecyLock
    BY <1>10 DEF RecyLock
  <1>11. CASE EnterRecyList
    <2>1. cur \in Conns /\ Append(recyList, cur) \in Seq(Conns)
      BY <1>11 DEF EnterRecyList
    <2> QED BY <1>11, <2>1 DEF EnterRecyList
  <1>12. CASE Shutdown
    BY <1>12 DEF Shutdown
  <1>13. CASE UNCHANGED vars
    BY <1>13 DEF vars
  <1>14. CASE Wake
    BY <1>14 DEF Wake
  <1>15. CASE ReadClock
    BY <1>15 DEF ReadClock
  <1>16. CASE ScanLock
    BY <1>16 DEF ScanLock
  <1>17. CASE Erase /\ mainPc # "exit"
    <2>1. PICK i \in DOMAIN recyList : victim' = recyList[i] /\ recyList' = RemoveAt(recyList, i)
      BY <1>17 DEF Erase
    <2>2. /\ RemoveAt(recyList, i) \in Seq(Conns) /\ recyList[i] \in Conns
          /\ Len(recyList) > 0 /\ recyN = Len(recyList)
      BY <1>17, RemoveList DEF Places, CountersMatch
    <2>3. recyN' \in Nat
      BY <1>17, <2>2 DEF Erase
    <2> QED BY <1>17, <2>1, <2>2, <2>3 DEF Erase
  <1>18. CASE ReleaseLock
    BY <1>18 DEF ReleaseLock
  <1>19. CASE Release
    <2>1. victim \in Conns /\ PutBack(victim)
      BY <1>19 DEF Release
    <2>2. /\ seq' \in [Conns -> Nat] /\ buf' \in [Conns -> BOOLEAN]
          /\ freeList' \in Seq(Conns) /\ freeN' \in Nat
          /\ UNCHANGED <<hdrSeq, recyTime, clients, owner, pool, totalN>>
      BY <2>1, PutBackTypes
    <2> QED BY <1>19, <2>2 DEF Release
  <1>20. CASE ScanEnds
    BY <1>20 DEF ScanEnds
  <1>21. CASE TestStop
    BY <1>21 DEF TestStop
  <1>22. CASE MessageDone
    BY <1>22 DEF MessageDone
  <1>23. CASE Tick
    <2>1. now' \in 0 .. MaxTime /\ 0 .. now \subseteq 0 .. now'
      BY <1>23 DEF Tick
    <2> QED BY <1>23, <2>1 DEF Tick
  <1>24. CASE SetStop
    BY <1>24 DEF SetStop
  <1> QED
    BY <1>1, <1>2, <1>3, <1>4, <1>5, <1>6, <1>7, <1>8, <1>9, <1>10, <1>11, <1>12,
       <1>13, <1>14, <1>15, <1>16, <1>17, <1>18, <1>19, <1>20, <1>21, <1>22, <1>23,
       <1>24, NextCases

(* A step that moves no object and gives nobody a new client. *)
LEMMA QuietStep ==
  ASSUME CInv, TypeOK', UNCHANGED <<conn, data, used, msgs, cur, victim>>,
         mainPc' \in {"recylock", "recy"} <=> mainPc \in {"recylock", "recy"},
         mainPc' = "open" => mainPc = "open",
         mainPc = "exit" => mainPc' = "exit",
         now <= now', stop => stop'
  PROVE  Places' /\ CountersMatch' /\ NoEarlyRelease' /\ Messages' /\ NoBufferLost'
  <1> USE DEF CInv, conn, data
  <1>1. Places' /\ CountersMatch'
    BY DEF Places, Listed, CountersMatch
  <1>2. NoEarlyRelease'
    <2>1. victim # None => recyTime[victim] \in Nat
      BY DEF TypeOK
    <2>2. now \in Nat /\ now' \in Nat /\ WaitTime \in Nat
      BY BoundsAssumption DEF TypeOK
    <2>3. recyTime' = recyTime /\ victim' = victim
      OBVIOUS
    <2> QED BY <2>1, <2>2, <2>3 DEF NoEarlyRelease
  <1>3. Messages'
    BY DEF Messages, StaleMessagesShow
  <1>4. NoBufferLost'
    BY DEF NoBufferLost
  <1> QED BY <1>1, <1>2, <1>3, <1>4

-----------------------------------------------------------------------------
(* The actions that move an object or give it a new client.                *)

(* A connection leaves the pool for a client that has just arrived. *)
LEMMA TakeOutStep ==
  ASSUME CInv, NEW c \in Conns, c \notin used, c # victim,
         clients < MaxClients, TakeOut(c),
         cur = None, cur' = c, mainPc = "get", mainPc' = "open",
         UNCHANGED <<used, msgs, now, stop, recyList, victim>>,
         pool' \in {pool, pool \cup {c}}, c \notin Range(recyList)
  PROVE  NoEarlyRelease' /\ Messages' /\ NoBufferLost'
  <1> USE DEF CInv
  <1>1. /\ seq' = [seq EXCEPT ![c] = seq[c] + 1] /\ buf' = [buf EXCEPT ![c] = FALSE]
        /\ clients' = clients + 1 /\ owner' = [owner EXCEPT ![c] = clients']
        /\ UNCHANGED <<hdrSeq, recyTime>>
    BY DEF TakeOut
  <1>2. NoEarlyRelease'
    BY <1>1 DEF NoEarlyRelease
  <1>3. NoBufferLost'
    BY <1>1 DEF NoBufferLost, TypeOK
  <1>4. Messages'
    <2>1. ASSUME NEW m \in msgs
          PROVE  /\ m.seq <= seq'[m.conn] /\ m.from <= clients'
                 /\ m.conn = c => m.seq # seq'[c] /\ m.from # clients'
                 /\ m.conn # c => seq'[m.conn] = seq[m.conn] /\ owner'[m.conn] = owner[m.conn]
      <3>1. m.conn \in Conns /\ m.seq \in Nat /\ m.from \in Nat /\ seq[m.conn] \in Nat /\ clients \in Nat
        BY BoundsAssumption DEF TypeOK
      <3>2. m.seq <= seq[m.conn] /\ m.from <= clients
        BY DEF Messages
      <3>3. DOMAIN seq = Conns /\ DOMAIN owner = Conns
        BY DEF TypeOK
      <3> QED BY <1>1, <3>1, <3>2, <3>3
    <2>2. owner'[c] = clients' /\ ~buf'[c]
      BY <1>1 DEF TypeOK
    <2>3. StaleMessagesShow'
      BY <2>1, <2>2 DEF Messages, StaleMessagesShow
    <2>4. \A x \in used : buf'[x] => hdrSeq'[x] = seq'[x]
      BY <1>1 DEF Messages, TypeOK
    <2> QED BY <2>1, <2>2, <2>3, <2>4 DEF Messages
  <1> QED BY <1>2, <1>3, <1>4

LEMMA GetFreeStep ==
  ASSUME CInv, GetFree, TypeOK', Control'
  PROVE  CInv'
  <1> USE DEF CInv
  <1> DEFINE c == Head(freeList)
  <1>1. /\ mainPc = "get" /\ mainPc' = "open" /\ cur = None /\ cur' = c
        /\ clients < MaxClients /\ freeList # <<>> /\ TakeOut(c)
        /\ freeList' = Tail(freeList) /\ freeN' = freeN - 1
        /\ UNCHANGED <<pool, recyList, totalN, recyN, used, msgs, now, stop, victim>>
    BY DEF GetFree, Control, recycler
  <1>2. /\ Len(Tail(freeList)) = Len(freeList) - 1 /\ IsInjective(Tail(freeList))
        /\ Range(Tail(freeList)) = Range(freeList) \ {c} /\ c \in Range(freeList) /\ c \in Conns
    BY <1>1, TailList DEF TypeOK, Places
  <1> HIDE DEF c
  <1>3. Places'
    BY <1>1, <1>2, NamesAssumption DEF Places, Listed
  <1>4. CountersMatch'
    BY <1>1, <1>2 DEF CountersMatch
  <1>5. c \notin used /\ c # victim /\ c \notin Range(recyList)
    BY <1>1, <1>2 DEF Places, Listed
  <1>6. NoEarlyRelease' /\ Messages' /\ NoBufferLost'
    BY <1>1, <1>2, <1>5, TakeOutStep
  <1> QED BY <1>3, <1>4, <1>6

LEMMA GetNewStep ==
  ASSUME CInv, GetNew, TypeOK', Control'
  PROVE  CInv'
  <1> USE DEF CInv
  <1>1. /\ mainPc = "get" /\ mainPc' = "open" /\ cur = None /\ cur' \in Conns /\ cur' \notin pool
        /\ clients < MaxClients /\ TakeOut(cur')
        /\ pool' = pool \cup {cur'} /\ totalN' = totalN + 1
        /\ UNCHANGED <<freeList, recyList, freeN, recyN, used, msgs, now, stop, victim>>
    BY DEF GetNew, Control, recycler
  <1>2. cur' \notin used \cup Listed /\ cur' # victim
    BY <1>1, NamesAssumption DEF Places
  <1>3. Places'
    BY <1>1, <1>2, NamesAssumption DEF Places, Listed
  <1>4. CountersMatch'
    <2>1. IsFiniteSet(pool)
      BY FS_Subset, ConnsAssumption DEF TypeOK
    <2>2. Cardinality(pool') = Cardinality(pool) + 1
      BY <1>1, <2>1, FS_AddElement
    <2> QED BY <1>1, <2>2 DEF CountersMatch
  <1>6. NoEarlyRelease' /\ Messages' /\ NoBufferLost'
    BY <1>1, <1>2, TakeOutStep DEF Listed
  <1> QED BY <1>3, <1>4, <1>6

(* A connection is given back by the thread that has it in hand. *)
LEMMA PutBackStep ==
  ASSUME CInv, NEW c \in Conns, c \in {cur, victim}, PutBack(c), c # None,
         c = cur => mainPc = "free",
         mainPc # "exit", mainPc' # "exit", mainPc' # "open" \/ mainPc = "open",
         mainPc' \in {"recylock", "recy"} <=> mainPc \in {"recylock", "recy"},
         IF c = cur THEN cur' = None /\ victim' = victim
                    ELSE victim' = None /\ cur' = cur,
         UNCHANGED <<recyList, recyN, used, msgs, now, stop>>
  PROVE  Places' /\ CountersMatch' /\ NoEarlyRelease' /\ Messages' /\ NoBufferLost'
  <1> USE DEF CInv
  <1>1. /\ seq' = [seq EXCEPT ![c] = seq[c] + 1] /\ buf' = [buf EXCEPT ![c] = FALSE]
        /\ freeList' = Append(freeList, c) /\ freeN' = freeN + 1
        /\ UNCHANGED <<hdrSeq, recyTime, clients, owner, pool, totalN>>
    BY DEF PutBack
  <1>2. c \notin used /\ c \notin Listed /\ c \notin Range(freeList)
    BY DEF Places, Listed
  <1>3. /\ Len(Append(freeList, c)) = Len(freeList) + 1
        /\ Range(Append(freeList, c)) = Range(freeList) \cup {c}
        /\ IsInjective(Append(freeList, c))
    BY <1>2, AppendList DEF TypeOK, Places
  <1>4. Places'
    <2> DEFINE f == Range(freeList)
               r == Range(recyList)
    <2>1. freeList' = Append(freeList, c) /\ Range(freeList') = f \cup {c}
          /\ IsInjective(freeList') /\ Range(recyList') = r /\ IsInjective(recyList')
      BY <1>1, <1>3 DEF Places
    <2>2. /\ f \cap r = {} /\ used \cap (f \cup r) = {} /\ cur \notin used \cup f \cup r
          /\ victim \notin used \cup f \cup r /\ (cur = victim => cur = None)
          /\ pool = used \cup f \cup r \cup ({cur, victim} \ {None})
      BY DEF Places, Listed
    <2>3. pool' = pool /\ used' = used /\ None \notin Conns /\ None \notin used \cup f \cup r
      BY <1>1, <2>2, NamesAssumption, RangeInSet DEF TypeOK
    <2> HIDE DEF f, r
    <2>4. CASE c = cur
      <3>1. cur' = None /\ victim' = victim /\ cur # None
        BY <2>4
      <3> QED BY <2>1, <2>2, <2>3, <2>4, <3>1 DEF Places, Listed
    <2>5. CASE c # cur
      <3>1. victim' = None /\ cur' = cur /\ c = victim /\ victim # None
        BY <2>5
      <3> QED BY <2>1, <2>2, <2>3, <2>5, <3>1 DEF Places, Listed
    <2> QED BY <2>4, <2>5
  <1>5. CountersMatch'
    BY <1>1, <1>3 DEF CountersMatch
  <1>6. NoEarlyRelease'
    BY <1>1 DEF NoEarlyRelease
  <1>7. NoBufferLost'
    BY <1>1 DEF NoBufferLost, TypeOK
  <1>8. Messages'
    <2>1. ASSUME NEW m \in msgs
          PROVE  /\ m.seq <= seq'[m.conn] /\ m.from <= clients'
                 /\ m.conn = c => m.seq # seq'[c]
                 /\ m.conn # c => seq'[m.conn] = seq[m.conn] /\ owner'[m.conn] = owner[m.conn]
      <3>1. m.conn \in Conns /\ m.seq \in Nat /\ seq[m.conn] \in Nat
        BY DEF TypeOK
      <3>2. m.seq <= seq[m.conn] /\ m.from <= clients
        BY DEF Messages
      <3>3. DOMAIN seq = Conns
        BY DEF TypeOK
      <3> QED BY <1>1, <3>1, <3>2, <3>3
    <2>2. StaleMessagesShow'
      BY <1>1, <1>2, <2>1 DEF Messages, StaleMessagesShow
    <2>3. \A x \in used : buf'[x] => hdrSeq'[x] = seq'[x]
      BY <1>1, <1>2 DEF Messages, TypeOK
    <2>4. mainPc' = "open" => ~buf'[cur'] /\ \A m \in msgs : m.conn = cur' => m.from # owner'[cur']
      BY <1>1 DEF Messages, TypeOK, Places
    <2> QED BY <2>1, <2>2, <2>3, <2>4 DEF Messages
  <1> QED BY <1>4, <1>5, <1>6, <1>7, <1>8

LEMMA FreeNowStep ==
  ASSUME CInv, FreeNow, TypeOK', Control'
  PROVE  CInv'
  <1>1. /\ PutBack(cur) /\ mainPc = "free" /\ mainPc' = "idle" /\ cur' = None
        /\ UNCHANGED <<recyList, recyN, used, msgs, now, stop, victim>>
    BY DEF FreeNow, recycler
  <1>2. cur \in Conns /\ cur # None
    BY <1>1 DEF CInv, Control, TypeOK
  <1>3. Places' /\ CountersMatch' /\ NoEarlyRelease' /\ Messages' /\ NoBufferLost'
    BY <1>1, <1>2, PutBackStep
  <1> QED BY <1>3 DEF CInv

LEMMA ReleaseStep ==
  ASSUME CInv, Release, mainPc # "exit", TypeOK', Control'
  PROVE  CInv'
  <1>1. /\ PutBack(victim) /\ mainPc' = mainPc /\ cur' = cur /\ victim' = None
        /\ UNCHANGED <<recyList, recyN, used, msgs, now, stop>>
        /\ recPc \in {"free", "lastfree"}
    BY DEF Release
  <1>2. victim \in Conns /\ victim # None
    BY <1>1 DEF CInv, Control, TypeOK
  <1>3. cur # victim
    BY <1>2 DEF CInv, Places
  <1>4. Places' /\ CountersMatch' /\ NoEarlyRelease' /\ Messages' /\ NoBufferLost'
    BY <1>1, <1>2, <1>3, PutBackStep
  <1> QED BY <1>4 DEF CInv

LEMMA OpenedStep ==
  ASSUME CInv, Opened, TypeOK', Control'
  PROVE  CInv'
  <1> USE DEF CInv
  <1>1. /\ used' = used \cup {cur} /\ mainPc = "open" /\ mainPc' = "idle" /\ cur' = None
        /\ UNCHANGED <<conn, data, msgs, now, stop, victim>>
    BY DEF Opened, recycler
  <1>2. cur # None /\ cur \in Conns
    BY <1>1 DEF Control, TypeOK
  <1>3. Places'
    <2>1. None \notin used
      BY NamesAssumption DEF TypeOK
    <2>2. None \notin Listed
      BY NamesAssumption, RangeInSet DEF TypeOK, Listed
    <2>3. Listed' = Listed
      BY <1>1 DEF conn, Listed
    <2> QED BY <1>1, <1>2, <2>1, <2>2, <2>3 DEF Places, conn
  <1>4. CountersMatch' /\ NoEarlyRelease' /\ NoBufferLost'
    BY <1>1 DEF CountersMatch, NoEarlyRelease, NoBufferLost, conn, data
  <1>5. Messages'
    BY <1>1 DEF Messages, StaleMessagesShow, data
  <1> QED BY <1>3, <1>4, <1>5

LEMMA HeaderStep ==
  ASSUME CInv, NEW c \in Conns, HeaderComplete(c), TypeOK', Control'
  PROVE  CInv'
  <1> USE DEF CInv
  <1>1. /\ buf' = [buf EXCEPT ![c] = TRUE] /\ hdrSeq' = [hdrSeq EXCEPT ![c] = seq[c]]
        /\ mainPc = "idle" /\ mainPc' = mainPc /\ c \in used
        /\ UNCHANGED <<conn, seq, recyTime, clients, owner, used, msgs, now, stop, cur, victim>>
    BY DEF HeaderComplete, recycler
  <1>2. Places' /\ CountersMatch' /\ NoEarlyRelease'
    BY <1>1 DEF Places, Listed, CountersMatch, NoEarlyRelease, conn
  <1>3. NoBufferLost'
    BY <1>1 DEF NoBufferLost, TypeOK, conn
  <1>4. Messages'
    BY <1>1 DEF Messages, StaleMessagesShow, TypeOK
  <1> QED BY <1>2, <1>3, <1>4

LEMMA PacketStep ==
  ASSUME CInv, NEW c \in Conns, PacketComplete(c), TypeOK', Control'
  PROVE  CInv'
  <1> USE DEF CInv
  <1> DEFINE n == [conn |-> c, seq |-> hdrSeq[c], from |-> owner[c]]
  <1>1. /\ buf' = [buf EXCEPT ![c] = FALSE] /\ msgs' = msgs \cup {n}
        /\ mainPc = "idle" /\ mainPc' = mainPc /\ c \in used /\ buf[c]
        /\ UNCHANGED <<conn, seq, hdrSeq, recyTime, clients, owner, used, now, stop, cur, victim>>
    BY DEF PacketComplete, recycler
  <1>2. Places' /\ CountersMatch' /\ NoEarlyRelease'
    BY <1>1 DEF Places, Listed, CountersMatch, NoEarlyRelease, conn
  <1>3. NoBufferLost'
    BY <1>1 DEF NoBufferLost, TypeOK, conn
  <1>4. Messages'
    <2>1. /\ n.conn = c /\ n.seq = seq[c] /\ n.from = owner[c]
          /\ seq[c] \in Nat /\ owner[c] <= clients
      BY <1>1, BoundsAssumption DEF Messages, TypeOK
    <2> HIDE DEF n
    <2>2. \A m \in msgs' : m.seq <= seq'[m.conn] /\ m.from <= clients'
      BY <1>1, <2>1 DEF Messages
    <2>3. StaleMessagesShow'
      BY <1>1, <2>1 DEF Messages, StaleMessagesShow
    <2> QED BY <1>1, <2>2, <2>3 DEF Messages, TypeOK
  <1> QED BY <1>2, <1>3, <1>4

LEMMA DoneStep ==
  ASSUME CInv, MessageDone, TypeOK', Control'
  PROVE  CInv'
  <1>1. /\ msgs' \subseteq msgs
        /\ UNCHANGED <<conn, data, used, now, stop, mainPc, cur, victim>>
    BY DEF MessageDone, recycler
  <1> QED BY <1>1 DEF CInv, Places, Listed, CountersMatch, NoEarlyRelease, NoBufferLost,
                      Messages, StaleMessagesShow, conn, data

(* A client is gone: its connection passes to the main thread, and from    *)
(* there to the recycling list.                                            *)
LEMMA DisconnectStep ==
  ASSUME CInv, NEW c \in Conns, Disconnect(c), TypeOK', Control'
  PROVE  CInv'
  <1> USE DEF CInv
  <1>1. /\ used' = used \ {c} /\ c \in used /\ mainPc = "idle" /\ mainPc' = "recylock"
        /\ cur' = c /\ cur = None /\ c # None
        /\ UNCHANGED <<conn, data, msgs, now, stop, victim>>
    BY NamesAssumption DEF Disconnect, recycler, Control
  <1>2. Places'
    BY <1>1 DEF Places, Listed, conn
  <1>3. CountersMatch' /\ NoEarlyRelease' /\ NoBufferLost'
    BY <1>1 DEF CountersMatch, NoEarlyRelease, NoBufferLost, conn, data
  <1>4. Messages'
    BY <1>1 DEF Messages, StaleMessagesShow, data
  <1> QED BY <1>2, <1>3, <1>4

LEMMA EnterStep ==
  ASSUME CInv, EnterRecyList, TypeOK', Control'
  PROVE  CInv'
  <1> USE DEF CInv
  <1>1. /\ mainPc = "recy" /\ mainPc' = "idle" /\ cur' = None
        /\ recyTime' = [recyTime EXCEPT ![cur] = now]
        /\ seq' = [seq EXCEPT ![cur] = seq[cur] + 1]
        /\ recyList' = Append(recyList, cur) /\ recyN' = recyN + 1
        /\ UNCHANGED <<pool, freeList, freeN, totalN, buf, hdrSeq, clients, owner, used,
                       msgs, now, stop, victim>>
    BY DEF EnterRecyList, recycler
  <1>2. cur \in Conns /\ cur # None /\ cur \notin used /\ cur \notin Listed /\ cur # victim
    BY <1>1 DEF Control, TypeOK, Places
  <1>3. /\ Len(Append(recyList, cur)) = Len(recyList) + 1
        /\ Range(Append(recyList, cur)) = Range(recyList) \cup {cur}
        /\ IsInjective(Append(recyList, cur))
    BY <1>2, AppendList DEF TypeOK, Places, Listed
  <1>4. Places'
    <2>1. None \notin used /\ None \notin Listed
      BY NamesAssumption, RangeInSet DEF TypeOK, Listed
    <2>2. Listed' = Listed \cup {cur}
      BY <1>1, <1>3 DEF Listed
    <2> QED BY <1>1, <1>2, <1>3, <2>1, <2>2 DEF Places, Listed
  <1>5. CountersMatch'
    BY <1>1, <1>3 DEF CountersMatch
  <1>6. NoEarlyRelease'
    BY <1>1, <1>2 DEF NoEarlyRelease, TypeOK
  <1>7. NoBufferLost'
    BY <1>1, <1>3 DEF NoBufferLost
  <1>8. Messages'
    <2>1. ASSUME NEW m \in msgs
          PROVE  /\ m.seq <= seq'[m.conn]
                 /\ m.conn = cur => m.seq # seq'[cur]
                 /\ m.conn # cur => seq'[m.conn] = seq[m.conn]
      <3>1. m.conn \in Conns /\ m.seq \in Nat /\ seq[m.conn] \in Nat /\ DOMAIN seq = Conns
        BY DEF TypeOK
      <3>2. m.seq <= seq[m.conn]
        BY DEF Messages
      <3> QED BY <1>1, <3>1, <3>2
    <2>2. StaleMessagesShow'
      BY <1>1, <1>2, <2>1 DEF Messages, StaleMessagesShow
    <2>3. \A x \in used : buf'[x] => hdrSeq'[x] = seq'[x]
      BY <1>1, <1>2 DEF Messages, TypeOK
    <2> QED BY <1>1, <2>1, <2>2, <2>3 DEF Messages
  <1> QED BY <1>4, <1>5, <1>6, <1>7, <1>8

LEMMA EraseStep ==
  ASSUME CInv, Erase, mainPc # "exit", TypeOK', Control'
  PROVE  CInv'
  <1> USE DEF CInv
  <1>1. PICK i \in DOMAIN recyList :
          /\ FirstReleasable(i) /\ victim' = recyList[i] /\ recyList' = RemoveAt(recyList, i)
    BY DEF Erase
  <1>2. /\ recPc \in {"scan", "lastscan"} /\ recyN' = recyN - 1
        /\ UNCHANGED <<pool, freeList, freeN, totalN, data, used, msgs, now, stop, mainPc, cur>>
    BY DEF Erase
  <1>3. /\ Len(RemoveAt(recyList, i)) = Len(recyList) - 1
        /\ Range(RemoveAt(recyList, i)) = Range(recyList) \ {recyList[i]}
        /\ IsInjective(RemoveAt(recyList, i))
        /\ recyList[i] \in Range(recyList) /\ recyList[i] \in Conns
    BY RemoveList DEF TypeOK, Places
  <1>4. victim = None /\ recyList[i] # None
    BY <1>2, <1>3, NamesAssumption DEF Control
  <1>5. Places'
    BY <1>1, <1>2, <1>3, <1>4 DEF Places, Listed
  <1>6. CountersMatch'
    BY <1>1, <1>2, <1>3 DEF CountersMatch
  <1>7. NoEarlyRelease'
    <2>1. CASE recPc = "lastscan"
      BY <1>2, <2>1 DEF Control, NoEarlyRelease
    <2>2. CASE recPc = "scan"
      <3>1. Due(recyList[i])
        BY <1>1, <2>2 DEF FirstReleasable, Releasable
      <3>2. currtime \in Nat /\ now \in Nat /\ currtime <= now /\ recyTime[recyList[i]] \in Nat
            /\ WaitTime \in Nat
        BY <1>3, BoundsAssumption DEF TypeOK
      <3> QED BY <1>1, <1>2, <3>1, <3>2 DEF Due, NoEarlyRelease, data
    <2> QED BY <1>2, <2>1, <2>2
  <1>8. NoBufferLost'
    <2>1. \A c \in pool : c # victim
      BY <1>4, NamesAssumption DEF TypeOK
    <2> QED BY <1>1, <1>2, <1>3, <2>1 DEF NoBufferLost, data
  <1>9. Messages'
    BY <1>2 DEF Messages, StaleMessagesShow, data
  <1> QED BY <1>5, <1>6, <1>7, <1>8, <1>9

LEMMA ShutdownStep ==
  ASSUME CInv, Shutdown, TypeOK', Control'
  PROVE  CInv'
  <1>1. /\ mainPc = "idle" /\ mainPc' = "exit" /\ pool' = {}
        /\ UNCHANGED <<freeList, recyList, data, used, msgs, now, stop, cur, victim>>
    BY DEF Shutdown, recycler
  <1> QED BY <1>1 DEF CInv, Places, Listed, CountersMatch, NoEarlyRelease, NoBufferLost,
                      Messages, StaleMessagesShow, data

LEMMA QuietActions ==
  ASSUME CInv, TypeOK', Control',
         \/ GetLock \/ OpenFails \/ RecyLock \/ UNCHANGED vars
         \/ /\ mainPc # "exit"
            /\ \/ Wake \/ ReadClock \/ ScanLock \/ ReleaseLock \/ ScanEnds \/ TestStop
               \/ Tick \/ SetStop
  PROVE  CInv'
  <1> DEFINE Same == /\ UNCHANGED <<conn, data, used, msgs, cur, victim>>
                     /\ mainPc' \in {"recylock", "recy"} <=> mainPc \in {"recylock", "recy"}
                     /\ mainPc' = "open" => mainPc = "open"
                     /\ mainPc = "exit" => mainPc' = "exit"
                     /\ now <= now' /\ (stop => stop')
  <1>0. now \in Nat /\ now <= now /\ now <= now + 1
    BY BoundsAssumption DEF CInv, TypeOK
  <1>1. CASE GetLock
    <2> Same BY <1>0, <1>1 DEF GetLock, recycler
    <2> QED BY QuietStep DEF CInv
  <1>2. CASE OpenFails
    <2> Same BY <1>0, <1>2 DEF OpenFails, recycler
    <2> QED BY QuietStep DEF CInv
  <1>3. CASE RecyLock
    <2> Same BY <1>0, <1>3 DEF RecyLock, recycler
    <2> QED BY QuietStep DEF CInv
  <1>4. CASE UNCHANGED vars
    <2> Same BY <1>0, <1>4 DEF vars, recycler
    <2> QED BY QuietStep DEF CInv
  <1>5. CASE Wake \/ ReadClock \/ ScanLock \/ ReleaseLock \/ ScanEnds \/ TestStop
    <2> Same BY <1>0, <1>5 DEF Wake, ReadClock, ScanLock, ReleaseLock, ScanEnds, TestStop
    <2> QED BY QuietStep DEF CInv
  <1>6. CASE Tick
    <2> Same BY <1>0, <1>6 DEF Tick, recycler
    <2> QED BY QuietStep DEF CInv
  <1>7. CASE SetStop
    <2> Same BY <1>0, <1>7 DEF SetStop, recycler
    <2> QED BY QuietStep DEF CInv
  <1> QED BY <1>1, <1>2, <1>3, <1>4, <1>5, <1>6, <1>7

LEMMA CInvStep == CInv /\ [Next]_vars => CInv'
  <1> SUFFICES ASSUME CInv, [Next]_vars PROVE CInv'
    OBVIOUS
  <1>0. TypeOK' /\ Control'
    BY TypesStep
  <1>1. CASE \E c \in Conns : HeaderComplete(c) \/ PacketComplete(c) \/ Disconnect(c)
    BY <1>0, <1>1, HeaderStep, PacketStep, DisconnectStep
  <1>2. CASE GetFree \/ GetNew \/ Opened \/ FreeNow \/ EnterRecyList \/ Shutdown
    BY <1>0, <1>2, GetFreeStep, GetNewStep, OpenedStep, FreeNowStep, EnterStep, ShutdownStep
  <1>3. CASE mainPc # "exit" /\ (Erase \/ Release \/ MessageDone)
    BY <1>0, <1>3, EraseStep, ReleaseStep, DoneStep
  <1> QED BY <1>0, <1>1, <1>2, <1>3, QuietActions, NextCases

-----------------------------------------------------------------------------
LEMMA CInvInit == Init => CInv
  <1> SUFFICES ASSUME Init PROVE CInv
    OBVIOUS
  <1> USE NamesAssumption, BoundsAssumption, ConnsAssumption
  <1>1. IsFiniteSet(InitConns)
    BY FS_Subset
  <1>2. /\ freeList \in Seq(InitConns) /\ Len(freeList) = Cardinality(InitConns)
        /\ Range(freeList) = InitConns /\ IsInjective(freeList)
    BY <1>1, SetToSeqList DEF Init
  <1>3. Cardinality(InitConns) \in Nat
    BY <1>1, FS_CardinalityType
  <1>4. freeList \in Seq(Conns)
    BY <1>2
  <1>5. recyList = <<>> /\ recyList \in Seq(Conns) /\ Range(recyList) = {} /\ IsInjective(recyList)
        /\ Len(recyList) = 0
    BY DEF Init, Range, IsInjective
  <1>6. seq \in [Conns -> Nat] /\ owner \in [Conns -> 0 .. clients]
        /\ recyTime \in [Conns -> 0 .. now]
    BY DEF Init
  <1>7. TypeOK
    <2>1. /\ hdrSeq \in [Conns -> Nat] /\ buf \in [Conns -> BOOLEAN]
          /\ msgs \subseteq [conn : Conns, seq : Nat, from : Nat]
          /\ pool \subseteq Conns /\ used \subseteq Conns
      BY DEF Init
    <2>2. freeN \in Nat /\ totalN \in Nat /\ recyN \in Nat
      BY <1>3 DEF Init
    <2>3. clients \in 0 .. MaxClients /\ now \in 0 .. MaxTime /\ currtime \in 0 .. now
      BY DEF Init
    <2>4. /\ stop \in BOOLEAN /\ mainPc \in MainPcs /\ recPc \in RecPcs
          /\ connMutex \in {Main, Recy, None} /\ recyMutex \in {Main, Recy, None}
          /\ cur \in Conns \cup {None} /\ victim \in Conns \cup {None}
      BY DEF Init, MainPcs, RecPcs
    <2> QED BY <1>4, <1>5, <1>6, <2>1, <2>2, <2>3, <2>4 DEF TypeOK
  <1>8. Control
    BY DEF Init, Control
  <1>9. Places
    BY <1>2, <1>5 DEF Init, Places, Listed
  <1>10. CountersMatch
    BY <1>2, <1>5 DEF Init, CountersMatch
  <1>11. NoEarlyRelease /\ Messages /\ NoBufferLost
    BY DEF Init, NoEarlyRelease, Messages, StaleMessagesShow, NoBufferLost
  <1> QED BY <1>7, <1>8, <1>9, <1>10, <1>11 DEF CInv

(* an object is with a client, in one hand, or in neither *)
LEMMA HandsCount ==
  ASSUME Places, NEW c \in Conns, NamesAssumption
  PROVE  Cardinality({x \in {"used", "main", "recycler"} :
                         \/ x = "used" /\ c \in used
                         \/ x = "main" /\ c = cur
                         \/ x = "recycler" /\ c = victim})
         = IF c \in used \cup {cur, victim} THEN 1 ELSE 0
  <1> DEFINE H == {x \in {"used", "main", "recycler"} :
                         \/ x = "used" /\ c \in used
                         \/ x = "main" /\ c = cur
                         \/ x = "recycler" /\ c = victim}
  <1>0. c # None
    BY DEF NamesAssumption
  <1>1. CASE c \in used
    <2>1. H = {"used"}
      BY <1>1 DEF Places
    <2> QED BY <1>1, <2>1, FS_Singleton
  <1>2. CASE c = cur
    <2>1. H = {"main"}
      BY <1>0, <1>2 DEF Places
    <2> QED BY <1>2, <2>1, FS_Singleton
  <1>3. CASE c = victim
    <2>1. H = {"recycler"}
      BY <1>0, <1>3 DEF Places
    <2> QED BY <1>3, <2>1, FS_Singleton
  <1>4. CASE c \notin used \cup {cur, victim}
    <2>1. H = {}
      BY <1>4
    <2> QED BY <1>4, <2>1, FS_EmptySet
  <1> QED BY <1>1, <1>2, <1>3, <1>4

LEMMA PlacesOnce == CInv => OnePlaceEach
  <1> SUFFICES ASSUME CInv, mainPc # "exit", NEW c \in Conns
               PROVE  Cardinality({i \in DOMAIN freeList : freeList[i] = c})
                        + Cardinality({i \in DOMAIN recyList : recyList[i] = c})
                        + Cardinality({x \in {"used", "main", "recycler"} :
                                         \/ x = "used" /\ c \in used
                                         \/ x = "main" /\ c = cur
                                         \/ x = "recycler" /\ c = victim})
                      = IF c \in pool THEN 1 ELSE 0
    BY DEF OnePlaceEach
  <1>1. Cardinality({i \in DOMAIN freeList : freeList[i] = c}) = IF c \in Range(freeList) THEN 1 ELSE 0
    BY CountInList DEF CInv, TypeOK, Places
  <1>2. Cardinality({i \in DOMAIN recyList : recyList[i] = c}) = IF c \in Range(recyList) THEN 1 ELSE 0
    BY CountInList DEF CInv, TypeOK, Places
  <1>3. Cardinality({x \in {"used", "main", "recycler"} :
                         \/ x = "used" /\ c \in used
                         \/ x = "main" /\ c = cur
                         \/ x = "recycler" /\ c = victim})
         = IF c \in used \cup {cur, victim} THEN 1 ELSE 0
    BY HandsCount, NamesAssumption DEF CInv
  <1>4. /\ Range(freeList) \cap Range(recyList) = {}
        /\ (used \cup {cur, victim}) \cap (Range(freeList) \cup Range(recyList)) = {}
        /\ c \in pool <=> c \in used \cup {cur, victim} \cup Range(freeList) \cup Range(recyList)
    BY NamesAssumption DEF CInv, Places, Listed
  <1> QED BY <1>1, <1>2, <1>3, <1>4

-----------------------------------------------------------------------------
LEMMA Invariant == Spec => []CInv
  <1> QED BY CInvInit, CInvStep, PTL DEF Spec

(* The lists, counters, sequence numbers and buffers of the connection     *)
(* pool keep their types, and no client is counted beyond the bound.       *)
THEOREM TypeCorrect == Spec => []TypeOK
  <1>1. CInv => TypeOK
    BY DEF CInv
  <1> QED BY <1>1, Invariant, PTL

(* Every connection object that was ever created is in exactly one place,  *)
(* and the counters the threads read without a mutex are the lengths of    *)
(* the lists, whatever the two threads interleave.                         *)
THEOREM NothingIsLost == Spec => []NothingLost
  <1>1. CInv => NothingLost
    BY PlacesOnce DEF CInv, NothingLost
  <1> QED BY <1>1, Invariant, PTL

(* The sequence number in a message tells exactly whether its sender is    *)
(* still served, however many times the object was reused.                 *)
THEOREM StaleShows == Spec => []StaleMessagesShow
  <1>1. CInv => StaleMessagesShow
    BY DEF CInv, Messages
  <1> QED BY <1>1, Invariant, PTL

(* The recycler takes nothing before its time, though it reads the clock   *)
(* before it has the mutex.                                                *)
THEOREM NeverEarly == Spec => []NoEarlyRelease
  <1>1. CInv => NoEarlyRelease
    BY DEF CInv
  <1> QED BY <1>1, Invariant, PTL

(* No object is handed out with a receive buffer of its last client.       *)
THEOREM BuffersKept == Spec => []NoBufferLost
  <1>1. CInv => NoBufferLost
    BY DEF CInv
  <1> QED BY <1>1, Invariant, PTL
=============================================================================
