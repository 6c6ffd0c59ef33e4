-------------------------- MODULE RecvMachine_proofs --------------------------
(***************************************************************************)
(* What RecvMachine.tla promises, proved for every header size, every      *)
(* limit, every stream and every way recv() may split it.                  *)
(***************************************************************************)
EXTENDS RecvMachine, TLAPS

USE SizesAssumption DEF SizesAssumption

(* The first byte of the current packet lies in the stream. *)
LEMMA BeginInStream == IInv => begin \in 0 .. StreamLen /\ pos = begin + at
  BY DEF IInv, TypeOK, begin

(* A message buffer is not the null pointer. *)
LEMMA BufferNotNull ==
  ASSUME IInv, curStat \in BodyStates, place # "free"
  PROVE  precvMemPointer # Null
<1>1. stream[begin] \in 0 .. MaxLen
  BY BeginInStream DEF IInv, TypeOK, BodyInPlace, Acceptable
<1>2. precvMemPointer \in [0 .. stream[begin] - 1 -> Nat \cup {Junk}]
  BY DEF IInv, BodyInPlace, Byte
<1> QED BY <1>1, <1>2, MemoryAssumption DEF MemoryAssumption

(* recv() is never given a buffer that is too small, nor length 0. *)
LEMMA InvariantImpliesBounds == IInv => WritesInBounds
<1> SUFFICES ASSUME IInv, place = "used" PROVE WritesInBounds
  BY DEF WritesInBounds
<1>1. CASE curStat \in HeadStates
  BY <1>1 DEF IInv, TypeOK, HeaderInPlace, WritesInBounds, HeadStates, BodyStates
<1>2. CASE curStat \in BodyStates
  <2>1. precvMemPointer # Null
    BY <1>2, BufferNotNull
  <2>2. DOMAIN precvMemPointer = 0 .. stream[begin] - 1
    BY <1>2 DEF IInv, BodyInPlace
  <2>3. at + irecvlen = stream[begin] /\ irecvlen > 0 /\ at \in Nat
    BY <1>2 DEF IInv, TypeOK, BodyInPlace
  <2> begin \in 0 .. StreamLen
    BY BeginInStream
  <2> stream \in [0 .. StreamLen -> Lens] /\ irecvlen \in Nat
    BY DEF IInv, TypeOK
  <2>4. stream[begin] \in Nat /\ irecvlen \in Nat
    OBVIOUS
  <2>5. \A i \in at .. at + irecvlen - 1 : i \in DOMAIN precvMemPointer
    BY <2>2, <2>3, <2>4
  <2> QED BY <1>2, <2>1, <2>3, <2>5 DEF WritesInBounds, HeadStates, BodyStates
<1> QED BY <1>1, <1>2 DEF IInv, TypeOK

(* When a header is complete, the header read is that of the packet which  *)
(* begins at begin, and the next byte comes right behind it.               *)
LEMMA HeaderRead ==
  ASSUME IInv, NEW n, HeaderComplete(n)
  PROVE  /\ pos' = begin + HdrLen /\ pos' \in 0 .. StreamLen
         /\ dataHeadInfo' \in [0 .. HeadSize - 1 -> Byte]
         /\ \A i \in 0 .. HdrLen - 1 : dataHeadInfo'[i] = begin + i
         /\ e_pkgLen = stream[begin] /\ stream[begin] \in Nat
         /\ stream' = stream /\ place' = "used" /\ place = "used"
<1>1. /\ n \in 1 .. irecvlen /\ pos + n <= StreamLen /\ pos' = pos + n
      /\ stream' = stream /\ place' = "used" /\ place = "used"
  BY DEF HeaderComplete, Recv
<1>2. at + n = HdrLen /\ at \in Nat /\ pos \in Nat
  BY <1>1 DEF HeaderComplete, Complete, IInv, TypeOK, HeaderInPlace, HeadStates
<1>3. \A i \in 0 .. at - 1 : dataHeadInfo[i] = begin + i
  BY DEF IInv, HeaderInPlace, HeaderComplete
<1>4. pos = begin + at /\ begin \in 0 .. StreamLen
  BY BeginInStream
<1>5. dataHeadInfo \in [0 .. HeadSize - 1 -> Byte]
  BY DEF IInv, TypeOK
<1>6. dataHeadInfo' = [i \in 0 .. HeadSize - 1 |->
                         IF at <= i /\ i < at + n THEN pos + (i - at)
                                                  ELSE dataHeadInfo[i]]
  BY <1>5 DEF HeaderComplete, Filled
<1>7. dataHeadInfo' \in [0 .. HeadSize - 1 -> Byte]
  BY <1>1, <1>2, <1>5, <1>6 DEF Byte
<1>8. \A i \in 0 .. HdrLen - 1 : dataHeadInfo'[i] = begin + i
  BY <1>1, <1>2, <1>3, <1>4, <1>6
<1>9. dataHeadInfo'[0] = begin
  BY <1>8, <1>4
<1>10. stream[begin] \in Nat
  BY <1>4 DEF IInv, TypeOK
<1> QED
  BY <1>1, <1>2, <1>4, <1>7, <1>8, <1>9, <1>10 DEF e_pkgLen

(* The message buffer starts as a copy of the header. *)
LEMMA BufferAllocated ==
  ASSUME IInv, NEW n, HeaderComplete(n), ~BadLength
  PROVE  /\ MessageBuffer \in [0 .. stream[begin] - 1 -> Byte]
         /\ \A i \in 0 .. HdrLen - 1 : MessageBuffer[i] = begin + i
         /\ Acceptable(stream[begin])
<1>1. HdrLen <= stream[begin] /\ stream[begin] <= MaxLen
  BY HeaderRead DEF BadLength
<1>2. MessageBuffer = [i \in 0 .. stream[begin] - 1 |->
                         IF i < HdrLen THEN dataHeadInfo'[i] ELSE Junk]
  BY HeaderRead DEF MessageBuffer
<1>3. \A i \in 0 .. HdrLen - 1 : dataHeadInfo'[i] \in Byte
  BY HeaderRead
<1>4. stream[begin] \in Nat
  BY HeaderRead
<1>5. MessageBuffer \in [0 .. stream[begin] - 1 -> Byte]
  BY <1>2, <1>3, <1>4 DEF Byte
<1>6. \A i \in 0 .. HdrLen - 1 : MessageBuffer[i] = begin + i
  BY <1>1, <1>2, <1>4, HeaderRead
<1> QED BY <1>1, <1>5, <1>6 DEF Acceptable

(* Bytes that arrive for the body go where they belong. *)
LEMMA BodyFilled ==
  ASSUME IInv, NEW n, Recv(n), curStat \in BodyStates
  PROVE  /\ Filled(precvMemPointer, n) \in [0 .. stream[begin] - 1 -> Byte]
         /\ \A i \in 0 .. at + n - 1 : Filled(precvMemPointer, n)[i] = begin + i
         /\ Acceptable(stream[begin]) /\ stream[begin] \in Nat
         /\ at + irecvlen = stream[begin] /\ at \in Nat /\ at >= HdrLen
         /\ irecvlen \in Nat
         /\ pos' = begin + at + n /\ pos' \in 0 .. StreamLen
         /\ n \in 1 .. irecvlen
<1>1. /\ n \in 1 .. irecvlen /\ pos + n <= StreamLen /\ pos' = pos + n
      /\ place = "used"
  BY DEF Recv
<1>2. /\ precvMemPointer \in [0 .. stream[begin] - 1 -> Byte]
      /\ \A i \in 0 .. at - 1 : precvMemPointer[i] = begin + i
      /\ Acceptable(stream[begin])
      /\ at + irecvlen = stream[begin] /\ at >= HdrLen
  BY <1>1 DEF IInv, BodyInPlace
<1>3. pos = begin + at /\ begin \in 0 .. StreamLen /\ pos \in Nat
  BY BeginInStream DEF IInv, TypeOK
<1>4. stream[begin] \in Nat /\ at \in Nat /\ irecvlen \in Nat
  BY <1>3 DEF IInv, TypeOK
<1>5. Filled(precvMemPointer, n)
        = [i \in 0 .. stream[begin] - 1 |->
             IF at <= i /\ i < at + n THEN pos + (i - at) ELSE precvMemPointer[i]]
  BY <1>2 DEF Filled
<1>6. Filled(precvMemPointer, n) \in [0 .. stream[begin] - 1 -> Byte]
  BY <1>1, <1>2, <1>3, <1>4, <1>5 DEF Byte
<1>7. \A i \in 0 .. at + n - 1 : Filled(precvMemPointer, n)[i] = begin + i
  BY <1>1, <1>2, <1>3, <1>4, <1>5
<1> QED BY <1>1, <1>2, <1>3, <1>4, <1>6, <1>7

-----------------------------------------------------------------------------
LEMMA InitInvariant == Init => IInv
<1> SUFFICES ASSUME Init PROVE IInv
  OBVIOUS
<1>1. dataHeadInfo \in [0 .. HeadSize - 1 -> Byte]
  BY DEF Init, Byte
<1>2. TypeOK
  BY <1>1 DEF Init, TypeOK, HeadStates
<1>3. at <= pos /\ HeaderInPlace /\ BodyInPlace
  BY DEF Init, HeaderInPlace, BodyInPlace, HeadStates, BodyStates
<1> QED BY <1>2, <1>3 DEF IInv

(* Each action keeps the invariant and maps to a step of Framing. *)
LEMMA PartStep ==
  ASSUME IInv, NEW n, ReceivePart(n)
  PROVE  IInv' /\ UNCHANGED Frames!vars
<1> USE DEF HeadStates, BodyStates
<1>1. Recv(n) /\ ~Complete(n)
  BY DEF ReceivePart
<1>2. /\ n \in 1 .. irecvlen /\ pos + n <= StreamLen /\ pos' = pos + n
      /\ stream' = stream /\ place' = "used" /\ place = "used"
      /\ at' = at + n /\ irecvlen' = irecvlen - n /\ delivered' = delivered
  BY DEF Recv, ReceivePart
<1>3. begin \in 0 .. StreamLen /\ pos = begin + at /\ at \in Nat /\ pos \in Nat
      /\ irecvlen \in Nat /\ stream \in [0 .. StreamLen -> Lens]
      /\ dataHeadInfo \in [0 .. HeadSize - 1 -> Byte]
      /\ curStat \in HeadStates \cup BodyStates
  BY BeginInStream DEF IInv, TypeOK
<1>4. begin' = begin
  BY <1>2, <1>3 DEF begin
<1>5. UNCHANGED Frames!vars
  BY <1>2, <1>4 DEF Frames!vars
<1>6. CASE curStat \in HeadStates
  <2>1. /\ curStat' = "HD_RECVING" /\ dataHeadInfo' = Filled(dataHeadInfo, n)
        /\ precvMemPointer' = precvMemPointer
    BY <1>6 DEF ReceivePart
  <2>2. /\ at + irecvlen = HdrLen /\ precvMemPointer = Null
        /\ \A i \in 0 .. at - 1 : dataHeadInfo[i] = begin + i
        /\ curStat = "HD_INIT" => at = 0
    BY <1>6 DEF IInv, HeaderInPlace
  <2>3. dataHeadInfo' = [i \in 0 .. HeadSize - 1 |->
                           IF at <= i /\ i < at + n THEN pos + (i - at)
                                                    ELSE dataHeadInfo[i]]
    BY <1>3, <2>1 DEF Filled
  <2>4. dataHeadInfo' \in [0 .. HeadSize - 1 -> Byte]
    BY <1>2, <1>3, <2>3 DEF Byte
  <2>5. n # irecvlen
    BY <1>1, <1>2, <1>3, <2>2 DEF Complete
  <2>6. \A i \in 0 .. at + n - 1 : dataHeadInfo'[i] = begin + i
    BY <1>2, <1>3, <2>2, <2>3
  <2>7. HeaderInPlace'
    BY <1>2, <1>3, <1>4, <2>1, <2>2, <2>5, <2>6 DEF HeaderInPlace
  <2>8. TypeOK' /\ at' <= pos'
    BY <1>2, <1>3, <2>1, <2>2, <2>4 DEF TypeOK
  <2> QED BY <1>5, <2>1, <2>7, <2>8 DEF IInv, BodyInPlace
<1>7. CASE curStat \in BodyStates
  <2>1. /\ curStat' = "BD_RECVING" /\ dataHeadInfo' = dataHeadInfo
        /\ precvMemPointer' = Filled(precvMemPointer, n)
    BY <1>7 DEF ReceivePart
  <2>2. /\ precvMemPointer' \in [0 .. stream[begin] - 1 -> Byte]
        /\ \A i \in 0 .. at + n - 1 : precvMemPointer'[i] = begin + i
        /\ Acceptable(stream[begin]) /\ stream[begin] \in Nat
        /\ at + irecvlen = stream[begin] /\ at >= HdrLen
    BY <1>1, <1>7, <2>1, BodyFilled
  <2>3. n # irecvlen
    BY <1>1, <1>7 DEF Complete
  <2>4. BodyInPlace'
    BY <1>2, <1>3, <1>4, <2>1, <2>2, <2>3 DEF BodyInPlace, Acceptable
  <2>5. \E len \in 0 .. MaxLen : precvMemPointer' \in [0 .. len - 1 -> Byte]
    BY <2>2 DEF Acceptable
  <2>6. TypeOK' /\ at' <= pos'
    BY <1>2, <1>3, <2>1, <2>5 DEF TypeOK
  <2> QED BY <1>5, <2>1, <2>4, <2>6 DEF IInv, HeaderInPlace
<1> QED BY <1>3, <1>6, <1>7

(* After a packet the machine waits for a header: common to three steps. *)
LEMMA HeaderAwaited ==
  ASSUME IInv, AwaitHeader, precvMemPointer' = Null, stream' = stream,
         pos' \in 0 .. StreamLen, place' \in {"used", "closed", "free"},
         dataHeadInfo' \in [0 .. HeadSize - 1 -> Byte]
  PROVE  IInv' /\ begin' = pos'
<1> USE DEF HeadStates, BodyStates, AwaitHeader
<1>1. TypeOK'
  BY DEF IInv, TypeOK
<1>2. HeaderInPlace' /\ BodyInPlace'
  BY DEF HeaderInPlace, BodyInPlace
<1>3. at' = 0 /\ pos' \in Nat
  OBVIOUS
<1>4. at' <= pos' /\ begin' = pos'
  <2>1. begin' = pos' - 0
    BY <1>3 DEF begin
  <2>2. \A x \in Nat : x - 0 = x
    OBVIOUS
  <2>3. at' <= pos'
    BY <1>3
  <2> QED BY <1>3, <2>1, <2>2, <2>3
<1> QED BY <1>1, <1>2, <1>4 DEF IInv

LEMMA RejectedStep ==
  ASSUME IInv, NEW n, HeaderRejected(n)
  PROVE  IInv' /\ Frames!DropHeader
<1>1. /\ pos' = begin + HdrLen /\ pos' \in 0 .. StreamLen
      /\ dataHeadInfo' \in [0 .. HeadSize - 1 -> Byte]
      /\ e_pkgLen = stream[begin] /\ stream[begin] \in Nat
      /\ stream' = stream /\ place' = "used"
  BY HeaderRead DEF HeaderRejected
<1>2. /\ AwaitHeader /\ BadLength /\ delivered' = delivered
      /\ precvMemPointer' = precvMemPointer
  BY DEF HeaderRejected
<1>3. precvMemPointer = Null
  BY DEF IInv, HeaderInPlace, HeaderRejected, HeaderComplete
<1>4. IInv' /\ begin' = pos'
  BY <1>1, <1>2, <1>3, HeaderAwaited
<1>5. ~Frames!Acceptable(stream[begin])
  BY <1>1, <1>2 DEF BadLength, Frames!Acceptable
<1> QED BY <1>1, <1>2, <1>4, <1>5 DEF Frames!DropHeader

LEMMA HeaderOnlyStep ==
  ASSUME IInv, NEW n, HeaderOnly(n)
  PROVE  IInv' /\ Frames!Deliver
<1>0. HeaderComplete(n) /\ ~BadLength
  BY DEF HeaderOnly
<1>1. /\ pos' = begin + HdrLen /\ pos' \in 0 .. StreamLen
      /\ dataHeadInfo' \in [0 .. HeadSize - 1 -> Byte]
      /\ e_pkgLen = stream[begin] /\ stream[begin] \in Nat
      /\ stream' = stream /\ place' = "used"
  BY <1>0, HeaderRead
<1>2. /\ AwaitHeader /\ delivered' = Append(delivered, MessageBuffer)
      /\ precvMemPointer' = Null /\ stream[begin] = HdrLen
  BY <1>1 DEF HeaderOnly
<1>3. IInv' /\ begin' = pos'
  BY <1>1, <1>2, HeaderAwaited
<1>4. /\ MessageBuffer \in [0 .. stream[begin] - 1 -> Byte]
      /\ \A i \in 0 .. HdrLen - 1 : MessageBuffer[i] = begin + i
      /\ Acceptable(stream[begin])
  BY <1>0, BufferAllocated
<1>5. MessageBuffer = [i \in 0 .. stream[begin] - 1 |-> begin + i]
  BY <1>2, <1>4
<1> QED
  BY <1>1, <1>2, <1>3, <1>4, <1>5
  DEF Frames!Deliver, Frames!Bytes, Frames!Acceptable, Acceptable

LEMMA BodyFollowsStep ==
  ASSUME IInv, NEW n, BodyFollows(n)
  PROVE  IInv' /\ UNCHANGED Frames!vars
<1> USE DEF HeadStates, BodyStates
<1>0. HeaderComplete(n) /\ ~BadLength
  BY DEF BodyFollows
<1>1. /\ pos' = begin + HdrLen /\ pos' \in 0 .. StreamLen
      /\ dataHeadInfo' \in [0 .. HeadSize - 1 -> Byte]
      /\ e_pkgLen = stream[begin] /\ stream[begin] \in Nat
      /\ stream' = stream /\ place' = "used" /\ begin \in 0 .. StreamLen
  BY <1>0, HeaderRead, BeginInStream
<1>2. /\ curStat' = "BD_INIT" /\ at' = HdrLen
      /\ irecvlen' = stream[begin] - HdrLen /\ delivered' = delivered
      /\ precvMemPointer' = MessageBuffer /\ stream[begin] # HdrLen
  BY <1>1 DEF BodyFollows
<1>3. /\ MessageBuffer \in [0 .. stream[begin] - 1 -> Byte]
      /\ \A i \in 0 .. HdrLen - 1 : MessageBuffer[i] = begin + i
      /\ Acceptable(stream[begin])
  BY <1>0, BufferAllocated
<1>4. begin' = begin
  BY <1>1, <1>2 DEF begin
<1>5. BodyInPlace'
  BY <1>1, <1>2, <1>3, <1>4 DEF BodyInPlace, Acceptable
<1>6. \E len \in 0 .. MaxLen : precvMemPointer' \in [0 .. len - 1 -> Byte]
  <2>1. stream[begin] \in 0 .. MaxLen
    BY <1>1, <1>3 DEF Acceptable
  <2> QED BY <1>2, <1>3, <2>1
<1>7. TypeOK' /\ at' <= pos'
  BY <1>1, <1>2, <1>3, <1>6 DEF IInv, TypeOK, Acceptable, Byte
<1>8. HeaderInPlace'
  BY <1>2 DEF HeaderInPlace
<1> QED BY <1>1, <1>2, <1>4, <1>5, <1>7, <1>8 DEF IInv, Frames!vars

LEMMA BodyCompleteStep ==
  ASSUME IInv, NEW n, BodyComplete(n)
  PROVE  IInv' /\ Frames!Deliver
<1>1. /\ Recv(n) /\ curStat \in BodyStates /\ n = irecvlen /\ AwaitHeader
      /\ delivered' = Append(delivered, Filled(precvMemPointer, n))
      /\ precvMemPointer' = Null /\ dataHeadInfo' = dataHeadInfo
  BY DEF BodyComplete, Complete, BodyStates
<1>2. stream' = stream /\ place' = "used"
  BY <1>1 DEF Recv
<1>3. /\ Filled(precvMemPointer, n) \in [0 .. stream[begin] - 1 -> Byte]
      /\ \A i \in 0 .. at + n - 1 : Filled(precvMemPointer, n)[i] = begin + i
      /\ Acceptable(stream[begin]) /\ stream[begin] \in Nat
      /\ at + irecvlen = stream[begin]
      /\ pos' = begin + at + n /\ pos' \in 0 .. StreamLen /\ at \in Nat
      /\ irecvlen \in Nat
  BY <1>1, BodyFilled
<1>4. IInv' /\ begin' = pos'
  BY <1>1, <1>2, <1>3, HeaderAwaited DEF IInv, TypeOK
<1>5. Filled(precvMemPointer, n) = [i \in 0 .. stream[begin] - 1 |-> begin + i]
  BY <1>1, <1>3
<1>6. begin \in Nat
  BY BeginInStream
<1> QED
  BY <1>1, <1>2, <1>3, <1>4, <1>5, <1>6
  DEF Frames!Deliver, Frames!Bytes, Frames!Acceptable, Acceptable

LEMMA ReleaseStep ==
  ASSUME IInv, Close \/ PutOneToFree
  PROVE  IInv' /\ UNCHANGED Frames!vars
<1>1. begin' = begin /\ stream' = stream /\ pos' = pos /\ at' = at
      /\ delivered' = delivered /\ curStat' = curStat /\ irecvlen' = irecvlen
      /\ dataHeadInfo' = dataHeadInfo
  BY DEF Close, PutOneToFree, machine, begin
<1>2. CASE Close
  <2>1. /\ place = "used" /\ place' = "closed"
        /\ precvMemPointer' = precvMemPointer
    BY <1>2 DEF Close, machine
  <2>2. TypeOK'
    BY <1>1, <2>1 DEF IInv, TypeOK
  <2>3. HeaderInPlace' /\ BodyInPlace'
    BY <1>1, <2>1 DEF IInv, HeaderInPlace, BodyInPlace
  <2> QED BY <1>1, <2>2, <2>3 DEF IInv, Frames!vars
<1>3. CASE PutOneToFree
  <2>1. place' = "free" /\ precvMemPointer' = Null
    BY <1>3 DEF PutOneToFree
  <2>2. TypeOK'
    BY <1>1, <2>1 DEF IInv, TypeOK
  <2>3. HeaderInPlace' /\ BodyInPlace'
    BY <1>1, <2>1 DEF IInv, HeaderInPlace, BodyInPlace
  <2> QED BY <1>1, <2>2, <2>3 DEF IInv, Frames!vars
<1> QED BY <1>2, <1>3

LEMMA ReuseStep ==
  ASSUME IInv, GetOneToUse
  PROVE  IInv' /\ Frames!NextClient(pos)
<1>1. /\ AwaitHeader /\ precvMemPointer' = Null /\ place' = "used"
      /\ stream' = stream /\ pos' = pos /\ dataHeadInfo' = dataHeadInfo
      /\ delivered' = delivered
  BY DEF GetOneToUse
<1>2. IInv' /\ begin' = pos
  BY <1>1, HeaderAwaited DEF IInv, TypeOK
<1>3. pos = begin + at /\ begin \in 0 .. StreamLen /\ pos \in 0 .. StreamLen
      /\ at \in Nat /\ irecvlen \in Nat
  BY BeginInStream DEF IInv, TypeOK
<1>4. CASE curStat \in HeadStates
  <2>1. pos < begin + HdrLen
    BY <1>3, <1>4 DEF IInv, HeaderInPlace
  <2> QED BY <1>1, <1>2, <1>3, <2>1 DEF Frames!NextClient
<1>5. CASE curStat \in BodyStates
  <2>1. Frames!Acceptable(stream[begin]) /\ at + irecvlen = stream[begin]
        /\ irecvlen > 0
    BY <1>5 DEF IInv, BodyInPlace, Acceptable, Frames!Acceptable
  <2>2. pos < begin + stream[begin]
    BY <1>3, <2>1
  <2> QED BY <1>1, <1>2, <1>3, <2>1, <2>2 DEF Frames!NextClient
<1> QED BY <1>4, <1>5 DEF IInv, TypeOK

LEMMA StepInvariant ==
  ASSUME IInv, [Next]_vars
  PROVE  IInv' /\ [Frames!Next]_(Frames!vars)
<1>1. CASE UNCHANGED vars
  <2>1. IInv'
    BY <1>1 DEF vars, machine, IInv, TypeOK, HeaderInPlace, BodyInPlace, begin
  <2>2. UNCHANGED Frames!vars
    BY <1>1 DEF vars, machine, Frames!vars, begin
  <2> QED BY <2>1, <2>2
<1>2. CASE ngx_wait_request_handler
  <2>1. PICK n \in 1 .. StreamLen :
          \/ ReceivePart(n) \/ HeaderRejected(n) \/ HeaderOnly(n)
          \/ BodyFollows(n) \/ BodyComplete(n)
    BY <1>2 DEF ngx_wait_request_handler
  <2> QED
    BY <2>1, PartStep, RejectedStep, HeaderOnlyStep, BodyFollowsStep,
       BodyCompleteStep DEF Frames!Next
<1>3. CASE Close \/ PutOneToFree
  BY <1>3, ReleaseStep
<1>4. CASE GetOneToUse
  <2>1. pos \in 0 .. StreamLen
    BY DEF IInv, TypeOK
  <2> QED BY <1>4, <2>1, ReuseStep DEF Frames!Next
<1> QED BY <1>1, <1>2, <1>3, <1>4 DEF Next

-----------------------------------------------------------------------------
(* Every reachable state has the bytes of the current packet in place. *)
THEOREM MachineInvariant == Spec => []IInv
<1>1. Init => IInv
  BY InitInvariant
<1>2. IInv /\ [Next]_vars => IInv'
  BY StepInvariant
<1> QED BY <1>1, <1>2, PTL DEF Spec

(* recv() is never given room it does not have, and never asked for 0      *)
(* bytes, whose result would be taken for the end of the connection.       *)
THEOREM BoundsKept == Spec => []WritesInBounds
<1>1. IInv => WritesInBounds
  BY InvariantImpliesBounds
<1> QED BY <1>1, MachineInvariant, PTL

(* The machine implements Framing: whatever the sizes recv() returns and   *)
(* whenever clients go, exactly the whole packets of each client are       *)
(* delivered, in order and byte for byte.                                  *)
THEOREM ImplementsFraming == Spec => FramingSpec
<1>1. Init => Frames!Init
  BY DEF Init, Frames!Init, begin
<1>2. IInv /\ [Next]_vars => [Frames!Next]_(Frames!vars)
  BY StepInvariant
<1>3. Spec => Frames!Spec
  BY <1>1, <1>2, MachineInvariant, PTL DEF Spec, Frames!Spec
<1> QED BY <1>3 DEF FramingSpec

=============================================================================
