-------------------------- MODULE NtyRecvBuffer_proofs --------------------------
(***************************************************************************)
(* Theorems about NtyRecvBuffer, for a buffer and segments of any size, a  *)
(* stream of any length for which sequence numbers are unambiguous, and    *)
(* any initial sequence number, so wherever the numbers wrap.              *)
(*                                                                         *)
(* First the arithmetic: a number of the window stands for one position of *)
(* the stream (Place), and the comparisons and sums of the code mean those *)
(* of positions.  Then RBPut()'s loop over the fragment list, turn by turn *)
(* (Visited), which gives what it makes of the list (InsertedSorted).      *)
(* With that BufferRight is kept by RBPut() and RBRemove(), and the        *)
(* properties are read off BufInv.                                         *)
(***************************************************************************)
EXTENDS NtyRecvBuffer, WellFoundedInduction, TLAPS

-----------------------------------------------------------------------------
(* the positions that ends of fragments have, and one behind; a number     *)
(* that stands for one of them is told from the others                     *)
Places == 0 .. StreamLen + 1
(* the position a number stands for, whatever has been read                *)
Place(seq) == (seq - irs - 1) % Mod

(* the four intervals in which % is used                                   *)
LEMMA SmallMod ==
  ASSUME NEW a \in Int
  PROVE  /\ a % Mod \in 0 .. Mod - 1
         /\ 0 <= a /\ a < Mod => a % Mod = a
         /\ Mod <= a /\ a < 2 * Mod => a % Mod = a - Mod
         /\ -Mod <= a /\ a < 0 => a % Mod = a + Mod
  <1>1. Mod \in Nat /\ Mod > 0
    BY BufferAssumption
  <1>2. a % Mod \in 0 .. Mod - 1
    BY <1>1
  <1>3. 0 <= a /\ a < Mod => a % Mod = a
    BY <1>1
  <1>4. Mod <= a /\ a < 2 * Mod => a % Mod = a - Mod
    BY <1>1
  <1>5. -Mod <= a /\ a < 0 => a % Mod = a + Mod
    BY <1>1
  <1> QED BY <1>2, <1>3, <1>4, <1>5

LEMMA SeqNoValue ==
  ASSUME NEW k \in Places
  PROVE  /\ SeqNo(k) = IF irs + 1 + k < Mod THEN irs + 1 + k ELSE irs + 1 + k - Mod
         /\ SeqNo(k) \in 0 .. Mod - 1
  BY BufferAssumption, SmallMod, SMTT(30) DEF SeqNo, Places

LEMMA PlaceOfSeqNo ==
  ASSUME NEW k \in Places
  PROVE  Place(SeqNo(k)) = k
  <1>1. irs \in 0 .. Mod - 1 /\ Mod \in Nat /\ k \in Int /\ 0 <= k /\ k < Mod
    BY BufferAssumption DEF Places
  <1> DEFINE d == SeqNo(k) - irs - 1
  <1>2. d = IF irs + 1 + k < Mod THEN k ELSE k - Mod
    BY <1>1, SeqNoValue
  <1>3. d % Mod = k
    <2> HIDE DEF d
    <2>1. d \in Int /\ -Mod <= d /\ d < Mod
      BY <1>1, <1>2
    <2> QED BY <1>1, <1>2, <2>1, SmallMod, SMTT(30)
  <1> QED BY <1>3 DEF Place

LEMMA SeqNoOfPlace ==
  ASSUME NEW s \in 0 .. Mod - 1
  PROVE  Place(s) \in 0 .. Mod - 1 /\ SeqNo(Place(s)) = s
  <1>1. irs \in 0 .. Mod - 1 /\ Mod \in Nat
    BY BufferAssumption
  <1> DEFINE d == s - irs - 1
  <1>2. d \in Int /\ -Mod <= d /\ d < Mod
    BY <1>1
  <1>3. Place(s) = d % Mod
    BY DEF Place
  <1>4. Place(s) = IF d < 0 THEN d + Mod ELSE d
    <2> HIDE DEF d
    <2>1. d % Mod = IF d < 0 THEN d + Mod ELSE d
      BY <1>1, <1>2, SmallMod, SMTT(30)
    <2> QED BY <1>3, <2>1
  <1> DEFINE e == irs + 1 + Place(s)
  <1>5. e = IF d < 0 THEN s + Mod ELSE s
    BY <1>1, <1>4
  <1>6. e % Mod = s
    <2> HIDE DEF d, e
    <2>1. e \in Int /\ 0 <= e /\ e < 2 * Mod
      BY <1>1, <1>5
    <2> QED BY <1>1, <1>5, <2>1, SmallMod
  <1> QED BY <1>1, <1>4, <1>6 DEF SeqNo

(* numbers are added to, and subtracted, as positions are                  *)
LEMMA SeqNoPlus ==
  ASSUME NEW k \in Places, NEW n \in Nat, k + n \in Places
  PROVE  (SeqNo(k) + n) % Mod = SeqNo(k + n)
  <1>1. irs \in 0 .. Mod - 1 /\ Mod \in Nat /\ k \in Nat /\ k + n < Mod
    BY BufferAssumption DEF Places
  <1>2. /\ SeqNo(k) = IF irs + 1 + k < Mod THEN irs + 1 + k ELSE irs + 1 + k - Mod
        /\ SeqNo(k + n) = IF irs + 1 + (k + n) < Mod THEN irs + 1 + (k + n) ELSE irs + 1 + (k + n) - Mod
    BY SeqNoValue
  <1> DEFINE e == SeqNo(k) + n
  <1>3. e = SeqNo(k + n) \/ e = SeqNo(k + n) + Mod
    BY <1>1, <1>2
  <1>4. SeqNo(k + n) \in 0 .. Mod - 1
    BY SeqNoValue
  <1>5. e % Mod = SeqNo(k + n)
    <2> HIDE DEF e
    <2>1. e \in Int /\ 0 <= e /\ e < 2 * Mod
      BY <1>1, <1>3, <1>4
    <2> QED BY <1>1, <1>3, <1>4, <2>1, SmallMod
  <1> QED BY <1>5

LEMMA SeqNoMinus ==
  ASSUME NEW k \in Places, NEW j \in Places, j <= k
  PROVE  (SeqNo(k) - SeqNo(j)) % Mod = k - j
  <1>1. irs \in 0 .. Mod - 1 /\ Mod \in Nat /\ k \in Nat /\ j \in Nat /\ k < Mod
    BY BufferAssumption DEF Places
  <1>2. /\ SeqNo(k) = IF irs + 1 + k < Mod THEN irs + 1 + k ELSE irs + 1 + k - Mod
        /\ SeqNo(j) = IF irs + 1 + j < Mod THEN irs + 1 + j ELSE irs + 1 + j - Mod
    BY SeqNoValue
  <1> DEFINE d == SeqNo(k) - SeqNo(j)
  <1>3. d = k - j \/ d = k - j - Mod
    BY <1>1, <1>2
  <1>4. d % Mod = k - j
    <2> HIDE DEF d
    <2>1. d \in Int /\ -Mod <= d /\ d < Mod
      BY <1>1, <1>3
    <2> QED BY <1>1, <1>3, <2>1, SmallMod
  <1> QED BY <1>4

(* GetMinSeq() and GetMaxSeq() compare positions, across the wrap          *)
LEMMA MinMaxSeq ==
  ASSUME NEW j \in Places, NEW k \in Places
  PROVE  /\ GetMinSeq(SeqNo(j), SeqNo(k)) = SeqNo(IF j <= k THEN j ELSE k)
         /\ GetMaxSeq(SeqNo(j), SeqNo(k)) = SeqNo(IF j <= k THEN k ELSE j)
         /\ SeqNo(j) = SeqNo(k) => j = k
  <1>1. SeqNo(j) = SeqNo(k) => j = k
    BY PlaceOfSeqNo
  <1>2. GetMinSeq(SeqNo(j), SeqNo(k)) = SeqNo(IF j <= k THEN j ELSE k)
    BY SeqNoValue, BufferAssumption DEF Places, GetMinSeq, MAXSEQ
  <1>3. GetMaxSeq(SeqNo(j), SeqNo(k)) = SeqNo(IF j <= k THEN k ELSE j)
    BY <1>1, <1>2, SeqNoValue, BufferAssumption DEF Places, GetMaxSeq
  <1> QED BY <1>1, <1>2, <1>3
LEMMA SeqNoInjective ==
  ASSUME NEW j \in Places, NEW k \in Places, SeqNo(j) = SeqNo(k)
  PROVE  j = k
  BY PlaceOfSeqNo

-----------------------------------------------------------------------------
(* A fragment of the list covers the positions Start .. End - 1.           *)
Fragments == [seq : 0 .. Mod - 1, len : Nat]
Start(f) == Place(f.seq)
End(f) == Start(f) + f.len
IsFragment(f) == f \in Fragments /\ f.len > 0 /\ End(f) <= StreamLen

LEMMA FragmentPlaces ==
  ASSUME NEW f, IsFragment(f)
  PROVE  /\ Start(f) \in Places /\ End(f) \in Places /\ End(f) + 1 \in Places
         /\ Start(f) < End(f) /\ f.len \in Nat /\ f.len = End(f) - Start(f)
         /\ f.seq = SeqNo(Start(f))
         /\ (f.seq + f.len) % Mod = SeqNo(End(f))
         /\ (f.seq + f.len + 1) % Mod = SeqNo(End(f) + 1)
  <1>1. f.seq \in 0 .. Mod - 1 /\ f.len \in Nat /\ f.len > 0
    BY DEF IsFragment, Fragments
  <1>2. Start(f) \in 0 .. Mod - 1 /\ f.seq = SeqNo(Start(f))
    BY <1>1, SeqNoOfPlace DEF Start
  <1>3. /\ Start(f) \in Places /\ End(f) \in Places /\ End(f) + 1 \in Places
        /\ Start(f) < End(f) /\ f.len = End(f) - Start(f) /\ End(f) \in Int
        /\ Start(f) \in Int
    BY <1>1, <1>2, BufferAssumption DEF IsFragment, End, Places
  <1>4. (f.seq + f.len) % Mod = SeqNo(End(f))
    BY <1>1, <1>2, <1>3, SeqNoPlus DEF End
  <1>5. (f.seq + f.len + 1) % Mod = SeqNo(End(f) + 1)
    <2>1. f.seq + f.len + 1 = SeqNo(Start(f)) + (f.len + 1)
      BY <1>1, <1>2
    <2>2. Start(f) + (f.len + 1) = End(f) + 1 /\ f.len + 1 \in Nat
      BY <1>1, <1>3
    <2> QED BY <1>3, <2>1, <2>2, SeqNoPlus
  <1> QED BY <1>1, <1>2, <1>3, <1>4, <1>5

(* CanMerge() accepts fragments that overlap or touch ...                  *)
LEMMA CanMergeMeans ==
  ASSUME NEW a, NEW b, IsFragment(a), IsFragment(b)
  PROVE  CanMerge(a, b) <=> End(a) >= Start(b) /\ End(b) >= Start(a)
  <1>1. /\ Start(a) \in Places /\ End(a) + 1 \in Places /\ a.seq = SeqNo(Start(a))
        /\ (a.seq + a.len + 1) % Mod = SeqNo(End(a) + 1) /\ End(a) \in Places
        /\ Start(b) \in Places /\ End(b) + 1 \in Places /\ b.seq = SeqNo(Start(b))
        /\ (b.seq + b.len + 1) % Mod = SeqNo(End(b) + 1) /\ End(b) \in Places
    BY FragmentPlaces
  <1>2. GetMinSeq(SeqNo(End(a) + 1), SeqNo(Start(b))) = SeqNo(End(a) + 1)
          <=> End(a) + 1 <= Start(b)
    BY <1>1, MinMaxSeq DEF Places
  <1>3. GetMinSeq(SeqNo(End(b) + 1), SeqNo(Start(a))) = SeqNo(End(b) + 1)
          <=> End(b) + 1 <= Start(a)
    BY <1>1, MinMaxSeq DEF Places
  <1>4. CanMerge(a, b) <=> ~(End(a) + 1 <= Start(b)) /\ ~(End(b) + 1 <= Start(a))
    BY <1>1, <1>2, <1>3 DEF CanMerge
  <1> QED BY <1>1, <1>4 DEF Places

(* ... and MergeFragments() covers both                                    *)
LEMMA MergeMeans ==
  ASSUME NEW a, NEW b, IsFragment(a), IsFragment(b)
  PROVE  /\ IsFragment(MergeFragments(a, b))
         /\ Start(MergeFragments(a, b)) = IF Start(a) <= Start(b) THEN Start(a) ELSE Start(b)
         /\ End(MergeFragments(a, b)) = IF End(a) <= End(b) THEN End(b) ELSE End(a)
  <1> DEFINE r == MergeFragments(a, b)
             s == IF Start(a) <= Start(b) THEN Start(a) ELSE Start(b)
             e == IF End(a) <= End(b) THEN End(b) ELSE End(a)
  <1>1. /\ Start(a) \in Places /\ End(a) \in Places /\ a.seq = SeqNo(Start(a))
        /\ (a.seq + a.len) % Mod = SeqNo(End(a)) /\ Start(a) < End(a)
        /\ Start(b) \in Places /\ End(b) \in Places /\ b.seq = SeqNo(Start(b))
        /\ (b.seq + b.len) % Mod = SeqNo(End(b)) /\ Start(b) < End(b)
    BY FragmentPlaces
  <1>2. s \in Places /\ e \in Places /\ s < e /\ e <= StreamLen
    BY <1>1 DEF Places, IsFragment
  <1>3. GetMinSeq(a.seq, b.seq) = SeqNo(s)
    BY <1>1, MinMaxSeq
  <1>4. GetMaxSeq((a.seq + a.len) % Mod, (b.seq + b.len) % Mod) = SeqNo(e)
    BY <1>1, MinMaxSeq
  <1> HIDE DEF s, e
  <1>5. r = [seq |-> SeqNo(s), len |-> e - s]
    BY <1>2, <1>3, <1>4, SeqNoMinus DEF MergeFragments, Places
  <1>6. r.seq = SeqNo(s) /\ r.len = e - s /\ SeqNo(s) \in 0 .. Mod - 1 /\ e - s \in Nat
    BY <1>2, <1>5, SeqNoValue DEF Places
  <1>7. Start(r) = s /\ End(r) = e
    BY <1>2, <1>6, PlaceOfSeqNo DEF Start, End, Places
  <1>8. r \in Fragments /\ r.len > 0
    BY <1>2, <1>5, <1>6 DEF Fragments, Places
  <1> QED BY <1>2, <1>7, <1>8 DEF IsFragment, s, e

-----------------------------------------------------------------------------
(* Induction up to n, for a set: were a number missing, so would be the    *)
(* least one.                                                              *)
LEMMA Upwards ==
  ASSUME NEW n \in Nat, NEW S, 0 \in S, \A i \in S : i \in 0 .. n - 1 => i + 1 \in S
  PROVE  0 .. n \subseteq S
  <1> DEFINE Out == {i \in 0 .. n : i \notin S}
  <1>1. SUFFICES ASSUME Out # {} PROVE FALSE
    OBVIOUS
  <1>2. Out \subseteq Nat
    OBVIOUS
  <1>3. PICK k \in Out : \A j \in Out : <<j, k>> \notin OpToRel(<, Nat)
    BY <1>1, <1>2, NatLessThanWellFounded, WFMin
  <1>4. k \in 0 .. n /\ k \notin S /\ k # 0
    OBVIOUS
  <1>5. k - 1 \in 0 .. n - 1 /\ k - 1 \in 0 .. n /\ k - 1 < k /\ k - 1 \in Nat /\ (k - 1) + 1 = k /\ k \in Nat
    BY <1>4
  <1>6. k - 1 \notin S
    BY <1>4, <1>5
  <1>7. k - 1 \in Out
    BY <1>5, <1>6
  <1>8. <<k - 1, k>> \in OpToRel(<, Nat)
    BY <1>5 DEF OpToRel
  <1> QED BY <1>3, <1>7, <1>8

LEMMA MaxOfIndices ==
  ASSUME NEW n \in Nat, NEW s \in SUBSET (1 .. n), s # {}
  PROVE  /\ Max(s) \in s /\ \A x \in s : x <= Max(s)
         /\ n \in s => Max(s) = n
  <1> DEFINE Over == {n - x : x \in s}
  <1>1. Over \subseteq Nat /\ Over # {}
    OBVIOUS
  <1>2. PICK k \in Over : \A j \in Over : <<j, k>> \notin OpToRel(<, Nat)
    BY <1>1, NatLessThanWellFounded, WFMin
  <1>3. PICK m \in s : k = n - m
    BY <1>2
  <1>4. ASSUME NEW x \in s PROVE m >= x
    <2>1. n - x \in Over /\ n - x \in Nat /\ n - m \in Nat /\ x \in Int /\ m \in Int
      OBVIOUS
    <2>2. ~(n - x < n - m)
      BY <1>2, <1>3, <2>1 DEF OpToRel
    <2> QED BY <2>1, <2>2
  <1>5. Max(s) \in s /\ \A x \in s : Max(s) >= x
    BY <1>4 DEF Max
  <1>6. \A x \in s : x \in 1 .. n
    OBVIOUS
  <1> DEFINE mx == Max(s)
  <1> HIDE DEF mx
  <1>7. mx \in 1 .. n /\ mx \in s /\ \A x \in s : mx >= x
    BY <1>5, <1>6 DEF mx
  <1>8. \A x \in s : x <= mx
    BY <1>6, <1>7
  <1>9. n \in s => mx = n
    BY <1>7
  <1> QED BY <1>7, <1>8, <1>9 DEF mx

LEMMA ConcatFacts ==
  ASSUME NEW S, NEW s \in Seq(S), NEW t \in Seq(S)
  PROVE  /\ s \o t \in Seq(S) /\ Len(s \o t) = Len(s) + Len(t)
         /\ \A i \in 1 .. Len(s) : (s \o t)[i] = s[i]
         /\ \A i \in 1 .. Len(t) : (s \o t)[Len(s) + i] = t[i]
  <1>1. s \o t \in Seq(S) /\ Len(s \o t) = Len(s) + Len(t)
    OBVIOUS
  <1>2. \A i \in 1 .. Len(s) : (s \o t)[i] = s[i]
    OBVIOUS
  <1>3. ASSUME NEW i \in 1 .. Len(t) PROVE (s \o t)[Len(s) + i] = t[i]
    OBVIOUS
  <1> QED BY <1>1, <1>2, <1>3

-----------------------------------------------------------------------------
(* RBPut()'s loop is a fold over the list.  The function it is defined by  *)
(* exists, so its steps can be followed one by one.                        *)
NoneVisited(new) == [before |-> <<>>, new |-> new, after |-> <<>>,
                     merged |-> FALSE, done |-> FALSE]

IsFold(f, l, new, i) ==
  f = [s \in SUBSET (1 .. i) |->
         IF s = {} THEN NoneVisited(new) ELSE Visit(new, f[s \ {Max(s)}], l[Max(s)])]

(* a function for 1 .. i + 1 from one for 1 .. i                           *)
LEMMA FoldExists ==
  ASSUME NEW l, NEW new, NEW n \in Nat
  PROVE  \E f : IsFold(f, l, new, n)
  <1> DEFINE S == {i \in 0 .. n : \E f : IsFold(f, l, new, i)}
  <1>1. 0 \in S
    <2> DEFINE f == [s \in SUBSET (1 .. 0) |-> NoneVisited(new)]
    <2>1. \A s \in SUBSET (1 .. 0) : s = {}
      OBVIOUS
    <2>2. IsFold(f, l, new, 0)
      BY <2>1 DEF IsFold
    <2> QED BY <2>2
  <1>2. ASSUME NEW i \in S, i \in 0 .. n - 1 PROVE i + 1 \in S
    <2>1. PICK f : IsFold(f, l, new, i)
      OBVIOUS
    <2> DEFINE g == [s \in SUBSET (1 .. i + 1) |->
                       IF i + 1 \in s THEN Visit(new, f[s \ {i + 1}], l[i + 1]) ELSE f[s]]
    <2>2. ASSUME NEW s \in SUBSET (1 .. i + 1)
          PROVE  g[s] = IF s = {} THEN NoneVisited(new)
                        ELSE Visit(new, g[s \ {Max(s)}], l[Max(s)])
      <3>1. CASE i + 1 \in s
        <4>1. Max(s) = i + 1
          BY <1>2, <3>1, MaxOfIndices
        <4>2. s \ {i + 1} \in SUBSET (1 .. i) /\ s \ {i + 1} \in SUBSET (1 .. i + 1)
          BY <1>2
        <4>3. g[s \ {i + 1}] = f[s \ {i + 1}]
          BY <4>2
        <4>4. g[s] = Visit(new, f[s \ {i + 1}], l[i + 1])
          BY <3>1
        <4> QED BY <3>1, <4>1, <4>3, <4>4
      <3>2. CASE i + 1 \notin s
        <4>1. s \in SUBSET (1 .. i)
          BY <1>2, <3>2
        <4>2. f[s] = IF s = {} THEN NoneVisited(new)
                     ELSE Visit(new, f[s \ {Max(s)}], l[Max(s)])
          BY <2>1, <4>1 DEF IsFold
        <4>3. /\ s \ {Max(s)} \in SUBSET (1 .. i + 1) /\ i + 1 \notin s \ {Max(s)}
          BY <3>2
        <4>4. g[s \ {Max(s)}] = f[s \ {Max(s)}] /\ g[s] = f[s]
          BY <3>2, <4>3
        <4> QED BY <4>2, <4>4
      <3> QED BY <3>1, <3>2
    <2>3. g = [s \in SUBSET (1 .. i + 1) |-> g[s]]
      OBVIOUS
    <2> HIDE DEF g
    <2>4. g = [s \in SUBSET (1 .. i + 1) |->
                 IF s = {} THEN NoneVisited(new) ELSE Visit(new, g[s \ {Max(s)}], l[Max(s)])]
      BY <2>2, <2>3
    <2>5. IsFold(g, l, new, i + 1)
      BY <2>4 DEF IsFold
    <2>6. i + 1 \in 0 .. n
      BY <1>2
    <2> QED BY <2>5, <2>6
  <1>3. 0 .. n \subseteq S
    <2> HIDE DEF S
    <2> QED BY <1>1, <1>2, Upwards
  <1> QED BY <1>3

FoldOf(l, new) == (CHOOSE f : IsFold(f, l, new, Len(l)))[1 .. Len(l)]

LEMMA InsertedByFold ==
  ASSUME NEW S, NEW l \in Seq(S), NEW new
  PROVE  Inserted(l, new) =
           IF ~FoldOf(l, new).merged /\ l # <<>> /\ GetMinSeq(new.seq, l[1].seq) = new.seq
           THEN <<new>> \o l
           ELSE FoldOf(l, new).before \o <<FoldOf(l, new).new>> \o FoldOf(l, new).after
  <1>1. DOMAIN l = 1 .. Len(l)
    OBVIOUS
  <1> QED BY <1>1 DEF Inserted, FoldLeft, MapThenFoldSet, FoldOf, IsFold, NoneVisited

(* what the loop knows before and after each turn                          *)
LEMMA FoldSteps ==
  ASSUME NEW S, NEW l \in Seq(S), NEW new
  PROVE  \E g : /\ g[0] = NoneVisited(new)
                /\ \A i \in 1 .. Len(l) : g[i] = Visit(new, g[i - 1], l[i])
                /\ FoldOf(l, new) = g[Len(l)]
  <1> DEFINE n == Len(l)
             f == CHOOSE f : IsFold(f, l, new, n)
             g == [i \in 0 .. n |-> f[1 .. i]]
  <1>1. n \in Nat
    OBVIOUS
  <1>2. IsFold(f, l, new, n)
    BY <1>1, FoldExists
  <1>3. FoldOf(l, new) = f[1 .. n]
    BY DEF FoldOf
  <1> HIDE DEF n, f
  <1>4. g[0] = NoneVisited(new)
    <2>1. 1 .. 0 = {} /\ {} \in SUBSET (1 .. n) /\ 0 \in 0 .. n
      BY <1>1
    <2>2. f[{}] = NoneVisited(new)
      BY <1>2, <2>1 DEF IsFold
    <2> QED BY <2>1, <2>2
  <1>5. ASSUME NEW i \in 1 .. n PROVE g[i] = Visit(new, g[i - 1], l[i])
    <2>1. /\ i \in 0 .. n /\ i - 1 \in 0 .. n /\ i \in 1 .. i /\ i \in Nat
          /\ 1 .. i \in SUBSET (1 .. n)
      BY <1>1
    <2>2. Max(1 .. i) = i
      BY <2>1, MaxOfIndices
    <2>3. (1 .. i) \ {i} = 1 .. i - 1
      BY <2>1
    <2>4. f[1 .. i] = IF 1 .. i = {} THEN NoneVisited(new)
                      ELSE Visit(new, f[(1 .. i) \ {Max(1 .. i)}], l[Max(1 .. i)])
      BY <1>2, <2>1 DEF IsFold
    <2> QED BY <2>1, <2>2, <2>3, <2>4
  <1>6. g[n] = f[1 .. n]
    BY <1>1
  <1> HIDE DEF g
  <1> QED BY <1>3, <1>4, <1>5, <1>6 DEF n

-----------------------------------------------------------------------------
(* a fragment list: in order, with a gap between any two *)
Sorted(l) ==
  /\ l \in Seq(Fragments)
  /\ \A i \in 1 .. Len(l) : IsFragment(l[i])
  /\ \A i, j \in 1 .. Len(l) : i < j => End(l[i]) < Start(l[j])

Covers(f, x) == Start(f) <= x /\ x < End(f)
Holds(l, x) == \E i \in 1 .. Len(l) : Covers(l[i], x)

(* f is new and the fragments m + 1 .. j of l in one, and those up to m lie before it *)
Spans(l, new, m, j, f) ==
  /\ m \in 0 .. j /\ j \in 0 .. Len(l)
  /\ IsFragment(f)
  /\ \A x \in Int : Covers(f, x) <=> Covers(new, x) \/ \E h \in m + 1 .. j : Covers(l[h], x)
  /\ m > 0 => End(l[m]) < Start(f)

(* what RBPut() knows after the i-th turn of its loop *)
Visited(l, new, i, acc, m, j) ==
  /\ acc \in [before : Seq(Fragments), new : Fragments, after : Seq(Fragments),
              merged : BOOLEAN, done : BOOLEAN]
  /\ j <= i /\ Spans(l, new, m, j, acc.new)
  /\ Len(acc.before) = m /\ \A h \in 1 .. m : acc.before[h] = l[h]
  /\ Len(acc.after) = i - j /\ \A h \in 1 .. i - j : acc.after[h] = l[j + h]
  /\ acc.merged => m < j
  /\ ~acc.merged => m = j /\ acc.new = new
  /\ acc.done => j < i /\ End(acc.new) < Start(l[j + 1])
  /\ ~acc.done => i = j

(* One turn of the loop: the fragment goes behind, is merged, ends the     *)
(* search or stays before.                                                 *)
LEMMA VisitKeepsTrack ==
  ASSUME NEW l, Sorted(l), NEW new, IsFragment(new), NEW i \in 1 .. Len(l),
         NEW acc, NEW m, NEW j, Visited(l, new, i - 1, acc, m, j)
  PROVE  \E mm, jj : Visited(l, new, i, Visit(new, acc, l[i]), mm, jj)
  <1> DEFINE it == l[i]
             f == acc.new
             n == Len(l)
  <1>1. /\ n \in Nat /\ i \in 1 .. n /\ l \in Seq(Fragments) /\ it \in Fragments
        /\ IsFragment(it) /\ m \in 0 .. j /\ j \in 0 .. n /\ j <= i - 1
        /\ IsFragment(f) /\ f \in Fragments
    BY DEF Sorted, Visited, Spans
  <1>2. /\ acc.before \in Seq(Fragments) /\ acc.after \in Seq(Fragments)
        /\ acc.merged \in BOOLEAN /\ acc.done \in BOOLEAN
        /\ acc \in [before : Seq(Fragments), new : Fragments, after : Seq(Fragments),
                    merged : BOOLEAN, done : BOOLEAN]
    BY DEF Visited
  <1>3. /\ \A x \in Int : Covers(f, x) <=> Covers(new, x) \/ \E h \in m + 1 .. j : Covers(l[h], x)
        /\ m > 0 => End(l[m]) < Start(f)
        /\ Len(acc.before) = m /\ \A h \in 1 .. m : acc.before[h] = l[h]
        /\ Len(acc.after) = i - 1 - j /\ \A h \in 1 .. i - 1 - j : acc.after[h] = l[j + h]
        /\ acc.merged => m < j
        /\ ~acc.merged => m = j /\ f = new
        /\ acc.done => j < i - 1 /\ End(f) < Start(l[j + 1])
        /\ ~acc.done => i - 1 = j
    BY DEF Visited, Spans
  <1>4. /\ Start(f) \in Int /\ End(f) \in Int /\ Start(f) < End(f)
        /\ Start(it) \in Int /\ End(it) \in Int /\ Start(it) < End(it)
        /\ Start(new) \in Int /\ End(new) \in Int /\ Start(new) < End(new)
    BY <1>1, FragmentPlaces DEF Places
  <1>5. \A h \in 1 .. n : /\ IsFragment(l[h]) /\ Start(l[h]) \in Int /\ End(l[h]) \in Int
                          /\ Start(l[h]) < End(l[h])
    BY FragmentPlaces DEF Places, Sorted
  <1>6. \A h, k \in 1 .. n : h < k => End(l[h]) < Start(l[k])
    BY DEF Sorted
  <1> HIDE DEF it, f, n
  <1>7. CASE acc.done
    <2> DEFINE r == [acc EXCEPT !.after = Append(@, it)]
    <2>1. Visit(new, acc, l[i]) = r
      BY <1>7 DEF Visit, it
    <2>0. Append(acc.after, it) \in Seq(Fragments)
      BY <1>1, <1>2
    <2>2. /\ r.before = acc.before /\ r.new = f /\ r.merged = acc.merged /\ r.done = acc.done
          /\ r.after = Append(acc.after, it)
          /\ r \in [before : Seq(Fragments), new : Fragments, after : Seq(Fragments),
                    merged : BOOLEAN, done : BOOLEAN]
      BY <1>2, <2>0 DEF f
    <2> HIDE DEF r
    <2>3. Len(r.after) = i - j /\ \A h \in 1 .. i - j : r.after[h] = l[j + h]
      <3>1. Len(r.after) = i - j
        BY <1>1, <1>2, <1>3, <2>2
      <3>2. ASSUME NEW h \in 1 .. i - j PROVE r.after[h] = l[j + h]
        <4>1. CASE h = i - j
          BY <1>1, <1>2, <1>3, <2>2, <4>1 DEF it
        <4>2. CASE h # i - j
          <5>1. h \in 1 .. i - 1 - j /\ h \in 1 .. Len(acc.after)
            BY <1>1, <1>3, <4>2
          <5>2. r.after[h] = acc.after[h]
            BY <1>1, <1>2, <2>2, <5>1
          <5> QED BY <1>3, <5>1, <5>2
        <4> QED BY <4>1, <4>2
      <3> QED BY <3>1, <3>2
    <2>4. Visited(l, new, i, r, m, j)
      <3>1. Spans(l, new, m, j, f)
        BY DEF Visited, f
      <3>2. j <= i /\ j < i
        BY <1>1
      <3> QED BY <1>3, <1>7, <2>2, <2>3, <3>1, <3>2 DEF Visited
    <2> QED BY <2>1, <2>4
  <1>8. CASE ~acc.done /\ CanMerge(f, it)
    <2> DEFINE g == MergeFragments(f, it)
               r == [acc EXCEPT !.new = MergeFragments(acc.new, it), !.merged = TRUE]
    <2>1. Visit(new, acc, l[i]) = r
      BY <1>8 DEF Visit, it, f
    <2>2. /\ IsFragment(g)
          /\ Start(g) = IF Start(f) <= Start(it) THEN Start(f) ELSE Start(it)
          /\ End(g) = IF End(f) <= End(it) THEN End(it) ELSE End(f)
      BY <1>1, MergeMeans
    <2>3. /\ r.before = acc.before /\ r.new = g /\ r.merged = TRUE /\ r.done = acc.done
          /\ r.after = acc.after
          /\ r \in [before : Seq(Fragments), new : Fragments, after : Seq(Fragments),
                    merged : BOOLEAN, done : BOOLEAN]
      BY <1>1, <1>2, <2>2 DEF f, g, IsFragment
    <2> HIDE DEF r, g
    <2>4. End(f) >= Start(it) /\ End(it) >= Start(f)
      BY <1>1, <1>8, CanMergeMeans
    <2>5. j = i - 1 /\ i \in Int
      BY <1>1, <1>3, <1>8
    <2>6. ASSUME NEW x \in Int
          PROVE  Covers(g, x) <=> Covers(new, x) \/ \E h \in m + 1 .. i : Covers(l[h], x)
      <3>1. Covers(g, x) <=> Covers(f, x) \/ Covers(it, x)
        BY <1>4, <2>2, <2>4 DEF Covers
      <3>2. (\E h \in m + 1 .. i : Covers(l[h], x))
              <=> (\E h \in m + 1 .. j : Covers(l[h], x)) \/ Covers(it, x)
        <4>1. m + 1 .. i = (m + 1 .. j) \cup {i}
          BY <1>1, <2>5
        <4> QED BY <4>1 DEF it
      <3> QED BY <1>3, <3>1, <3>2
    <2>7. m > 0 => End(l[m]) < Start(g)
      <3>1. SUFFICES ASSUME m > 0 PROVE End(l[m]) < Start(g)
        OBVIOUS
      <3>2. m \in 1 .. n /\ i \in 1 .. n /\ m < i
        BY <1>1, <2>5, <3>1
      <3>3. End(l[m]) < Start(it)
        BY <1>6, <3>2 DEF it
      <3> QED BY <1>3, <2>2, <3>1, <3>3
    <2>8. Spans(l, new, m, i, g)
      <3>1. m \in 0 .. i /\ i \in 0 .. Len(l)
        BY <1>1, <2>5 DEF n
      <3> QED BY <2>2, <2>6, <2>7, <3>1 DEF Spans
    <2>9. Len(r.after) = i - i /\ \A h \in 1 .. i - i : r.after[h] = l[i + h]
      BY <1>3, <2>3, <2>5
    <2>10. m < i /\ i <= i
      BY <1>1, <2>5
    <2>11. Visited(l, new, i, r, m, i)
      BY <1>3, <1>8, <2>3, <2>8, <2>9, <2>10 DEF Visited
    <2> QED BY <2>1, <2>11
  <1> DEFINE isBehind == GetMaxSeq((new.seq + new.len) % Mod, it.seq) = it.seq
  <1>9. isBehind <=> End(new) <= Start(it)
    <2>1. /\ (new.seq + new.len) % Mod = SeqNo(End(new)) /\ it.seq = SeqNo(Start(it))
          /\ End(new) \in Places /\ Start(it) \in Places
      BY <1>1, FragmentPlaces
    <2> QED BY <1>4, <2>1, MinMaxSeq
  <1>10. CASE ~acc.done /\ ~CanMerge(f, it) /\ (acc.merged \/ isBehind)
    <2> DEFINE r == [acc EXCEPT !.after = <<it>>, !.done = TRUE]
    <2>1. Visit(new, acc, l[i]) = r
      BY <1>10 DEF Visit, it, f
    <2>0. <<it>> \in Seq(Fragments)
      BY <1>1, <1>2
    <2>2. /\ r.before = acc.before /\ r.new = f /\ r.merged = acc.merged /\ r.done = TRUE
          /\ r.after = <<it>>
          /\ r \in [before : Seq(Fragments), new : Fragments, after : Seq(Fragments),
                    merged : BOOLEAN, done : BOOLEAN]
      BY <1>2, <2>0 DEF f
    <2> HIDE DEF r
    <2>3. j = i - 1 /\ i \in Int /\ j + 1 = i /\ i - j = 1
      BY <1>1, <1>3, <1>10
    <2>4. End(f) < Start(it)
      <3>1. ~(End(f) >= Start(it) /\ End(it) >= Start(f))
        BY <1>1, <1>10, CanMergeMeans
      <3>2. CASE acc.merged
        <4>1. j \in 1 .. n /\ j \in m + 1 .. j /\ j < i
          BY <1>1, <1>3, <2>3, <3>2
        <4>2. Covers(l[j], Start(l[j])) /\ Start(l[j]) \in Int
          BY <1>5, <4>1 DEF Covers
        <4>3. Covers(f, Start(l[j]))
          BY <1>3, <4>1, <4>2
        <4>4. End(l[j]) < Start(it)
          BY <1>1, <1>6, <4>1 DEF it
        <4> QED BY <1>4, <1>5, <3>1, <4>1, <4>3, <4>4 DEF Covers
      <3>3. CASE ~acc.merged
        BY <1>3, <1>4, <1>9, <1>10, <3>1, <3>3
      <3> QED BY <1>2, <3>2, <3>3
    <2>5. Spans(l, new, m, j, f)
      BY DEF Visited, f
    <2>6. Len(r.after) = i - j /\ \A h \in 1 .. i - j : r.after[h] = l[j + h]
      BY <2>2, <2>3 DEF it
    <2>7. l[j + 1] = it /\ j < i /\ j <= i
      BY <2>3 DEF it
    <2>8. Visited(l, new, i, r, m, j)
      BY <1>3, <2>2, <2>4, <2>5, <2>6, <2>7 DEF Visited
    <2> QED BY <2>1, <2>8
  <1>11. CASE ~acc.done /\ ~CanMerge(f, it) /\ ~acc.merged /\ ~isBehind
    <2> DEFINE r == [acc EXCEPT !.before = Append(@, it)]
    <2>1. Visit(new, acc, l[i]) = r
      BY <1>11 DEF Visit, it, f
    <2>0. Append(acc.before, it) \in Seq(Fragments)
      BY <1>1, <1>2
    <2>2. /\ r.before = Append(acc.before, it) /\ r.new = f /\ r.merged = acc.merged
          /\ r.done = acc.done /\ r.after = acc.after
          /\ r \in [before : Seq(Fragments), new : Fragments, after : Seq(Fragments),
                    merged : BOOLEAN, done : BOOLEAN]
      BY <1>2, <2>0 DEF f
    <2> HIDE DEF r
    <2>3. j = i - 1 /\ i \in Int /\ j + 1 = i /\ i - j = 1 /\ m = i - 1 /\ f = new
      BY <1>1, <1>3, <1>11
    <2>4. End(it) < Start(f)
      <3>1. ~(End(f) >= Start(it) /\ End(it) >= Start(f))
        BY <1>1, <1>11, CanMergeMeans
      <3> QED BY <1>4, <1>9, <1>11, <2>3, <3>1
    <2>5. \A x \in Int : Covers(f, x) <=> Covers(new, x) \/ \E h \in i + 1 .. i : Covers(l[h], x)
      BY <2>3
    <2>6. Spans(l, new, i, i, f)
      <3>1. i \in 0 .. i /\ i \in 0 .. Len(l)
        BY <1>1 DEF n
      <3> QED BY <1>1, <2>4, <2>5, <3>1 DEF Spans, it
    <2>7. Len(r.before) = i /\ \A h \in 1 .. i : r.before[h] = l[h]
      BY <1>1, <1>2, <1>3, <2>2, <2>3 DEF it
    <2>8. Len(r.after) = i - i /\ \A h \in 1 .. i - i : r.after[h] = l[i + h]
      BY <1>3, <2>2, <2>3
    <2>9. Visited(l, new, i, r, i, i)
      BY <1>11, <2>2, <2>3, <2>6, <2>7, <2>8 DEF Visited
    <2> QED BY <2>1, <2>9
  <1> QED BY <1>2, <1>7, <1>8, <1>10, <1>11

-----------------------------------------------------------------------------
LEMMA VisitsKeepTrack ==
  ASSUME NEW l, Sorted(l), NEW new, IsFragment(new), NEW g, g[0] = NoneVisited(new),
         \A i \in 1 .. Len(l) : g[i] = Visit(new, g[i - 1], l[i])
  PROVE  \E m, j : Visited(l, new, Len(l), g[Len(l)], m, j)
  <1> DEFINE n == Len(l)
             S == {i \in 0 .. n : \E m, j : Visited(l, new, i, g[i], m, j)}
  <1>1. n \in Nat /\ new \in Fragments
    BY DEF Sorted, IsFragment
  <1>2. 0 \in S
    <2>1. Visited(l, new, 0, NoneVisited(new), 0, 0)
      <3>1. Spans(l, new, 0, 0, new)
        BY <1>1 DEF Spans
      <3>2. /\ <<>> \in Seq(Fragments) /\ Len(<<>>) = 0
        OBVIOUS
      <3> QED BY <1>1, <3>1, <3>2 DEF Visited, NoneVisited
    <2> QED BY <1>1, <2>1
  <1>3. ASSUME NEW i \in S, i \in 0 .. n - 1 PROVE i + 1 \in S
    <2>1. PICK m, j : Visited(l, new, i, g[i], m, j)
      OBVIOUS
    <2>2. i + 1 \in 1 .. n /\ (i + 1) - 1 = i /\ i + 1 \in 0 .. n
      BY <1>1, <1>3
    <2>3. g[i + 1] = Visit(new, g[i], l[i + 1])
      BY <2>2
    <2>4. \E mm, jj : Visited(l, new, i + 1, Visit(new, g[i], l[i + 1]), mm, jj)
      BY <2>1, <2>2, VisitKeepsTrack
    <2> QED BY <2>2, <2>3, <2>4
  <1>4. 0 .. n \subseteq S
    <2> HIDE DEF S
    <2> QED BY <1>1, <1>2, <1>3, Upwards
  <1> QED BY <1>1, <1>4

(* r is l with f in the place of the fragments m + 1 .. j *)
Replaced(l, m, j, f, r) ==
  /\ r \in Seq(Fragments) /\ Len(r) = m + 1 + Len(l) - j
  /\ \A h \in 1 .. m : r[h] = l[h]
  /\ r[m + 1] = f
  /\ \A h \in 1 .. Len(l) - j : r[m + 1 + h] = l[j + h]

(* What RBPut() makes of the list: the fragments that overlap or touch the *)
(* new one are replaced by one, the others stay.                           *)
LEMMA InsertedReplaces ==
  ASSUME NEW l, Sorted(l), NEW new, IsFragment(new)
  PROVE  \E m, j, f : /\ Spans(l, new, m, j, f) /\ Replaced(l, m, j, f, Inserted(l, new))
                      /\ j < Len(l) => End(f) < Start(l[j + 1])
  <1> DEFINE n == Len(l)
             found == FoldOf(l, new)
             front == ~found.merged /\ l # <<>> /\ GetMinSeq(new.seq, l[1].seq) = new.seq
  <1>1. n \in Nat /\ l \in Seq(Fragments) /\ new \in Fragments
    BY DEF Sorted, IsFragment
  <1>2. PICK g : /\ g[0] = NoneVisited(new)
                 /\ \A i \in 1 .. Len(l) : g[i] = Visit(new, g[i - 1], l[i])
                 /\ found = g[Len(l)]
    BY <1>1, FoldSteps
  <1>3. PICK m, j : Visited(l, new, n, found, m, j)
    BY <1>2, VisitsKeepTrack
  <1>4. Inserted(l, new) = IF front THEN <<new>> \o l
                           ELSE found.before \o <<found.new>> \o found.after
    BY <1>1, InsertedByFold
  <1> HIDE DEF found
  <1>5. /\ found.before \in Seq(Fragments) /\ found.new \in Fragments
        /\ found.after \in Seq(Fragments) /\ found.merged \in BOOLEAN /\ found.done \in BOOLEAN
        /\ j <= n /\ Spans(l, new, m, j, found.new)
        /\ Len(found.before) = m /\ \A h \in 1 .. m : found.before[h] = l[h]
        /\ Len(found.after) = n - j /\ \A h \in 1 .. n - j : found.after[h] = l[j + h]
        /\ ~found.merged => m = j /\ found.new = new
        /\ found.done => j < n /\ End(found.new) < Start(l[j + 1])
        /\ ~found.done => n = j
    BY <1>3 DEF Visited
  <1>6. m \in 0 .. j /\ j \in 0 .. n /\ (m > 0 => End(l[m]) < Start(found.new))
    BY <1>5 DEF Spans
  <1>7. CASE ~front
    <2> DEFINE b == found.before
               a == found.after
               f == found.new
               r == b \o <<f>> \o a
    <2>1. /\ b \in Seq(Fragments) /\ a \in Seq(Fragments) /\ f \in Fragments
          /\ Len(b) = m /\ Len(a) = n - j
          /\ \A h \in 1 .. m : b[h] = l[h]
          /\ \A h \in 1 .. n - j : a[h] = l[j + h]
      BY <1>5
    <2> HIDE DEF b, a, f, n
    <2> DEFINE c == Append(b, f)
    <2>2. /\ c \in Seq(Fragments) /\ Len(c) = m + 1 /\ c[m + 1] = f
          /\ \A h \in 1 .. m : c[h] = b[h]
      BY <1>6, <2>1
    <2>3. b \o <<f>> = c
      BY <2>1
    <2> HIDE DEF c
    <2>4. /\ r \in Seq(Fragments) /\ Len(r) = m + 1 + (n - j)
          /\ \A h \in 1 .. m + 1 : r[h] = c[h]
          /\ \A h \in 1 .. n - j : r[m + 1 + h] = a[h]
      <3>1. r = c \o a
        BY <2>3
      <3>2. Len(c) = m + 1 /\ Len(a) = n - j /\ m + 1 \in Nat /\ n - j \in Nat
        BY <1>1, <1>6, <2>1, <2>2
      <3>0. c \in Seq(Fragments) /\ a \in Seq(Fragments)
        BY <2>1, <2>2
      <3> HIDE DEF r
      <3>3. /\ r \in Seq(Fragments) /\ Len(r) = Len(c) + Len(a)
            /\ \A h \in 1 .. Len(c) : r[h] = c[h]
            /\ \A h \in 1 .. Len(a) : r[Len(c) + h] = a[h]
        BY ONLY <3>0, <3>1, ConcatFacts
      <3> QED BY <3>2, <3>3
    <2>5. m + 1 + (n - j) = m + 1 + n - j /\ m + 1 \in 1 .. m + 1 /\ 1 .. m \subseteq 1 .. m + 1
      BY <1>1, <1>6
    <2> HIDE DEF r
    <2>6. Replaced(l, m, j, f, r)
      <3>1. ASSUME NEW h \in 1 .. m PROVE r[h] = l[h]
        <4>1. r[h] = c[h] /\ c[h] = b[h] /\ b[h] = l[h]
          BY <2>1, <2>2, <2>4, <2>5
        <4> QED BY <4>1
      <3>2. r[m + 1] = f /\ \A h \in 1 .. n - j : r[m + 1 + h] = l[j + h]
        BY <2>1, <2>2, <2>4, <2>5
      <3> QED BY <2>4, <2>5, <3>1, <3>2 DEF Replaced, n
    <2>7. Inserted(l, new) = r
      BY <1>4, <1>7 DEF r, b, a, f
    <2>8. Spans(l, new, m, j, f) /\ (j < Len(l) => End(f) < Start(l[j + 1]))
      BY <1>5 DEF f, n
    <2> QED BY <2>6, <2>7, <2>8
  <1>8. CASE front
    <2>1. m = j /\ found.new = new /\ l # <<>>
      BY <1>5, <1>8
    <2>2. n > 0 /\ 1 \in 1 .. n
      BY <1>1, <2>1
    <2>3. Start(new) <= Start(l[1]) /\ Start(new) \in Int /\ Start(l[1]) \in Int
      <3>1. /\ new.seq = SeqNo(Start(new)) /\ l[1].seq = SeqNo(Start(l[1]))
            /\ Start(new) \in Places /\ Start(l[1]) \in Places
        BY <2>2, FragmentPlaces DEF Sorted
      <3> QED BY <1>8, <3>1, MinMaxSeq DEF Places
    <2>4. m = 0
      <3>1. SUFFICES ASSUME m > 0 PROVE FALSE
        BY <1>6
      <3>2. m \in 1 .. n /\ End(l[m]) < Start(new)
        BY <1>1, <1>6, <2>1, <3>1
      <3>3. Start(l[m]) \in Int /\ End(l[m]) \in Int /\ Start(l[m]) < End(l[m])
            /\ Start(l[1]) \in Int /\ End(l[1]) \in Int /\ Start(l[1]) < End(l[1])
        BY <2>2, <3>2, FragmentPlaces DEF Sorted, Places
      <3>4. m > 1 => End(l[1]) < Start(l[m])
        BY <2>2, <3>2 DEF Sorted
      <3> QED BY <2>3, <3>1, <3>2, <3>3, <3>4
    <2>5. j = 0 /\ (j < n => End(new) < Start(l[j + 1]))
      BY <1>5, <2>1, <2>2, <2>4
    <2> DEFINE r == <<new>> \o l
    <2>6. r \in Seq(Fragments) /\ Len(r) = 1 + n /\ r[1] = new /\ \A h \in 1 .. n : r[1 + h] = l[h]
      BY <1>1
    <2>7. Inserted(l, new) = r
      BY <1>4, <1>8
    <2> HIDE DEF r
    <2>8. Replaced(l, m, j, new, r)
      BY <1>1, <2>4, <2>5, <2>6 DEF Replaced
    <2> QED BY <1>5, <2>1, <2>5, <2>7, <2>8
  <1> QED BY <1>7, <1>8

(* So the list stays in order with its gaps, and has the bytes of the new  *)
(* segment and no others besides.                                          *)
LEMMA InsertedSorted ==
  ASSUME NEW l, Sorted(l), NEW new, IsFragment(new)
  PROVE  /\ Sorted(Inserted(l, new)) /\ Inserted(l, new) # <<>>
         /\ \A x \in Int : Holds(Inserted(l, new), x) <=> Holds(l, x) \/ Covers(new, x)
  <1> DEFINE r == Inserted(l, new)
             n == Len(l)
  <1>1. PICK m, j, f : /\ Spans(l, new, m, j, f) /\ Replaced(l, m, j, f, r)
                       /\ j < Len(l) => End(f) < Start(l[j + 1])
    BY InsertedReplaces
  <1> HIDE DEF r
  <1>2. /\ m \in 0 .. j /\ j \in 0 .. n /\ n \in Nat /\ IsFragment(f)
        /\ \A x \in Int : Covers(f, x) <=> Covers(new, x) \/ \E h \in m + 1 .. j : Covers(l[h], x)
        /\ m > 0 => End(l[m]) < Start(f)
        /\ j < n => End(f) < Start(l[j + 1])
    BY <1>1 DEF Spans, Sorted
  <1>3. /\ r \in Seq(Fragments) /\ Len(r) = m + 1 + n - j
        /\ \A h \in 1 .. m : r[h] = l[h]
        /\ r[m + 1] = f
        /\ \A h \in 1 .. n - j : r[m + 1 + h] = l[j + h]
    BY <1>1 DEF Replaced
  <1>4. /\ \A h \in 1 .. n : IsFragment(l[h]) /\ Start(l[h]) \in Int /\ End(l[h]) \in Int
                             /\ Start(l[h]) < End(l[h])
        /\ \A h, k \in 1 .. n : h < k => End(l[h]) < Start(l[k])
        /\ Start(f) \in Int /\ End(f) \in Int /\ Start(f) < End(f)
    BY <1>2, FragmentPlaces DEF Sorted, Places
  <1> HIDE DEF n
  <1>5. \A i \in 1 .. Len(r) :
          \/ i \in 1 .. m /\ r[i] = l[i] /\ i \in 1 .. n
          \/ i = m + 1 /\ r[i] = f
          \/ i > m + 1 /\ i - (m + 1) + j \in j + 1 .. n /\ r[i] = l[i - (m + 1) + j]
    <2> SUFFICES ASSUME NEW i \in 1 .. Len(r), ~(i \in 1 .. m), i # m + 1
                 PROVE  i > m + 1 /\ i - (m + 1) + j \in j + 1 .. n /\ r[i] = l[i - (m + 1) + j]
      BY <1>2, <1>3
    <2> DEFINE h == i - (m + 1)
    <2>1. h \in 1 .. n - j /\ m + 1 + h = i /\ j + h = h + j /\ h + j \in j + 1 .. n /\ i > m + 1
      <3>1. m \in Nat /\ j \in Nat /\ n \in Nat /\ j <= n /\ i \in 1 .. m + 1 + n - j
        BY <1>2, <1>3
      <3>2. i > m + 1 /\ i <= m + 1 + n - j
        BY <3>1
      <3> QED BY <3>1, <3>2
    <2> HIDE DEF h
    <2>2. r[m + 1 + h] = l[j + h]
      BY <1>3, <2>1
    <2>3. r[i] = l[h + j]
      BY <2>1, <2>2
    <2> QED BY <2>1, <2>3 DEF h
  <1>6. \A i \in 1 .. Len(r) : IsFragment(r[i])
    BY <1>2, <1>4, <1>5
  <1>7. \A h \in 1 .. m : End(l[h]) < Start(f)
    <2> SUFFICES ASSUME NEW h \in 1 .. m PROVE End(l[h]) < Start(f)
      OBVIOUS
    <2>1. h \in 1 .. n /\ m \in 1 .. n /\ (h = m \/ h < m) /\ m > 0
      BY <1>2
    <2>2. h < m => End(l[h]) < Start(l[m])
      BY <1>4, <2>1
    <2> QED BY <1>2, <1>4, <2>1, <2>2
  <1>8. \A h \in j + 1 .. n : End(f) < Start(l[h])
    <2> SUFFICES ASSUME NEW h \in j + 1 .. n PROVE End(f) < Start(l[h])
      OBVIOUS
    <2>1. h \in 1 .. n /\ j + 1 \in 1 .. n /\ (h = j + 1 \/ j + 1 < h) /\ j < n
      BY <1>2
    <2>2. j + 1 < h => End(l[j + 1]) < Start(l[h])
      BY <1>4, <2>1
    <2> QED BY <1>2, <1>4, <2>1, <2>2
  <1>9. ASSUME NEW a \in 1 .. Len(r), NEW b \in 1 .. Len(r), a < b
        PROVE  End(r[a]) < Start(r[b])
    <2>1. CASE a \in 1 .. m /\ r[a] = l[a] /\ a \in 1 .. n
      <3>1. CASE b \in 1 .. m /\ r[b] = l[b] /\ b \in 1 .. n
        BY <1>4, <1>9, <2>1, <3>1
      <3>2. CASE b = m + 1 /\ r[b] = f
        BY <1>7, <2>1, <3>2
      <3>3. CASE b > m + 1 /\ b - (m + 1) + j \in j + 1 .. n /\ r[b] = l[b - (m + 1) + j]
        <4>1. b - (m + 1) + j \in 1 .. n /\ a < b - (m + 1) + j
          BY <1>2, <1>3, <2>1, <3>3
        <4> QED BY <1>4, <2>1, <3>3, <4>1
      <3> QED BY <1>5, <3>1, <3>2, <3>3
    <2>2. CASE a = m + 1 /\ r[a] = f
      <3>1. b > m + 1 /\ b - (m + 1) + j \in j + 1 .. n /\ r[b] = l[b - (m + 1) + j]
        BY <1>2, <1>3, <1>5, <1>9, <2>2
      <3> QED BY <1>8, <2>2, <3>1
    <2>3. CASE a > m + 1 /\ a - (m + 1) + j \in j + 1 .. n /\ r[a] = l[a - (m + 1) + j]
      <3>1. b > m + 1 /\ b - (m + 1) + j \in j + 1 .. n /\ r[b] = l[b - (m + 1) + j]
        BY <1>2, <1>3, <1>5, <1>9, <2>3
      <3>2. /\ a - (m + 1) + j \in 1 .. n /\ b - (m + 1) + j \in 1 .. n
            /\ a - (m + 1) + j < b - (m + 1) + j
        BY <1>2, <1>3, <1>9, <2>3, <3>1, SMTT(30)
      <3> QED BY <1>4, <2>3, <3>1, <3>2
    <2> QED BY <1>5, <2>1, <2>2, <2>3
  <1>10. Sorted(r) /\ r # <<>>
    <2>1. Len(r) > 0
      BY <1>2, <1>3
    <2> QED BY <1>3, <1>6, <1>9, <2>1 DEF Sorted
  <1>11. ASSUME NEW x \in Int PROVE Holds(r, x) <=> Holds(l, x) \/ Covers(new, x)
    <2>1. ASSUME Holds(r, x) PROVE Holds(l, x) \/ Covers(new, x)
      <3>1. PICK i \in 1 .. Len(r) : Covers(r[i], x)
        BY <2>1 DEF Holds
      <3>2. CASE i \in 1 .. m /\ r[i] = l[i] /\ i \in 1 .. n
        BY <3>1, <3>2 DEF Holds, n
      <3>3. CASE i = m + 1 /\ r[i] = f
        <4>1. Covers(new, x) \/ \E h \in m + 1 .. j : Covers(l[h], x)
          BY <1>2, <3>1, <3>3
        <4>2. m + 1 .. j \subseteq 1 .. n
          BY <1>2
        <4> QED BY <4>1, <4>2 DEF Holds, n
      <3>4. CASE i > m + 1 /\ i - (m + 1) + j \in j + 1 .. n /\ r[i] = l[i - (m + 1) + j]
        <4>1. i - (m + 1) + j \in 1 .. n
          BY <1>2, <3>4
        <4> QED BY <3>1, <3>4, <4>1 DEF Holds, n
      <3> QED BY <1>5, <3>1, <3>2, <3>3, <3>4
    <2>2. ASSUME Covers(new, x) PROVE Holds(r, x)
      <3>1. Covers(f, x) /\ m + 1 \in 1 .. Len(r)
        BY <1>2, <1>3, <2>2
      <3> QED BY <1>3, <3>1 DEF Holds
    <2>3. ASSUME Holds(l, x) PROVE Holds(r, x)
      <3>1. PICK h \in 1 .. n : Covers(l[h], x)
        BY <2>3 DEF Holds, n
      <3>2. CASE h <= m
        <4>1. h \in 1 .. m /\ h \in 1 .. Len(r)
          BY <1>2, <1>3, <3>2
        <4> QED BY <1>3, <3>1, <4>1 DEF Holds
      <3>3. CASE h \in m + 1 .. j
        <4>1. Covers(f, x) /\ m + 1 \in 1 .. Len(r)
          BY <1>2, <1>3, <3>1, <3>3
        <4> QED BY <1>3, <4>1 DEF Holds
      <3>4. CASE h > j
        <4> DEFINE k == h - j
        <4>1. k \in 1 .. n - j /\ j + k = h /\ m + 1 + k \in 1 .. Len(r)
          BY <1>2, <1>3, <3>4
        <4> HIDE DEF k
        <4>2. r[m + 1 + k] = l[h]
          BY <1>3, <4>1
        <4> QED BY <3>1, <4>1, <4>2 DEF Holds
      <3> QED BY <1>2, <3>2, <3>3, <3>4
    <2> QED BY <2>1, <2>2, <2>3
  <1> QED BY <1>10, <1>11 DEF r

-----------------------------------------------------------------------------
(* how many bytes from t on a list that starts at t or later has without a gap *)
ReadyLen(l, t) == IF l # <<>> /\ Start(l[1]) = t THEN l[1].len ELSE 0

(* l holds the positions of st from t on *)
Lists(l, st, t) == \A x \in Int : Holds(l, x) <=> x \in st /\ x >= t

(* That is what may be read: up to the first byte that is missing.         *)
LEMMA ReadyMeans ==
  ASSUME NEW l, Sorted(l), NEW t \in 0 .. StreamLen, \A x \in Int : Holds(l, x) => x >= t
  PROVE  /\ ReadyLen(l, t) \in Nat /\ t + ReadyLen(l, t) <= StreamLen
         /\ \A x \in t .. t + ReadyLen(l, t) - 1 : Holds(l, x)
         /\ ~Holds(l, t + ReadyLen(l, t))
         /\ Holds(l, t) => l # <<>> /\ Start(l[1]) = t
  <1> DEFINE n == Len(l)
             ready == ReadyLen(l, t)
  <1>1. n \in Nat /\ t \in Int /\ StreamLen \in Nat /\ l \in Seq(Fragments)
    BY BufferAssumption DEF Sorted
  <1>2. \A i \in 1 .. n : /\ Start(l[i]) \in Int /\ End(l[i]) \in Int /\ Start(l[i]) < End(l[i])
                          /\ l[i].len \in Nat /\ l[i].len = End(l[i]) - Start(l[i])
                          /\ End(l[i]) <= StreamLen
    BY FragmentPlaces DEF Sorted, Places, IsFragment
  <1>3. \A i, j \in 1 .. n : i < j => End(l[i]) < Start(l[j])
    BY DEF Sorted
  <1>4. \A i \in 1 .. n : Start(l[i]) >= t
    BY <1>2 DEF Holds, Covers
  <1>5. l # <<>> <=> 1 \in 1 .. n
    BY <1>1
  <1> HIDE DEF n
  <1>6. Holds(l, t) => l # <<>> /\ Start(l[1]) = t
    <2>1. SUFFICES ASSUME Holds(l, t) PROVE l # <<>> /\ Start(l[1]) = t
      OBVIOUS
    <2>2. PICK i \in 1 .. n : Covers(l[i], t)
      BY <2>1 DEF Holds, n
    <2>3. 1 \in 1 .. n /\ (i = 1 \/ 1 < i)
      BY <1>1
    <2>4. i = 1
      <3>1. 1 < i => End(l[1]) < Start(l[i])
        BY <1>3, <2>3
      <3> QED BY <1>1, <1>2, <1>4, <2>2, <2>3, <3>1 DEF Covers
    <2> QED BY <1>1, <1>2, <1>4, <1>5, <2>2, <2>3, <2>4 DEF Covers
  <1>7. CASE l # <<>> /\ Start(l[1]) = t
    <2>1. /\ 1 \in 1 .. n /\ ready = l[1].len /\ ready \in Nat /\ ready > 0
          /\ End(l[1]) = t + ready /\ t + ready <= StreamLen /\ t + ready \in Int
      BY <1>1, <1>2, <1>5, <1>7 DEF ReadyLen
    <2> HIDE DEF ready
    <2>2. ASSUME NEW x \in t .. t + ready - 1 PROVE Holds(l, x)
      <3>1. Covers(l[1], x)
        BY <1>1, <1>7, <2>1 DEF Covers
      <3> QED BY <2>1, <3>1 DEF Holds, n
    <2>3. ASSUME NEW i \in 1 .. n, Covers(l[i], t + ready) PROVE FALSE
      <3>1. i # 1
        BY <1>2, <2>1, <2>3 DEF Covers
      <3>2. End(l[1]) < Start(l[i])
        BY <1>1, <1>3, <2>1, <3>1
      <3> QED BY <1>2, <2>1, <2>3, <3>2 DEF Covers
    <2> QED BY <1>6, <2>1, <2>2, <2>3 DEF Holds, n, ready
  <1>8. CASE ~(l # <<>> /\ Start(l[1]) = t)
    <2>1. ready = 0
      BY <1>8 DEF ReadyLen
    <2> HIDE DEF ready
    <2>2. /\ ready \in Nat /\ t + ready = t /\ t .. t + ready - 1 = {} /\ t <= StreamLen
      BY <1>1, <2>1
    <2> QED BY <1>6, <1>8, <2>2 DEF ready
  <1> QED BY <1>7, <1>8

(* the list, and merged_len, after RBPut()                                 *)
LEMMA PutListed ==
  ASSUME NEW l, Sorted(l), NEW t \in 0 .. StreamLen, NEW st,
         Lists(l, st, t),
         NEW k \in Positions, NEW len \in Nat, len > 0, k + len <= StreamLen, k >= t,
         NEW r, r = Inserted(l, [seq |-> SeqNo(k), len |-> len])
  PROVE  /\ Sorted(r) /\ r # <<>>
         /\ Lists(r, st \cup k .. k + len - 1, t)
         /\ (IF SeqNo(t) = r[1].seq THEN r[1].len ELSE ReadyLen(l, t)) = ReadyLen(r, t)
  <1> DEFINE new == [seq |-> SeqNo(k), len |-> len]
  <1>1. k \in Places /\ t \in Places /\ k \in Int /\ t \in Int
    BY BufferAssumption DEF Places, Positions
  <1>0. \A x \in Int : Holds(l, x) <=> x \in st /\ x >= t
    BY DEF Lists
  <1>2. /\ IsFragment(new) /\ Start(new) = k /\ End(new) = k + len
    <2>1. new \in Fragments /\ new.len = len /\ new.seq = SeqNo(k)
      BY <1>1, SeqNoValue DEF Fragments
    <2>2. Start(new) = k /\ End(new) = k + len
      BY <1>1, <2>1, PlaceOfSeqNo DEF Start, End
    <2> QED BY <2>1, <2>2 DEF IsFragment
  <1> HIDE DEF new
  <1>3. /\ Sorted(r) /\ r # <<>>
        /\ \A x \in Int : Holds(r, x) <=> Holds(l, x) \/ Covers(new, x)
    BY <1>2, InsertedSorted DEF new
  <1>4. \A x \in Int : Covers(new, x) <=> x \in k .. k + len - 1
    BY <1>1, <1>2 DEF Covers
  <1>5. \A x \in Int : x \in k .. k + len - 1 => x >= t
    BY <1>1
  <1>6. \A x \in Int : Holds(r, x) <=> x \in st \cup k .. k + len - 1 /\ x >= t
    BY <1>0, <1>3, <1>4, <1>5
  <1>7. 1 \in 1 .. Len(r) /\ r \in Seq(Fragments)
    BY <1>3 DEF Sorted
  <1>8. Start(r[1]) \in Places /\ r[1].seq = SeqNo(Start(r[1]))
    BY <1>3, <1>7, FragmentPlaces DEF Sorted
  <1>9. SeqNo(t) = r[1].seq <=> Start(r[1]) = t
    <2>1. SeqNo(t) = SeqNo(Start(r[1])) => t = Start(r[1])
      BY <1>1, <1>8, SeqNoInjective
    <2> QED BY <1>8, <2>1
  <1> DEFINE merged == IF SeqNo(t) = r[1].seq THEN r[1].len ELSE ReadyLen(l, t)
  <1>10. Start(r[1]) = t => merged = ReadyLen(r, t)
    <2> SUFFICES ASSUME Start(r[1]) = t PROVE merged = ReadyLen(r, t)
      OBVIOUS
    <2>1. r # <<>> /\ SeqNo(t) = r[1].seq
      BY <1>3, <1>9
    <2>2. ReadyLen(r, t) = r[1].len
      BY <2>1 DEF ReadyLen
    <2> QED BY <2>1, <2>2
  <1>11. Start(r[1]) # t => merged = ReadyLen(r, t)
    <2> SUFFICES ASSUME Start(r[1]) # t PROVE merged = ReadyLen(r, t)
      OBVIOUS
    <2>1. ~Holds(r, t)
      <3>1. \A x \in Int : Holds(r, x) => x >= t
        BY <1>6
      <3> QED BY <1>3, <3>1, ReadyMeans
    <2>2. ~Holds(l, t)
      BY <1>1, <1>3, <2>1
    <2>3. ReadyLen(l, t) = 0
      <3>1. SUFFICES ASSUME l # <<>>, Start(l[1]) = t PROVE FALSE
        BY DEF ReadyLen
      <3>2. 1 \in 1 .. Len(l) /\ l \in Seq(Fragments)
        BY <3>1 DEF Sorted
      <3>3. Covers(l[1], t)
        BY <1>1, <3>1, <3>2, FragmentPlaces DEF Covers, Sorted, Places
      <3> QED BY <2>2, <3>2, <3>3 DEF Holds
    <2>4. ReadyLen(r, t) = 0
      BY DEF ReadyLen
    <2> QED BY <1>9, <2>3, <2>4
  <1>12. Lists(r, st \cup k .. k + len - 1, t)
    BY <1>6 DEF Lists
  <1> QED BY <1>3, <1>10, <1>11, <1>12

(* l without its first len bytes *)
Shortened(l, len) ==
  IF len = l[1].len THEN Tail(l)
  ELSE <<[seq |-> (l[1].seq + len) % Mod, len |-> l[1].len - len]>> \o Tail(l)

(* the list after RBRemove()                                               *)
LEMMA RemoveListed ==
  ASSUME NEW l, Sorted(l), NEW t \in 0 .. StreamLen, NEW st, Lists(l, st, t),
         NEW len \in Nat, len > 0, len <= ReadyLen(l, t),
         NEW r, r = Shortened(l, len)
  PROVE  /\ Sorted(r)
         /\ Lists(r, st, t + len)
         /\ ReadyLen(r, t + len) = ReadyLen(l, t) - len
  <1> DEFINE n == Len(l)
  <1>1. l # <<>> /\ Start(l[1]) = t /\ ReadyLen(l, t) = l[1].len /\ len <= l[1].len
    BY DEF ReadyLen
  <1>2. /\ n \in Nat /\ 1 \in 1 .. n /\ t \in Int /\ l \in Seq(Fragments)
        /\ Tail(l) \in Seq(Fragments) /\ Len(Tail(l)) = n - 1
        /\ \A i \in 1 .. n - 1 : Tail(l)[i] = l[i + 1]
    BY <1>1 DEF Sorted
  <1>3. \A i \in 1 .. n : /\ IsFragment(l[i]) /\ Start(l[i]) \in Int /\ End(l[i]) \in Int
                          /\ Start(l[i]) < End(l[i])
    BY FragmentPlaces DEF Sorted, Places
  <1>4. \A i, j \in 1 .. n : i < j => End(l[i]) < Start(l[j])
    BY DEF Sorted
  <1>5. l[1].len \in Nat /\ End(l[1]) = t + l[1].len /\ End(l[1]) <= StreamLen
    <2>1. IsFragment(l[1])
      BY <1>2, <1>3
    <2> QED BY <1>1, <2>1, FragmentPlaces DEF IsFragment, End
  <1> HIDE DEF n
  <1>6. ASSUME len = l[1].len
        PROVE  /\ Sorted(r) /\ ReadyLen(r, t + len) = ReadyLen(l, t) - len
               /\ \A x \in Int : Holds(r, x) <=> Holds(l, x) /\ x >= t + len
    <2>1. r = Tail(l)
      BY <1>6 DEF Shortened
    <2>2. /\ r \in Seq(Fragments) /\ Len(r) = n - 1 /\ \A i \in 1 .. n - 1 : r[i] = l[i + 1]
      BY <1>2, <2>1
    <2>3. \A i \in 1 .. n - 1 : i \in 1 .. n /\ i + 1 \in 1 .. n
      BY <1>2
    <2>4. Sorted(r)
      <3>1. \A i \in 1 .. Len(r) : IsFragment(r[i])
        BY <1>3, <2>2, <2>3
      <3>2. ASSUME NEW i \in 1 .. Len(r), NEW j \in 1 .. Len(r), i < j
            PROVE  End(r[i]) < Start(r[j])
        <4>1. i + 1 < j + 1 /\ i + 1 \in 1 .. n /\ j + 1 \in 1 .. n /\ r[i] = l[i + 1] /\ r[j] = l[j + 1]
          <5>1. i \in 1 .. n - 1 /\ j \in 1 .. n - 1
            BY <2>2
          <5> QED BY <2>2, <2>3, <3>2, <5>1
        <4> QED BY <1>4, <4>1
      <3> QED BY <2>2, <3>1, <3>2 DEF Sorted
    <2>5. ASSUME NEW x \in Int PROVE Holds(r, x) <=> Holds(l, x) /\ x >= t + len
      <3>1. ASSUME Holds(r, x) PROVE Holds(l, x) /\ x >= t + len
        <4>1. PICK i \in 1 .. n - 1 : Covers(r[i], x)
          BY <2>2, <3>1 DEF Holds
        <4>2. i + 1 \in 1 .. n /\ 1 < i + 1 /\ Covers(l[i + 1], x)
          BY <1>2, <2>2, <2>3, <4>1
        <4>3. End(l[1]) < Start(l[i + 1])
          BY <1>2, <1>4, <4>2
        <4>4. Holds(l, x)
          BY <4>2 DEF Holds, n
        <4>5. Start(l[i + 1]) \in Int /\ Start(l[i + 1]) <= x
          BY <1>3, <4>2 DEF Covers
        <4> QED BY <1>2, <1>5, <1>6, <4>3, <4>4, <4>5
      <3>2. ASSUME Holds(l, x), x >= t + len PROVE Holds(r, x)
        <4>1. PICK i \in 1 .. n : Covers(l[i], x)
          BY <3>2 DEF Holds, n
        <4>2. i # 1
          BY <1>2, <1>3, <1>5, <1>6, <3>2, <4>1 DEF Covers
        <4>3. i - 1 \in 1 .. n - 1 /\ (i - 1) + 1 = i
          BY <1>2, <4>2
        <4>4. r[i - 1] = l[i]
          BY <2>2, <4>3
        <4> QED BY <2>2, <4>1, <4>3, <4>4 DEF Holds
      <3> QED BY <3>1, <3>2
    <2>6. ReadyLen(r, t + len) = 0
      <3>1. SUFFICES ASSUME r # <<>>, Start(r[1]) = t + len PROVE FALSE
        BY DEF ReadyLen
      <3>2. 1 \in 1 .. n - 1
        BY <1>2, <2>2, <3>1
      <3>3. r[1] = l[2] /\ 2 \in 1 .. n
        BY <1>2, <2>2, <3>2
      <3>4. End(l[1]) < Start(l[2])
        BY <1>2, <1>4, <3>3
      <3> QED BY <1>3, <1>5, <1>6, <3>1, <3>3, <3>4
    <2> QED BY <1>1, <1>5, <1>6, <2>4, <2>5, <2>6
  <1>7. ASSUME len # l[1].len
        PROVE  /\ Sorted(r) /\ ReadyLen(r, t + len) = ReadyLen(l, t) - len
               /\ \A x \in Int : Holds(r, x) <=> Holds(l, x) /\ x >= t + len
    <2> DEFINE f == [seq |-> (l[1].seq + len) % Mod, len |-> l[1].len - len]
    <2>1. f.seq = (l[1].seq + len) % Mod /\ f.len = l[1].len - len
      OBVIOUS
    <2>2. /\ t \in Places /\ t + len \in Places /\ len < l[1].len
      <3>1. StreamLen \in Nat /\ t \in Nat
        BY BufferAssumption
      <3>2. len < l[1].len /\ t + len <= StreamLen
        BY <1>1, <1>5, <1>7, <3>1
      <3> QED BY <3>1, <3>2 DEF Places
    <2>3. f.seq = SeqNo(t + len) /\ f.len \in Nat /\ f.len > 0
      <3>1. l[1].seq = SeqNo(t)
        BY <1>1, <1>2, <1>3, FragmentPlaces
      <3> QED BY <1>5, <2>1, <2>2, <3>1, SeqNoPlus
    <2>4. r = <<f>> \o Tail(l)
      BY <1>7 DEF Shortened
    <2>5. f \in Fragments
      BY <2>1, <2>2, <2>3, SeqNoValue DEF Fragments
    <2> HIDE DEF f
    <2>6. Start(f) = t + len /\ End(f) = End(l[1])
      BY <1>2, <1>5, <2>1, <2>2, <2>3, PlaceOfSeqNo DEF Start, End
    <2>7. IsFragment(f)
      BY <1>5, <2>3, <2>5, <2>6 DEF IsFragment
    <2>8. /\ r \in Seq(Fragments) /\ Len(r) = n /\ r[1] = f
          /\ \A i \in 1 .. n - 1 : r[1 + i] = l[i + 1]
      <3> DEFINE tl == Tail(l)
      <3>1. tl \in Seq(Fragments) /\ Len(tl) = n - 1 /\ <<f>> \in Seq(Fragments) /\ Len(<<f>>) = 1
        BY <1>2, <2>5
      <3>2. /\ r \in Seq(Fragments) /\ Len(r) = 1 + (n - 1) /\ r[1] = f
            /\ \A i \in 1 .. n - 1 : r[1 + i] = tl[i]
        <4> HIDE DEF tl
        <4> QED BY <2>4, <2>5, <3>1, ConcatFacts DEF tl
      <3> QED BY <1>2, <3>2
    <2>9. \A i \in 1 .. n : IF i = 1 THEN r[i] = f ELSE r[i] = l[i]
      <3> SUFFICES ASSUME NEW i \in 1 .. n, i # 1 PROVE r[i] = l[i]
        BY <2>8
      <3>1. i - 1 \in 1 .. n - 1 /\ 1 + (i - 1) = i /\ (i - 1) + 1 = i
        BY <1>2
      <3> QED BY <2>8, <3>1
    <2>10. Sorted(r)
      <3>1. \A i \in 1 .. n : IsFragment(r[i])
        BY <1>3, <2>7, <2>9
      <3>2. ASSUME NEW i \in 1 .. n, NEW j \in 1 .. n, i < j
            PROVE  End(r[i]) < Start(r[j])
        <4>1. j # 1 /\ r[j] = l[j] /\ (IF i = 1 THEN r[i] = f ELSE r[i] = l[i])
          <5>1. j # 1
            BY <1>2, <3>2
          <5> QED BY <2>9, <5>1
        <4>2. End(r[i]) = End(l[i])
          BY <2>6, <4>1
        <4> QED BY <1>4, <3>2, <4>1, <4>2
      <3> QED BY <2>8, <3>1, <3>2 DEF Sorted
    <2>11. ASSUME NEW x \in Int PROVE Holds(r, x) <=> Holds(l, x) /\ x >= t + len
      <3>1. ASSUME NEW i \in 1 .. n PROVE Covers(r[i], x) <=> Covers(l[i], x) /\ x >= t + len
        <4>1. CASE i = 1
          <5>1. Covers(f, x) <=> t + len <= x /\ x < End(l[1])
            BY <2>6 DEF Covers
          <5>2. Covers(l[1], x) <=> t <= x /\ x < End(l[1])
            BY <1>1 DEF Covers
          <5>3. r[i] = f /\ l[i] = l[1]
            BY <2>8, <4>1
          <5>4. t + len <= x => t <= x
            BY <1>2
          <5> QED BY <5>1, <5>2, <5>3, <5>4
        <4>2. CASE i # 1
          <5>1. r[i] = l[i] /\ End(l[1]) < Start(l[i]) /\ End(l[1]) \in Int /\ Start(l[i]) \in Int
            <6>1. 1 < i /\ 1 \in 1 .. n
              BY <1>2, <4>2
            <6>2. r[i] = l[i]
              BY <2>9, <4>2
            <6> QED BY <1>3, <1>4, <6>1, <6>2
          <5>2. t + len < End(l[1])
            BY <1>2, <1>5, <2>2
          <5>3. Covers(l[i], x) => x >= t + len
            BY <1>2, <5>1, <5>2 DEF Covers
          <5> QED BY <5>1, <5>3
        <4> QED BY <4>1, <4>2
      <3> QED BY <2>8, <3>1 DEF Holds, n
    <2>12. ReadyLen(r, t + len) = l[1].len - len
      <3>1. r # <<>>
        BY <1>2, <2>8
      <3> QED BY <2>1, <2>6, <2>8, <3>1 DEF ReadyLen
    <2> QED BY <1>1, <2>10, <2>11, <2>12
  <1>8. Sorted(r) /\ ReadyLen(r, t + len) = ReadyLen(l, t) - len
    BY <1>6, <1>7
  <1>9. \A x \in Int : Holds(r, x) <=> Holds(l, x) /\ x >= t + len
    BY <1>6, <1>7
  <1>10. \A x \in Int : x >= t + len => x >= t
    BY <1>2
  <1>11. Lists(r, st, t + len)
    BY <1>9, <1>10 DEF Lists
  <1> QED BY <1>8, <1>11

-----------------------------------------------------------------------------
LEMMA MinIs ==
  ASSUME NEW S, S \subseteq Int, NEW x \in S, \A y \in S : x <= y
  PROVE  Min(S) = x
  <1>1. \A y \in S : (\A z \in S : y <= z) => y = x
    OBVIOUS
  <1> QED BY <1>1 DEF Min

LEMMA MaxIs ==
  ASSUME NEW S, S \subseteq Int, NEW x \in S, \A y \in S : x >= y
  PROVE  Max(S) = x
  <1>1. \A y \in S : (\A z \in S : y >= z) => y = x
    OBVIOUS
  <1> QED BY <1>1 DEF Max

LEMMA MaxOfTwo ==
  ASSUME NEW a \in Int, NEW b \in Int
  PROVE  Max({a, b}) = IF a >= b THEN a ELSE b
  <1> DEFINE m == IF a >= b THEN a ELSE b
  <1>1. {a, b} \subseteq Int /\ m \in {a, b} /\ \A y \in {a, b} : m >= y
    OBVIOUS
  <1> QED BY <1>1, MaxIs

-----------------------------------------------------------------------------
(* The buffer and its history.                                             *)
Buffers ==
  [data : [0 .. Size - 1 -> Nat \cup {Junk}], head_offset : Nat, tail_offset : Nat,
   last_len : Nat, merged_len : Nat, head_seq : 0 .. Mod - 1, fctx : Seq(Fragments)]

(* of the bytes st, those from t on are listed *)
Listed(b, st, t) ==
  /\ b.head_seq = SeqNo(t)
  /\ Sorted(b.fctx)
  /\ Lists(b.fctx, st, t)
  /\ b.merged_len = ReadyLen(b.fctx, t)

(* ... and last_len reaches over them *)
Reached(b, st, t) ==
  /\ b.head_offset + b.last_len <= b.tail_offset /\ b.tail_offset <= Size
  /\ \A x \in st : x >= t => x < t + b.last_len

InPlace(b, st, t) == \A x \in st : x >= t => b.data[b.head_offset + x - t] = x

BufferRight(b, st, t, sk) ==
  /\ b \in Buffers /\ st \subseteq Positions /\ t \in 0 .. StreamLen /\ sk \in Nat
  /\ Listed(b, st, t) /\ Reached(b, st, t)
  /\ sk = 0 => InPlace(b, st, t)

LEMMA ConstantTypes ==
  /\ Size \in Nat /\ Size > 0 /\ StreamLen \in Nat /\ Mod \in Nat /\ MaxSeg \in Nat /\ MaxSeg <= Size
  /\ \A k \in Positions : k \in Nat /\ k \in Places /\ k < StreamLen
  /\ \A t \in 0 .. StreamLen : t \in Nat /\ t \in Places
  BY BufferAssumption DEF Positions, Places

(* what is there without a gap is within last_len                          *)
LEMMA MergedReach ==
  ASSUME NEW b, NEW st, NEW t, NEW sk, BufferRight(b, st, t, sk)
  PROVE  /\ b.merged_len \in Nat /\ b.merged_len <= b.last_len /\ t + b.merged_len <= StreamLen
         /\ \A x \in t .. t + b.merged_len - 1 : x \in st
         /\ t + b.merged_len \notin st
  <1>1. t \in 0 .. StreamLen /\ t \in Int /\ b.last_len \in Nat
    BY ConstantTypes DEF BufferRight, Buffers
  <1>2. \A x \in Int : Holds(b.fctx, x) <=> x \in st /\ x >= t
    BY DEF BufferRight, Listed, Lists
  <1>3. /\ b.merged_len \in Nat /\ t + b.merged_len <= StreamLen
        /\ \A x \in t .. t + b.merged_len - 1 : Holds(b.fctx, x)
        /\ ~Holds(b.fctx, t + b.merged_len)
    BY <1>1, <1>2, ReadyMeans DEF BufferRight, Listed
  <1>4. \A x \in t .. t + b.merged_len - 1 : x \in st
    BY <1>1, <1>2, <1>3
  <1>5. t + b.merged_len \notin st
    BY <1>1, <1>2, <1>3
  <1>6. b.merged_len <= b.last_len
    <2>1. SUFFICES ASSUME b.merged_len > 0 PROVE b.merged_len <= b.last_len
      BY <1>1, <1>3
    <2> DEFINE x == t + b.merged_len - 1
    <2>2. x \in t .. t + b.merged_len - 1 /\ x >= t
      BY <1>1, <1>3, <2>1
    <2>3. x < t + b.last_len
      BY <1>4, <2>2 DEF BufferRight, Reached
    <2> QED BY <1>1, <1>3, <2>3
  <1> QED BY <1>3, <1>4, <1>5, <1>6

(* moving the bytes to the front loses none: last_len reaches over all     *)
LEMMA CompactedRight ==
  ASSUME NEW b, NEW st, NEW t, NEW sk, BufferRight(b, st, t, sk),
         NEW end_off \in Nat, end_off <= Size
  PROVE  /\ BufferRight(Compacted(b, end_off), st, t, sk)
         /\ Compacted(b, end_off).head_offset + end_off <= Size
  <1> DEFINE c == Compacted(b, end_off)
  <1>1. /\ b \in Buffers /\ b.data \in [0 .. Size - 1 -> Nat \cup {Junk}]
        /\ b.head_offset \in Nat /\ b.tail_offset \in Nat /\ b.last_len \in Nat
        /\ b.head_offset + b.last_len <= b.tail_offset /\ b.tail_offset <= Size
        /\ \A x \in st : x >= t => x < t + b.last_len
        /\ st \subseteq Positions /\ t \in 0 .. StreamLen
        /\ sk = 0 => InPlace(b, st, t)
    BY DEF BufferRight, Buffers, Reached
  <1>2. CASE Size > b.head_offset + end_off
    <2>1. c = b
      BY <1>2 DEF Compacted
    <2> QED BY <1>1, <1>2, <2>1, ConstantTypes
  <1>3. CASE ~(Size > b.head_offset + end_off)
    <2> DEFINE d == [i \in 0 .. Size - 1 |-> IF i < b.last_len THEN b.data[b.head_offset + i]
                                             ELSE b.data[i]]
    <2>1. c = [b EXCEPT !.data = d, !.tail_offset = b.tail_offset - b.head_offset,
                        !.head_offset = 0]
      BY <1>3 DEF Compacted
    <2>2. d \in [0 .. Size - 1 -> Nat \cup {Junk}]
      <3> SUFFICES ASSUME NEW i \in 0 .. Size - 1 PROVE d[i] \in Nat \cup {Junk}
        OBVIOUS
      <3>1. i < b.last_len => b.head_offset + i \in 0 .. Size - 1
        BY <1>1, ConstantTypes
      <3> QED BY <1>1, <3>1
    <2>3. \A i \in 0 .. Size - 1 : i < b.last_len => d[i] = b.data[b.head_offset + i]
      OBVIOUS
    <2> HIDE DEF d
    <2>4. b.tail_offset - b.head_offset \in Nat
      BY <1>1
    <2>5. /\ c.data = d /\ c.head_offset = 0 /\ c.tail_offset = b.tail_offset - b.head_offset
          /\ c.last_len = b.last_len /\ c.merged_len = b.merged_len
          /\ c.head_seq = b.head_seq /\ c.fctx = b.fctx
      BY <1>1, <2>1 DEF Buffers
    <2> HIDE DEF c
    <2>6. c \in Buffers
      <3>1. 0 \in Nat
        OBVIOUS
      <3> DEFINE to == b.tail_offset - b.head_offset
      <3>2. c = [b EXCEPT !.data = d, !.tail_offset = to, !.head_offset = 0]
        BY <2>1 DEF c
      <3>3. to \in Nat
        BY <2>4
      <3> HIDE DEF to
      <3> QED BY <1>1, <2>2, <3>1, <3>2, <3>3 DEF Buffers
    <2>7. Listed(c, st, t)
      BY <2>5 DEF BufferRight, Listed
    <2>8. Reached(c, st, t)
      BY <1>1, <2>5, ConstantTypes DEF Reached
    <2>9. ASSUME sk = 0 PROVE InPlace(c, st, t)
      <3> SUFFICES ASSUME NEW x \in st, x >= t PROVE c.data[c.head_offset + x - t] = x
        BY DEF InPlace
      <3>1. x - t \in 0 .. Size - 1 /\ x - t < b.last_len /\ c.head_offset + x - t = x - t
            /\ b.head_offset + (x - t) = b.head_offset + x - t
        BY <1>1, <2>5, ConstantTypes
      <3>2. b.data[b.head_offset + x - t] = x
        BY <1>1, <2>9 DEF InPlace
      <3> QED BY <2>3, <2>5, <3>1, <3>2
    <2>10. c.head_offset + end_off <= Size
      BY <2>5
    <2> QED BY <2>6, <2>7, <2>8, <2>9, <2>10 DEF BufferRight, c
  <1> QED BY <1>2, <1>3

(* RBPut() of a segment that passes its two tests                          *)
LEMMA PutRight ==
  ASSUME NEW b, NEW st, NEW t, NEW sk, BufferRight(b, st, t, sk),
         NEW k \in Positions, NEW len \in 1 .. MaxSeg, k + len <= StreamLen,
         NotBehindHead(b, k), Fits(b, k, len)
  PROVE  BufferRight(RBPut(b, k, len), st \cup k .. k + len - 1, t, sk)
  <1> DEFINE end_off == EndOff(b, k, len)
             c == Compacted(b, end_off)
             first == c.head_offset + end_off - len
             tail == Max({c.tail_offset, c.head_offset + end_off})
             fctx == Inserted(c.fctx, [seq |-> SeqNo(k), len |-> len])
             r == RBPut(b, k, len)
             all == st \cup k .. k + len - 1
  <1>1. /\ t \in 0 .. StreamLen /\ t \in Nat /\ t \in Places /\ k \in Nat /\ k \in Places
        /\ len \in Nat /\ len > 0 /\ k < StreamLen /\ st \subseteq Positions /\ sk \in Nat
    BY ConstantTypes DEF BufferRight
  <1>2. k >= t
    <2>1. GetMinSeq(SeqNo(t), SeqNo(k)) = SeqNo(t)
      BY DEF NotBehindHead, BufferRight, Listed
    <2>2. SeqNo(t) = SeqNo(k) => t = k
      BY <1>1, SeqNoInjective
    <2> QED BY <1>1, <2>1, <2>2, MinMaxSeq
  <1>3. end_off = k - t + len /\ end_off \in Nat /\ end_off <= Size
    <2>1. b.head_seq = SeqNo(t)
      BY DEF BufferRight, Listed
    <2>2. (SeqNo(k) - SeqNo(t)) % Mod = k - t
      BY <1>1, <1>2, SeqNoMinus
    <2> QED BY <1>1, <1>2, <2>1, <2>2 DEF EndOff, Fits
  <1> HIDE DEF end_off
  <1>4. BufferRight(c, st, t, sk) /\ c.head_offset + end_off <= Size
    BY <1>3, CompactedRight
  <1>5. r = [c EXCEPT !.data = [i \in 0 .. Size - 1 |->
                           IF i \in first .. first + len - 1 THEN k + i - first ELSE c.data[i]],
                      !.tail_offset = tail,
                      !.last_len = tail - c.head_offset,
                      !.fctx = fctx,
                      !.merged_len = IF c.head_seq = fctx[1].seq THEN fctx[1].len ELSE c.merged_len]
    BY DEF RBPut, end_off
  <1> HIDE DEF c
  <1>6. /\ c \in Buffers /\ c.data \in [0 .. Size - 1 -> Nat \cup {Junk}]
        /\ c.head_offset \in Nat /\ c.tail_offset \in Nat /\ c.last_len \in Nat
        /\ c.head_offset + c.last_len <= c.tail_offset /\ c.tail_offset <= Size
        /\ \A x \in st : x >= t => x < t + c.last_len
        /\ sk = 0 => InPlace(c, st, t)
    BY <1>4 DEF BufferRight, Buffers, Reached
  <1>7. /\ c.head_seq = SeqNo(t) /\ Sorted(c.fctx)
        /\ Lists(c.fctx, st, t)
        /\ c.merged_len = ReadyLen(c.fctx, t)
    BY <1>4 DEF BufferRight, Listed
  <1>8. /\ first = c.head_offset + (k - t) /\ first \in Nat /\ first + len <= Size
    BY <1>1, <1>2, <1>3, <1>4, <1>6, ConstantTypes
  <1>9. /\ tail \in Nat /\ tail <= Size /\ tail >= c.tail_offset /\ tail >= c.head_offset + end_off
    <2> DEFINE e == c.head_offset + end_off
    <2>1. e \in Nat /\ e <= Size
      BY <1>3, <1>4, <1>6
    <2> HIDE DEF e
    <2>2. tail = IF c.tail_offset >= e THEN c.tail_offset ELSE e
      BY <1>6, <2>1, MaxOfTwo DEF e
    <2> QED BY <1>6, <2>1, <2>2 DEF e
  <1> DEFINE d == [i \in 0 .. Size - 1 |->
                     IF i \in first .. first + len - 1 THEN k + i - first ELSE c.data[i]]
  <1> HIDE DEF first, tail
  <1>10. d \in [0 .. Size - 1 -> Nat \cup {Junk}]
    <2> SUFFICES ASSUME NEW i \in 0 .. Size - 1 PROVE d[i] \in Nat \cup {Junk}
      OBVIOUS
    <2>1. i \in first .. first + len - 1 => k + i - first \in Nat
      BY <1>1, <1>8
    <2> QED BY <1>6, <2>1
  <1>11. /\ Sorted(fctx) /\ fctx # <<>> /\ fctx \in Seq(Fragments)
         /\ Lists(fctx, all, t)
         /\ (IF c.head_seq = fctx[1].seq THEN fctx[1].len ELSE c.merged_len) = ReadyLen(fctx, t)
    <2>0. fctx = Inserted(c.fctx, [seq |-> SeqNo(k), len |-> len])
      OBVIOUS
    <2> HIDE DEF fctx
    <2>1. /\ Sorted(fctx) /\ fctx # <<>>
          /\ Lists(fctx, st \cup k .. k + len - 1, t)
          /\ (IF SeqNo(t) = fctx[1].seq THEN fctx[1].len ELSE ReadyLen(c.fctx, t)) = ReadyLen(fctx, t)
      <3>1. /\ Sorted(c.fctx) /\ t \in 0 .. StreamLen /\ Lists(c.fctx, st, t)
            /\ k \in Positions /\ len \in Nat /\ len > 0 /\ k + len <= StreamLen /\ k >= t
        BY <1>1, <1>2, <1>7
      <3> QED BY ONLY <2>0, <3>1, PutListed
    <2> QED BY <1>7, <2>1 DEF Sorted
  <1>12. ReadyLen(fctx, t) \in Nat
    <2> HIDE DEF fctx
    <2>1. \A x \in Int : Holds(fctx, x) => x >= t
      BY <1>11 DEF Lists
    <2> QED BY <1>1, <1>11, <2>1, ReadyMeans
  <1> DEFINE merged == IF c.head_seq = fctx[1].seq THEN fctx[1].len ELSE c.merged_len
  <1>13. r = [c EXCEPT !.data = d, !.tail_offset = tail, !.last_len = tail - c.head_offset,
                       !.fctx = fctx, !.merged_len = merged]
    BY <1>5
  <1>14. merged = ReadyLen(fctx, t)
    BY <1>11
  <1>15. tail - c.head_offset \in Nat
    BY <1>6, <1>9
  <1> HIDE DEF r, fctx, merged, d
  <1>16. /\ r.data = d /\ r.tail_offset = tail /\ r.last_len = tail - c.head_offset
         /\ r.fctx = fctx /\ r.merged_len = merged /\ r.head_seq = c.head_seq
         /\ r.head_offset = c.head_offset
    BY <1>6, <1>13 DEF Buffers
  <1>17. r \in Buffers
    <2>1. merged \in Nat
      BY <1>12, <1>14
    <2> QED BY <1>6, <1>9, <1>10, <1>11, <1>13, <1>15, <2>1 DEF Buffers
  <1>18. all \subseteq Positions
    <2>1. k .. k + len - 1 \subseteq Positions
      BY <1>1, ConstantTypes DEF Positions
    <2> QED BY <1>1, <2>1
  <1>19. Listed(r, all, t)
    BY <1>7, <1>11, <1>14, <1>16 DEF Listed
  <1>20. Reached(r, all, t)
    <2>1. ASSUME NEW x \in all, x >= t PROVE x < t + r.last_len
      <3>1. CASE x \in st
        <4>1. x < t + c.last_len /\ x \in Nat
          BY <1>1, <1>6, <2>1, <3>1, ConstantTypes
        <4> QED BY <1>1, <1>6, <1>9, <1>16, <4>1
      <3>2. CASE x \in k .. k + len - 1
        BY <1>1, <1>2, <1>3, <1>6, <1>9, <1>16, <3>2
      <3> QED BY <3>1, <3>2
    <2>2. r.head_offset + r.last_len <= r.tail_offset /\ r.tail_offset <= Size
      BY <1>6, <1>9, <1>16, ConstantTypes
    <2> QED BY <2>1, <2>2 DEF Reached
  <1>21. ASSUME sk = 0 PROVE InPlace(r, all, t)
    <2> SUFFICES ASSUME NEW x \in all, x >= t PROVE r.data[r.head_offset + x - t] = x
      BY DEF InPlace
    <2> DEFINE i == c.head_offset + x - t
    <2>1. x \in Nat
      BY <1>18, ConstantTypes
    <2>2. r.data[r.head_offset + x - t] = d[i]
      BY <1>16
    <2>3. CASE x \in k .. k + len - 1
      <3>1. i \in 0 .. Size - 1 /\ i \in first .. first + len - 1 /\ k + i - first = x
        <4>1. x >= k /\ x <= k + len - 1 /\ x >= t
          BY <1>1, <2>3
        <4>2. first + len <= Size /\ first = c.head_offset + (k - t) /\ first \in Nat
              /\ c.head_offset \in Nat
          BY <1>6, <1>8
        <4>3. i = first + (x - k)
          BY <1>1, <2>1, <4>2
        <4> HIDE DEF i
        <4> QED BY <1>1, <2>1, <4>1, <4>2, <4>3, ConstantTypes
      <3> HIDE DEF i
      <3>2. d[i] = k + i - first
        BY <3>1 DEF d
      <3> QED BY <2>2, <3>1, <3>2
    <2>4. CASE x \notin k .. k + len - 1
      <3>1. x \in st /\ x < t + c.last_len
        BY <1>6, <2>4
      <3>2. i \in 0 .. Size - 1 /\ i \notin first .. first + len - 1
        <4>1. ~(x >= k /\ x <= k + len - 1) /\ x >= t /\ x < t + c.last_len
          BY <1>1, <2>1, <2>4, <3>1
        <4>2. first = c.head_offset + (k - t) /\ first \in Nat /\ c.head_offset \in Nat
              /\ c.head_offset + c.last_len <= Size /\ c.last_len \in Nat
          BY <1>6, <1>8, ConstantTypes
        <4>3. i = first + (x - k) /\ i = c.head_offset + (x - t)
          BY <1>1, <2>1, <4>2
        <4> HIDE DEF i
        <4> QED BY <1>1, <2>1, <4>1, <4>2, <4>3, ConstantTypes
      <3>3. c.data[i] = x
        BY <1>6, <1>21, <3>1 DEF InPlace
      <3> HIDE DEF i
      <3>4. d[i] = c.data[i]
        BY <3>2 DEF d
      <3> QED BY <2>2, <3>3, <3>4
    <2> QED BY <2>3, <2>4
  <1> QED BY <1>1, <1>17, <1>18, <1>19, <1>20, <1>21 DEF BufferRight, r

(* RBRemove(): head_offset is right again when nothing is left, or when it *)
(* was 0; otherwise skew says so                                           *)
LEMMA RemoveRight ==
  ASSUME NEW b, NEW st, NEW t, BufferRight(b, st, t, skew),
         NEW len \in 0 .. b.merged_len
  PROVE  /\ BufferRight(RBRemove(b, len), st, t + len, SkewAfterRemove(b, len))
         /\ RBRemove(b, len).merged_len = b.merged_len - len
  <1>1. /\ b \in Buffers /\ b.data \in [0 .. Size - 1 -> Nat \cup {Junk}]
        /\ b.head_offset \in Nat /\ b.tail_offset \in Nat /\ b.last_len \in Nat
        /\ b.merged_len \in Nat /\ b.fctx \in Seq(Fragments)
        /\ b.head_offset + b.last_len <= b.tail_offset /\ b.tail_offset <= Size
        /\ \A x \in st : x >= t => x < t + b.last_len
        /\ st \subseteq Positions /\ t \in 0 .. StreamLen /\ t \in Nat /\ skew \in Nat
        /\ t \in Places
        /\ skew = 0 => InPlace(b, st, t)
    BY ConstantTypes DEF BufferRight, Buffers, Reached
  <1>2. /\ b.merged_len <= b.last_len /\ t + b.merged_len <= StreamLen
    BY MergedReach
  <1>3. len \in Nat /\ len <= b.merged_len
    BY <1>1
  <1>4. CASE len = 0
    <2>1. RBRemove(b, len) = b /\ SkewAfterRemove(b, len) = skew /\ t + len = t
          /\ b.merged_len = b.merged_len - len
      BY <1>1, <1>4 DEF RBRemove, SkewAfterRemove
    <2> QED BY <2>1
  <1>5. CASE len # 0
    <2> DEFINE r == RBRemove(b, len)
               fctx == Shortened(b.fctx, len)
               sk == SkewAfterRemove(b, len)
    <2>1. r = [b EXCEPT !.head_offset = len, !.head_seq = (b.head_seq + len) % Mod,
                        !.merged_len = b.merged_len - len, !.last_len = b.last_len - len,
                        !.fctx = fctx]
      BY <1>5 DEF RBRemove, Shortened
    <2>2. sk = IF len = b.last_len THEN 0 ELSE skew + b.head_offset
      BY <1>5 DEF SkewAfterRemove
    <2> HIDE DEF sk, fctx
    <2>3. /\ Sorted(b.fctx) /\ b.merged_len = ReadyLen(b.fctx, t) /\ b.head_seq = SeqNo(t)
          /\ Lists(b.fctx, st, t)
      BY DEF BufferRight, Listed
    <2>4. /\ Sorted(fctx)
          /\ Lists(fctx, st, t + len)
          /\ ReadyLen(fctx, t + len) = ReadyLen(b.fctx, t) - len
      <3>0. fctx = Shortened(b.fctx, len)
        BY DEF fctx
      <3>1. len > 0 /\ len <= ReadyLen(b.fctx, t)
        BY <1>3, <1>5, <2>3
      <3>2. /\ Sorted(b.fctx) /\ t \in 0 .. StreamLen /\ Lists(b.fctx, st, t)
            /\ len \in Nat /\ len > 0 /\ len <= ReadyLen(b.fctx, t)
        BY <1>1, <1>3, <2>3, <3>1
      <3> QED BY ONLY <3>0, <3>2, RemoveListed
    <2>5. (b.head_seq + len) % Mod = SeqNo(t + len) /\ SeqNo(t + len) \in 0 .. Mod - 1
          /\ t + len \in 0 .. StreamLen
      <3>1. t + len \in 0 .. StreamLen
        BY <1>1, <1>2, <1>3, ConstantTypes, SMTT(30)
      <3> QED BY <1>1, <1>3, <2>3, <3>1, SeqNoPlus, SeqNoValue, ConstantTypes
    <2>6. b.merged_len - len \in Nat /\ b.last_len - len \in Nat /\ fctx \in Seq(Fragments)
      BY <1>1, <1>2, <1>3, <2>4, SMTT(30) DEF Sorted
    <2>7. r \in Buffers
      BY <1>1, <1>3, <2>1, <2>5, <2>6 DEF Buffers
    <2>8. /\ r.head_offset = len /\ r.head_seq = SeqNo(t + len) /\ r.fctx = fctx
          /\ r.merged_len = b.merged_len - len /\ r.last_len = b.last_len - len
          /\ r.data = b.data /\ r.tail_offset = b.tail_offset
      BY <1>1, <2>1, <2>5 DEF Buffers
    <2> HIDE DEF r
    <2>9. Listed(r, st, t + len)
      BY <2>3, <2>4, <2>8 DEF Listed
    <2>10. Reached(r, st, t + len)
      <3>1. ASSUME NEW x \in st, x >= t + len PROVE x < (t + len) + r.last_len
        <4>1. x \in Nat
          BY <1>1, ConstantTypes
        <4>2. x >= t
          BY <1>1, <1>3, <3>1, <4>1
        <4>3. x < t + b.last_len
          BY <1>1, <4>2
        <4> QED BY <1>1, <1>3, <2>8, <4>1, <4>3
      <3>2. r.head_offset + r.last_len <= r.tail_offset /\ r.tail_offset <= Size
        BY <1>1, <1>3, <2>8, ConstantTypes
      <3> QED BY <3>1, <3>2 DEF Reached
    <2>11. sk \in Nat
      BY <1>1, <2>2
    <2>12. ASSUME sk = 0 PROVE InPlace(r, st, t + len)
      <3> SUFFICES ASSUME NEW x \in st, x >= t + len
                   PROVE  r.data[r.head_offset + x - (t + len)] = x
        BY DEF InPlace
      <3>1. x \in Nat /\ x >= t
        <4>1. x \in Nat
          BY <1>1, ConstantTypes
        <4> QED BY <1>1, <1>3, <4>1
      <3>2. x < t + b.last_len
        BY <1>1, <3>1
      <3>3. len # b.last_len
        BY <1>1, <1>3, <3>1, <3>2
      <3>4. skew = 0 /\ b.head_offset = 0
        BY <1>1, <2>2, <2>12, <3>3
      <3>5. b.data[b.head_offset + x - t] = x
        BY <1>1, <3>1, <3>4 DEF InPlace
      <3>6. r.head_offset + x - (t + len) = b.head_offset + x - t
        BY <1>1, <1>3, <2>8, <3>1, <3>4
      <3> QED BY <2>8, <3>5, <3>6
    <2>13. BufferRight(r, st, t + len, sk)
      BY <1>1, <2>5, <2>7, <2>9, <2>10, <2>11, <2>12 DEF BufferRight
    <2> QED BY <2>8, <2>13 DEF r, sk
  <1> QED BY <1>4, <1>5

-----------------------------------------------------------------------------
(* Types; in particular the window is never negative.                      *)
TypeOK ==
  /\ recvbuf \in Buffers /\ stored \subseteq Positions /\ taken \in 0 .. StreamLen
  /\ skew \in Nat /\ rcv_nxt \in 0 .. Mod - 1 /\ rcv_wnd \in Nat
  /\ data_seen \in BOOLEAN /\ closing \in BOOLEAN

(* The inductive invariant.  Until the first data comes the buffer is empty *)
(* and the window is that of the SYN.                                      *)
BufInv ==
  /\ BufferRight(recvbuf, stored, taken, skew)
  /\ rcv_nxt = SeqNo(taken + recvbuf.merged_len)
  /\ data_seen \in BOOLEAN /\ closing \in BOOLEAN
  /\ rcv_wnd = IF data_seen THEN Size - recvbuf.merged_len ELSE InitWnd
  /\ ~data_seen => recvbuf.merged_len = 0 /\ taken = 0

LEMMA BufInit == Init => BufInv
  <1> SUFFICES ASSUME Init PROVE BufInv
    OBVIOUS
  <1>1. /\ recvbuf = RBInit /\ data_seen = FALSE /\ closing = FALSE
        /\ rcv_nxt = SeqNo(0) /\ rcv_wnd = InitWnd /\ stored = {} /\ taken = 0 /\ skew = 0
    BY DEF Init
  <1>2. /\ recvbuf.head_offset = 0 /\ recvbuf.tail_offset = 0 /\ recvbuf.last_len = 0
        /\ recvbuf.merged_len = 0 /\ recvbuf.head_seq = SeqNo(0) /\ recvbuf.fctx = <<>>
    BY <1>1 DEF RBInit
  <1>3. SeqNo(0) \in 0 .. Mod - 1 /\ 0 \in 0 .. StreamLen /\ Len(<<>>) = 0
    <2>1. 0 \in 0 .. StreamLen
      BY ConstantTypes
    <2> QED BY <2>1, ConstantTypes, SeqNoValue
  <1>4. recvbuf \in Buffers
    <2>1. [i \in 0 .. Size - 1 |-> Junk] \in [0 .. Size - 1 -> Nat \cup {Junk}]
      OBVIOUS
    <2> QED BY <1>1, <1>3, <2>1 DEF RBInit, Buffers
  <1>5. Listed(recvbuf, stored, taken)
    <2>1. Sorted(<<>>) /\ ReadyLen(<<>>, 0) = 0 /\ \A x \in Int : ~Holds(<<>>, x)
      BY <1>3 DEF Sorted, ReadyLen, Holds
    <2> QED BY <1>1, <1>2, <2>1 DEF Listed, Lists
  <1>6. Reached(recvbuf, stored, taken) /\ InPlace(recvbuf, stored, taken)
    BY <1>1, <1>2, ConstantTypes DEF Reached, InPlace
  <1>7. BufferRight(recvbuf, stored, taken, skew)
    BY <1>1, <1>3, <1>4, <1>5, <1>6 DEF BufferRight
  <1>8. taken + recvbuf.merged_len = 0
    BY <1>1, <1>2
  <1> QED BY <1>1, <1>2, <1>7, <1>8 DEF BufInv

LEMMA PayloadKeepsBuffer ==
  ASSUME BufInv, NEW k \in Positions, NEW len \in 1 .. MaxSeg, nty_tcp_process_payload(k, len)
  PROVE  BufInv' /\ taken' >= taken
  <1> DEFINE takes == NotBehindHead(recvbuf, k) /\ Fits(recvbuf, k, len)
             put == IF takes THEN RBPut(recvbuf, k, len) ELSE recvbuf
             st == IF takes THEN stored \cup k .. k + len - 1 ELSE stored
             gone == IF closing THEN put.merged_len ELSE 0
  <1>1. /\ k + len <= StreamLen /\ data_seen' = TRUE /\ closing' = closing
        /\ recvbuf' = RBRemove(put, gone) /\ stored' = st /\ taken' = taken + gone
        /\ skew' = SkewAfterRemove(put, gone)
        /\ rcv_nxt' = (recvbuf'.head_seq + recvbuf'.merged_len) % Mod
        /\ rcv_wnd' = Size - recvbuf'.merged_len
    BY DEF nty_tcp_process_payload
  <1>2. BufferRight(recvbuf, stored, taken, skew) /\ taken \in Nat
    BY ConstantTypes DEF BufInv, BufferRight
  <1>3. BufferRight(put, st, taken, skew)
    <2>1. CASE takes
      BY <1>1, <1>2, <2>1, PutRight
    <2>2. CASE ~takes
      BY <1>2, <2>2
    <2> QED BY <2>1, <2>2
  <1> HIDE DEF put, st
  <1>4. put.merged_len \in Nat /\ gone \in 0 .. put.merged_len /\ gone \in Nat
    <2>1. put.merged_len \in Nat
      BY <1>3, MergedReach
    <2> QED BY <2>1
  <1> HIDE DEF gone
  <1>5. BufferRight(recvbuf', stored', taken', skew')
    BY <1>1, <1>3, <1>4, RemoveRight
  <1>6. rcv_nxt' = SeqNo(taken' + recvbuf'.merged_len)
    <2> DEFINE m == recvbuf'.merged_len
    <2>1. m \in Nat /\ taken' + m <= StreamLen
      BY <1>5, MergedReach
    <2>2. recvbuf'.head_seq = SeqNo(taken') /\ taken' \in 0 .. StreamLen
      BY <1>5 DEF BufferRight, Listed
    <2>3. taken' \in Places /\ taken' + m \in Places
      <3> DEFINE t == taken'
      <3>1. t \in Nat /\ StreamLen \in Nat /\ t + m <= StreamLen
        BY <2>1, <2>2, ConstantTypes
      <3> HIDE DEF m, t
      <3>2. t \in 0 .. StreamLen + 1 /\ t + m \in 0 .. StreamLen + 1
        BY <2>1, <3>1
      <3> QED BY <3>2 DEF Places, t
    <2> QED BY <1>1, <2>1, <2>2, <2>3, SeqNoPlus
  <1>7. taken' >= taken
    BY <1>1, <1>2, <1>4
  <1>8. closing' \in BOOLEAN
    BY <1>1 DEF BufInv
  <1> QED BY <1>1, <1>5, <1>6, <1>7, <1>8 DEF BufInv

LEMMA ReadKeepsBuffer ==
  ASSUME BufInv, NEW len \in 1 .. Size, nty_copy_to_user(len)
  PROVE  BufInv' /\ taken' >= taken
  <1> DEFINE copylen == Min({recvbuf.merged_len, len})
             m == recvbuf.merged_len
  <1>1. BufferRight(recvbuf, stored, taken, skew) /\ taken \in Nat /\ m \in Nat
    <2>1. BufferRight(recvbuf, stored, taken, skew)
      BY DEF BufInv
    <2>2. taken \in Nat
      BY <2>1, ConstantTypes DEF BufferRight
    <2> QED BY <2>1, <2>2, MergedReach
  <1>2. /\ m > 0 /\ recvbuf' = RBRemove(recvbuf, copylen) /\ taken' = taken + copylen
        /\ skew' = SkewAfterRemove(recvbuf, copylen) /\ stored' = stored
        /\ rcv_wnd' = Size - recvbuf'.merged_len /\ rcv_nxt' = rcv_nxt
        /\ data_seen' = data_seen /\ closing' = closing
    BY DEF nty_copy_to_user
  <1>3. copylen \in 0 .. m /\ copylen \in Nat
    <2> HIDE DEF m
    <2>1. len \in Nat
      BY ConstantTypes
    <2> DEFINE c == IF m <= len THEN m ELSE len
    <2>2. {m, len} \subseteq Int /\ c \in {m, len} /\ (\A y \in {m, len} : c <= y) /\ c \in 0 .. m
      BY <1>1, <2>1
    <2>3. Min({m, len}) = c
      BY <2>2, MinIs
    <2>4. copylen = c
      BY <2>3 DEF m
    <2> QED BY <1>1, <2>2, <2>4
  <1> HIDE DEF copylen
  <1>4. BufferRight(recvbuf', stored', taken', skew') /\ recvbuf'.merged_len = m - copylen
    BY <1>1, <1>2, <1>3, RemoveRight
  <1>5. taken' + recvbuf'.merged_len = taken + m
    BY <1>1, <1>2, <1>3, <1>4
  <1>6. rcv_nxt' = SeqNo(taken' + recvbuf'.merged_len)
    BY <1>2, <1>5 DEF BufInv
  <1>7. data_seen
    BY <1>2 DEF BufInv
  <1>8. taken' >= taken
    BY <1>1, <1>2, <1>3
  <1> QED BY <1>2, <1>4, <1>6, <1>7, <1>8 DEF BufInv

LEMMA BufNext == BufInv /\ [Next]_vars => BufInv' /\ taken' >= taken
  <1> SUFFICES ASSUME BufInv, [Next]_vars PROVE BufInv' /\ taken' >= taken
    OBVIOUS
  <1>1. taken \in Nat
    BY ConstantTypes DEF BufInv, BufferRight
  <1>2. CASE Segment
    BY <1>2, PayloadKeepsBuffer DEF Segment
  <1>3. CASE Read
    BY <1>3, ReadKeepsBuffer DEF Read
  <1>4. CASE StartClosing
    <2>1. /\ closing' = TRUE /\ recvbuf' = recvbuf /\ rcv_nxt' = rcv_nxt /\ rcv_wnd' = rcv_wnd
          /\ data_seen' = data_seen /\ stored' = stored /\ taken' = taken /\ skew' = skew
      BY <1>4 DEF StartClosing, history
    <2> QED BY <1>1, <2>1 DEF BufInv
  <1>5. CASE UNCHANGED vars
    <2>1. /\ closing' = closing /\ recvbuf' = recvbuf /\ rcv_nxt' = rcv_nxt /\ rcv_wnd' = rcv_wnd
          /\ data_seen' = data_seen /\ stored' = stored /\ taken' = taken /\ skew' = skew
      BY <1>5 DEF vars, history
    <2> QED BY <1>1, <2>1 DEF BufInv
  <1> QED BY <1>2, <1>3, <1>4, <1>5 DEF Next

(* The invariant holds: after any segments and reads the fragment list,    *)
(* the lengths and offsets and the bytes in the buffer belong together.    *)
THEOREM BufferInvariant == Spec => []BufInv
  <1>1. BufInv /\ [Next]_vars => BufInv'
    BY BufNext
  <1> QED BY <1>1, BufInit, PTL DEF Spec

(* No number leaves its range: rcv_nxt stays below 2^32 and the window the *)
(* peer is told never falls below 0.                                       *)
THEOREM BufferTypes == Spec => []TypeOK
  <1>1. BufInv => TypeOK
    <2> SUFFICES ASSUME BufInv PROVE TypeOK
      OBVIOUS
    <2> DEFINE m == recvbuf.merged_len
    <2>1. /\ recvbuf \in Buffers /\ stored \subseteq Positions /\ taken \in 0 .. StreamLen
          /\ skew \in Nat /\ data_seen \in BOOLEAN /\ closing \in BOOLEAN
          /\ BufferRight(recvbuf, stored, taken, skew)
      BY DEF BufInv, BufferRight
    <2>2. m \in Nat /\ m <= recvbuf.last_len /\ taken + m <= StreamLen
      BY <2>1, MergedReach
    <2>3. /\ recvbuf.head_offset \in Nat /\ recvbuf.last_len \in Nat /\ recvbuf.tail_offset \in Nat
          /\ recvbuf.head_offset + recvbuf.last_len <= recvbuf.tail_offset
          /\ recvbuf.tail_offset <= Size
      BY <2>1 DEF BufferRight, Reached, Buffers
    <2>4. rcv_wnd = (IF data_seen THEN Size - m ELSE InitWnd) /\ rcv_nxt = SeqNo(taken + m)
      BY DEF BufInv
    <2> HIDE DEF m
    <2>5. rcv_wnd \in Nat
      <3>1. m <= Size
        BY <2>2, <2>3, ConstantTypes
      <3> QED BY <2>2, <2>4, <3>1, BufferAssumption
    <2>6. rcv_nxt \in 0 .. Mod - 1
      <3>1. taken + m \in Places
        BY <2>1, <2>2, ConstantTypes DEF Places
      <3> QED BY <2>4, <3>1, SeqNoValue
    <2> QED BY <2>1, <2>5, <2>6 DEF TypeOK
  <1> QED BY <1>1, BufferInvariant, PTL

-----------------------------------------------------------------------------
(* FragmentsExact counts from the head of the buffer, Start() from the     *)
(* beginning of the stream                                                 *)
LEMMA FragPlaces ==
  ASSUME BufInv, NEW i \in 1 .. Len(recvbuf.fctx)
  PROVE  /\ Frag(i) = Start(recvbuf.fctx[i]) .. End(recvbuf.fctx[i]) - 1
         /\ Start(recvbuf.fctx[i]) \in Int /\ End(recvbuf.fctx[i]) \in Int
         /\ Start(recvbuf.fctx[i]) < End(recvbuf.fctx[i])
         /\ Start(recvbuf.fctx[i]) >= taken
  <1> DEFINE f == recvbuf.fctx[i]
  <1>1. /\ Sorted(recvbuf.fctx) /\ recvbuf.head_seq = SeqNo(taken) /\ taken \in Places
        /\ taken \in Nat
        /\ \A x \in Int : Holds(recvbuf.fctx, x) => x >= taken
    BY ConstantTypes DEF BufInv, BufferRight, Listed, Lists
  <1>2. IsFragment(f)
    BY <1>1 DEF Sorted
  <1> HIDE DEF f
  <1>3. /\ Start(f) \in Places /\ End(f) \in Places /\ Start(f) < End(f) /\ f.len = End(f) - Start(f)
        /\ f.seq = SeqNo(Start(f)) /\ Start(f) \in Int /\ End(f) \in Int
    BY <1>2, FragmentPlaces DEF Places
  <1>4. Start(f) >= taken
    <2>1. Covers(f, Start(f))
      BY <1>3 DEF Covers
    <2> QED BY <1>1, <1>3, <2>1 DEF Holds, f
  <1>5. Pos(f.seq) = Start(f)
    BY <1>1, <1>3, <1>4, SeqNoMinus DEF Pos
  <1>6. Pos(f.seq) + f.len - 1 = End(f) - 1
    BY <1>3, <1>5
  <1> QED BY <1>3, <1>4, <1>5, <1>6 DEF Frag, f

(* The list of fragments RBPut() and RBRemove() keep is exactly what has   *)
(* arrived and has not been read, in order and with gaps, for every        *)
(* pattern of segments and every place of the wrap.                        *)
THEOREM ListExact == Spec => []FragmentsExact
  <1>1. BufInv => FragmentsExact
    <2> SUFFICES ASSUME BufInv PROVE FragmentsExact
      OBVIOUS
    <2> DEFINE l == recvbuf.fctx
               n == Len(l)
    <2>1. /\ stored \subseteq Positions /\ Sorted(l)
          /\ \A x \in Int : Holds(l, x) <=> x \in stored /\ x >= taken
      BY DEF BufInv, BufferRight, Listed, Lists
    <2>2. \A x : x \in stored => x \in Int
      BY <2>1, ConstantTypes
    <2>3. \A i \in 1 .. n : \A x : x \in Frag(i) <=> x \in Int /\ Covers(l[i], x)
      BY FragPlaces DEF Covers
    <2>4. \A x : x \in UNION {Frag(i) : i \in 1 .. n} <=> \E i \in 1 .. n : x \in Frag(i)
      OBVIOUS
    <2>5. \A x : x \in UNION {Frag(i) : i \in 1 .. n} <=> x \in Int /\ Holds(l, x)
      BY <2>3, <2>4 DEF Holds
    <2>6. UNION {Frag(i) : i \in 1 .. n} = Buffered
      BY <2>1, <2>2, <2>5 DEF Buffered
    <2>7. ASSUME NEW i \in 1 .. n - 1 PROVE Max(Frag(i)) + 1 < Min(Frag(i + 1))
      <3>1. i \in 1 .. n /\ i + 1 \in 1 .. n /\ i < i + 1
        BY <2>1 DEF Sorted
      <3>2. /\ Frag(i) = Start(l[i]) .. End(l[i]) - 1
            /\ Start(l[i]) \in Int /\ End(l[i]) \in Int /\ Start(l[i]) < End(l[i])
            /\ Frag(i + 1) = Start(l[i + 1]) .. End(l[i + 1]) - 1
            /\ Start(l[i + 1]) \in Int /\ End(l[i + 1]) \in Int /\ Start(l[i + 1]) < End(l[i + 1])
        BY <3>1, FragPlaces
      <3>3. Max(Frag(i)) = End(l[i]) - 1
        <4>1. /\ Frag(i) \subseteq Int /\ End(l[i]) - 1 \in Frag(i)
              /\ \A y \in Frag(i) : End(l[i]) - 1 >= y
          BY <3>2
        <4> QED BY <4>1, MaxIs
      <3>4. Min(Frag(i + 1)) = Start(l[i + 1])
        <4>1. /\ Frag(i + 1) \subseteq Int /\ Start(l[i + 1]) \in Frag(i + 1)
              /\ \A y \in Frag(i + 1) : Start(l[i + 1]) <= y
          BY <3>2
        <4> QED BY <4>1, MinIs
      <3>5. End(l[i]) < Start(l[i + 1])
        BY <2>1, <3>1 DEF Sorted
      <3> QED BY <3>2, <3>3, <3>4, <3>5
    <2> QED BY <2>6, <2>7 DEF FragmentsExact
  <1> QED BY <1>1, BufferInvariant, PTL

(* rcv_nxt acknowledges everything that is there without a gap and nothing *)
(* that is missing.                                                        *)
THEOREM AcknowledgesRight == Spec => []AcknowledgesWhatItHas
  <1>1. BufInv => AcknowledgesWhatItHas
    <2> SUFFICES ASSUME BufInv PROVE AcknowledgesWhatItHas
      OBVIOUS
    <2> DEFINE m == recvbuf.merged_len
               S == {p \in taken .. StreamLen : p \notin stored}
    <2>1. BufferRight(recvbuf, stored, taken, skew) /\ taken \in Nat /\ StreamLen \in Nat
      BY ConstantTypes DEF BufInv, BufferRight
    <2>2. /\ m \in Nat /\ taken + m <= StreamLen
          /\ \A x \in taken .. taken + m - 1 : x \in stored
          /\ taken + m \notin stored
      BY <2>1, MergedReach
    <2>3. rcv_nxt = SeqNo(taken + m)
      BY DEF BufInv
    <2> HIDE DEF m
    <2>4. S \subseteq Int /\ taken + m \in S
      BY <2>1, <2>2
    <2>5. \A y \in S : taken + m <= y
      BY <2>1, <2>2
    <2>6. Min(S) = taken + m
      <3> HIDE DEF S
      <3> QED BY <2>4, <2>5, MinIs
    <2>7. FirstMissing = taken + m
      BY <2>6 DEF FirstMissing
    <2>8. m = FirstMissing - taken
      BY <2>1, <2>2, <2>7
    <2> QED BY <2>3, <2>7, <2>8 DEF AcknowledgesWhatItHas, m
  <1> QED BY <1>1, BufferInvariant, PTL

(* Bytes stay in their place, and RBPut() in its buffer, as long as        *)
(* head_offset is right.                                                   *)
THEOREM InItsPlace == Spec => []StoredInPlace
  <1>1. BufInv => StoredInPlace
    <2> SUFFICES ASSUME BufInv PROVE StoredInPlace
      OBVIOUS
    <2>1. /\ recvbuf.head_offset \in Nat /\ recvbuf.last_len \in Nat /\ recvbuf.tail_offset \in Nat
          /\ recvbuf.head_offset + recvbuf.last_len <= recvbuf.tail_offset
          /\ recvbuf.tail_offset <= Size
          /\ skew = 0 => InPlace(recvbuf, stored, taken)
      BY DEF BufInv, BufferRight, Buffers, Reached
    <2>2. recvbuf.head_offset + recvbuf.last_len <= Size
      BY <2>1, ConstantTypes
    <2>3. skew = 0 => \A p \in Buffered : recvbuf.data[recvbuf.head_offset + p - taken] = p
      BY <2>1 DEF InPlace, Buffered
    <2> QED BY <2>1, <2>2, <2>3 DEF StoredInPlace
  <1> QED BY <1>1, BufferInvariant, PTL

LEMMA SumsGrow ==
  ASSUME NEW x \in Nat, NEW y \in Nat, NEW z \in Nat
  PROVE  x + z >= z /\ (y >= x => y + z >= x + z)
  OBVIOUS

(* nty_tcp_process_payload() and nty_copy_to_user() never take back        *)
(* window, but for the first data, which takes it back to the size of the  *)
(* buffer.                                                                 *)
THEOREM EdgeStays == Spec => EdgeNeverRetreats
  <1>1. BufInv /\ BufInv' /\ [Next]_vars =>
          [RightEdge' >= IF data_seen THEN RightEdge ELSE Min({RightEdge, Size})]_vars
    <2> SUFFICES ASSUME BufInv, BufInv', [Next]_vars
                 PROVE  RightEdge' >= IF data_seen THEN RightEdge ELSE Min({RightEdge, Size})
      OBVIOUS
    <2>1. taken' >= taken
      BY BufNext
    <2>2. /\ taken \in Nat /\ recvbuf.merged_len \in Nat /\ Size \in Nat /\ InitWnd \in Nat
          /\ rcv_wnd = IF data_seen THEN Size - recvbuf.merged_len ELSE InitWnd
          /\ ~data_seen => recvbuf.merged_len = 0 /\ taken = 0
          /\ data_seen \in BOOLEAN
      BY MergedReach, ConstantTypes, BufferAssumption DEF BufInv, BufferRight
    <2>3. /\ taken' \in Nat /\ recvbuf'.merged_len \in Nat
          /\ rcv_wnd' = IF data_seen' THEN Size - recvbuf'.merged_len ELSE InitWnd
          /\ ~data_seen' => recvbuf'.merged_len = 0 /\ taken' = 0
          /\ data_seen' \in BOOLEAN
      BY MergedReach, ConstantTypes DEF BufInv, BufferRight
    <2>4. data_seen => data_seen'
      BY DEF Next, Segment, Read, StartClosing, vars, history, nty_tcp_process_payload,
             nty_copy_to_user
    <2> DEFINE edge == RightEdge
               after == RightEdge'
    <2>5. /\ edge = IF data_seen THEN taken + Size ELSE InitWnd
          /\ after = IF data_seen' THEN taken' + Size ELSE InitWnd
          /\ edge \in Nat /\ after \in Nat
      BY <2>2, <2>3 DEF RightEdge
    <2>6. CASE data_seen
      <3>1. edge = taken + Size /\ after = taken' + Size
        BY <2>4, <2>5, <2>6
      <3>2. taken' + Size >= taken + Size
        BY <2>1, <2>2, <2>3, SumsGrow
      <3> QED BY <2>6, <3>1, <3>2
    <2>7. CASE ~data_seen
      <3>1. edge = InitWnd /\ (after = InitWnd \/ after >= Size)
        <4>1. edge = InitWnd /\ (after = InitWnd \/ after = taken' + Size)
          BY <2>5, <2>7
        <4>2. taken' + Size >= Size
          BY <2>2, <2>3, SumsGrow
        <4> QED BY <4>1, <4>2
      <3> DEFINE least == IF InitWnd <= Size THEN InitWnd ELSE Size
      <3>2. Min({InitWnd, Size}) = least
        <4>1. {InitWnd, Size} \subseteq Int /\ least \in {InitWnd, Size}
              /\ \A y \in {InitWnd, Size} : least <= y
          BY <2>2
        <4> HIDE DEF least
        <4> QED BY <4>1, MinIs
      <3>3. after >= least
        BY <2>2, <2>5, <3>1
      <3> QED BY <2>7, <3>1, <3>2, <3>3
    <2> QED BY <2>6, <2>7
  <1> QED BY <1>1, BufferInvariant, PTL DEF Spec, EdgeNeverRetreats

(* A recv() that finds head_offset in its place returns the next bytes of  *)
(* the stream: what nty_rcvbuf_read shows comes from the head alone.       *)
ReadsNextBytes ==
  [][\A len \in 1 .. Size : nty_copy_to_user(len) /\ skew = 0 =>
       \A i \in DOMAIN read' : read'[i] = taken + i - 1]_vars

(* nty_copy_to_user() returns the next bytes whenever the reads before it  *)
(* have left head_offset where it belongs.                                 *)
THEOREM ReadsRight == Spec => ReadsNextBytes
  <1>1. BufInv /\ [Next]_vars =>
          [\A len \in 1 .. Size : nty_copy_to_user(len) /\ skew = 0 =>
             \A i \in DOMAIN read' : read'[i] = taken + i - 1]_vars
    <2> SUFFICES ASSUME BufInv, NEW len \in 1 .. Size, nty_copy_to_user(len), skew = 0,
                        NEW i \in DOMAIN read'
                 PROVE  read'[i] = taken + i - 1
      OBVIOUS
    <2> DEFINE m == recvbuf.merged_len
               copylen == Min({m, len})
    <2>1. read' = [h \in 1 .. copylen |-> recvbuf.data[recvbuf.head_offset + h - 1]]
      BY DEF nty_copy_to_user
    <2>2. /\ BufferRight(recvbuf, stored, taken, skew) /\ taken \in Nat /\ m \in Nat
          /\ recvbuf.head_offset \in Nat
      BY ConstantTypes, MergedReach DEF BufInv, BufferRight, Buffers
    <2>3. \A x \in taken .. taken + m - 1 : x \in stored
      BY <2>2, MergedReach
    <2> HIDE DEF m
    <2>4. copylen \in 0 .. m
      <3>1. len \in Nat
        BY ConstantTypes
      <3> DEFINE c == IF m <= len THEN m ELSE len
      <3>2. {m, len} \subseteq Int /\ c \in {m, len} /\ (\A y \in {m, len} : c <= y) /\ c \in 0 .. m
        BY <2>2, <3>1
      <3> QED BY <3>2, MinIs
    <2> HIDE DEF copylen
    <2>5. i \in 1 .. copylen /\ read'[i] = recvbuf.data[recvbuf.head_offset + i - 1]
      BY <2>1
    <2> DEFINE x == taken + i - 1
    <2>6. /\ x \in taken .. taken + m - 1 /\ x >= taken
          /\ recvbuf.head_offset + x - taken = recvbuf.head_offset + i - 1
      BY <2>2, <2>4, <2>5
    <2> HIDE DEF x
    <2>7. recvbuf.data[recvbuf.head_offset + x - taken] = x
      BY <2>2, <2>3, <2>6 DEF BufferRight, InPlace
    <2> QED BY <2>5, <2>6, <2>7 DEF x
  <1> QED BY <1>1, BufferInvariant, PTL DEF Spec, ReadsNextBytes
=============================================================================
