---------------------------- MODULE Crc32_proofs ----------------------------
(***************************************************************************)
(* Theorems about Crc32, for bodies of any length and any bytes and for    *)
(* any damage.                                                             *)
(*                                                                         *)
(* The register is the remainder of the division so far, read backwards    *)
(* (Follows).  A byte more multiplies the dividend by x^8 and adds eight   *)
(* coefficients at the bottom: the steps done so far are the same,         *)
(* eight exponents higher (StepsAppend), and the eight that follow are     *)
(* those of the table (RemainderAppend), because a step is linear and does *)
(* nothing for the 24 low coefficients (EightLinear, EightOfLow).          *)
(***************************************************************************)
EXTENDS Crc32, WellFoundedInduction, TLAPS

-----------------------------------------------------------------------------
(* Polynomials: sets of exponents.                                         *)

(* times x^n *)
Shift(p, n) == {e + n : e \in p}

(* one step of the division: the coefficient of x^(d + 32) is cleared *)
Reduce(p, d) == Xor(p, IF d + 32 \in p THEN {d + e : e \in Generator} ELSE {})

(* a word read as a polynomial, highest coefficient in the lowest bit *)
Flip(p) == {31 - e : e \in p}

LEMMA XorMember ==
  ASSUME NEW v, NEW w
  PROVE  \A x : x \in Xor(v, w) <=>
                (x \in v \/ x \in w) /\ ~(x \in v /\ x \in w)
  BY DEF Xor

LEMMA XorType ==
  ASSUME NEW S, NEW v \in SUBSET S, NEW w \in SUBSET S
  PROVE  Xor(v, w) \in SUBSET S
  BY DEF Xor

LEMMA XorAlgebra ==
  ASSUME NEW u, NEW v, NEW w
  PROVE  /\ Xor(u, v) = Xor(v, u)
         /\ Xor(Xor(u, v), w) = Xor(u, Xor(v, w))
         /\ Xor(Xor(u, v), w) = Xor(Xor(u, w), v)
         /\ Xor(u, u) = {} /\ Xor(u, {}) = u
         /\ Xor(Xor(u, v), v) = u
  BY DEF Xor

LEMMA ShiftMember ==
  ASSUME NEW p \in SUBSET Int, NEW n \in Int
  PROVE  /\ Shift(p, n) \in SUBSET Int
         /\ \A x \in Int : x \in Shift(p, n) <=> x - n \in p
  <1>1. \A e \in p : e \in Int /\ e + n \in Int /\ (e + n) - n = e
    OBVIOUS
  <1>2. \A x \in Int : (x - n) + n = x
    OBVIOUS
  <1> QED BY <1>1, <1>2 DEF Shift

LEMMA FlipMember ==
  ASSUME NEW p \in SUBSET Int
  PROVE  /\ Flip(p) \in SUBSET Int
         /\ \A x \in Int : x \in Flip(p) <=> 31 - x \in p
  <1>1. \A e \in p : e \in Int /\ 31 - e \in Int /\ 31 - (31 - e) = e
    OBVIOUS
  <1>2. \A x \in Int : 31 - (31 - x) = x
    OBVIOUS
  <1> QED BY <1>1, <1>2 DEF Flip

LEMMA ShiftXor ==
  ASSUME NEW v \in SUBSET Int, NEW w \in SUBSET Int, NEW n \in Int
  PROVE  Shift(Xor(v, w), n) = Xor(Shift(v, n), Shift(w, n))
  <1> DEFINE a == Shift(Xor(v, w), n)
             b == Xor(Shift(v, n), Shift(w, n))
  <1>1. Xor(v, w) \in SUBSET Int
    BY XorType
  <1>2. a \in SUBSET Int /\ \A x \in Int : x \in a <=> x - n \in Xor(v, w)
    BY <1>1, ShiftMember
  <1>3. b \in SUBSET Int
    BY ShiftMember, XorType
  <1>4. \A x \in Int : x \in b <=> x - n \in Xor(v, w)
    BY ShiftMember, XorMember
  <1>5. SUFFICES a = b
    OBVIOUS
  <1> HIDE DEF a, b
  <1> QED BY <1>2, <1>3, <1>4

LEMMA FlipXor ==
  ASSUME NEW v \in SUBSET Int, NEW w \in SUBSET Int
  PROVE  Flip(Xor(v, w)) = Xor(Flip(v), Flip(w))
  <1> DEFINE a == Flip(Xor(v, w))
             b == Xor(Flip(v), Flip(w))
  <1>1. Xor(v, w) \in SUBSET Int
    BY XorType
  <1>2. a \in SUBSET Int /\ \A x \in Int : x \in a <=> 31 - x \in Xor(v, w)
    BY <1>1, FlipMember
  <1>3. b \in SUBSET Int
    BY FlipMember, XorType
  <1>4. \A x \in Int : x \in b <=> 31 - x \in Xor(v, w)
    BY FlipMember, XorMember
  <1>5. SUFFICES a = b
    OBVIOUS
  <1> HIDE DEF a, b
  <1> QED BY <1>2, <1>3, <1>4

LEMMA ShiftShift ==
  ASSUME NEW p \in SUBSET Int, NEW m \in Int, NEW n \in Int
  PROVE  Shift(Shift(p, m), n) = Shift(p, m + n) /\ Shift(p, 0) = p
  <1>1. \A e \in p : (e + m) + n = e + (m + n) /\ e + 0 = e
    OBVIOUS
  <1>2. Shift(p, 0) = p
    BY <1>1 DEF Shift
  <1>3. Shift(Shift(p, m), n) = {(e + m) + n : e \in p}
    BY DEF Shift
  <1> QED BY <1>1, <1>2, <1>3 DEF Shift

(* a word and its reversal are each other's reversal *)
LEMMA FlipFlip ==
  ASSUME NEW p \in SUBSET Int
  PROVE  Flip(Flip(p)) = p
  <1>1. Flip(p) \in SUBSET Int /\ Flip(Flip(p)) \in SUBSET Int
    BY FlipMember
  <1>2. \A x \in Int : 31 - (31 - x) = x /\ 31 - x \in Int
    OBVIOUS
  <1>3. \A x \in Int : x \in Flip(Flip(p)) <=> 31 - x \in Flip(p)
    BY <1>1, FlipMember
  <1>4. \A x \in Int : 31 - x \in Flip(p) <=> x \in p
    BY <1>2, FlipMember
  <1> QED BY <1>1, <1>3, <1>4

LEMMA GeneratorFacts ==
  /\ ulPolynomial \subseteq 0 .. 31 /\ ulPolynomial \subseteq Int
  /\ Generator \subseteq 0 .. 32 /\ Generator \subseteq Int
  /\ Generator = ulPolynomial \cup {32} /\ 32 \notin ulPolynomial
  /\ 0 \in Generator /\ 32 \in Generator
  BY DEF Generator, ulPolynomial

(* the multiple of the generator that a step subtracts *)
LEMMA GeneratorShift ==
  ASSUME NEW d \in Int
  PROVE  /\ {d + e : e \in Generator} = Shift(Generator, d)
         /\ Shift(Generator, d) \in SUBSET (d .. d + 32)
         /\ Shift(Generator, d) \in SUBSET Int
         /\ d \in Shift(Generator, d) /\ d + 32 \in Shift(Generator, d)
  <1>1. \A e \in Generator : e \in 0 .. 32 /\ d + e = e + d
                              /\ e + d \in d .. d + 32 /\ e + d \in Int
    BY GeneratorFacts
  <1>2. 0 + d = d /\ 32 + d = d + 32
    OBVIOUS
  <1> QED BY <1>1, <1>2, GeneratorFacts DEF Shift

LEMMA ReduceIs ==
  ASSUME NEW p \in SUBSET Int, NEW d \in Int
  PROVE  /\ Reduce(p, d) \in SUBSET Int
         /\ d + 32 \in p => Reduce(p, d) = Xor(p, Shift(Generator, d))
         /\ d + 32 \notin p => Reduce(p, d) = p
  <1> DEFINE g == Shift(Generator, d)
  <1>1. g \in SUBSET Int /\ {d + e : e \in Generator} = g
    BY GeneratorShift
  <1>2. Reduce(p, d) = Xor(p, IF d + 32 \in p THEN g ELSE {})
    BY <1>1 DEF Reduce
  <1> HIDE DEF g
  <1>3. Xor(p, g) \in SUBSET Int
    BY <1>1, XorType
  <1>4. Xor(p, {}) = p
    BY XorAlgebra
  <1> QED BY <1>2, <1>3, <1>4 DEF g

(* a division of a multiple of x^8, and of it with something added below   *)
(* what the step looks at                                                  *)
LEMMA ReduceShift ==
  ASSUME NEW p \in SUBSET Int, NEW q \in SUBSET Int, NEW d \in Int,
         NEW n \in Int, d + n + 32 \notin q
  PROVE  Reduce(Xor(Shift(p, n), q), d + n) = Xor(Shift(Reduce(p, d), n), q)
  <1> DEFINE g == Shift(Generator, d)
             s == Shift(p, n)
  <1>1. g \in SUBSET Int /\ s \in SUBSET Int
    BY GeneratorShift, ShiftMember
  <1>7. Xor(s, q) \in SUBSET Int
    BY <1>1, XorType
  <1>0. /\ d + n \in Int /\ d + n + 32 \in Int /\ (d + n) + 32 = d + n + 32
        /\ (d + n + 32) - n = d + 32
    OBVIOUS
  <1>2. d + n + 32 \in s <=> d + 32 \in p
    BY <1>0, ShiftMember
  <1>3. d + n + 32 \in Xor(s, q) <=> d + 32 \in p
    BY <1>2, XorMember
  <1>4. Shift(Generator, d + n) = Shift(g, n)
    BY ShiftShift, GeneratorFacts
  <1>5. CASE d + 32 \in p
    <2>1. Reduce(p, d) = Xor(p, g)
      BY <1>5, ReduceIs
    <2>2. Shift(Reduce(p, d), n) = Xor(s, Shift(g, n))
      BY <2>1, <1>1, ShiftXor
    <2>3. Reduce(Xor(s, q), d + n) = Xor(Xor(s, q), Shift(g, n))
      BY <1>0, <1>1, <1>7, <1>3, <1>4, <1>5, ReduceIs
    <2> HIDE DEF s, g
    <2>4. Reduce(Xor(s, q), d + n) = Xor(Xor(s, Shift(g, n)), q)
      BY <2>3, XorAlgebra
    <2> QED BY <2>2, <2>4 DEF s
  <1>6. CASE d + 32 \notin p
    BY <1>0, <1>1, <1>7, <1>3, <1>6, ReduceIs
  <1> QED BY <1>5, <1>6

-----------------------------------------------------------------------------
(* The eight steps that the table knows.                                   *)

LEMMA OnesIs == Ones = 0 .. 31 /\ Bits(32) = 0 .. 31 /\ Bits(8) = 0 .. 7
  BY DEF Ones, Bits

LEMMA OnesInt == \A w \in SUBSET Ones : w \in SUBSET Int
  <1>1. Ones \subseteq Int
    BY OnesIs
  <1> QED BY <1>1

(* a shifted word whose register is 32 bits wide is a step of the division *)
LEMMA DivideReduces ==
  ASSUME NEW w \in SUBSET Ones
  PROVE  /\ Divide(w) \in SUBSET Ones
         /\ Divide(w) = Reduce(Shift(w, 1), 0)
  <1> DEFINE s == Shift(w, 1)
             l == ShiftLeft(w, 1)
  <1>1. w \in SUBSET Int /\ s \in SUBSET Int /\ 0 \in Int /\ 0 + 32 = 32
    BY OnesIs, ShiftMember
  <1>2. l = s \cap Ones /\ l \in SUBSET Ones
    BY DEF ShiftLeft, Shift
  <1>3. \A x \in Int : x \in s <=> x - 1 \in w
    BY <1>1, ShiftMember
  <1>4. s \in SUBSET (1 .. 32) /\ (32 \in s <=> 31 \in w)
    BY <1>1, <1>3, OnesIs
  <1>5. Shift(Generator, 0) = Generator
    BY GeneratorFacts, ShiftShift
  <1>6. \A x \in s : x \in Ones \/ x = 32
    BY <1>4, OnesIs
  <1>7. 32 \notin Ones
    BY OnesIs
  <1>8. ulPolynomial \in SUBSET Ones
    BY GeneratorFacts, OnesIs
  <1> HIDE DEF s, l
  <1>9. CASE 31 \in w
    <2>1. Divide(w) = Xor(l, ulPolynomial)
      BY <1>9 DEF Divide, l
    <2>2. Reduce(s, 0) = Xor(s, Generator)
      BY <1>1, <1>4, <1>5, <1>9, ReduceIs
    <2>3. Xor(l, ulPolynomial) = Xor(s, Generator)
      BY <1>2, <1>4, <1>6, <1>7, <1>8, <1>9, GeneratorFacts DEF Xor
    <2>4. Xor(l, ulPolynomial) \in SUBSET Ones
      BY <1>2, <1>8, XorType
    <2> QED BY <2>1, <2>2, <2>3, <2>4 DEF s
  <1>10. CASE 31 \notin w
    <2>1. Divide(w) = l
      BY <1>10, XorAlgebra DEF Divide, l
    <2>2. Reduce(s, 0) = s
      BY <1>1, <1>4, <1>10, ReduceIs
    <2>3. l = s
      BY <1>2, <1>4, <1>6, <1>10
    <2> QED BY <2>1, <2>2, <2>3, <1>2 DEF s
  <1> QED BY <1>9, <1>10

LEMMA DivideShifted ==
  ASSUME NEW w \in SUBSET Ones, NEW m \in Nat
  PROVE  Reduce(Shift(w, m + 1), m) = Shift(Divide(w), m)
  <1>1. /\ w \in SUBSET Int /\ Shift(w, 1) \in SUBSET Int
        /\ m \in Int /\ 0 \in Int /\ 1 \in Int /\ 1 + m = m + 1 /\ 0 + m = m
    BY OnesIs, ShiftMember
  <1>2. Shift(Shift(w, 1), m) = Shift(w, m + 1)
    BY <1>1, ShiftShift
  <1>3. {} \in SUBSET Int /\ 0 + m + 32 \notin {}
    OBVIOUS
  <1>4. Reduce(Xor(Shift(Shift(w, 1), m), {}), 0 + m)
          = Xor(Shift(Reduce(Shift(w, 1), 0), m), {})
    BY <1>1, <1>3, ReduceShift
  <1> QED BY <1>1, <1>2, <1>4, DivideReduces, XorAlgebra

LEMMA DivideLinear ==
  ASSUME NEW v \in SUBSET Ones, NEW w \in SUBSET Ones
  PROVE  Divide(Xor(v, w)) = Xor(Divide(v), Divide(w))
  <1> DEFINE a == Divide(Xor(v, w))
             b == Xor(Divide(v), Divide(w))
             P(u) == IF 31 \in u THEN ulPolynomial ELSE {}
  <1>1. ShiftLeft(Xor(v, w), 1) = Xor(ShiftLeft(v, 1), ShiftLeft(w, 1))
    <2>1. \A u : ShiftLeft(u, 1) = Shift(u, 1) \cap Ones
      BY DEF ShiftLeft, Shift
    <2>2. Shift(Xor(v, w), 1) = Xor(Shift(v, 1), Shift(w, 1))
      BY OnesIs, ShiftXor
    <2>3. Xor(Shift(v, 1), Shift(w, 1)) \cap Ones
            = Xor(Shift(v, 1) \cap Ones, Shift(w, 1) \cap Ones)
      BY DEF Xor
    <2> QED BY <2>1, <2>2, <2>3
  <1>2. P(Xor(v, w)) = Xor(P(v), P(w))
    BY DEF Xor
  <1>3. \A u : Divide(u) = Xor(ShiftLeft(u, 1), P(u))
    BY DEF Divide
  <1> HIDE DEF P
  <1>4. \A s, t, p, q : Xor(Xor(s, t), Xor(p, q)) = Xor(Xor(s, p), Xor(t, q))
    BY DEF Xor
  <1> QED BY <1>1, <1>2, <1>3, <1>4

(* Divide eight times *)
Eight(w) == Divide(Divide(Divide(Divide(Divide(Divide(Divide(Divide(w))))))))

LEMMA EightType ==
  ASSUME NEW w \in SUBSET Ones
  PROVE  Eight(w) \in SUBSET Ones
  <1> \A v \in SUBSET Ones : Divide(v) \in SUBSET Ones
    BY DivideReduces
  <1> QED BY DEF Eight

LEMMA EightLinear ==
  ASSUME NEW v \in SUBSET Ones, NEW w \in SUBSET Ones
  PROVE  Eight(Xor(v, w)) = Xor(Eight(v), Eight(w))
  <1>1. \A s, t \in SUBSET Ones : Divide(Xor(s, t)) = Xor(Divide(s), Divide(t))
    BY DivideLinear
  <1>2. \A s \in SUBSET Ones : Divide(s) \in SUBSET Ones
    BY DivideReduces
  <1>3. \A s, t \in SUBSET Ones :
          Divide(Divide(Xor(s, t))) = Xor(Divide(Divide(s)), Divide(Divide(t)))
    BY <1>1, <1>2
  <1>4. \A s, t \in SUBSET Ones :
          Divide(Divide(Divide(Divide(Xor(s, t)))))
            = Xor(Divide(Divide(Divide(Divide(s)))), Divide(Divide(Divide(Divide(t)))))
    BY <1>2, <1>3
  <1>5. \A s \in SUBSET Ones : Divide(Divide(Divide(Divide(s)))) \in SUBSET Ones
    BY <1>2
  <1> QED BY <1>4, <1>5 DEF Eight

(* nothing is divided when the highest bits are zero *)
LEMMA EightOfLow ==
  ASSUME NEW w \in SUBSET (0 .. 23)
  PROVE  Eight(w) = Shift(w, 8)
  <1>1. ASSUME NEW n \in 0 .. 7
        PROVE  Divide(Shift(w, n)) = Shift(w, n + 1)
    <2>1. w \in SUBSET Int /\ n \in Int /\ 1 \in Int /\ 0 \in Int /\ 0 + 32 = 32
      OBVIOUS
    <2>2. /\ Shift(w, n) \in SUBSET Int
          /\ \A x \in Int : x \in Shift(w, n) <=> x - n \in w
      BY <2>1, ShiftMember
    <2>3. Shift(w, n) \in SUBSET Ones /\ 31 \notin Shift(w, n)
      BY <2>2, OnesIs
    <2>4. Shift(Shift(w, n), 1) = Shift(w, n + 1)
      BY <2>1, ShiftShift
    <2>5. /\ Shift(Shift(w, n), 1) \in SUBSET Int
          /\ \A x \in Int : x \in Shift(Shift(w, n), 1) <=> x - 1 \in Shift(w, n)
      BY <2>1, <2>2, ShiftMember
    <2>6. 32 \notin Shift(Shift(w, n), 1)
      BY <2>3, <2>5
    <2>7. Reduce(Shift(Shift(w, n), 1), 0) = Shift(Shift(w, n), 1)
      BY <2>1, <2>5, <2>6, ReduceIs
    <2> QED BY <2>3, <2>4, <2>7, DivideReduces
  <1>2. Shift(w, 0) = w
    BY ShiftShift
  <1>3. /\ Divide(Shift(w, 0)) = Shift(w, 1)
        /\ Divide(Shift(w, 1)) = Shift(w, 2)
        /\ Divide(Shift(w, 2)) = Shift(w, 3)
        /\ Divide(Shift(w, 3)) = Shift(w, 4)
        /\ Divide(Shift(w, 4)) = Shift(w, 5)
        /\ Divide(Shift(w, 5)) = Shift(w, 6)
        /\ Divide(Shift(w, 6)) = Shift(w, 7)
        /\ Divide(Shift(w, 7)) = Shift(w, 8)
    BY <1>1
  <1> QED BY <1>2, <1>3 DEF Eight

-----------------------------------------------------------------------------
(* An entry of the table: its index, reversed into the highest bits,       *)
(* divided eight times and reversed.                                       *)

IsTable(w, first) ==
  w = [j \in 0 .. 8 |-> IF j = 0 THEN first ELSE Divide(w[j - 1])]

LEMMA TableExists ==
  ASSUME NEW v
  PROVE  \E w : IsTable(w, v)
  <1> DEFINE w == [j \in 0 .. 8 |->
                     IF j = 0 THEN v
                     ELSE IF j = 1 THEN Divide(v)
                     ELSE IF j = 2 THEN Divide(Divide(v))
                     ELSE IF j = 3 THEN Divide(Divide(Divide(v)))
                     ELSE IF j = 4 THEN Divide(Divide(Divide(Divide(v))))
                     ELSE IF j = 5 THEN Divide(Divide(Divide(Divide(Divide(v)))))
                     ELSE IF j = 6 THEN Divide(Divide(Divide(Divide(Divide(Divide(v))))))
                     ELSE IF j = 7 THEN Divide(Divide(Divide(Divide(Divide(Divide(Divide(v)))))))
                     ELSE Eight(v)]
  <1>1. /\ w[0] = v /\ w[1] = Divide(w[0]) /\ w[2] = Divide(w[1])
        /\ w[3] = Divide(w[2]) /\ w[4] = Divide(w[3]) /\ w[5] = Divide(w[4])
        /\ w[6] = Divide(w[5]) /\ w[7] = Divide(w[6]) /\ w[8] = Divide(w[7])
    BY DEF Eight
  <1>2. w = [j \in 0 .. 8 |-> w[j]]
    OBVIOUS
  <1> HIDE DEF w
  <1>3. ASSUME NEW j \in 0 .. 8
        PROVE  w[j] = IF j = 0 THEN v ELSE Divide(w[j - 1])
    <2>1. \/ j = 0 \/ j = 1 \/ j = 2 \/ j = 3 \/ j = 4 \/ j = 5 \/ j = 6
          \/ j = 7 \/ j = 8
      OBVIOUS
    <2> QED BY <2>1, <1>1
  <1>4. w = [j \in 0 .. 8 |-> IF j = 0 THEN v ELSE Divide(w[j - 1])]
    BY <1>2, <1>3
  <1> QED BY <1>4 DEF IsTable

LEMMA TableSteps ==
  ASSUME NEW w, NEW v, IsTable(w, v)
  PROVE  w[8] = Eight(v)
  <1>1. ASSUME NEW j \in 1 .. 8
        PROVE  w[j] = Divide(w[j - 1])
    <2>1. j \in 0 .. 8 /\ j # 0
      OBVIOUS
    <2> QED BY <2>1 DEF IsTable
  <1>2. 0 \in 0 .. 8
    OBVIOUS
  <1>3. w[0] = v
    BY <1>2 DEF IsTable
  <1>4. /\ w[1] = Divide(w[0]) /\ w[2] = Divide(w[1])
        /\ w[3] = Divide(w[2]) /\ w[4] = Divide(w[3]) /\ w[5] = Divide(w[4])
        /\ w[6] = Divide(w[5]) /\ w[7] = Divide(w[6]) /\ w[8] = Divide(w[7])
    BY <1>1
  <1> QED BY <1>3, <1>4 DEF Eight

LEMMA ReflectIs ==
  /\ \A w \in SUBSET Ones : Reflect(w, 32) = Flip(w)
  /\ \A i \in Byte : ShiftLeft(Reflect(i, 8), 24) = Flip(i)
  /\ \A i \in Byte : Flip(i) \in SUBSET Ones
  <1>1. ASSUME NEW w \in SUBSET Ones PROVE Reflect(w, 32) = Flip(w)
    <2>1. w \cap Bits(32) = w
      BY OnesIs
    <2>2. \A b \in w : b \in 0 .. 31
      BY OnesIs
    <2>3. \A b \in w : 32 - 1 - b = 31 - b
      BY <2>2
    <2> QED BY <2>1, <2>3 DEF Reflect, Flip
  <1>2. ASSUME NEW i \in Byte PROVE ShiftLeft(Reflect(i, 8), 24) = Flip(i)
    <2>1. /\ i \cap Bits(8) = i
          /\ \A b \in i : 8 - 1 - b + 24 = 31 - b /\ 31 - b \in 0 .. 31
      BY OnesIs DEF Byte
    <2>2. Reflect(i, 8) = {8 - 1 - b : b \in i}
      BY <2>1 DEF Reflect
    <2>3. {c + 24 : c \in Reflect(i, 8)} = Flip(i)
      BY <2>1, <2>2 DEF Flip
    <2>4. Flip(i) \subseteq Ones
      BY <2>1, OnesIs DEF Flip
    <2> QED BY <2>3, <2>4 DEF ShiftLeft
  <1>3. ASSUME NEW i \in Byte PROVE Flip(i) \in SUBSET Ones
    <2>1. \A b \in i : b \in 0 .. 7
      BY OnesIs DEF Byte
    <2>2. \A b \in i : 31 - b \in 0 .. 31
      BY <2>1
    <2> QED BY <2>2, OnesIs DEF Flip
  <1> QED BY <1>1, <1>2, <1>3

LEMMA TableEntryIs ==
  ASSUME NEW i \in Byte
  PROVE  TableEntry(i) = Flip(Eight(Flip(i)))
  <1> DEFINE v == ShiftLeft(Reflect(i, 8), 24)
             w == CHOOSE w : IsTable(w, v)
  <1>1. IsTable(w, v)
    BY TableExists
  <1>2. TableEntry(i) = Reflect(w[8], 32)
    BY DEF TableEntry, IsTable
  <1> HIDE DEF w
  <1>3. w[8] = Eight(Flip(i)) /\ Flip(i) \in SUBSET Ones
    BY <1>1, TableSteps, ReflectIs
  <1>4. Eight(Flip(i)) \in SUBSET Ones
    BY <1>3, EightType
  <1> QED BY <1>2, <1>3, <1>4, ReflectIs

(* One turn of the loop in Get_CRC(), with the register read as the        *)
(* remainder it holds in reverse: the byte enters at the top of it, and    *)
(* eight steps of the division follow.                                     *)
LEMMA UpdateIs ==
  ASSUME NEW p \in SUBSET Ones, NEW byte \in Byte
  PROVE  Update(Flip(p), byte) = Flip(Eight(Xor(p, Flip(byte))))
  <1> DEFINE low == p \cap 0 .. 23
             high == p \cap 24 .. 31
             h == Xor(high, Flip(byte))
             x == Xor(Flip(p) \cap Bits(8), byte)
             sh == Shift(low, 8)
  <1>1. /\ p \in SUBSET Int /\ p \in SUBSET (0 .. 31)
        /\ byte \in SUBSET Int /\ byte \in SUBSET (0 .. 7)
    BY OnesIs DEF Byte
  <1>2. /\ low \in SUBSET Int /\ low \in SUBSET (0 .. 23) /\ low \in SUBSET Ones
        /\ high \in SUBSET Int /\ high \in SUBSET (24 .. 31) /\ high \in SUBSET Ones
    BY <1>1, OnesIs
  <1>3. p = Xor(low, high)
    <2>1. \A e \in p : e \in 0 .. 23 \/ e \in 24 .. 31
      BY <1>1
    <2>2. \A e \in p : ~(e \in 0 .. 23 /\ e \in 24 .. 31)
      BY <1>1
    <2> QED BY <2>1, <2>2 DEF Xor
  <1>4. Flip(byte) \in SUBSET Ones /\ Flip(byte) \in SUBSET Int
    BY <1>1, ReflectIs, FlipMember
  <1>5. Flip(p) \cap Bits(8) = Flip(high)
    <2>1. Flip(p) \in SUBSET Int /\ \A e \in Int : e \in Flip(p) <=> 31 - e \in p
      BY <1>1, FlipMember
    <2>2. Flip(high) \in SUBSET Int /\ \A e \in Int : e \in Flip(high) <=> 31 - e \in high
      BY <1>2, FlipMember
    <2>3. \A e \in Int : e \in Bits(8) <=> 31 - e \in 24 .. 31
      BY OnesIs
    <2> QED BY <2>1, <2>2, <2>3
  <1>6. x \in Byte
    <2>1. Flip(high) \in SUBSET Bits(8)
      BY <1>5
    <2>2. byte \in SUBSET Bits(8)
      BY DEF Byte
    <2> QED BY <2>1, <2>2, <1>5, XorType DEF Byte
  <1>7. Flip(x) = h
    <2>1. Flip(high) \in SUBSET Int
      BY <1>2, FlipMember
    <2>2. Flip(Xor(Flip(high), byte)) = Xor(Flip(Flip(high)), Flip(byte))
      BY <1>1, <2>1, FlipXor
    <2> QED BY <2>2, <1>2, <1>5, FlipFlip
  <1>8. ShiftRight(Flip(p), 8) = Flip(sh)
    <2>1. Flip(p) \in SUBSET Int /\ \A e \in Int : e \in Flip(p) <=> 31 - e \in p
      BY <1>1, FlipMember
    <2>2. sh \in SUBSET Int /\ \A e \in Int : e \in sh <=> e - 8 \in low
      BY <1>2, ShiftMember
    <2>3. Flip(sh) \in SUBSET Int /\ \A e \in Int : e \in Flip(sh) <=> 31 - e \in sh
      BY <2>2, FlipMember
    <2>4. ShiftRight(Flip(p), 8) \in SUBSET Int
      BY OnesIs DEF ShiftRight
    <2>5. \A e \in Int : e \in ShiftRight(Flip(p), 8) <=> e \in Ones /\ e + 8 \in Flip(p)
      <3>1. \A e \in Int : (e + 8) - 8 = e
        OBVIOUS
      <3>2. \A b \in Int : (b - 8) + 8 = b
        OBVIOUS
      <3> QED BY <2>1, <3>1, <3>2 DEF ShiftRight
    <2>6. ASSUME NEW e \in Int
          PROVE  e \in ShiftRight(Flip(p), 8) <=> e \in Flip(sh)
      <3>1. /\ e + 8 \in Int /\ 31 - (e + 8) = 23 - e
            /\ 31 - e \in Int /\ (31 - e) - 8 = 23 - e
        OBVIOUS
      <3>2. e \in ShiftRight(Flip(p), 8) <=> e \in Ones /\ 23 - e \in p
        BY <2>1, <2>5, <3>1
      <3>3. e \in Flip(sh) <=> 23 - e \in low
        BY <2>2, <2>3, <3>1
      <3>4. e \in Ones /\ 23 - e \in p <=> 23 - e \in low
        BY <1>1, OnesIs
      <3> QED BY <3>2, <3>3, <3>4
    <2> QED BY <2>3, <2>4, <2>6
  <1>9. h \in SUBSET Ones
    BY <1>2, <1>4, XorType
  <1>10. Xor(p, Flip(byte)) = Xor(low, h)
    BY <1>3, XorAlgebra
  <1>11. Eight(Xor(low, h)) = Xor(sh, Eight(h))
    <2>1. Eight(Xor(low, h)) = Xor(Eight(low), Eight(h))
      BY <1>2, <1>9, EightLinear
    <2> QED BY <2>1, <1>2, EightOfLow
  <1>12. sh \in SUBSET Int /\ Eight(h) \in SUBSET Int
    <2>1. sh \in SUBSET Int
      BY <1>2, ShiftMember
    <2>2. Eight(h) \in SUBSET Ones
      BY <1>9, EightType
    <2> QED BY <2>1, <2>2, OnesIs
  <1>13. Flip(Xor(sh, Eight(h))) = Xor(Flip(sh), Flip(Eight(h)))
    BY <1>12, FlipXor
  <1>14. crc32_table[x] = Flip(Eight(h))
    BY <1>6, <1>7, TableEntryIs DEF crc32_table
  <1> QED BY <1>8, <1>10, <1>11, <1>13, <1>14 DEF Update

-----------------------------------------------------------------------------
(* The division, step by step.                                             *)

(* 0 .. n is in any set that has 0 and with every i below n also i + 1 *)
LEMMA Upwards ==
  ASSUME NEW n \in Nat, NEW S, 0 \in S, \A i \in S : i \in 0 .. n - 1 => i + 1 \in S
  PROVE  0 .. n \subseteq S
  <1> DEFINE Out == {i \in 0 .. n : i \notin S}
  <1>1. SUFFICES ASSUME Out # {} PROVE FALSE
    OBVIOUS
  <1>2. Out \subseteq Nat
    OBVIOUS
  <1>3. PICK k \in Out : \A j \in Out : <<j, k>> \notin OpToRel(<, Nat)
    BY <1>1, <1>2, NatLessThanWellFounded, WFMin
  <1>4. k \in 0 .. n /\ k \notin S /\ k # 0
    OBVIOUS
  <1>5. /\ k - 1 \in 0 .. n - 1 /\ k - 1 \in 0 .. n /\ k - 1 < k /\ k - 1 \in Nat
        /\ (k - 1) + 1 = k /\ k \in Nat
    BY <1>4
  <1>6. k - 1 \notin S
    BY <1>4, <1>5
  <1>7. k - 1 \in Out
    BY <1>5, <1>6
  <1>8. <<k - 1, k>> \in OpToRel(<, Nat)
    BY <1>5 DEF OpToRel
  <1> QED BY <1>3, <1>7, <1>8

(* r is the division of p, of degree n + 31 at most, up to its m-th step *)
IsDivision(r, p, n, m) ==
  r = [k \in 0 .. m |->
         IF k = 0 THEN p
         ELSE LET q == r[k - 1]
                  d == n - k
              IN Xor(q, IF d + 32 \in q THEN {d + e : e \in Generator} ELSE {})]

LEMMA DivisionExists ==
  ASSUME NEW p, NEW n \in Nat
  PROVE  \E r : IsDivision(r, p, n, n)
  <1> DEFINE S == {m \in 0 .. n : \E r : IsDivision(r, p, n, m)}
             Of(r, k) == IF k = 0 THEN p ELSE Reduce(r[k - 1], n - k)
  <1>0. \A r, m : IsDivision(r, p, n, m) <=> r = [k \in 0 .. m |-> Of(r, k)]
    BY DEF IsDivision, Reduce
  <1>1. 0 \in S
    <2> DEFINE r == [k \in 0 .. 0 |-> p]
    <2>1. \A k \in 0 .. 0 : k = 0
      OBVIOUS
    <2>2. r = [k \in 0 .. 0 |-> Of(r, k)]
      BY <2>1
    <2> HIDE DEF r, Of
    <2>3. IsDivision(r, p, n, 0)
      BY <1>0, <2>2
    <2> QED BY <2>3
  <1>2. ASSUME NEW m \in S, m \in 0 .. n - 1 PROVE m + 1 \in S
    <2>1. PICK r : IsDivision(r, p, n, m)
      OBVIOUS
    <2> DEFINE t == [k \in 0 .. m + 1 |-> IF k = m + 1 THEN Of(r, k) ELSE r[k]]
    <2>2. \A k \in 0 .. m : r[k] = Of(r, k)
      BY <1>0, <2>1
    <2>3. ASSUME NEW k \in 0 .. m + 1
          PROVE  t[k] = Of(r, k) /\ Of(r, k) = Of(t, k)
      <3>1. k # 0 => k - 1 \in 0 .. m + 1 /\ k - 1 # m + 1
        BY <1>2
      <3>2. k # m + 1 => k \in 0 .. m
        BY <1>2
      <3>3. k # 0 => t[k - 1] = r[k - 1]
        BY <3>1
      <3>4. t[k] = Of(r, k)
        BY <3>2, <2>2
      <3> QED BY <3>3, <3>4
    <2>4. t = [k \in 0 .. m + 1 |-> t[k]]
      OBVIOUS
    <2> HIDE DEF t, Of
    <2>5. t = [k \in 0 .. m + 1 |-> Of(t, k)]
      BY <2>3, <2>4
    <2>6. IsDivision(t, p, n, m + 1)
      BY <1>0, <2>5
    <2> QED BY <1>2, <2>6
  <1> HIDE DEF Of
  <1>3. 0 .. n \subseteq S
    <2> HIDE DEF S
    <2> QED BY <1>1, <1>2, Upwards
  <1>4. n \in S
    BY <1>3
  <1> QED BY <1>4

(* The steps of Remainder(). *)
Steps(r, body) ==
  /\ r[0] = Dividend(body)
  /\ \A k \in 1 .. 8 * Len(body) : r[k] = Reduce(r[k - 1], 8 * Len(body) - k)
  /\ Remainder(body) = r[8 * Len(body)]

LEMMA RemainderSteps ==
  ASSUME NEW body \in Seq(Byte)
  PROVE  \E r : Steps(r, body)
  <1> DEFINE n == 8 * Len(body)
             r == CHOOSE r : IsDivision(r, Dividend(body), n, n)
  <1>1. n \in Nat
    OBVIOUS
  <1>2. Remainder(body) = r[n]
    BY DEF Remainder, IsDivision
  <1> HIDE DEF n
  <1>3. IsDivision(r, Dividend(body), n, n)
    BY <1>1, DivisionExists
  <1> HIDE DEF r
  <1>4. r[0] = Dividend(body)
    BY <1>1, <1>3 DEF IsDivision
  <1>5. ASSUME NEW k \in 1 .. n PROVE r[k] = Reduce(r[k - 1], n - k)
    <2>1. k \in 0 .. n /\ k # 0
      OBVIOUS
    <2> QED BY <1>3, <2>1 DEF IsDivision, Reduce
  <1> QED BY <1>2, <1>4, <1>5 DEF Steps, n

-----------------------------------------------------------------------------
(* The dividend: the bits of the body and the complement of the first 32.  *)

(* the exponent of bit b of byte i *)
Place(body, i, b) == 32 + 8 * (Len(body) - i) + 7 - b

BitsOf(body) == UNION {{Place(body, i, b) : b \in body[i]} : i \in 1 .. Len(body)}

LEMMA BitsOfMember ==
  ASSUME NEW body \in Seq(Byte)
  PROVE  /\ BitsOf(body) \in SUBSET (32 .. 8 * Len(body) + 31)
         /\ BitsOf(body) \in SUBSET Int
         /\ \A x : x \in BitsOf(body) <=>
              \E i \in 1 .. Len(body) : \E b \in body[i] : x = Place(body, i, b)
  <1>1. \A x : x \in BitsOf(body) <=>
              \E i \in 1 .. Len(body) : \E b \in body[i] : x = Place(body, i, b)
    BY DEF BitsOf
  <1>2. ASSUME NEW i \in 1 .. Len(body), NEW b \in body[i]
        PROVE  Place(body, i, b) \in 32 .. 8 * Len(body) + 31
    <2>1. body[i] \in Byte /\ Len(body) \in Nat
      OBVIOUS
    <2>2. b \in 0 .. 7
      BY <2>1, OnesIs DEF Byte
    <2> QED BY <2>1, <2>2 DEF Place
  <1>3. BitsOf(body) \in SUBSET (32 .. 8 * Len(body) + 31)
    BY <1>1, <1>2
  <1> QED BY <1>1, <1>3

LEMMA DividendIs ==
  ASSUME NEW body \in Seq(Byte)
  PROVE  /\ Dividend(body) = Xor(BitsOf(body), Shift(Ones, 8 * Len(body)))
         /\ Shift(Ones, 8 * Len(body)) \in SUBSET Int
         /\ Shift(Ones, 8 * Len(body)) \in SUBSET (0 .. 8 * Len(body) + 31)
         /\ Dividend(body) \in SUBSET (0 .. 8 * Len(body) + 31)
         /\ Dividend(body) \in SUBSET Int
  <1> DEFINE n == Len(body)
             c == Shift(Ones, 8 * n)
  <1>1. n \in Nat
    OBVIOUS
  <1>2. \A k \in Ones : k \in 0 .. 31
    BY OnesIs
  <1>3. ASSUME NEW k \in Ones
        PROVE  8 * n + k = k + 8 * n /\ k + 8 * n \in 0 .. 8 * n + 31
    <2> HIDE DEF n
    <2>1. k \in 0 .. 31
      BY <1>2
    <2> QED BY <1>1, <2>1
  <1>4. {8 * n + k : k \in Bits(32)} = c
    BY <1>3, OnesIs DEF Shift
  <1>5. c \in SUBSET (0 .. 8 * n + 31)
    BY <1>3 DEF Shift
  <1>6. Dividend(body) = Xor(BitsOf(body), c)
    BY <1>4 DEF Dividend, BitsOf, Place
  <1> HIDE DEF c
  <1>7. BitsOf(body) \in SUBSET (32 .. 8 * n + 31)
    BY BitsOfMember
  <1>8. BitsOf(body) \in SUBSET (0 .. 8 * n + 31)
    BY <1>1, <1>7
  <1>9. Xor(BitsOf(body), c) \in SUBSET (0 .. 8 * n + 31)
    BY <1>5, <1>8, XorType
  <1> QED BY <1>1, <1>5, <1>6, <1>9 DEF c

(* one byte more *)
LEMMA DividendAppend ==
  ASSUME NEW body \in Seq(Byte), NEW byte \in Byte
  PROVE  Dividend(Append(body, byte))
           = Xor(Shift(Dividend(body), 8), Shift(Flip(byte), 8))
  <1> DEFINE n == Len(body)
             longer == Append(body, byte)
             c == Shift(Ones, 8 * n)
             f == Shift(Flip(byte), 8)
  <1>1. /\ longer \in Seq(Byte) /\ n \in Nat /\ Len(longer) = n + 1
        /\ longer[n + 1] = byte /\ \A i \in 1 .. n : longer[i] = body[i]
    OBVIOUS
  <1>2. byte \in SUBSET Int /\ Flip(byte) \in SUBSET Int /\ byte \in SUBSET (0 .. 7)
    BY OnesIs, FlipMember DEF Byte
  <1>3. /\ f \in SUBSET Int /\ \A x \in Int : x \in f <=> 39 - x \in byte
    <2>1. f \in SUBSET Int /\ \A x \in Int : x \in f <=> x - 8 \in Flip(byte)
      BY <1>2, ShiftMember
    <2>2. \A x \in Int : x \in Flip(byte) <=> 31 - x \in byte
      BY <1>2, FlipMember
    <2>3. \A x \in Int : x - 8 \in Int /\ 31 - (x - 8) = 39 - x
      OBVIOUS
    <2> QED BY <2>1, <2>2, <2>3
  <1> DEFINE s == Shift(BitsOf(body), 8)
  <1>4. s \in SUBSET Int /\ \A x \in Int : x \in s <=> x - 8 \in BitsOf(body)
    BY BitsOfMember, ShiftMember
  <1> HIDE DEF longer, n, f, s
  <1>5. BitsOf(longer) = Xor(s, f)
    <2>1. BitsOf(longer) \in SUBSET Int /\ Xor(s, f) \in SUBSET Int
      BY <1>1, <1>3, <1>4, BitsOfMember, XorType
    <2>2. ASSUME NEW x \in Int PROVE x \in BitsOf(longer) <=> x \in s \/ x \in f
      <3>1. x \in BitsOf(longer) <=>
              \/ \E i \in 1 .. n : \E b \in longer[i] : x = Place(longer, i, b)
              \/ \E b \in longer[n + 1] : x = Place(longer, n + 1, b)
        <4>1. \A i : i \in 1 .. n + 1 <=> i \in 1 .. n \/ i = n + 1
          BY <1>1
        <4> QED BY <1>1, <4>1, BitsOfMember
      <3>2. ASSUME NEW i \in 1 .. n, NEW b \in longer[i]
            PROVE  x = Place(longer, i, b) <=> x - 8 = Place(body, i, b)
        <4>1. b \in Int /\ i \in Int
          <5>1. body[i] \in Byte
            BY <1>1 DEF n
          <5> QED BY <1>1, <5>1, OnesIs DEF Byte
        <4> QED BY <1>1, <4>1 DEF Place, n
      <3>3. (\E i \in 1 .. n : \E b \in longer[i] : x = Place(longer, i, b))
              <=> x - 8 \in BitsOf(body)
        BY <3>2, <1>1, BitsOfMember DEF n
      <3>4. \A b \in byte : x = Place(longer, n + 1, b) <=> 39 - x = b
        <4>1. \A b \in byte : b \in Int
          BY <1>2
        <4> QED BY <1>1, <4>1 DEF Place
      <3>5. (\E b \in longer[n + 1] : x = Place(longer, n + 1, b)) <=> 39 - x \in byte
        BY <1>1, <3>4
      <3> QED BY <3>1, <3>3, <3>5, <1>3, <1>4
    <2>3. ASSUME NEW x \in Int PROVE ~(x \in s /\ x \in f)
      <3>1. x \in s => x - 8 \in 32 .. 8 * n + 31
        BY <1>4, BitsOfMember DEF n
      <3>2. x \in f => 39 - x \in 0 .. 7
        BY <1>2, <1>3
      <3> QED BY <1>1, <3>1, <3>2
    <2> QED BY <2>1, <2>2, <2>3, XorMember
  <1>6. Shift(c, 8) = Shift(Ones, 8 * Len(longer))
    <2>1. 8 * n + 8 = 8 * Len(longer) /\ 8 * n \in Int /\ Ones \in SUBSET Int
      BY <1>1, OnesIs
    <2> QED BY <2>1, ShiftShift
  <1>7. Shift(Dividend(body), 8) = Xor(s, Shift(c, 8))
    BY DividendIs, BitsOfMember, ShiftXor DEF s, n
  <1>8. Dividend(longer) = Xor(BitsOf(longer), Shift(c, 8))
    BY <1>1, <1>6, DividendIs
  <1>9. Xor(Xor(s, f), Shift(c, 8)) = Xor(Xor(s, Shift(c, 8)), f)
    BY XorAlgebra
  <1> QED BY <1>5, <1>7, <1>8, <1>9 DEF longer, f

(* a body without bytes: the register is what it starts with *)
LEMMA RemainderStart == Remainder(<<>>) = Ones
  <1> DEFINE body == <<>>
  <1>1. body \in Seq(Byte) /\ Len(body) = 0 /\ 8 * Len(body) = 0
    OBVIOUS
  <1>2. BitsOf(body) = {}
    BY <1>1 DEF BitsOf
  <1>3. Shift(Ones, 0) = Ones
    BY OnesIs, ShiftShift
  <1> HIDE DEF body
  <1>4. Dividend(body) = Xor({}, Ones)
    BY <1>1, <1>2, <1>3, DividendIs
  <1>5. PICK r : Steps(r, body)
    BY <1>1, RemainderSteps
  <1>6. Remainder(body) = Dividend(body)
    BY <1>1, <1>5 DEF Steps
  <1> QED BY <1>4, <1>6 DEF Xor, body

-----------------------------------------------------------------------------
(* The division of a body with one byte more: the same steps, eight        *)
(* exponents higher and with the new byte below them, and then the eight   *)
(* steps of UpdateIs.                                                      *)

(* after k steps the degree is lower by k *)
LEMMA RemainderDegree ==
  ASSUME NEW body \in Seq(Byte), NEW r, Steps(r, body)
  PROVE  /\ \A k \in 0 .. 8 * Len(body) :
              /\ r[k] \in SUBSET (0 .. 8 * Len(body) - k + 31)
              /\ r[k] \in SUBSET Int
         /\ Remainder(body) \in SUBSET Ones
  <1> DEFINE n == 8 * Len(body)
             S == {k \in 0 .. n : r[k] \in SUBSET (0 .. n - k + 31)}
  <1>1. n \in Nat
    OBVIOUS
  <1>2. 0 \in S
    BY <1>1, DividendIs DEF Steps
  <1>3. ASSUME NEW k \in S, k \in 0 .. n - 1 PROVE k + 1 \in S
    <2> DEFINE p == r[k]
               d == n - (k + 1)
               g == Shift(Generator, d)
    <2>1. k + 1 \in 1 .. n /\ (k + 1) - 1 = k /\ k + 1 \in 0 .. n
      BY <1>1, <1>3
    <2>2. r[k + 1] = Reduce(p, d)
      BY <2>1 DEF Steps
    <2> HIDE DEF n
    <2>3. d \in Nat /\ n - k + 31 = d + 32 /\ n - (k + 1) + 31 = d + 31
      BY <1>1, <1>3
    <2>4. p \in SUBSET (0 .. d + 32) /\ p \in SUBSET Int
      BY <2>3
    <2> HIDE DEF p, d
    <2>5. r[k + 1] \in SUBSET (0 .. d + 31)
      <3>1. CASE d + 32 \in p
        <4>1. r[k + 1] = Xor(p, g)
          BY <2>2, <2>3, <2>4, <3>1, ReduceIs
        <4>2. g \in SUBSET (d .. d + 32) /\ d + 32 \in g
          BY <2>3, GeneratorShift
        <4> HIDE DEF g
        <4>3. \A x \in r[k + 1] : x # d + 32 /\ (x \in p \/ x \in g)
          BY <3>1, <4>1, <4>2, XorMember
        <4>4. ASSUME NEW x \in r[k + 1] PROVE x \in 0 .. d + 31
          <5>1. x \in 0 .. d + 32 \/ x \in d .. d + 32
            BY <2>4, <4>2, <4>3
          <5> QED BY <2>3, <4>3, <5>1
        <4> QED BY <4>4
      <3>2. CASE d + 32 \notin p
        <4>1. r[k + 1] = p
          BY <2>2, <2>3, <2>4, <3>2, ReduceIs
        <4> QED BY <2>3, <2>4, <3>2, <4>1
      <3> QED BY <3>1, <3>2
    <2> QED BY <2>1, <2>3, <2>5
  <1>4. 0 .. n \subseteq S
    <2> HIDE DEF S, n
    <2> QED BY <1>1, <1>2, <1>3, Upwards
  <1>5. ASSUME NEW k \in 0 .. n
        PROVE  r[k] \in SUBSET (0 .. n - k + 31) /\ r[k] \in SUBSET Int
    BY <1>4
  <1>6. r[n] \in SUBSET Ones
    <2>1. n \in 0 .. n /\ n - n + 31 = 31
      BY <1>1
    <2> QED BY <1>5, <2>1, OnesIs
  <1> QED BY <1>5, <1>6 DEF Steps

LEMMA StepsAppend ==
  ASSUME NEW body \in Seq(Byte), NEW byte \in Byte,
         NEW r, Steps(r, body), NEW t, Steps(t, Append(body, byte))
  PROVE  \A k \in 0 .. 8 * Len(body) :
           t[k] = Xor(Shift(r[k], 8), Shift(Flip(byte), 8))
  <1> DEFINE n == 8 * Len(body)
             f == Shift(Flip(byte), 8)
             S == {k \in 0 .. n : t[k] = Xor(Shift(r[k], 8), f)}
  <1>1. n \in Nat /\ 8 * Len(Append(body, byte)) = n + 8
    OBVIOUS
  <1>2. f \in SUBSET Int /\ f \in SUBSET (32 .. 39)
    <2>1. Flip(byte) \in SUBSET Ones
      BY ReflectIs
    <2>2. Flip(byte) \in SUBSET Int
      BY <2>1, OnesInt
    <2>3. f \in SUBSET Int /\ \A x \in Int : x \in f <=> x - 8 \in Flip(byte)
      BY <2>2, ShiftMember
    <2>4. \A x \in Int : x \in Flip(byte) <=> 31 - x \in byte
      <3>1. byte \in SUBSET Int
        BY OnesIs DEF Byte
      <3> QED BY <3>1, FlipMember
    <2>5. \A x \in Int : x \in f => 31 - (x - 8) \in 0 .. 7
      <3>1. byte \in SUBSET (0 .. 7)
        BY OnesIs DEF Byte
      <3>2. \A x \in Int : x - 8 \in Int
        OBVIOUS
      <3>3. \A x \in Int : x \in f => 31 - (x - 8) \in byte
        BY <2>3, <2>4, <3>2
      <3> QED BY <3>1, <3>3
    <2> HIDE DEF f
    <2>6. \A x \in f : x \in 32 .. 39
      BY <2>3, <2>5
    <2> QED BY <2>3, <2>6
  <1>3. 0 \in S
    BY <1>1, DividendAppend DEF Steps
  <1>4. ASSUME NEW k \in S, k \in 0 .. n - 1 PROVE k + 1 \in S
    <2> DEFINE d == n - (k + 1)
    <2>1. /\ k + 1 \in 1 .. n /\ (k + 1) - 1 = k /\ k + 1 \in 0 .. n
          /\ k + 1 \in 1 .. n + 8 /\ k \in 0 .. n
      BY <1>1, <1>4
    <2>2. r[k + 1] = Reduce(r[k], d)
      BY <2>1 DEF Steps
    <2>3. t[k + 1] = Reduce(t[k], n + 8 - (k + 1))
      BY <1>1, <2>1 DEF Steps
    <2>4. r[k] \in SUBSET Int
      BY <2>1, RemainderDegree
    <2> HIDE DEF n, f
    <2>5. d \in Nat /\ n + 8 - (k + 1) = d + 8 /\ d \in Int /\ d + 8 + 32 \notin 32 .. 39
      BY <1>1, <1>4
    <2>6. d + 8 + 32 \notin f
      BY <1>2, <2>5
    <2>7. t[k] = Xor(Shift(r[k], 8), f)
      OBVIOUS
    <2> HIDE DEF d, S
    <2>8. Reduce(Xor(Shift(r[k], 8), f), d + 8) = Xor(Shift(Reduce(r[k], d), 8), f)
      BY <1>2, <2>4, <2>5, <2>6, ReduceShift
    <2>9. t[k + 1] = Xor(Shift(r[k + 1], 8), f)
      BY <2>2, <2>3, <2>5, <2>7, <2>8
    <2> QED BY <2>1, <2>9 DEF S
  <1>5. 0 .. n \subseteq S
    <2> HIDE DEF S, n
    <2> QED BY <1>1, <1>3, <1>4, Upwards
  <1> QED BY <1>5

LEMMA RemainderAppend ==
  ASSUME NEW body \in Seq(Byte), NEW byte \in Byte
  PROVE  Remainder(Append(body, byte)) = Eight(Xor(Remainder(body), Flip(byte)))
  <1> DEFINE n == 8 * Len(body)
             longer == Append(body, byte)
             v == Xor(Remainder(body), Flip(byte))
  <1>1. longer \in Seq(Byte) /\ n \in Nat /\ 8 * Len(longer) = n + 8
    OBVIOUS
  <1>2. PICK r : Steps(r, body)
    BY RemainderSteps
  <1>3. PICK t : Steps(t, longer)
    BY <1>1, RemainderSteps
  <1>4. Remainder(body) \in SUBSET Ones /\ Remainder(body) = r[n]
    BY <1>2, RemainderDegree DEF Steps
  <1>5. Flip(byte) \in SUBSET Ones
    BY ReflectIs
  <1>6. v \in SUBSET Ones
    BY <1>4, <1>5, XorType
  <1>7. t[n] = Shift(v, 8)
    <2>1. n \in 0 .. n
      BY <1>1
    <2>2. t[n] = Xor(Shift(r[n], 8), Shift(Flip(byte), 8))
      BY <1>2, <1>3, <2>1, StepsAppend
    <2>3. Remainder(body) \in SUBSET Int /\ Flip(byte) \in SUBSET Int
      BY <1>4, <1>5, OnesInt
    <2> QED BY <1>4, <2>2, <2>3, ShiftXor
  <1>8. ASSUME NEW j \in 0 .. 7, NEW w \in SUBSET Ones, t[n + j] = Shift(w, 8 - j)
        PROVE  t[n + (j + 1)] = Shift(Divide(w), 7 - j) /\ Divide(w) \in SUBSET Ones
    <2> HIDE DEF n, v
    <2>1. /\ n + (j + 1) \in 1 .. n + 8 /\ n + (j + 1) - 1 = n + j
          /\ n + 8 - (n + (j + 1)) = 7 - j /\ 7 - j \in Nat /\ 8 - j = (7 - j) + 1
      BY <1>1
    <2>2. t[n + (j + 1)] = Reduce(t[n + j], 7 - j)
      BY <1>1, <1>3, <2>1 DEF Steps
    <2>3. Reduce(Shift(w, (7 - j) + 1), 7 - j) = Shift(Divide(w), 7 - j)
      BY <2>1, DivideShifted
    <2> QED BY <1>8, <2>1, <2>2, <2>3, DivideReduces
  <1> DEFINE v1 == Divide(v)
             v2 == Divide(v1)
             v3 == Divide(v2)
             v4 == Divide(v3)
             v5 == Divide(v4)
             v6 == Divide(v5)
             v7 == Divide(v6)
             v8 == Divide(v7)
  <1>9. v8 = Eight(v)
    BY DEF Eight
  <1> HIDE DEF n, longer, v, v1, v2, v3, v4, v5, v6, v7, v8
  <1>10. t[n + 0] = Shift(v, 8 - 0)
    BY <1>1, <1>7
  <1>11. t[n + 1] = Shift(v1, 7) /\ v1 \in SUBSET Ones
    BY <1>6, <1>8, <1>10 DEF v1
  <1>12. t[n + 2] = Shift(v2, 6) /\ v2 \in SUBSET Ones
    BY <1>8, <1>11 DEF v2
  <1>13. t[n + 3] = Shift(v3, 5) /\ v3 \in SUBSET Ones
    BY <1>8, <1>12 DEF v3
  <1>14. t[n + 4] = Shift(v4, 4) /\ v4 \in SUBSET Ones
    BY <1>8, <1>13 DEF v4
  <1>15. t[n + 5] = Shift(v5, 3) /\ v5 \in SUBSET Ones
    BY <1>8, <1>14 DEF v5
  <1>16. t[n + 6] = Shift(v6, 2) /\ v6 \in SUBSET Ones
    BY <1>8, <1>15 DEF v6
  <1>17. t[n + 7] = Shift(v7, 1) /\ v7 \in SUBSET Ones
    BY <1>8, <1>16 DEF v7
  <1>18. t[n + 8] = Shift(v8, 0) /\ v8 \in SUBSET Ones
    BY <1>8, <1>17 DEF v8
  <1>19. t[n + 8] = v8
    <2>1. v8 \in SUBSET Int
      BY <1>18, OnesIs
    <2> QED BY <1>18, <2>1, ShiftShift
  <1>20. Remainder(longer) = t[n + 8]
    BY <1>1, <1>3 DEF Steps
  <1> QED BY <1>9, <1>19, <1>20 DEF v, longer

-----------------------------------------------------------------------------
(* What the loop computes.                                                 *)

(* the register holds the remainder, highest coefficient in the lowest bit *)
Follows == /\ crcSent = Flip(Remainder(sent))
           /\ crcGot = Flip(Remainder(got))

IInv == TypeOK /\ Follows

LEMMA FlipType ==
  ASSUME NEW p \in SUBSET Ones
  PROVE  Flip(p) \in SUBSET Ones
  <1>1. \A e \in p : e \in 0 .. 31
    BY OnesIs
  <1>2. \A e \in p : 31 - e \in 0 .. 31
    BY <1>1
  <1> QED BY <1>2, OnesIs DEF Flip

LEMMA FlipOnes == Flip(Ones) = Ones
  <1>1. /\ Flip(Ones) \in SUBSET Int
        /\ \A x \in Int : x \in Flip(Ones) <=> 31 - x \in Ones
    BY OnesInt, FlipMember
  <1> QED BY <1>1, OnesIs

LEMMA RemainderType ==
  ASSUME NEW body \in Seq(Byte)
  PROVE  Remainder(body) \in SUBSET Ones
  BY RemainderSteps, RemainderDegree

LEMMA UpdateFollows ==
  ASSUME NEW body \in Seq(Byte), NEW byte \in Byte
  PROVE  Update(Flip(Remainder(body)), byte) = Flip(Remainder(Append(body, byte)))
  BY RemainderType, UpdateIs, RemainderAppend

(* the bytes the environment may add to the bodies *)
LEMMA NextTypes ==
  ASSUME TypeOK, Next
  PROVE  \E s, g \in Byte : Step(s, g)
  <1>1. ASSUME NEW s \in NextBytes PROVE s \in Byte
    <2>1. Len(sent) < Len(Bytes) => Len(sent) + 1 \in 1 .. Len(Bytes)
      BY BytesAssumption DEF TypeOK
    <2>2. \A i \in 1 .. Len(Bytes) : Bytes[i] \in SUBSET Byte
      BY BytesAssumption
    <2> QED BY <2>1, <2>2, <1>1 DEF NextBytes
  <1>2. ASSUME NEW s \in Byte, NEW bits \in Damage PROVE Xor(s, bits) \in Byte
    <2>1. bits \in SUBSET Bits(8) /\ s \in SUBSET Bits(8)
      BY DamageAssumption DEF Byte
    <2>2. Xor(s, bits) \in SUBSET Bits(8)
      BY <2>1, XorType
    <2> QED BY <2>2 DEF Byte
  <1>3. CASE ByteArrives
    BY <1>1, <1>3 DEF ByteArrives
  <1>4. CASE ByteChanges
    BY <1>1, <1>2, <1>4 DEF ByteChanges
  <1> QED BY <1>3, <1>4 DEF Next

LEMMA StepFollows ==
  ASSUME IInv, NEW s \in Byte, NEW g \in Byte, Step(s, g)
  PROVE  IInv'
  <1>1. /\ sent \in Seq(Byte) /\ got \in Seq(Byte) /\ Len(sent) = Len(got)
        /\ sent' = Append(sent, s) /\ got' = Append(got, g)
    BY DEF IInv, TypeOK, Step
  <1>2. /\ sent' \in Seq(Byte) /\ got' \in Seq(Byte) /\ Len(sent') = Len(got')
    BY <1>1
  <1>3. crcSent' = Flip(Remainder(sent'))
    BY <1>1, UpdateFollows DEF IInv, Follows, Step
  <1>4. crcGot' = Flip(Remainder(got'))
    BY <1>1, UpdateFollows DEF IInv, Follows, Step
  <1>5. crcSent' \subseteq Ones /\ crcGot' \subseteq Ones
    BY <1>2, <1>3, <1>4, RemainderType, FlipType
  <1> QED BY <1>2, <1>3, <1>4, <1>5 DEF IInv, TypeOK, Follows

LEMMA InitFollows == Init => IInv
  <1> SUFFICES ASSUME Init PROVE IInv
    OBVIOUS
  <1>1. sent = <<>> /\ got = <<>> /\ crcSent = Ones /\ crcGot = Ones
    BY DEF Init
  <1> QED BY <1>1, FlipOnes, RemainderStart DEF IInv, TypeOK, Follows

(* Both ends' local crc holds, after every byte, the remainder of the body *)
(* so far, backwards.                                                      *)
THEOREM RegisterHoldsRemainder == Spec => []IInv
<1>1. IInv /\ [Next]_vars => IInv'
  <2> SUFFICES ASSUME IInv, [Next]_vars PROVE IInv'
    OBVIOUS
  <2>1. CASE Next
    BY <2>1, NextTypes, StepFollows DEF IInv
  <2>2. CASE UNCHANGED vars
    BY <2>2 DEF vars, IInv, TypeOK, Follows
  <2> QED BY <2>1, <2>2
<1> QED BY <1>1, InitFollows, PTL DEF Spec

(* What Get_CRC() returns for a body, by its table and its shifts, is the  *)
(* CRC-32 of that body.                                                    *)
THEOREM ChecksumIsCrc32 == Spec => []ComputesCrc32
<1>1. IInv => ComputesCrc32
  BY DEF IInv, Follows, ComputesCrc32, Result, Checksum, Flip
<1> QED BY <1>1, RegisterHoldsRemainder, PTL

-----------------------------------------------------------------------------
(* What a changed body shows.                                              *)

LEMMA ReduceLinear ==
  ASSUME NEW p, NEW q, NEW d \in Int
  PROVE  Reduce(Xor(p, q), d) = Xor(Reduce(p, d), Reduce(q, d))
  <1> DEFINE g == {d + e : e \in Generator}
             P(u) == IF d + 32 \in u THEN g ELSE {}
  <1>1. \A u : Reduce(u, d) = Xor(u, P(u))
    BY DEF Reduce
  <1> HIDE DEF g
  <1>2. P(Xor(p, q)) = Xor(P(p), P(q))
    BY DEF Xor
  <1> HIDE DEF P
  <1>3. Xor(Xor(p, q), Xor(P(p), P(q))) = Xor(Xor(p, P(p)), Xor(q, P(q)))
    BY DEF Xor
  <1> QED BY <1>1, <1>2, <1>3

(* before the coefficients below x^(m + 32) are divided, the difference of *)
(* the two divisions is still the damage, all of it below, or has a lowest *)
(* coefficient that will be left                                           *)
Visible(diff, damage, m) ==
  \/ diff = damage /\ \A x \in damage : x < m + 32
  \/ \E l \in diff : l >= m /\ \A x \in diff : l <= x

Narrow(damage) == \A x, y \in damage : x - y < 32

LEMMA StillVisible ==
  ASSUME NEW diff \in SUBSET Int, NEW damage \in SUBSET Int, NEW d \in Nat,
         Narrow(damage), Visible(diff, damage, d + 1)
  PROVE  Visible(Reduce(diff, d), damage, d)
  <1> DEFINE g == Shift(Generator, d)
  <1>1. g \in SUBSET (d .. d + 32) /\ d \in g
    BY GeneratorShift
  <1>2. d + 32 \in diff => Reduce(diff, d) = Xor(diff, g)
    BY ReduceIs
  <1>3. d + 32 \notin diff => Reduce(diff, d) = diff
    BY ReduceIs
  <1> HIDE DEF g
  <1>4. ASSUME d + 32 \in diff, \A x \in diff : x > d
        PROVE  \E l \in Reduce(diff, d) : l >= d /\ \A x \in Reduce(diff, d) : l <= x
    <2>1. d \notin diff
      BY <1>4
    <2>2. d \in Xor(diff, g)
      BY <1>1, <2>1, XorMember
    <2>3. \A x \in Xor(diff, g) : x \in diff \/ x \in g
      BY XorMember
    <2>4. ASSUME NEW x \in Xor(diff, g) PROVE d <= x
      <3>1. CASE x \in diff
        <4>1. x > d /\ x \in Int
          BY <1>4, <3>1
        <4> QED BY <4>1
      <3>2. CASE x \in g
        <4>1. x \in d .. d + 32
          BY <1>1, <3>2
        <4> QED BY <4>1
      <3> QED BY <2>3, <3>1, <3>2
    <2> QED BY <1>2, <1>4, <2>2, <2>4
  <1>5. CASE diff = damage /\ \A x \in damage : x < d + 1 + 32
    <2>1. CASE d + 32 \in diff
      <3>1. \A x \in diff : x > d
        BY <1>5, <2>1 DEF Narrow
      <3> QED BY <1>4, <2>1, <3>1 DEF Visible
    <2>2. CASE d + 32 \notin diff
      <3>1. \A x \in damage : x < d + 32
        BY <1>5, <2>2
      <3> QED BY <1>3, <1>5, <2>2, <3>1 DEF Visible
    <2> QED BY <2>1, <2>2
  <1>6. ASSUME NEW l \in diff, l >= d + 1, \A x \in diff : l <= x
        PROVE  Visible(Reduce(diff, d), damage, d)
    <2>1. \A x \in diff : x > d
      BY <1>6
    <2>2. CASE d + 32 \in diff
      BY <1>4, <2>1, <2>2 DEF Visible
    <2>3. CASE d + 32 \notin diff
      <3>1. l >= d
        BY <1>6
      <3> QED BY <1>3, <1>6, <2>3, <3>1 DEF Visible
    <2> QED BY <2>2, <2>3
  <1> QED BY <1>5, <1>6 DEF Visible

(* Two bodies of one length whose bits differ, but only within 32 of each  *)
(* other, have different remainders.                                       *)
LEMMA NarrowDamageShows ==
  ASSUME NEW u \in Seq(Byte), NEW v \in Seq(Byte), Len(u) = Len(v),
         Narrow(Xor(BitsOf(u), BitsOf(v))), BitsOf(u) # BitsOf(v)
  PROVE  Remainder(u) # Remainder(v)
  <1> DEFINE n == 8 * Len(u)
             damage == Xor(BitsOf(u), BitsOf(v))
  <1>1. n \in Nat /\ n = 8 * Len(v)
    OBVIOUS
  <1>2. PICK r : Steps(r, u)
    BY RemainderSteps
  <1>3. PICK t : Steps(t, v)
    BY RemainderSteps
  <1> DEFINE Diff(k) == Xor(r[k], t[k])
             S == {k \in 0 .. n : Visible(Diff(k), damage, n - k)}
  <1>4. damage \in SUBSET (32 .. n + 31)
    BY BitsOfMember, XorType
  <1>5. damage \in SUBSET Int
    BY <1>1, <1>4
  <1>6. damage # {}
    <2>1. \A a, b : Xor(a, b) = {} => a = b
      BY DEF Xor
    <2> QED BY <2>1
  <1>7. \A k \in 0 .. n : r[k] \in SUBSET Int /\ t[k] \in SUBSET Int
    BY <1>1, <1>2, <1>3, RemainderDegree
  <1>8. \A k \in 0 .. n : Diff(k) \in SUBSET Int
    BY <1>7, XorType
  <1>9. /\ r[0] = Dividend(u) /\ t[0] = Dividend(v)
        /\ Remainder(u) = r[n] /\ Remainder(v) = t[n]
    BY <1>1, <1>2, <1>3 DEF Steps
  <1>10. \A k \in 1 .. n : /\ r[k] = Reduce(r[k - 1], n - k)
                           /\ t[k] = Reduce(t[k - 1], n - k)
    BY <1>1, <1>2, <1>3 DEF Steps
  <1>11. Diff(0) = damage
    <2> DEFINE c == Shift(Ones, n)
    <2>1. Dividend(u) = Xor(BitsOf(u), c) /\ Dividend(v) = Xor(BitsOf(v), c)
      BY DividendIs
    <2> HIDE DEF c
    <2>2. \A a, b : Xor(Xor(a, c), Xor(b, c)) = Xor(a, b)
      BY DEF Xor
    <2> QED BY <1>9, <2>1, <2>2
  <1> HIDE DEF n
  <1>12. 0 \in S
    <2>1. \A x \in damage : x < n - 0 + 32
      BY <1>1, <1>4
    <2>2. Visible(Diff(0), damage, n - 0)
      BY <1>11, <2>1 DEF Visible
    <2> QED BY <1>1, <2>2
  <1>13. ASSUME NEW k \in S, k \in 0 .. n - 1 PROVE k + 1 \in S
    <2> DEFINE d == n - (k + 1)
    <2>1. /\ k + 1 \in 1 .. n /\ (k + 1) - 1 = k /\ k \in 0 .. n /\ k + 1 \in 0 .. n
          /\ d \in Nat /\ n - k = d + 1
      BY <1>1, <1>13
    <2>2. Diff(k + 1) = Xor(Reduce(r[k], d), Reduce(t[k], d))
      BY <1>10, <2>1
    <2>3. Diff(k) \in SUBSET Int
      BY <1>8, <2>1
    <2>4. Visible(Diff(k), damage, d + 1)
      BY <2>1
    <2> HIDE DEF d, S
    <2>5. Diff(k + 1) = Reduce(Diff(k), d)
      BY <2>1, <2>2, ReduceLinear
    <2> HIDE DEF Diff, damage
    <2>6. Narrow(damage)
      BY DEF damage
    <2>7. Visible(Reduce(Diff(k), d), damage, d)
      BY <1>5, <2>1, <2>3, <2>4, <2>6, StillVisible
    <2>8. Visible(Diff(k + 1), damage, n - (k + 1))
      BY <2>5, <2>7 DEF d
    <2> QED BY <2>1, <2>8 DEF S
  <1>14. 0 .. n \subseteq S
    <2> HIDE DEF S
    <2> QED BY <1>1, <1>12, <1>13, Upwards
  <1>15. Visible(Diff(n), damage, 0)
    <2>1. n \in 0 .. n /\ n - n = 0
      BY <1>1
    <2>2. n \in S
      BY <1>14, <2>1
    <2>3. Visible(Diff(n), damage, n - n)
      BY <2>2
    <2> QED BY <2>1, <2>3
  <1>16. Diff(n) # {}
    <2>1. \A x \in damage : x >= 32
      BY <1>1, <1>4
    <2>2. PICK x \in damage : TRUE
      BY <1>6
    <2> HIDE DEF damage, Diff
    <2>3. ~(x < 0 + 32)
      BY <2>1, <1>5
    <2> QED BY <1>15, <2>3 DEF Visible
  <1>17. Xor(r[n], t[n]) # {}
    BY <1>16
  <1>18. Xor(r[n], r[n]) = {}
    BY XorAlgebra
  <1> HIDE DEF Diff
  <1> QED BY <1>9, <1>17, <1>18

(* the bits that changed are the damage, counted from the other end *)
LEMMA ChangedIsDamage ==
  ASSUME TypeOK
  PROVE  LET damage == Xor(BitsOf(sent), BitsOf(got))
         IN /\ \A x \in damage : 39 + 8 * Len(sent) - x \in Changed
            /\ Changed # {} => damage # {}
  <1> DEFINE n == Len(sent)
             damage == Xor(BitsOf(sent), BitsOf(got))
  <1>1. /\ sent \in Seq(Byte) /\ got \in Seq(Byte) /\ n \in Nat /\ n = Len(got)
        /\ DOMAIN sent = 1 .. n
    BY DEF TypeOK
  <1>2. \A i \in 1 .. n : sent[i] \in SUBSET (0 .. 7) /\ got[i] \in SUBSET (0 .. 7)
    <2>1. \A i \in 1 .. n : sent[i] \in Byte /\ got[i] \in Byte
      BY <1>1
    <2> QED BY <2>1, OnesIs DEF Byte
  <1>3. \A c : c \in Changed <=>
          \E i \in 1 .. n : \E b \in Xor(sent[i], got[i]) : c = 8 * i + b
    <2>1. \A c : c \in Changed <=>
            \E i \in DOMAIN sent : \E b \in Xor(sent[i], got[i]) : c = 8 * i + b
      BY DEF Changed
    <2> HIDE DEF n
    <2> QED BY <1>1, <2>1
  <1> HIDE DEF n
  <1>4. \A i, b : /\ Place(sent, i, b) = 32 + 8 * (n - i) + 7 - b
                 /\ Place(got, i, b) = Place(sent, i, b)
    BY <1>1 DEF Place, n
  <1>5. /\ \A x : x \in BitsOf(sent) <=>
               \E i \in 1 .. n : \E b \in sent[i] : x = Place(sent, i, b)
        /\ \A x : x \in BitsOf(got) <=>
               \E i \in 1 .. n : \E b \in got[i] : x = Place(sent, i, b)
    BY <1>1, <1>4, BitsOfMember DEF n
  <1>6. ASSUME NEW x \in damage PROVE 39 + 8 * n - x \in Changed
    <2>1. PICK i \in 1 .. n, b \in 0 .. 7 :
            x = Place(sent, i, b) /\ (b \in sent[i] <=> b \notin got[i])
      <3>1. x \in BitsOf(sent) <=> x \notin BitsOf(got)
        BY XorMember
      <3>2. CASE x \in BitsOf(sent)
        <4>1. PICK i \in 1 .. n : \E b \in sent[i] : x = Place(sent, i, b)
          BY <1>5, <3>2
        <4>2. PICK b \in sent[i] : x = Place(sent, i, b)
          BY <4>1
        <4>3. b \notin got[i]
          BY <1>5, <3>1, <3>2, <4>2
        <4> QED BY <1>2, <4>2, <4>3
      <3>3. CASE x \in BitsOf(got)
        <4>1. PICK i \in 1 .. n : \E b \in got[i] : x = Place(sent, i, b)
          BY <1>5, <3>3
        <4>2. PICK b \in got[i] : x = Place(sent, i, b)
          BY <4>1
        <4>3. b \notin sent[i]
          BY <1>5, <3>1, <3>3, <4>2
        <4> QED BY <1>2, <4>2, <4>3
      <3> QED BY <3>1, <3>2, <3>3
    <2>2. b \in Xor(sent[i], got[i])
      BY <2>1, XorMember
    <2>3. 39 + 8 * n - x = 8 * i + b
      BY <1>1, <1>4, <2>1
    <2> QED BY <1>3, <2>2, <2>3
  <1>7. ASSUME Changed # {} PROVE damage # {}
    <2>1. PICK i \in 1 .. n : Xor(sent[i], got[i]) # {}
      BY <1>3, <1>7
    <2>2. PICK b \in Xor(sent[i], got[i]) : TRUE
      BY <2>1
    <2>3. b \in 0 .. 7 /\ (b \in sent[i] <=> b \notin got[i])
      BY <1>2, <2>2, XorMember
    <2> DEFINE x == Place(sent, i, b)
    <2>4. ASSUME NEW j \in 1 .. n, NEW c \in 0 .. 7, x = Place(sent, j, c)
          PROVE  j = i /\ c = b
      <3>1. 32 + 8 * (n - i) + 7 - b = 32 + 8 * (n - j) + 7 - c
        BY <1>4, <2>4
      <3> QED BY <1>1, <2>3, <3>1
    <2>5. x \in BitsOf(sent) <=> b \in sent[i]
      BY <1>2, <1>5, <2>4
    <2>6. x \in BitsOf(got) <=> b \in got[i]
      BY <1>2, <1>5, <2>4
    <2>7. x \in damage
      BY <2>3, <2>5, <2>6, XorMember
    <2> QED BY <2>7
  <1> QED BY <1>6, <1>7 DEF n

(* The server accepts every body that arrives as it was sent, the empty    *)
(* one too, and none whose changed bits lie within 32 of each other.       *)
THEOREM IntactAcceptedBurstDropped == Spec => []OnlyIntactAccepted
<1>1. IInv => OnlyIntactAccepted
  <2> SUFFICES ASSUME IInv PROVE OnlyIntactAccepted
    OBVIOUS
  <2>1. /\ sent \in Seq(Byte) /\ got \in Seq(Byte) /\ Len(sent) = Len(got)
        /\ crcSent = Flip(Remainder(sent)) /\ crcGot = Flip(Remainder(got)) /\ TypeOK
    BY DEF IInv, TypeOK, Follows
  <2>2. ASSUME got = sent PROVE Accepted
    <3>1. Header = Result(crcGot)
      BY <2>1, <2>2 DEF Header
    <3>2. ASSUME got = <<>> PROVE Header = {}
      <4>1. crcSent = Ones
        BY <2>1, <2>2, <3>2, FlipOnes, RemainderStart
      <4> QED BY <4>1, XorAlgebra DEF Header, Result
    <3> QED BY <3>1, <3>2 DEF Accepted
  <2>3. ASSUME Burst PROVE ~Accepted
    <3> DEFINE damage == Xor(BitsOf(sent), BitsOf(got))
               n == Len(sent)
    <3>1. damage # {} /\ \A x \in damage : 39 + 8 * n - x \in Changed
      BY <2>1, <2>3, ChangedIsDamage DEF Burst
    <3>2. damage \in SUBSET Int /\ n \in Nat
      BY <2>1, BitsOfMember, XorType
    <3>3. Narrow(damage)
      <4> SUFFICES ASSUME NEW x \in damage, NEW y \in damage PROVE x - y < 32
        BY DEF Narrow
      <4>1. (39 + 8 * n - y) - (39 + 8 * n - x) < 32
        BY <2>3, <3>1 DEF Burst
      <4>2. x \in Int /\ y \in Int
        BY <3>2
      <4> HIDE DEF damage, n
      <4> QED BY <3>2, <4>1, <4>2
    <3>4. BitsOf(sent) # BitsOf(got)
      BY <3>1, XorAlgebra
    <3>5. Remainder(sent) # Remainder(got)
      BY <2>1, <3>3, <3>4, NarrowDamageShows
    <3>6. crcSent # crcGot
      <4>1. Remainder(sent) \in SUBSET Int /\ Remainder(got) \in SUBSET Int
        BY <2>1, RemainderType, OnesInt
      <4> QED BY <2>1, <3>5, <4>1, FlipFlip
    <3>7. Header # Result(crcGot)
      <4>1. Xor(Xor(crcSent, Ones), Ones) = crcSent
        BY XorAlgebra
      <4>2. Xor(Xor(crcGot, Ones), Ones) = crcGot
        BY XorAlgebra
      <4> QED BY <3>6, <4>1, <4>2 DEF Header, Result
    <3>8. got # <<>>
      <4>1. ASSUME got = <<>> PROVE FALSE
        <5>1. sent = got
          BY <2>1, <4>1
        <5> QED BY <3>4, <5>1
      <4> QED BY <4>1
    <3> QED BY <3>7, <3>8 DEF Accepted
  <2> QED BY <2>2, <2>3 DEF OnlyIntactAccepted
<1> QED BY <1>1, RegisterHoldsRemainder, PTL
=============================================================================
