--------------------------- MODULE FramingProofs ----------------------------
(***************************************************************************)
(* Proofs about Codec and Framing, for bytes of any size, length fields of *)
(* any width, any limits that fit into them and any messages.              *)
(***************************************************************************)
EXTENDS Framing, WellFoundedInduction, TLAPS

-----------------------------------------------------------------------------
(* Induction and recursion *)

\* A set of numbers that is not empty has a least one.
LEMMA Least ==
  ASSUME NEW T, T \subseteq Nat, T # {}
  PROVE  \E x \in T : \A y \in T : x <= y
<1> DEFINE Less == OpToRel(<, Nat)
<1>1. IsWellFoundedOn(Less, Nat) BY NatLessThanWellFounded, Zenon
<1>2. Less = {ss \in Nat \X Nat : ss[1] < ss[2]} BY Zenon DEF OpToRel
<1> HIDE DEF Less
<1>3. PICK x \in T : \A y \in T : ~ (<<y, x>> \in Less) BY <1>1, WFMin, Zenon
<1>4. ASSUME NEW y \in T PROVE x <= y
  <2>1. x \in Nat /\ y \in Nat OBVIOUS
  <2>2. y < x => <<y, x>> \in Less BY <1>2, <2>1, SMT
  <2>3. ~ (y < x) BY <1>3, <2>2, Zenon
  <2> QED BY <2>1, <2>3
<1> QED BY <1>4

\* Induction over the positions of a sequence.
LEMMA UpTo ==
  ASSUME NEW k \in Nat, NEW T, 0 \in T, \A i \in Nat : i < k /\ i \in T => i + 1 \in T
  PROVE  \A i \in 0..k : i \in T
<1> SUFFICES ASSUME {i \in 0..k : i \notin T} # {} PROVE FALSE OBVIOUS
<1>1. PICK x \in {i \in 0..k : i \notin T} : \A y \in {i \in 0..k : i \notin T} : x <= y
  <2>1. {i \in 0..k : i \notin T} \subseteq Nat OBVIOUS
  <2> QED BY <2>1, Least, Zenon
<1>2. x # 0 /\ x - 1 \in Nat /\ x - 1 < k /\ x - 1 \in 0..k /\ (x - 1) + 1 = x BY <1>1
<1>3. x - 1 \in T BY <1>1, <1>2
<1> QED BY <1>1, <1>2, <1>3

\* The functions on 0..k that are computed step by step.
Computed(D, b, step, k) ==
  {f \in [0..k -> D] : f[0] = b /\ \A i \in 1..k : f[i] = step[<<f[i - 1], i>>]}

\* There is one for any step.
LEMMA Recursion ==
  ASSUME NEW D, NEW b \in D, NEW step \in [D \X Nat -> D], NEW k \in Nat
  PROVE  \E f : f \in Computed(D, b, step, k)
<1> DEFINE Is(f, n) == f[0] = b /\ \A i \in 1..n : f[i] = step[<<f[i - 1], i>>]
           T == {n \in Nat : \E f \in [0..n -> D] : Is(f, n)}
<1>1. 0 \in T
  <2> DEFINE f == [i \in 0..0 |-> b]
  <2>1. f \in [0..0 -> D] /\ Is(f, 0) OBVIOUS
  <2> HIDE DEF f, Is
  <2> QED BY <2>1
<1>2. ASSUME NEW n \in Nat, n \in T PROVE n + 1 \in T
  <2>1. PICK f \in [0..n -> D] : Is(f, n) BY <1>2
  <2> DEFINE g == [i \in 0..n + 1 |-> IF i = n + 1 THEN step[<<f[n], n + 1>>] ELSE f[i]]
  <2>2. \A i \in 0..n : i \in 0..n + 1 /\ i # n + 1 OBVIOUS
  <2>3. \A i \in 0..n + 1 : i = n + 1 \/ i \in 0..n OBVIOUS
  <2>4. step[<<f[n], n + 1>>] \in D OBVIOUS
  <2>5. g \in [0..n + 1 -> D] BY <2>3, <2>4
  <2>6. g[n + 1] = step[<<f[n], n + 1>>] /\ \A i \in 0..n : g[i] = f[i] BY <2>2
  <2> HIDE DEF g
  <2>7. g[0] = b BY <2>1, <2>6
  <2>8. ASSUME NEW i \in 1..n + 1 PROVE g[i] = step[<<g[i - 1], i>>]
    <3>1. CASE i = n + 1
      <4>1. i - 1 = n /\ n \in 0..n BY <3>1
      <4> QED BY <2>6, <3>1, <4>1, Zenon
    <3>2. CASE i # n + 1
      <4>1. i \in 1..n /\ i \in 0..n /\ i - 1 \in 0..n BY <3>2
      <4> QED BY <2>1, <2>6, <4>1
    <3> QED BY <3>1, <3>2
  <2>9. Is(g, n + 1) BY <2>7, <2>8
  <2> HIDE DEF Is
  <2> QED BY <2>5, <2>9
<1>3. \A i \in 0..k : i \in T
  <2> HIDE DEF T
  <2> QED BY <1>1, <1>2, UpTo
<1> QED BY <1>3 DEF Computed

-----------------------------------------------------------------------------
(* Numbers and bytes *)

\* What a shift by one byte and the lowest byte make of a number.
LEMMA Division ==
  ASSUME NEW x \in Nat, NEW b \in Nat, b > 0
  PROVE  /\ x = b * (x \div b) + (x % b)
         /\ x % b \in 0..b - 1 /\ x \div b \in Nat
BY SMTT(20)

\* A byte more and a byte less.
LEMMA Shift ==
  ASSUME NEW x \in Nat, NEW b \in Byte
  PROVE  x * Base + b \in Nat /\ (x * Base + b) \div Base = x /\ (x * Base + b) % Base = b
BY CodecConstants, SMTT(20) DEF Byte

\* A smaller number stays smaller when it is shifted.
LEMMA ShiftMonotone ==
  ASSUME NEW x \in Nat, NEW y \in Nat, x <= y
  PROVE  x \div Base <= y \div Base
BY CodecConstants, SMTT(20)

\* The loop of PutUint32 and PutUint16: s[i] is the number without its last i
\* bytes.
LEMMA PutUintLoop ==
  ASSUME NEW n \in Nat, NEW w \in Nat
  PROVE  \E s \in [0..w -> Nat] :
           /\ s[0] = n /\ \A i \in 1..w : s[i] = s[i - 1] \div Base
           /\ PutUint(n, w) = [i \in 1..w |-> s[w - i] % Base]
<1> DEFINE Is(s) == s = [i \in 0..w |-> IF i = 0 THEN n ELSE s[i - 1] \div Base]
           step == [x \in Nat \X Nat |-> x[1] \div Base]
           shifted == CHOOSE s : Is(s)
<1>0. \A x \in Nat : x \div Base \in Nat BY CodecConstants, Division
<1>1. step \in [Nat \X Nat -> Nat] BY <1>0
<1>2. \A x \in Nat, i \in Nat : step[<<x, i>>] = x \div Base OBVIOUS
<1> HIDE DEF step
<1>3. PICK f \in [0..w -> Nat] : f[0] = n /\ \A i \in 1..w : f[i] = step[<<f[i - 1], i>>]
  <2>1. \E f : f \in Computed(Nat, n, step, w) BY <1>1, Recursion, Zenon
  <2> QED BY <2>1 DEF Computed
<1>4. ASSUME NEW i \in 1..w PROVE f[i] = f[i - 1] \div Base
  <2>1. i - 1 \in 0..w /\ i \in Nat OBVIOUS
  <2> QED BY <1>2, <1>3, <2>1, Zenon
<1>5. Is(f)
  <2>1. \A i \in 0..w : i = 0 \/ i \in 1..w OBVIOUS
  <2>2. \A i \in 0..w : f[i] = IF i = 0 THEN n ELSE f[i - 1] \div Base
    BY <1>3, <1>4, <2>1
  <2> QED BY <2>2
<1>6. Is(shifted)
  <2> HIDE DEF Is
  <2> QED BY <1>5
<1>7. PutUint(n, w) = [i \in 1..w |-> shifted[w - i] % Base] BY Zenon DEF PutUint
<1> HIDE DEF shifted
<1>8. /\ shifted[0] = n
      /\ \A i \in 1..w : shifted[i] = shifted[i - 1] \div Base
      /\ DOMAIN shifted = 0..w
  <2>1. \A i \in 1..w : i \in 0..w /\ i # 0 OBVIOUS
  <2>2. 0 \in 0..w OBVIOUS
  <2> QED BY <1>6, <2>1, <2>2, Zenon
<1>9. \A i \in 0..w : shifted[i] \in Nat
  <2> DEFINE T == {i \in Nat : i <= w => shifted[i] \in Nat}
  <2>1. 0 \in T BY <1>8
  <2>2. ASSUME NEW i \in Nat, i < w, i \in T PROVE i + 1 \in T
    <3>1. i + 1 \in 1..w /\ (i + 1) - 1 = i BY <2>2
    <3>2. shifted[i] \in Nat BY <2>2
    <3>3. shifted[i + 1] = shifted[i] \div Base BY <1>8, <3>1
    <3>4. shifted[i + 1] \in Nat BY <1>0, <3>2, <3>3, Zenon
    <3> QED BY <3>4
  <2>3. \A i \in 0..w : i \in T
    <3> HIDE DEF T
    <3> QED BY <2>1, <2>2, UpTo, Zenon
  <2> QED BY <2>3
<1>10. shifted \in [0..w -> Nat] 
  <2>1. shifted = [i \in 0..w |-> shifted[i]] BY <1>6
  <2> QED BY <1>9, <2>1
<1> QED BY <1>7, <1>8, <1>10, Zenon

\* The loop of Uint32 and Uint16: v[i] is the number of the first i bytes.
LEMMA UintLoop ==
  ASSUME NEW bytes \in Seq(Byte)
  PROVE  \E v \in [0..Len(bytes) -> Nat] :
           /\ v[0] = 0 /\ \A i \in 1..Len(bytes) : v[i] = v[i - 1] * Base + bytes[i]
           /\ Uint(bytes) = v[Len(bytes)]
<1> DEFINE w == Len(bytes)
           Is(v) == v = [i \in 0..w |-> IF i = 0 THEN 0 ELSE v[i - 1] * Base + bytes[i]]
           at == [i \in Nat |-> IF i \in 1..w THEN bytes[i] ELSE 0]
           step == [x \in Nat \X Nat |-> x[1] * Base + at[x[2]]]
           value == CHOOSE v : Is(v)
<1>w. w \in Nat OBVIOUS
<1>a. \A i \in 1..w : bytes[i] \in Byte OBVIOUS
<1>b. 0 \in Byte BY CodecConstants DEF Byte
<1>0. \A x \in Nat, b \in Byte : x * Base + b \in Nat BY Shift
<1>c. \A i \in Nat : at[i] \in Byte BY <1>a, <1>b
<1>1. step \in [Nat \X Nat -> Nat]
  <2> HIDE DEF at
  <2> QED BY <1>0, <1>c
<1>2. \A x \in Nat, i \in 1..w : step[<<x, i>>] = x * Base + bytes[i]
  <2>1. \A i \in 1..w : i \in Nat /\ at[i] = bytes[i] OBVIOUS
  <2> HIDE DEF at
  <2> QED BY <2>1
<1>d. Uint(bytes) = value[w] BY Zenon DEF Uint
<1> HIDE DEF step, w
<1>3. PICK f \in [0..w -> Nat] : f[0] = 0 /\ \A i \in 1..w : f[i] = step[<<f[i - 1], i>>]
  <2>1. \E f : f \in Computed(Nat, 0, step, w) BY <1>1, <1>w, Recursion, Zenon
  <2> QED BY <2>1, Zenon DEF Computed
<1>4. ASSUME NEW i \in 1..w PROVE f[i] = f[i - 1] * Base + bytes[i]
  <2>1. i - 1 \in 0..w BY <1>w
  <2> QED BY <1>2, <1>3, <2>1, Zenon
<1>5. Is(f)
  <2>1. \A i \in 0..w : i = 0 \/ i \in 1..w BY <1>w
  <2>2. \A i \in 0..w : f[i] = IF i = 0 THEN 0 ELSE f[i - 1] * Base + bytes[i]
    BY <1>3, <1>4, <2>1
  <2> QED BY <2>2
<1>6. Is(value)
  <2> HIDE DEF Is
  <2> QED BY <1>5
<1> HIDE DEF value
<1>7. /\ value[0] = 0
      /\ \A i \in 1..w : value[i] = value[i - 1] * Base + bytes[i]
  <2>1. \A i \in 1..w : i \in 0..w /\ i # 0 BY <1>w
  <2>2. 0 \in 0..w BY <1>w
  <2> QED BY <1>6, <2>1, <2>2, Zenon
<1>8. \A i \in 0..w : value[i] \in Nat
  <2> DEFINE T == {i \in Nat : i <= w => value[i] \in Nat}
  <2>1. 0 \in T BY <1>7
  <2>2. ASSUME NEW i \in Nat, i < w, i \in T PROVE i + 1 \in T
    <3>1. i + 1 \in 1..w /\ (i + 1) - 1 = i BY <1>w, <2>2
    <3>2. value[i] \in Nat BY <1>w, <2>2
    <3>3. value[i + 1] = value[i] * Base + bytes[i + 1] BY <1>7, <3>1
    <3>4. bytes[i + 1] \in Byte BY <1>a, <3>1
    <3>5. value[i + 1] \in Nat BY <1>0, <3>2, <3>3, <3>4, Zenon
    <3> QED BY <3>5
  <2>3. \A i \in 0..w : i \in T
    <3> HIDE DEF T
    <3> QED BY <1>w, <2>1, <2>2, UpTo, Zenon
  <2> QED BY <1>w, <2>3
<1>9. value \in [0..w -> Nat]
  <2>1. value = [i \in 0..w |-> value[i]] BY <1>6
  <2> QED BY <1>8, <2>1
<1> QED BY <1>7, <1>9, <1>d DEF w

\* PutUint writes width bytes, and Uint reads a number.
LEMMA PutUintType ==
  ASSUME NEW n \in Nat, NEW w \in Nat
  PROVE  PutUint(n, w) \in Seq(Byte) /\ Len(PutUint(n, w)) = w
<1>1. PICK s \in [0..w -> Nat] :
        /\ s[0] = n /\ \A i \in 1..w : s[i] = s[i - 1] \div Base
        /\ PutUint(n, w) = [i \in 1..w |-> s[w - i] % Base]
  BY PutUintLoop, Zenon
<1>2. ASSUME NEW i \in 1..w PROVE s[w - i] % Base \in Byte
  <2>1. w - i \in 0..w OBVIOUS
  <2>2. s[w - i] \in Nat BY <2>1
  <2> QED BY <2>2, Division, CodecConstants DEF Byte
<1> QED BY <1>1, <1>2

\* Uint reads a number.
LEMMA UintType == ASSUME NEW bytes \in Seq(Byte) PROVE Uint(bytes) \in Nat
BY UintLoop

\* A number read from bytes is written as those bytes.
LEMMA PutUintOfUint ==
  ASSUME NEW bytes \in Seq(Byte) PROVE PutUint(Uint(bytes), Len(bytes)) = bytes
<1> DEFINE w == Len(bytes)
<1>0. w \in Nat /\ Uint(bytes) \in Nat BY UintType
<1>1. PICK v \in [0..w -> Nat] :
        /\ v[0] = 0
        /\ \A i \in 1..w : v[i] = v[i - 1] * Base + bytes[i]
        /\ Uint(bytes) = v[w]
  BY UintLoop
<1>a. \A i \in 1..w : bytes[i] \in Byte OBVIOUS
<1>b. bytes = [i \in 1..w |-> bytes[i]] OBVIOUS
<1>2. PICK s \in [0..w -> Nat] :
        /\ s[0] = Uint(bytes) /\ \A i \in 1..w : s[i] = s[i - 1] \div Base
        /\ PutUint(Uint(bytes), w) = [i \in 1..w |-> s[w - i] % Base]
  BY <1>0, PutUintLoop, Zenon
<1> HIDE DEF w
<1>3. \A i \in 1..w : v[i] \div Base = v[i - 1] /\ v[i] % Base = bytes[i]
  <2> SUFFICES ASSUME NEW i \in 1..w
               PROVE v[i] \div Base = v[i - 1] /\ v[i] % Base = bytes[i]
    OBVIOUS
  <2>1. v[i - 1] \in Nat BY <1>0
  <2>2. bytes[i] \in Byte BY <1>a
  <2>3. v[i] = v[i - 1] * Base + bytes[i] BY <1>1
  <2>4. /\ (v[i - 1] * Base + bytes[i]) \div Base = v[i - 1]
        /\ (v[i - 1] * Base + bytes[i]) % Base = bytes[i]
    BY <2>1, <2>2, Shift, Zenon
  <2> QED BY <2>3, <2>4, Zenon
<1>4. \A i \in 0..w : s[i] = v[w - i]
  <2> DEFINE T == {i \in Nat : i <= w => s[i] = v[w - i]}
  <2>1. 0 \in T
    <3>1. w - 0 = w BY <1>0
    <3>2. s[0] = v[w - 0] BY <1>1, <1>2, <3>1 DEF w
    <3> QED BY <3>2
  <2>2. ASSUME NEW i \in Nat, i < w, i \in T PROVE i + 1 \in T
    <3>1. /\ i + 1 \in 1..w /\ (i + 1) - 1 = i /\ w - i \in 1..w
          /\ w - (i + 1) = (w - i) - 1 /\ i <= w
      BY <1>0, <2>2
    <3>2. s[i + 1] = v[w - i] \div Base BY <1>2, <2>2, <3>1
    <3>3. s[i + 1] = v[w - (i + 1)] BY <1>3, <3>1, <3>2
    <3> QED BY <3>3
  <2>3. \A i \in 0..w : i \in T
    <3> HIDE DEF T
    <3> QED BY <1>0, <2>1, <2>2, UpTo, Zenon
  <2> QED BY <1>0, <2>3
<1>5. ASSUME NEW i \in 1..w PROVE s[w - i] % Base = bytes[i]
  <2>1. w - i \in 0..w /\ w - (w - i) = i BY <1>0
  <2> QED BY <1>3, <1>4, <2>1
<1> QED BY <1>2, <1>5, <1>b DEF w

\* The same byte after a smaller number makes a smaller number.
LEMMA ByteAfter ==
  ASSUME NEW x \in Nat, NEW q \in Nat, NEW r \in Byte
  PROVE  /\ x = q => x * Base + r = Base * q + r
         /\ x < q => x * Base + r < Base * q + r
<1>1. Base \in Nat /\ Base > 0 /\ r \in Nat BY CodecConstants DEF Byte
<1>2. x * Base = Base * x BY <1>1
<1>3. ASSUME x < q PROVE Base * x < Base * q
  <2>1. PICK d \in Nat : q = x + d /\ d > 0
    <3>1. q - x \in Nat /\ q = x + (q - x) /\ q - x > 0 BY <1>3
    <3> QED BY <3>1
  <2>2. Base * q = Base * x + Base * d BY <1>1, <2>1
  <2>3. Base * d > 0 /\ Base * d \in Nat /\ Base * x \in Nat BY <1>1, <2>1
  <2> QED BY <2>2, <2>3
<1>4. x * Base \in Nat /\ Base * q \in Nat BY <1>1
<1>5. ASSUME x = q PROVE x * Base + r = Base * q + r BY <1>2, <1>5
<1>6. ASSUME x < q PROVE x * Base + r < Base * q + r BY <1>1, <1>2, <1>3, <1>4, <1>6
<1> QED BY <1>5, <1>6

\* Uint reads the number that was written when its bytes fit into the width,
\* and a smaller one when they do not.
LEMMA Fits ==
  ASSUME NEW n \in Nat, NEW w \in Nat, NEW s \in [0..w -> Nat],
         s[0] = n, \A i \in 1..w : s[i] = s[i - 1] \div Base,
         PutUint(n, w) = [i \in 1..w |-> s[w - i] % Base]
  PROVE  /\ s[w] = 0 => Uint(PutUint(n, w)) = n
         /\ s[w] > 0 => Uint(PutUint(n, w)) < n
<1> DEFINE bytes == PutUint(n, w)
<1>0. bytes \in Seq(Byte) /\ Len(bytes) = w BY PutUintType, Zenon
<1>1. PICK v \in [0..w -> Nat] :
        /\ v[0] = 0
        /\ \A i \in 1..w : v[i] = v[i - 1] * Base + bytes[i]
        /\ Uint(bytes) = v[w]
  <2> HIDE DEF bytes
  <2> QED BY <1>0, UintLoop, Zenon
<1>2. \A i \in 1..w : bytes[i] = s[w - i] % Base OBVIOUS
<1> HIDE DEF bytes
<1> DEFINE Good(i) == /\ s[w] = 0 => v[i] = s[w - i]
                      /\ s[w] > 0 => v[i] < s[w - i]
           T == {i \in Nat : i <= w => Good(i)}
<1>3. 0 \in T
  <2>1. w - 0 = w OBVIOUS
  <2>2. Good(0) BY <1>1, <2>1
  <2> QED BY <2>2
<1>4. ASSUME NEW i \in Nat, i < w, i \in T PROVE i + 1 \in T
  <2>1. /\ i + 1 \in 1..w /\ (i + 1) - 1 = i /\ w - i \in 1..w /\ i \in 0..w /\ i <= w
        /\ w - (i + 1) = (w - i) - 1 /\ w - (i + 1) \in 0..w /\ w - i \in 0..w
    BY <1>4
  <2> DEFINE p == s[w - (i + 1)]
             q == s[w - i]
             r == p % Base
             x == v[i]
  <2>2. p \in Nat /\ q \in Nat /\ x \in Nat BY <2>1
  <2>3. q = p \div Base BY <2>1
  <2>4. v[i + 1] = x * Base + r BY <1>1, <1>2, <2>1
  <2>5. Good(i) BY <1>4, <2>1
  <2>6. (s[w] = 0 => x = q) /\ (s[w] > 0 => x < q) BY <2>5
  <2> HIDE DEF p, q, r, x
  <2>7. p = Base * q + r /\ r \in Byte
    BY <2>2, <2>3, Division, CodecConstants DEF Byte, r
  <2>8. /\ s[w] = 0 => v[i + 1] = p
        /\ s[w] > 0 => v[i + 1] < p
    BY <2>2, <2>4, <2>6, <2>7, ByteAfter
  <2>9. Good(i + 1) BY <2>8 DEF p
  <2> QED BY <2>9
<1>5. \A i \in 0..w : i \in T
  <2> HIDE DEF T
  <2> QED BY <1>3, <1>4, UpTo, Zenon
<1>6. Good(w)
  <2>1. w \in 0..w /\ w <= w OBVIOUS
  <2> QED BY <1>5, <2>1
<1>7. w - w = 0 OBVIOUS
<1>8. s[w - w] = n BY <1>7, Zenon
<1>9. Uint(PutUint(n, w)) = v[w] BY <1>1 DEF bytes
<1> QED BY <1>6, <1>8, <1>9

\* A number up to a limit that fits into the width is read as it was written.
LEMMA UintOfPutUint ==
  ASSUME NEW w \in Nat, NEW max \in Nat, Uint(PutUint(max, w)) = max,
         NEW n \in Nat, n <= max
  PROVE  Uint(PutUint(n, w)) = n
<1>1. PICK s \in [0..w -> Nat] :
        /\ s[0] = max /\ \A i \in 1..w : s[i] = s[i - 1] \div Base
        /\ PutUint(max, w) = [i \in 1..w |-> s[w - i] % Base]
  BY PutUintLoop, Zenon
<1>2. PICK t \in [0..w -> Nat] :
        /\ t[0] = n /\ \A i \in 1..w : t[i] = t[i - 1] \div Base
        /\ PutUint(n, w) = [i \in 1..w |-> t[w - i] % Base]
  BY PutUintLoop, Zenon
<1>3. w \in 0..w /\ s[w] \in Nat /\ t[w] \in Nat OBVIOUS
<1>4. ~(s[w] > 0)
  <2>1. s[w] > 0 => Uint(PutUint(max, w)) < max BY <1>1, Fits, Zenon
  <2> QED BY <2>1
<1> DEFINE T == {i \in Nat : i <= w => t[i] <= s[i]}
<1>5. 0 \in T BY <1>1, <1>2
<1>6. ASSUME NEW i \in Nat, i < w, i \in T PROVE i + 1 \in T
  <2>1. i + 1 \in 1..w /\ (i + 1) - 1 = i /\ i \in 0..w /\ i <= w BY <1>6
  <2>2. s[i] \in Nat /\ t[i] \in Nat /\ t[i] <= s[i] BY <1>6, <2>1
  <2>3. t[i] \div Base <= s[i] \div Base BY <2>2, ShiftMonotone
  <2>4. t[i + 1] <= s[i + 1] BY <1>1, <1>2, <2>1, <2>3
  <2> QED BY <2>4
<1>7. \A i \in 0..w : i \in T
  <2> HIDE DEF T
  <2> QED BY <1>5, <1>6, UpTo, Zenon
<1>8. t[w] <= s[w] BY <1>3, <1>7
<1>9. t[w] = 0 BY <1>3, <1>4, <1>8
<1> QED BY <1>2, <1>9, Fits, Zenon

-----------------------------------------------------------------------------
(* Sequences of bytes *)

\* What the built-in operators on sequences do, for the provers.
LEMMA SeqLen ==
  ASSUME NEW S, NEW s \in Seq(S)
  PROVE  Len(s) \in Nat /\ \A i \in 1..Len(s) : s[i] \in S
OBVIOUS

\* Two sequences with the same elements are the same.
LEMMA SeqEq ==
  ASSUME NEW S, NEW s \in Seq(S), NEW t \in Seq(S), Len(s) = Len(t),
         \A i \in 1..Len(s) : s[i] = t[i]
  PROVE  s = t
OBVIOUS

\* A slice.
LEMMA SeqSub ==
  ASSUME NEW S, NEW s \in Seq(S), NEW a \in Nat, NEW b \in Nat, a <= b, b <= Len(s)
  PROVE  /\ SubSeq(s, a + 1, b) \in Seq(S) /\ Len(SubSeq(s, a + 1, b)) = b - a
         /\ \A i \in 1..b - a : SubSeq(s, a + 1, b)[i] = s[a + i]
<1>1. Len(s) \in Nat OBVIOUS
<1>2. \A i \in 1..b - a : a + i \in 1..Len(s) BY <1>1
<1> QED BY <1>1, <1>2

\* Two sequences put together.
LEMMA SeqConcat ==
  ASSUME NEW S, NEW s \in Seq(S), NEW t \in Seq(S)
  PROVE  /\ s \o t \in Seq(S) /\ Len(s \o t) = Len(s) + Len(t)
         /\ \A i \in 1..Len(s) : (s \o t)[i] = s[i]
         /\ \A i \in 1..Len(t) : (s \o t)[Len(s) + i] = t[i]
OBVIOUS

\* One element more.
LEMMA SeqAppend ==
  ASSUME NEW S, NEW s \in Seq(S), NEW e \in S
  PROVE  /\ Append(s, e) \in Seq(S) /\ Len(Append(s, e)) = Len(s) + 1
         /\ \A i \in 1..Len(s) : Append(s, e)[i] = s[i]
         /\ Append(s, e)[Len(s) + 1] = e
OBVIOUS

\* Putting together is associative.
LEMMA ConcatAssoc ==
  ASSUME NEW S, NEW s \in Seq(S), NEW t \in Seq(S), NEW u \in Seq(S)
  PROVE  (s \o t) \o u = s \o (t \o u)
OBVIOUS

\* A slice of two sequences put together that lies within the first.
LEMMA SubFirst ==
  ASSUME NEW S, NEW s \in Seq(S), NEW t \in Seq(S), NEW a \in Nat, NEW b \in Nat,
         a <= b, b <= Len(s)
  PROVE  SubSeq(s \o t, a + 1, b) = SubSeq(s, a + 1, b)
<1>1. Len(s) \in Nat /\ Len(t) \in Nat BY SeqLen
<1>2. s \o t \in Seq(S) /\ b <= Len(s \o t) BY <1>1, SeqConcat
<1> DEFINE x == SubSeq(s \o t, a + 1, b)
           y == SubSeq(s, a + 1, b)
<1>3. x \in Seq(S) /\ Len(x) = b - a /\ \A i \in 1..b - a : x[i] = (s \o t)[a + i]
  BY <1>2, SeqSub
<1>4. y \in Seq(S) /\ Len(y) = b - a /\ \A i \in 1..b - a : y[i] = s[a + i]
  BY SeqSub
<1>5. \A i \in 1..b - a : a + i \in 1..Len(s) BY <1>1
<1>6. \A i \in 1..b - a : (s \o t)[a + i] = s[a + i] BY <1>5, SeqConcat
<1> HIDE DEF x, y
<1>7. x = y BY <1>3, <1>4, <1>6, SeqEq, Zenon
<1> QED BY <1>7 DEF x, y

\* And one that is the second.
LEMMA SubSecond ==
  ASSUME NEW S, NEW s \in Seq(S), NEW t \in Seq(S)
  PROVE  SubSeq(s \o t, Len(s) + 1, Len(s) + Len(t)) = t
<1>1. Len(s) \in Nat /\ Len(t) \in Nat BY SeqLen
<1>2. s \o t \in Seq(S) /\ Len(s \o t) = Len(s) + Len(t) BY SeqConcat
<1> DEFINE x == SubSeq(s \o t, Len(s) + 1, Len(s) + Len(t))
<1>3. /\ x \in Seq(S) /\ Len(x) = Len(t)
      /\ \A i \in 1..Len(t) : x[i] = (s \o t)[Len(s) + i]
  <2>1. Len(s) + Len(t) - Len(s) = Len(t) BY <1>1
  <2>2. Len(s) <= Len(s) + Len(t) /\ Len(s) + Len(t) \in Nat BY <1>1
  <2> QED BY <1>1, <1>2, <2>1, <2>2, SeqSub
<1>4. \A i \in 1..Len(t) : (s \o t)[Len(s) + i] = t[i] BY SeqConcat
<1> HIDE DEF x
<1>5. x = t BY <1>3, <1>4, SeqEq
<1> QED BY <1>5 DEF x

\* Slices that meet.
LEMMA SubJoin ==
  ASSUME NEW S, NEW s \in Seq(S), NEW a \in Nat, NEW b \in Nat, NEW c \in Nat,
         a <= b, b <= c, c <= Len(s)
  PROVE  SubSeq(s, a + 1, b) \o SubSeq(s, b + 1, c) = SubSeq(s, a + 1, c)
<1>0. Len(s) \in Nat BY SeqLen
<1> DEFINE x == SubSeq(s, a + 1, b)
           y == SubSeq(s, b + 1, c)
           z == SubSeq(s, a + 1, c)
<1>1. x \in Seq(S) /\ Len(x) = b - a /\ \A i \in 1..b - a : x[i] = s[a + i]
  BY <1>0, SeqSub
<1>2. y \in Seq(S) /\ Len(y) = c - b /\ \A i \in 1..c - b : y[i] = s[b + i]
  BY SeqSub
<1>3. z \in Seq(S) /\ Len(z) = c - a /\ \A i \in 1..c - a : z[i] = s[a + i]
  BY SeqSub
<1> HIDE DEF x, y, z
<1>4. x \o y \in Seq(S) /\ Len(x \o y) = c - a
  <2>1. x \o y \in Seq(S) /\ Len(x \o y) = Len(x) + Len(y) BY <1>1, <1>2, SeqConcat, Zenon
  <2>2. (b - a) + (c - b) = c - a OBVIOUS
  <2> QED BY <1>1, <1>2, <2>1, <2>2
<1>5. ASSUME NEW i \in 1..c - a PROVE (x \o y)[i] = z[i]
  <2>1. CASE i <= b - a
    <3>1. i \in 1..b - a BY <2>1
    <3> QED BY <1>1, <1>2, <1>3, <3>1, SeqConcat
  <2>2. CASE ~(i <= b - a)
    <3>1. i - (b - a) \in 1..c - b /\ (b - a) + (i - (b - a)) = i
          /\ b + (i - (b - a)) = a + i
      BY <2>2
    <3>2. (x \o y)[(b - a) + (i - (b - a))] = y[i - (b - a)]
      BY <1>1, <1>2, <3>1, SeqConcat
    <3>3. y[i - (b - a)] = s[a + i] BY <1>2, <3>1
    <3> QED BY <1>3, <3>1, <3>2, <3>3, Zenon
  <2> QED BY <2>1, <2>2, Zenon
<1>6. x \o y = z BY <1>3, <1>4, <1>5, SeqEq
<1> QED BY <1>6 DEF x, y, z

\* A slice of a slice.
LEMMA SubSub ==
  ASSUME NEW S, NEW s \in Seq(S), NEW o \in Nat, NEW c \in Nat, o <= c, c <= Len(s),
         NEW a \in Nat, NEW b \in Nat, a <= b, o + b <= c
  PROVE  SubSeq(SubSeq(s, o + 1, c), a + 1, b) = SubSeq(s, o + a + 1, o + b)
<1>0. Len(s) \in Nat /\ o + b <= Len(s) /\ b <= c - o /\ o + a <= o + b
      /\ o + a \in Nat /\ o + b \in Nat /\ (o + b) - (o + a) = b - a
  BY SeqLen
<1> DEFINE x == SubSeq(s, o + 1, c)
           y == SubSeq(x, a + 1, b)
           z == SubSeq(s, o + a + 1, o + b)
<1>1. x \in Seq(S) /\ Len(x) = c - o /\ \A i \in 1..c - o : x[i] = s[o + i]
  BY <1>0, SeqSub
<1>2. z \in Seq(S) /\ Len(z) = b - a /\ \A i \in 1..b - a : z[i] = s[(o + a) + i]
  BY <1>0, SeqSub
<1> HIDE DEF x, z
<1>3. y \in Seq(S) /\ Len(y) = b - a /\ \A i \in 1..b - a : y[i] = x[a + i]
  BY <1>0, <1>1, SeqSub
<1> HIDE DEF y
<1>4. ASSUME NEW i \in 1..b - a PROVE y[i] = z[i]
  <2>1. a + i \in 1..c - o /\ o + (a + i) = (o + a) + i BY <1>0
  <2> QED BY <1>1, <1>2, <1>3, <2>1, Zenon
<1>5. y = z BY <1>2, <1>3, <1>4, SeqEq
<1> QED BY <1>5 DEF x, y, z

-----------------------------------------------------------------------------
(* Messages *)

\* The messages that the library sends and those that a parser returns.
WellFormed == {m \in Message : Accepts(m)}

\* What follows the length.
Joined(c, p, u, y) == <<c>> \o p \o u \o y

Body(m) == Joined(m.cmd, PutUint(Len(m.subject), SubjectBytes), m.subject, m.payload)

\* That z has four parts, the first of one element and the second up to h.
HasParts(z, c, p, u, y, h) ==
  /\ z \in Seq(Byte) /\ Len(z) = h + Len(u) + Len(y) /\ z[1] = c
  /\ SubSeq(z, 2, h) = p
  /\ SubSeq(z, h + 1, h + Len(u)) = u
  /\ SubSeq(z, h + Len(u) + 1, Len(z)) = y

\* That the parts may be written after n one by one.
OneByOne(n, c, p, u, y) == n \o <<c>> \o p \o u \o y = n \o Joined(c, p, u, y)

\* The constants are numbers, and so are the sizes made of them.
LEMMA Sizes ==
  /\ LengthBytes \in Nat /\ SubjectBytes \in Nat /\ BodyHeader \in Nat /\ BodyHeader >= 2
  /\ LengthBytes >= 1 /\ BodyHeader = 1 + SubjectBytes /\ MinPacket = LengthBytes + BodyHeader
  /\ MaxSubjectLen \in Nat /\ MaxBodyLen \in Nat
BY CodecConstants DEF BodyHeader, MinPacket

\* The fields of a message.
LEMMA Fields ==
  ASSUME NEW m \in WellFormed
  PROVE  /\ m.cmd \in Byte /\ m.subject \in Seq(Byte) /\ m.payload \in Seq(Byte)
         /\ Len(m.subject) \in Nat /\ Len(m.payload) \in Nat
         /\ Len(m.subject) <= MaxSubjectLen /\ BodyLen(m) <= MaxBodyLen
         /\ BodyLen(m) = BodyHeader + Len(m.subject) + Len(m.payload) /\ BodyLen(m) \in Nat
         /\ m = [cmd |-> m.cmd, subject |-> m.subject, payload |-> m.payload]
<1>1. m.cmd \in Byte /\ m.subject \in Seq(Byte) /\ m.payload \in Seq(Byte) /\ Accepts(m)
  BY DEF WellFormed, Message
<1>2. m = [cmd |-> m.cmd, subject |-> m.subject, payload |-> m.payload]
  BY DEF WellFormed, Message
<1>3. Len(m.subject) \in Nat /\ Len(m.payload) \in Nat BY <1>1
<1> QED BY <1>1, <1>2, <1>3, Sizes DEF Accepts, BodyLen

\* The parts of four sequences put together, the first of one element.
LEMMA FourParts ==
  ASSUME NEW c \in Byte, NEW p \in Seq(Byte), NEW u \in Seq(Byte), NEW y \in Seq(Byte),
         NEW h \in Nat, h = 1 + Len(p)
  PROVE  HasParts(Joined(c, p, u, y), c, p, u, y, h)
<1> DEFINE z == Joined(c, p, u, y)
<1>0. Len(p) \in Nat /\ Len(u) \in Nat /\ Len(y) \in Nat BY SeqLen
<1> DEFINE a == <<c>>
           q == a \o p
           r == q \o u
<1>1. a \in Seq(Byte) /\ Len(a) = 1 /\ a[1] = c OBVIOUS
<1>a. z = r \o y BY DEF Joined
<1> HIDE DEF a, z
<1>2. q \in Seq(Byte) /\ Len(q) = h /\ q[1] = c /\ SubSeq(q, 2, h) = p
  <2>1. q \in Seq(Byte) /\ Len(q) = h /\ q[1] = c
    <3>1. /\ q \in Seq(Byte) /\ Len(q) = Len(a) + Len(p)
          /\ \A i \in 1..Len(a) : q[i] = a[i]
      BY <1>1, SeqConcat, Zenon
    <3> HIDE DEF q
    <3> QED BY <1>0, <1>1, <3>1
  <2>2. SubSeq(q, Len(a) + 1, Len(a) + Len(p)) = p BY <1>1, SubSecond, Zenon
  <2>3. Len(a) + 1 = 2 /\ Len(a) + Len(p) = h BY <1>0, <1>1
  <2> HIDE DEF q
  <2> QED BY <2>1, <2>2, <2>3, Zenon
<1> HIDE DEF q
<1>3. /\ r \in Seq(Byte) /\ Len(r) = h + Len(u) /\ r[1] = c
      /\ SubSeq(r, 2, h) = p /\ SubSeq(r, h + 1, h + Len(u)) = u
  <2>1. r \in Seq(Byte) /\ Len(r) = h + Len(u)
    <3>1. r \in Seq(Byte) /\ Len(r) = Len(q) + Len(u) BY <1>2, SeqConcat, Zenon
    <3> QED BY <1>2, <3>1
  <2>2. r[1] = c
    <3>1. 1 \in 1..Len(q) BY <1>0, <1>2
    <3> QED BY <1>2, <3>1, SeqConcat
  <2>3. SubSeq(r, 1 + 1, h) = SubSeq(q, 1 + 1, h)
    <3>1. 1 \in Nat /\ 1 <= h /\ h <= Len(q) BY <1>0, <1>2
    <3> QED BY <1>2, <3>1, SubFirst
  <2>4. SubSeq(r, h + 1, h + Len(u)) = u BY <1>2, SubSecond
  <2>5. 1 + 1 = 2 OBVIOUS
  <2> HIDE DEF r
  <2> QED BY <1>2, <2>1, <2>2, <2>3, <2>4, <2>5
<1> HIDE DEF r
<1>4. z \in Seq(Byte) /\ Len(z) = h + Len(u) + Len(y) BY <1>a, <1>3, SeqConcat
<1>5. z[1] = c
  <2>1. 1 \in 1..Len(r) BY <1>0, <1>3
  <2> QED BY <1>a, <1>3, <2>1, SeqConcat
<1>6. SubSeq(z, 1 + 1, h) = SubSeq(r, 1 + 1, h)
  <2>1. 1 \in Nat /\ 1 <= h /\ h <= Len(r) BY <1>0, <1>3
  <2> QED BY <1>a, <1>3, <2>1, SubFirst
<1>7. SubSeq(z, h + 1, h + Len(u)) = SubSeq(r, h + 1, h + Len(u))
  <2>1. h + Len(u) \in Nat /\ h <= h + Len(u) /\ h + Len(u) <= Len(r) BY <1>0, <1>3
  <2> QED BY <1>a, <1>3, <2>1, SubFirst
<1>8. SubSeq(z, Len(r) + 1, Len(r) + Len(y)) = y BY <1>a, <1>3, SubSecond
<1>9. 1 + 1 = 2 OBVIOUS
<1>10. HasParts(z, c, p, u, y, h)
  BY <1>3, <1>4, <1>5, <1>6, <1>7, <1>8, <1>9, Zenon DEF HasParts
<1> QED BY <1>10 DEF z

\* What is put together after a sequence may be put together first.
LEMMA FiveParts ==
  ASSUME NEW n \in Seq(Byte), NEW c \in Byte, NEW p \in Seq(Byte), NEW u \in Seq(Byte),
         NEW y \in Seq(Byte)
  PROVE  OneByOne(n, c, p, u, y)
<1> DEFINE q == <<c>> \o p
<1>1. q \in Seq(Byte) /\ n \o <<c>> \o p = n \o q OBVIOUS
<1> DEFINE t == q \o u
<1>2. Joined(c, p, u, y) = t \o y BY DEF Joined
<1> HIDE DEF q
<1>3. n \o q \o u = n \o t BY <1>1, ConcatAssoc
<1>4. t \in Seq(Byte) BY <1>1, SeqConcat
<1> HIDE DEF t
<1>5. n \o t \o y = n \o (t \o y)
  <2> QED BY <1>4, ConcatAssoc
<1> QED BY <1>1, <1>2, <1>3, <1>5, Zenon DEF OneByOne

\* Encode writes the length and the body, and the body has that length.
LEMMA EncodeIs ==
  ASSUME NEW m \in WellFormed
  PROVE  /\ Encode(m) = PutUint(BodyLen(m), LengthBytes) \o Body(m)
         /\ PutUint(BodyLen(m), LengthBytes) \in Seq(Byte)
         /\ Len(PutUint(BodyLen(m), LengthBytes)) = LengthBytes
         /\ Body(m) \in Seq(Byte) /\ Len(Body(m)) = BodyLen(m)
         /\ Encode(m) \in Seq(Byte) /\ Len(Encode(m)) = LengthBytes + BodyLen(m)
<1> DEFINE n == PutUint(BodyLen(m), LengthBytes)
           cmd == m.cmd
           p == PutUint(Len(m.subject), SubjectBytes)
           u == m.subject
           y == m.payload
<1>1. n \in Seq(Byte) /\ Len(n) = LengthBytes /\ p \in Seq(Byte) /\ Len(p) = SubjectBytes
  BY Fields, Sizes, PutUintType, Zenon
<1>2. /\ cmd \in Byte /\ <<cmd>> \in Seq(Byte) /\ u \in Seq(Byte) /\ y \in Seq(Byte)
      /\ BodyLen(m) = BodyHeader + Len(u) + Len(y)
  BY Fields
<1>3. Encode(m) = n \o <<cmd>> \o p \o u \o y BY DEF Encode
<1>4. Body(m) = Joined(cmd, p, u, y) BY DEF Body
<1>5. BodyHeader = 1 + Len(p) /\ BodyHeader \in Nat BY <1>1, Sizes
<1> HIDE DEF n, cmd, p, u, y
<1>6. Body(m) \in Seq(Byte) /\ Len(Body(m)) = BodyHeader + Len(u) + Len(y)
  <2>1. HasParts(Joined(cmd, p, u, y), cmd, p, u, y, BodyHeader)
    BY <1>1, <1>2, <1>5, FourParts
  <2> QED BY <1>4, <2>1, Zenon DEF HasParts
<1>7. Encode(m) = n \o Body(m)
  <2>1. OneByOne(n, cmd, p, u, y) BY <1>1, <1>2, FiveParts
  <2> QED BY <1>3, <1>4, <2>1, Zenon DEF OneByOne
<1>8. Encode(m) \in Seq(Byte) /\ Len(Encode(m)) = LengthBytes + BodyLen(m)
  <2> DEFINE z == Body(m)
  <2>1. z \in Seq(Byte) /\ Len(z) = BodyLen(m) BY <1>2, <1>6
  <2>2. Encode(m) = n \o z BY <1>7
  <2>3. n \in Seq(Byte) BY <1>1
  <2> HIDE DEF z
  <2>4. n \o z \in Seq(Byte) /\ Len(n \o z) = Len(n) + Len(z) BY <2>1, <2>3
  <2> QED BY <1>1, <2>1, <2>2, <2>4, Zenon
<1> QED BY <1>1, <1>2, <1>6, <1>7, <1>8 DEF n

\* The body of a message is parsed as the message.
LEMMA ParseBodyOf ==
  ASSUME NEW m \in WellFormed
  PROVE  ParseBody(Body(m)) = {m}
<1> DEFINE p == PutUint(Len(m.subject), SubjectBytes)
           z == Body(m)
           cmd == m.cmd
           u == m.subject
           y == m.payload
<1>1. p \in Seq(Byte) /\ Len(p) = SubjectBytes BY Fields, Sizes, PutUintType, Zenon
<1>2. BodyHeader = 1 + Len(p) /\ BodyHeader \in Nat BY <1>1, Sizes
<1>3. z = Joined(cmd, p, u, y) BY DEF Body
<1>4. Uint(p) = Len(u)
  <2>1. Uint(PutUint(MaxSubjectLen, SubjectBytes)) = MaxSubjectLen BY CodecConstants
  <2> QED BY <2>1, Fields, Sizes, UintOfPutUint
<1>5. /\ cmd \in Byte /\ u \in Seq(Byte) /\ y \in Seq(Byte)
      /\ Len(u) \in Nat /\ Len(y) \in Nat /\ Len(u) <= MaxSubjectLen
      /\ m = [cmd |-> cmd, subject |-> u, payload |-> y]
  BY Fields
<1> HIDE DEF p, z, cmd, u, y
<1>6. /\ z \in Seq(Byte) /\ Len(z) = BodyHeader + Len(u) + Len(y)
      /\ z[1] = cmd /\ SubSeq(z, 2, BodyHeader) = p
      /\ SubSeq(z, BodyHeader + 1, BodyHeader + Len(u)) = u
      /\ SubSeq(z, BodyHeader + Len(u) + 1, Len(z)) = y
  <2>1. HasParts(Joined(cmd, p, u, y), cmd, p, u, y, BodyHeader)
    BY <1>1, <1>2, <1>5, FourParts
  <2> QED BY <1>3, <2>1, Zenon DEF HasParts
<1>7. ~(Len(z) < BodyHeader) /\ ValidSubject(Len(u), Len(z))
  BY <1>2, <1>5, <1>6 DEF ValidSubject
<1>8. MessageOf(z, Len(u)) = m BY <1>5, <1>6, Zenon DEF MessageOf
<1>9. ParseBody(z) = {m} BY <1>4, <1>6, <1>7, <1>8, Zenon DEF ParseBody
<1> QED BY <1>9 DEF z

\* Slices that follow each other make up the sequence.
LEMMA Rejoin ==
  ASSUME NEW z \in Seq(Byte), NEW h \in Nat, NEW k \in Nat, 1 <= h, h <= k, k <= Len(z)
  PROVE  Joined(z[1], SubSeq(z, 2, h), SubSeq(z, h + 1, k), SubSeq(z, k + 1, Len(z))) = z
<1> DEFINE n == Len(z)
           a == SubSeq(z, 0 + 1, 1)
           b == SubSeq(z, 1 + 1, h)
           c == SubSeq(z, h + 1, k)
           d == SubSeq(z, k + 1, n)
           ab == SubSeq(z, 0 + 1, h)
           abc == SubSeq(z, 0 + 1, k)
           abcd == SubSeq(z, 0 + 1, n)
<1>0. n \in Nat /\ 1 \in Nat /\ 0 \in Nat /\ 0 <= 1 /\ 0 <= h /\ 0 <= k /\ n <= Len(z)
      /\ 1 <= n /\ h <= n /\ k <= n /\ 0 <= n
  BY SeqLen
<1>1. a \o b = ab
  <2> HIDE DEF n
  <2> QED BY <1>0, SubJoin
<1>2. ab \o c = abc
  <2> HIDE DEF n
  <2> QED BY <1>0, SubJoin
<1>3. abc \o d = abcd
  <2> HIDE DEF n
  <2> QED BY <1>0, SubJoin
<1>4. abcd = z OBVIOUS
<1>5. a = <<z[1]>>
  <2>1. /\ a \in Seq(Byte) /\ Len(a) = 1 /\ \A i \in 1..1 : a[i] = z[0 + i]
    BY <1>0, SeqSub
  <2>2. z[1] \in Byte BY <1>0
  <2>3. a[1] = z[1] BY <2>1
  <2> HIDE DEF a
  <2> QED BY <2>1, <2>2, <2>3
<1>6. b = SubSeq(z, 2, h) OBVIOUS
<1>7. Joined(z[1], b, c, d) = z
  <2> HIDE DEF a, b, c, d, ab, abc, abcd
  <2> QED BY <1>1, <1>2, <1>3, <1>4, <1>5, Zenon DEF Joined
<1> QED BY <1>6, <1>7

\* A body that is parsed is the body of the message that is returned.
LEMMA BodyOfParse ==
  ASSUME NEW z \in Seq(Byte), Len(z) <= MaxBodyLen, NEW m \in ParseBody(z)
  PROVE  m \in WellFormed /\ Body(m) = z /\ BodyLen(m) = Len(z) /\ ParseBody(z) = {m}
<1> DEFINE p == SubSeq(z, 1 + 1, BodyHeader)
           sl == Uint(SubSeq(z, 2, BodyHeader))
           k == BodyHeader + sl
           u == SubSeq(z, BodyHeader + 1, k)
           y == SubSeq(z, k + 1, Len(z))
<1>1. /\ ~(Len(z) < BodyHeader) /\ ValidSubject(sl, Len(z)) /\ m = MessageOf(z, sl)
      /\ ParseBody(z) = {m}
  <2>1. ~(Len(z) < BodyHeader) BY DEF ParseBody, Nothing
  <2>2. ParseBody(z) = IF ValidSubject(sl, Len(z)) THEN {MessageOf(z, sl)} ELSE {}
    BY <2>1 DEF ParseBody, Nothing
  <2> HIDE DEF sl
  <2> QED BY <2>1, <2>2
<1>2. Len(z) \in Nat BY SeqLen
<1>3. BodyHeader \in Nat /\ 1 <= BodyHeader /\ BodyHeader <= Len(z) /\ 1 \in Nat
      /\ BodyHeader - 1 = SubjectBytes
  BY <1>1, <1>2, Sizes
<1>4. p \in Seq(Byte) /\ Len(p) = SubjectBytes BY <1>3, SeqSub
<1>5. p = SubSeq(z, 2, BodyHeader) OBVIOUS
<1>6. sl \in Nat BY <1>4, <1>5, UintType, Zenon
<1>7. PutUint(sl, SubjectBytes) = p BY <1>4, <1>5, PutUintOfUint, Zenon
<1>8. sl <= MaxSubjectLen /\ k <= Len(z) /\ BodyHeader <= k /\ k \in Nat
  BY <1>1, <1>3, <1>6 DEF ValidSubject
<1>9. m = [cmd |-> z[1], subject |-> u, payload |-> y] BY <1>1 DEF MessageOf
<1>10. Joined(z[1], p, u, y) = z
  <2> HIDE DEF sl, k
  <2> QED BY <1>3, <1>8, Rejoin
<1> HIDE DEF p, sl
<1>11. u \in Seq(Byte) /\ Len(u) = sl
  <2>1. k - BodyHeader = sl BY <1>3, <1>6
  <2>2. u \in Seq(Byte) /\ Len(u) = k - BodyHeader
    <3> HIDE DEF k
    <3> QED BY <1>3, <1>8, SeqSub
  <2> QED BY <2>1, <2>2
<1>12. y \in Seq(Byte) /\ Len(y) = Len(z) - k
  <2> HIDE DEF k
  <2> QED BY <1>2, <1>8, SeqSub
<1>13. z[1] \in Byte BY <1>2, <1>3
<1> HIDE DEF u, y
<1>14. BodyHeader + Len(u) + Len(y) = Len(z) BY <1>2, <1>3, <1>6, <1>11, <1>12
<1> HIDE DEF k
<1>15. /\ m.cmd = z[1] /\ m.subject = u /\ m.payload = y /\ m \in Message
  BY <1>9, <1>11, <1>12, <1>13 DEF Message
<1>16. BodyLen(m) = Len(z) BY <1>14, <1>15 DEF BodyLen
<1>17. Accepts(m) BY <1>8, <1>11, <1>15, <1>16 DEF Accepts
<1>18. Body(m) = z BY <1>7, <1>10, <1>11, <1>15 DEF Body
<1> QED BY <1>1, <1>15, <1>16, <1>17, <1>18 DEF WellFormed

-----------------------------------------------------------------------------
(* The messages in a stream of bytes *)

\* The bytes w are in d after the first o bytes.
Holds(d, o, w) == o + Len(w) <= Len(d) /\ SubSeq(d, o + 1, o + Len(w)) = w

\* The length field after the first o bytes, and the body that follows it.
LengthAt(d, o) == Uint(SubSeq(d, o + 1, o + LengthBytes))
BodyAt(d, o) == SubSeq(d, o + LengthBytes + 1, o + LengthBytes + LengthAt(d, o))

\* A message whose encoding is in the bytes is what ParseFromReader makes of
\* them: length, body and message.
LEMMA HoldsParse ==
  ASSUME NEW d \in Seq(Byte), NEW o \in Nat, NEW m \in WellFormed, Holds(d, o, Encode(m))
  PROVE  /\ o + LengthBytes + BodyLen(m) <= Len(d)
         /\ LengthAt(d, o) = BodyLen(m) /\ ValidLength(BodyLen(m))
         /\ BodyAt(d, o) = Body(m) /\ ParseBody(BodyAt(d, o)) = {m}
<1> DEFINE bl == BodyLen(m)
           p == PutUint(bl, LengthBytes)
           z == Body(m)
           e == Encode(m)
           c == o + LengthBytes + bl
<1>1. e = p \o z /\ p \in Seq(Byte) /\ Len(p) = LengthBytes /\ z \in Seq(Byte) /\ Len(z) = bl
      /\ Len(e) = LengthBytes + bl
  BY EncodeIs
<1>2. LengthBytes \in Nat /\ bl \in Nat /\ c \in Nat /\ 1 <= bl /\ bl <= MaxBodyLen
      /\ MaxBodyLen \in Nat
  <2>1. bl \in Nat /\ BodyHeader <= bl /\ bl <= MaxBodyLen BY Fields, Sizes DEF BodyLen, Accepts, WellFormed
  <2> HIDE DEF bl
  <2> QED BY <2>1, Sizes
<1>3. Len(d) \in Nat BY SeqLen
<1>4. c <= Len(d) /\ SubSeq(d, o + 1, c) = e
  <2>1. o + Len(e) = c BY <1>1, <1>2
  <2> QED BY <2>1 DEF Holds
<1>5. Uint(p) = bl BY <1>2, UintOfPutUint, CodecConstants
<1>6. p = SubSeq(d, o + 1, o + LengthBytes)
  <2> HIDE DEF p, z, e, bl
  <2>1. SubSeq(p \o z, 0 + 1, LengthBytes) = SubSeq(p, 0 + 1, LengthBytes)
    BY <1>1, <1>2, SubFirst
  <2>2. SubSeq(p, 0 + 1, LengthBytes) = p BY <1>1
  <2>3. o <= c /\ 0 <= LengthBytes /\ o + LengthBytes <= c BY <1>2
  <2>4. SubSeq(SubSeq(d, o + 1, c), 0 + 1, LengthBytes) = SubSeq(d, o + 0 + 1, o + LengthBytes)
    <3> HIDE DEF c
    <3> QED BY <1>2, <1>4, <2>3, SubSub
  <2>5. o + 0 + 1 = o + 1 OBVIOUS
  <2>6. SubSeq(e, 0 + 1, LengthBytes) = SubSeq(d, o + 1, o + LengthBytes)
    <3> HIDE DEF c
    <3> QED BY <1>4, <2>4, <2>5, Zenon
  <2> QED BY <1>1, <2>1, <2>2, <2>6
<1>7. z = SubSeq(d, o + LengthBytes + 1, o + LengthBytes + bl)
  <2> HIDE DEF p, z, e, bl
  <2>1. SubSeq(p \o z, LengthBytes + 1, LengthBytes + bl) = z
    BY <1>1, <1>2, SubSecond
  <2>2. LengthBytes + bl \in Nat BY <1>2
  <2>3. o <= c /\ LengthBytes <= LengthBytes + bl /\ o + (LengthBytes + bl) <= c
        /\ o + (LengthBytes + bl) = o + LengthBytes + bl BY <1>2
  <2>4. SubSeq(SubSeq(d, o + 1, c), LengthBytes + 1, LengthBytes + bl)
         = SubSeq(d, o + LengthBytes + 1, o + (LengthBytes + bl))
    <3> HIDE DEF c
    <3> QED BY <1>2, <1>4, <2>2, <2>3, SubSub
  <2> QED BY <1>1, <1>4, <2>1, <2>3, <2>4, Zenon
<1>8. LengthAt(d, o) = bl
  <2> HIDE DEF p, bl
  <2> QED BY <1>5, <1>6 DEF LengthAt
<1>9. BodyAt(d, o) = z
  <2> HIDE DEF z, bl
  <2> QED BY <1>7, <1>8 DEF BodyAt
<1> QED BY <1>2, <1>4, <1>8, <1>9, ParseBodyOf DEF ValidLength

\* What ParseFromReader makes of the bytes is a message whose encoding they
\* are.
LEMMA ParseHolds ==
  ASSUME NEW d \in Seq(Byte), NEW o \in Nat, o + LengthBytes + LengthAt(d, o) <= Len(d),
         o + LengthBytes <= Len(d),
         LengthAt(d, o) <= MaxBodyLen, NEW m \in ParseBody(BodyAt(d, o))
  PROVE  /\ m \in WellFormed /\ Holds(d, o, Encode(m))
         /\ Len(Encode(m)) = LengthBytes + LengthAt(d, o) /\ ParseBody(BodyAt(d, o)) = {m}
<1> DEFINE n == LengthAt(d, o)
           a == o + LengthBytes
           c == a + n
           p == SubSeq(d, o + 1, a)
           z == SubSeq(d, a + 1, c)
<1>1. Len(d) \in Nat /\ LengthBytes \in Nat /\ a \in Nat /\ o <= a /\ a - o = LengthBytes
  BY SeqLen, Sizes
<1>2. p \in Seq(Byte) /\ Len(p) = LengthBytes
  <2> HIDE DEF a
  <2> QED BY <1>1, SeqSub DEF a
<1>3. n = Uint(p) /\ z = BodyAt(d, o) BY DEF LengthAt, BodyAt
<1>4. n \in Nat BY <1>2, <1>3, UintType, Zenon
<1>5. c \in Nat /\ a <= c /\ c - a = n /\ c <= Len(d)
  <2> HIDE DEF n
  <2> QED BY <1>1, <1>4 DEF n
<1>6. z \in Seq(Byte) /\ Len(z) = n
  <2> HIDE DEF a, c, n
  <2>1. z \in Seq(Byte) /\ Len(z) = c - a BY <1>1, <1>5, SeqSub
  <2> QED BY <1>5, <2>1, Zenon
<1>7. m \in WellFormed /\ Body(m) = z /\ BodyLen(m) = n /\ ParseBody(z) = {m}
  <2>1. Len(z) <= MaxBodyLen /\ m \in ParseBody(z) BY <1>3, <1>6, Zenon
  <2> HIDE DEF z, n
  <2> QED BY <1>6, <2>1, BodyOfParse
<1>8. PutUint(n, LengthBytes) = p BY <1>2, <1>3, PutUintOfUint, Zenon
<1>9. Encode(m) = p \o z /\ Len(Encode(m)) = LengthBytes + n
  <2> HIDE DEF p, z, n
  <2> QED BY <1>7, <1>8, EncodeIs, Zenon
<1>10. p \o z = SubSeq(d, o + 1, c)
  <2> HIDE DEF a, c
  <2> QED BY <1>1, <1>5, SubJoin
<1>11. o + (LengthBytes + n) = c BY <1>1, <1>4
<1>12. Holds(d, o, Encode(m))
  <2> HIDE DEF a, c, p, z, n
  <2> QED BY <1>5, <1>9, <1>10, <1>11 DEF Holds
<1> QED BY <1>3, <1>7, <1>9, <1>12, Zenon

\* off[i] is where the first i messages of s end in d, k where all of them do.
Cuts(off, s, d, k) ==
  /\ off \in [0..Len(s) -> Nat] /\ off[0] = 0 /\ off[Len(s)] = k
  /\ \A i \in 1..Len(s) : off[i] = off[i - 1] + Len(Encode(s[i]))
  /\ \A i \in 1..Len(s) : Holds(d, off[i - 1], Encode(s[i]))

\* The first k bytes of d are the messages of s.
Cut(s, d, k) == s \in Seq(WellFormed) /\ k \in Nat /\ \E off : Cuts(off, s, d, k)

LEMMA CutEmpty == ASSUME NEW d PROVE Cut(<<>>, d, 0)
<1> DEFINE off == [i \in 0..0 |-> 0]
<1>1. Cuts(off, <<>>, d, 0) BY DEF Cuts
<1> HIDE DEF off
<1> QED BY <1>1 DEF Cut

\* The encoding of a message is not empty.
LEMMA EncodeLen ==
  ASSUME NEW m \in WellFormed
  PROVE  Encode(m) \in Seq(Byte) /\ Len(Encode(m)) \in Nat /\ Len(Encode(m)) >= 1
<1>1. LengthBytes \in Nat /\ LengthBytes >= 1 /\ BodyLen(m) \in Nat BY Sizes, Fields
<1> QED BY <1>1, EncodeIs

\* A further message.
LEMMA CutAppend ==
  ASSUME NEW s, NEW d, NEW k, Cut(s, d, k), NEW m \in WellFormed, Holds(d, k, Encode(m))
  PROVE  Cut(Append(s, m), d, k + Len(Encode(m)))
<1> DEFINE t == Append(s, m)
           n == Len(s)
           l == Len(Encode(m))
<1>1. PICK off : Cuts(off, s, d, k) BY DEF Cut
<1>2. s \in Seq(WellFormed) /\ k \in Nat BY DEF Cut
<1>3. n \in Nat /\ l \in Nat BY <1>2, EncodeLen
<1>4. t \in Seq(WellFormed) /\ Len(t) = n + 1 /\ t[n + 1] = m /\ \A i \in 1..n : t[i] = s[i]
  BY <1>2, SeqAppend
<1> DEFINE g == [i \in 0..n + 1 |-> IF i = n + 1 THEN k + l ELSE off[i]]
<1>5. off \in [0..n -> Nat] /\ off[0] = 0 /\ off[n] = k BY <1>1 DEF Cuts
<1>6. /\ \A i \in 1..n : off[i] = off[i - 1] + Len(Encode(s[i]))
      /\ \A i \in 1..n : Holds(d, off[i - 1], Encode(s[i]))
  BY <1>1 DEF Cuts
<1> HIDE DEF l, t, n
<1>7. g \in [0..n + 1 -> Nat] BY <1>2, <1>3, <1>5
<1>8. g[n + 1] = k + l /\ g[n] = k /\ g[0] = 0 BY <1>3, <1>5
<1>9. \A i \in 0..n : g[i] = off[i] BY <1>3
<1> HIDE DEF g
<1>10. ASSUME NEW i \in 1..n + 1
       PROVE  g[i] = g[i - 1] + Len(Encode(t[i])) /\ Holds(d, g[i - 1], Encode(t[i]))
  <2>1. CASE i = n + 1
    <3>1. i - 1 = n BY <1>3, <2>1
    <3> QED BY <1>4, <1>8, <2>1, <3>1 DEF l
  <2>2. CASE i # n + 1
    <3>1. i \in 1..n /\ i \in 0..n /\ i - 1 \in 0..n BY <1>3, <2>2
    <3>2. g[i] = off[i] /\ g[i - 1] = off[i - 1] /\ t[i] = s[i] BY <1>4, <1>9, <3>1
    <3> QED BY <1>6, <3>1, <3>2
  <2> QED BY <2>1, <2>2
<1>11. Cuts(g, t, d, k + l) BY <1>4, <1>7, <1>8, <1>10 DEF Cuts
<1>12. k + l \in Nat BY <1>2, <1>3
<1>13. Cut(t, d, k + l) BY <1>4, <1>11, <1>12 DEF Cut
<1> QED BY <1>13 DEF t, l

\* More bytes change nothing.
LEMMA HoldsGrow ==
  ASSUME NEW d \in Seq(Byte), NEW w \in Seq(Byte), NEW o \in Nat, NEW v \in Seq(Byte),
         Holds(d, o, v)
  PROVE  Holds(d \o w, o, v)
<1> DEFINE b == o + Len(v)
<1>1. Len(v) \in Nat /\ b \in Nat /\ Len(d) \in Nat /\ Len(w) \in Nat /\ o <= b BY SeqLen
<1>2. b <= Len(d) /\ SubSeq(d, o + 1, b) = v BY DEF Holds
<1>3. SubSeq(d \o w, o + 1, b) = SubSeq(d, o + 1, b)
  <2> HIDE DEF b
  <2> QED BY <1>1, <1>2, SubFirst
<1>4. Len(d \o w) = Len(d) + Len(w) BY SeqConcat
<1>5. b <= Len(d \o w)
  <2> HIDE DEF b
  <2> QED BY <1>1, <1>2, <1>4
<1> QED BY <1>2, <1>3, <1>5 DEF Holds

LEMMA CutGrow ==
  ASSUME NEW s, NEW d \in Seq(Byte), NEW w \in Seq(Byte), NEW k, Cut(s, d, k)
  PROVE  Cut(s, d \o w, k)
<1>1. PICK off : Cuts(off, s, d, k) BY DEF Cut
<1>2. s \in Seq(WellFormed) /\ k \in Nat BY DEF Cut
<1>3. ASSUME NEW i \in 1..Len(s) PROVE Holds(d \o w, off[i - 1], Encode(s[i]))
  <2>1. s[i] \in WellFormed /\ Len(s) \in Nat BY <1>2, SeqLen
  <2>2. i - 1 \in 0..Len(s) BY <2>1
  <2>3. off[i - 1] \in Nat BY <1>1, <2>2, Zenon DEF Cuts
  <2>4. Holds(d, off[i - 1], Encode(s[i])) BY <1>1 DEF Cuts
  <2>5. Encode(s[i]) \in Seq(Byte) BY <2>1, EncodeLen
  <2> QED BY <2>3, <2>4, <2>5, HoldsGrow
<1>4. Cuts(off, s, d \o w, k) BY <1>1, <1>3 DEF Cuts
<1> QED BY <1>2, <1>4 DEF Cut

\* There is one way only to cut bytes into messages: of two cuts the shorter
\* is a prefix of the longer, whose next message begins where it ends.
LEMMA OneCut ==
  ASSUME NEW s, NEW t, NEW d \in Seq(Byte), NEW k, NEW l, Cut(s, d, k), Cut(t, d, l),
         Len(s) <= Len(t)
  PROVE  /\ Prefix(s, t)
         /\ Len(s) < Len(t) => t[Len(s) + 1] \in WellFormed /\ Holds(d, k, Encode(t[Len(s) + 1]))
<1>1. PICK f : Cuts(f, s, d, k) BY DEF Cut
<1>2. PICK g : Cuts(g, t, d, l) BY DEF Cut
<1>3. s \in Seq(WellFormed) /\ t \in Seq(WellFormed) BY DEF Cut
<1> DEFINE n == Len(s)
           T == {i \in 0..n : f[i] = g[i] /\ (i > 0 => s[i] = t[i])}
<1>4. n \in Nat /\ Len(t) \in Nat BY <1>3, SeqLen
<1>5. 0 \in T BY <1>1, <1>2, <1>4 DEF Cuts
<1>6. ASSUME NEW i \in Nat, i < n, i \in T PROVE i + 1 \in T
  <2> DEFINE j == i + 1
             o == f[i]
  <2>1. j \in 1..n /\ j \in 1..Len(t) /\ j - 1 = i /\ i \in 0..n /\ j \in 0..n BY <1>4, <1>6
  <2>2. s[j] \in WellFormed /\ t[j] \in WellFormed BY <1>3, <2>1, SeqLen
  <2>3. o \in Nat /\ o = g[i] BY <1>1, <1>6, <2>1 DEF Cuts
  <2>4. Holds(d, o, Encode(s[j])) /\ f[j] = o + Len(Encode(s[j]))
    BY <1>1, <2>1 DEF Cuts
  <2>5. Holds(d, o, Encode(t[j])) /\ g[j] = o + Len(Encode(t[j]))
    BY <1>2, <2>1, <2>3 DEF Cuts
  <2> HIDE DEF j, o
  <2>6. {s[j]} = ParseBody(BodyAt(d, o)) BY <2>2, <2>3, <2>4, HoldsParse
  <2>7. {t[j]} = ParseBody(BodyAt(d, o)) BY <2>2, <2>3, <2>5, HoldsParse
  <2>8. s[j] = t[j] BY <2>6, <2>7, Zenon
  <2>9. j \in T BY <2>1, <2>4, <2>5, <2>8
  <2> QED BY <2>9 DEF j
<1>7. \A i \in 0..n : i \in T
  <2> HIDE DEF T, n
  <2> QED BY <1>4, <1>5, <1>6, UpTo
<1>8. \A i \in 1..n : s[i] = t[i] BY <1>4, <1>7
<1>9. Prefix(s, t)
  <2> DEFINE r == SubSeq(t, 0 + 1, n)
  <2>1. r \in Seq(WellFormed) /\ Len(r) = n /\ \A i \in 1..n : r[i] = t[0 + i]
    <3>1. 0 \in Nat /\ 0 <= n /\ n <= Len(t) /\ n - 0 = n BY <1>4
    <3> HIDE DEF n
    <3> QED BY <1>3, <1>4, <3>1, SeqSub
  <2>2. \A i \in 1..n : r[i] = s[i] BY <1>4, <1>8, <2>1
  <2>3. r = s
    <3> HIDE DEF r
    <3> QED BY <1>3, <2>1, <2>2, SeqEq
  <2>4. r = SubSeq(t, 1, n) OBVIOUS
  <2> QED BY <2>3, <2>4 DEF Prefix
<1>10. ASSUME n < Len(t) PROVE t[n + 1] \in WellFormed /\ Holds(d, k, Encode(t[n + 1]))
  <2>1. n + 1 \in 1..Len(t) /\ (n + 1) - 1 = n /\ n \in 0..n BY <1>4, <1>10
  <2>2. g[n] = k BY <1>1, <1>7, <2>1 DEF Cuts
  <2>3. Holds(d, g[n], Encode(t[n + 1])) BY <1>2, <2>1 DEF Cuts
  <2> HIDE DEF n
  <2> QED BY <1>3, <2>1, <2>2, <2>3, SeqLen
<1> QED BY <1>9, <1>10

\* The bytes that are cut into messages are the encodings of these messages.
LEMMA CutEncoded ==
  ASSUME NEW s, NEW d \in Seq(Byte), NEW k, Cut(s, d, k)
  PROVE  SubSeq(d, 1, k) = Encoded(s) /\ k <= Len(d)
<1>1. PICK f : Cuts(f, s, d, k) BY DEF Cut
<1>2. s \in Seq(WellFormed) /\ k \in Nat BY DEF Cut
<1> DEFINE n == Len(s)
           e(i) == Encode(s[i])
           Is(x) == x = [i \in 0..n |-> IF i = 0 THEN <<>> ELSE x[i - 1] \o e(i)]
           enc == CHOOSE x : Is(x)
           g == [i \in 0..n |-> SubSeq(d, 0 + 1, f[i])]
<1>3. n \in Nat /\ Len(d) \in Nat BY <1>2, SeqLen
<1>4. Encoded(s) = enc[n] BY Zenon DEF Encoded
<1>5. f \in [0..n -> Nat] /\ f[0] = 0 /\ f[n] = k BY <1>1 DEF Cuts
<1>6. ASSUME NEW i \in 1..n
      PROVE  /\ f[i] \in Nat /\ f[i - 1] \in Nat /\ f[i - 1] <= f[i] /\ f[i] <= Len(d)
             /\ e(i) = SubSeq(d, f[i - 1] + 1, f[i])
  <2>1. i \in 0..n /\ i - 1 \in 0..n BY <1>3
  <2>2. f[i] \in Nat /\ f[i - 1] \in Nat BY <1>5, <2>1
  <2>3. s[i] \in WellFormed BY <1>2, SeqLen
  <2>4. Len(e(i)) \in Nat BY <2>3, EncodeLen
  <2>5. f[i] = f[i - 1] + Len(e(i)) /\ Holds(d, f[i - 1], e(i)) BY <1>1 DEF Cuts
  <2> HIDE DEF e, n
  <2>6. f[i] <= Len(d) /\ e(i) = SubSeq(d, f[i - 1] + 1, f[i]) BY <2>5 DEF Holds
  <2>7. \A x, y, z \in Nat : x = y + z => y <= x OBVIOUS
  <2>8. f[i - 1] <= f[i] BY <2>2, <2>4, <2>5, <2>7, Zenon
  <2> QED BY <2>2, <2>6, <2>8, Zenon
<1>7. k <= Len(d)
  <2>1. CASE n = 0 BY <1>3, <1>5, <2>1
  <2>2. CASE n # 0
    <3>1. n \in 1..n BY <1>3, <2>2
    <3> QED BY <1>5, <1>6, <3>1
  <2> QED BY <2>1, <2>2
<1>8. g[0] = <<>> BY <1>3, <1>5
<1>9. ASSUME NEW i \in 1..n PROVE g[i] = g[i - 1] \o e(i)
  <2>1. i \in 0..n /\ i - 1 \in 0..n BY <1>3
  <2>2. g[i] = SubSeq(d, 0 + 1, f[i]) /\ g[i - 1] = SubSeq(d, 0 + 1, f[i - 1]) BY <2>1, Zenon
  <2>3. 0 \in Nat /\ 0 <= f[i - 1] BY <1>6
  <2> DEFINE a == f[i - 1]
             b == f[i]
  <2>4. /\ a \in Nat /\ b \in Nat /\ 0 <= a /\ a <= b /\ b <= Len(d)
        /\ e(i) = SubSeq(d, a + 1, b)
        /\ g[i] = SubSeq(d, 0 + 1, b) /\ g[i - 1] = SubSeq(d, 0 + 1, a)
    BY <1>6, <2>2, <2>3, Zenon
  <2> HIDE DEF g, e, a, b
  <2>5. SubSeq(d, 0 + 1, a) \o SubSeq(d, a + 1, b) = SubSeq(d, 0 + 1, b)
    BY <2>3, <2>4, SubJoin, Zenon
  <2> QED BY <2>4, <2>5, Zenon
<1>10. Is(g)
  <2>1. \A i \in 0..n : i # 0 => i \in 1..n BY <1>3
  <2>2. \A i \in 0..n : g[i] = IF i = 0 THEN <<>> ELSE g[i - 1] \o e(i)
    <3> HIDE DEF g, e, n
    <3> QED BY <1>8, <1>9, <2>1, Zenon
  <2>3. g = [i \in 0..n |-> g[i]] OBVIOUS
  <2> HIDE DEF g, e
  <2> QED BY <2>2, <2>3, Zenon
<1>11. Is(enc) BY <1>10, Zenon
<1> HIDE DEF enc
<1> DEFINE T == {i \in 0..n : enc[i] = g[i]}
<1>12. /\ enc[0] = <<>>
       /\ \A i \in 1..n : enc[i] = enc[i - 1] \o e(i)
  <2> HIDE DEF e
  <2>1. \A i \in 0..n : enc[i] = IF i = 0 THEN <<>> ELSE enc[i - 1] \o e(i)
    BY <1>11, Zenon
  <2>2. 0 \in 0..n /\ \A i \in 1..n : i \in 0..n /\ i # 0 BY <1>3
  <2> QED BY <2>1, <2>2, Zenon
<1> HIDE DEF g, e
<1>13. 0 \in T BY <1>3, <1>8, <1>12
<1>14. ASSUME NEW i \in Nat, i < n, i \in T PROVE i + 1 \in T
  <2>1. i + 1 \in 1..n /\ (i + 1) - 1 = i /\ i + 1 \in 0..n BY <1>3, <1>14
  <2>2. enc[i + 1] = enc[i] \o e(i + 1) /\ g[i + 1] = g[i] \o e(i + 1)
    BY <1>9, <1>12, <2>1, Zenon
  <2>3. enc[i] = g[i] BY <1>14
  <2> QED BY <2>1, <2>2, <2>3, Zenon
<1>15. \A i \in 0..n : i \in T
  <2> HIDE DEF T, n
  <2> QED BY <1>3, <1>13, <1>14, UpTo
<1>16. enc[n] = g[n]
  <2>1. n \in 0..n BY <1>3
  <2> QED BY <1>15, <2>1
<1>17. g[n] = SubSeq(d, 1, k)
  <2>1. n \in 0..n BY <1>3
  <2>2. g[n] = SubSeq(d, 0 + 1, f[n]) BY <2>1, Zenon DEF g
  <2> QED BY <1>5, <2>2
<1> QED BY <1>4, <1>7, <1>16, <1>17

\* No message begins after the first o bytes, whatever may follow: the length
\* is not valid, or the body is there and is not one.
Stuck(d, o) ==
  /\ o + LengthBytes <= Len(d)
  /\ \/ ~ ValidLength(LengthAt(d, o))
     \/ o + LengthBytes + LengthAt(d, o) <= Len(d) /\ ParseBody(BodyAt(d, o)) = Nothing

LEMMA StuckHolds ==
  ASSUME NEW d \in Seq(Byte), NEW o \in Nat, NEW m \in WellFormed, Stuck(d, o),
         Holds(d, o, Encode(m))
  PROVE  FALSE
<1>1. LengthAt(d, o) = BodyLen(m) /\ ValidLength(BodyLen(m)) /\ ParseBody(BodyAt(d, o)) = {m}
  BY HoldsParse
<1>2. ValidLength(LengthAt(d, o)) BY <1>1, Zenon
<1>3. ParseBody(BodyAt(d, o)) = Nothing BY <1>2, Zenon DEF Stuck
<1>4. {m} = {} BY <1>1, <1>3, Zenon DEF Nothing
<1> QED BY <1>4, Zenon

\* What has arrived of a message stays as it is.
LEMMA AtGrow ==
  ASSUME NEW d \in Seq(Byte), NEW w \in Seq(Byte), NEW o \in Nat, o + LengthBytes <= Len(d)
  PROVE  /\ LengthAt(d, o) \in Nat
         /\ LengthAt(d \o w, o) = LengthAt(d, o) /\ o + LengthBytes <= Len(d \o w)
         /\ o + LengthBytes + LengthAt(d, o) <= Len(d) =>
              /\ BodyAt(d \o w, o) = BodyAt(d, o)
              /\ o + LengthBytes + LengthAt(d, o) <= Len(d \o w)
<1> DEFINE a == o + LengthBytes
<1>1. Len(d) \in Nat /\ Len(w) \in Nat /\ a \in Nat /\ o <= a BY SeqLen, Sizes
<1>2. Len(d \o w) = Len(d) + Len(w) BY SeqConcat
<1>3. \A x \in Nat : x <= Len(d) => x <= Len(d \o w) BY <1>1, <1>2
<1>4. SubSeq(d \o w, o + 1, a) = SubSeq(d, o + 1, a)
  <2>1. a <= Len(d) OBVIOUS
  <2> HIDE DEF a
  <2> QED BY <1>1, <2>1, SubFirst
<1>5. LengthAt(d \o w, o) = LengthAt(d, o) BY <1>4, Zenon DEF LengthAt
<1>6. LengthAt(d, o) \in Nat
  <2>1. SubSeq(d, o + 1, a) \in Seq(Byte)
    <3>1. a <= Len(d) OBVIOUS
    <3> HIDE DEF a
    <3> QED BY <1>1, <3>1, SeqSub
  <2> QED BY <2>1, UintType, Zenon DEF LengthAt
<1>7. ASSUME a + LengthAt(d, o) <= Len(d) PROVE BodyAt(d \o w, o) = BodyAt(d, o)
  <2> DEFINE c == a + LengthAt(d, o)
  <2>1. c \in Nat /\ a <= c
    <3> HIDE DEF a
    <3> QED BY <1>1, <1>6
  <2>2. c <= Len(d) BY <1>7
  <2>3. SubSeq(d \o w, a + 1, c) = SubSeq(d, a + 1, c)
    <3> HIDE DEF a, c
    <3> QED BY <1>1, <2>1, <2>2, SubFirst
  <2> QED BY <1>5, <2>3, Zenon DEF BodyAt
<1>8. a + LengthAt(d, o) \in Nat
  <2> HIDE DEF a
  <2> QED BY <1>1, <1>6
<1> QED BY <1>1, <1>3, <1>5, <1>6, <1>7, <1>8

LEMMA StuckGrow ==
  ASSUME NEW d \in Seq(Byte), NEW w \in Seq(Byte), NEW o \in Nat, Stuck(d, o)
  PROVE  Stuck(d \o w, o)
<1>1. o + LengthBytes <= Len(d) BY DEF Stuck
<1>2. /\ LengthAt(d \o w, o) = LengthAt(d, o) /\ o + LengthBytes <= Len(d \o w)
      /\ o + LengthBytes + LengthAt(d, o) <= Len(d) =>
           /\ BodyAt(d \o w, o) = BodyAt(d, o)
           /\ o + LengthBytes + LengthAt(d, o) <= Len(d \o w)
  BY <1>1, AtGrow
<1> QED BY <1>2, Zenon DEF Stuck

\* A message just written stands at the end.
LEMMA HoldsLast ==
  ASSUME NEW c \in Seq(Byte), NEW e \in Seq(Byte) PROVE Holds(c \o e, Len(c), e)
<1>1. Len(c \o e) = Len(c) + Len(e) /\ Len(c) \in Nat /\ Len(e) \in Nat BY SeqConcat, SeqLen
<1>2. SubSeq(c \o e, Len(c) + 1, Len(c) + Len(e)) = e BY SubSecond
<1> QED BY <1>1, <1>2 DEF Holds

\* ParseWithRemaining returns what ParseFromReader would: it takes the length
\* of the subject from the data and not from the body, and it is the same.
LEMMA SameParse ==
  ASSUME NEW r \in Seq(Byte), NEW m \in ParseWithRemaining(r).msg
  PROVE  /\ 0 + LengthBytes <= Len(r) /\ 0 + LengthBytes + LengthAt(r, 0) <= Len(r)
         /\ ValidLength(LengthAt(r, 0)) /\ m \in ParseBody(BodyAt(r, 0))
         /\ Len(ParseWithRemaining(r).remaining) \in Nat
         /\ Len(r) - Len(ParseWithRemaining(r).remaining) = LengthBytes + LengthAt(r, 0)
<1> DEFINE n == Uint(SubSeq(r, 1, LengthBytes))
           total == LengthBytes + n
           sl == Uint(SubSeq(r, LengthBytes + 2, MinPacket))
           z == SubSeq(r, LengthBytes + 1, total)
           rest == SubSeq(r, total + 1, Len(r))
<1>1. /\ ~(Len(r) < MinPacket) /\ ValidLength(n) /\ Len(r) >= total /\ ValidSubject(sl, n)
      /\ m = MessageOf(z, sl) /\ ParseWithRemaining(r).remaining = rest
  <2>1. ~(Len(r) < MinPacket) BY DEF ParseWithRemaining, Nothing
  <2>2. ParseWithRemaining(r) =
          IF ValidLength(n) /\ Len(r) >= total /\ ValidSubject(sl, n)
          THEN [msg |-> {MessageOf(z, sl)}, remaining |-> rest]
          ELSE [msg |-> {}, remaining |-> r]
    BY <2>1 DEF ParseWithRemaining, Nothing
  <2> HIDE DEF n, total, sl, z, rest
  <2> QED BY <2>1, <2>2
<1>2. Len(r) \in Nat /\ LengthBytes \in Nat /\ BodyHeader \in Nat /\ BodyHeader >= 2
      /\ MinPacket = LengthBytes + BodyHeader
  BY SeqLen, Sizes
<1>3. LengthBytes <= Len(r) /\ MinPacket <= Len(r) /\ MinPacket \in Nat BY <1>1, <1>2
<1>4. LengthAt(r, 0) = n
  <2>1. 0 + 1 = 1 /\ 0 + LengthBytes = LengthBytes BY <1>2
  <2> QED BY <2>1 DEF LengthAt
<1>5. n \in Nat
  <2>1. 0 + LengthBytes <= Len(r) BY <1>2, <1>3
  <2> QED BY <1>4, <2>1, AtGrow
<1>6. BodyAt(r, 0) = z
  <2>1. 0 + LengthBytes = LengthBytes BY <1>2
  <2> HIDE DEF n
  <2> QED BY <1>4, <2>1, Zenon DEF BodyAt
<1> HIDE DEF n
<1>7. total \in Nat /\ LengthBytes <= total /\ total - LengthBytes = n /\ total <= Len(r)
  BY <1>1, <1>2, <1>5
<1>8. z \in Seq(Byte) /\ Len(z) = n
  <2> HIDE DEF total
  <2> QED BY <1>2, <1>7, SeqSub
<1>9. sl \in Nat
  <2> DEFINE a == LengthBytes + 1
  <2>1. a \in Nat /\ a <= MinPacket /\ a + 1 = LengthBytes + 2 BY <1>2
  <2>2. SubSeq(r, a + 1, MinPacket) \in Seq(Byte)
    <3> HIDE DEF a
    <3> QED BY <1>3, <2>1, SeqSub
  <2> QED BY <2>1, <2>2, UintType, Zenon
<1>10. BodyHeader <= n BY <1>1, <1>2, <1>5, <1>9 DEF ValidSubject
<1>11. SubSeq(z, 2, BodyHeader) = SubSeq(r, LengthBytes + 2, MinPacket)
  <2>1. 1 \in Nat /\ 1 <= BodyHeader /\ LengthBytes + BodyHeader <= total BY <1>2, <1>5, <1>10
  <2>2. SubSeq(SubSeq(r, LengthBytes + 1, total), 1 + 1, BodyHeader)
          = SubSeq(r, LengthBytes + 1 + 1, LengthBytes + BodyHeader)
    <3> HIDE DEF total
    <3> QED BY <1>2, <1>7, <2>1, SubSub
  <2>3. LengthBytes + 1 + 1 = LengthBytes + 2 /\ 1 + 1 = 2 BY <1>2
  <2> HIDE DEF total
  <2> QED BY <1>2, <2>2, <2>3, Zenon
<1>12. m \in ParseBody(z)
  <2>1. ~(Len(z) < BodyHeader) BY <1>2, <1>5, <1>8, <1>10
  <2>2. Uint(SubSeq(z, 2, BodyHeader)) = sl BY <1>11, Zenon
  <2> HIDE DEF z, sl
  <2> QED BY <1>1, <1>8, <2>1, <2>2, Zenon DEF ParseBody
<1>13. Len(rest) = Len(r) - total
  <2> HIDE DEF total
  <2> QED BY <1>2, <1>7, SeqSub
<1>14. Len(r) - Len(rest) = total /\ Len(rest) \in Nat
  <2> HIDE DEF rest
  <2> QED BY <1>2, <1>7, <1>13
<1>15. 0 + LengthBytes <= Len(r) /\ 0 + LengthBytes + n <= Len(r) BY <1>2, <1>3, <1>5, <1>7
<1> QED BY <1>1, <1>4, <1>6, <1>12, <1>14, <1>15, Zenon

\* On what is left of the bytes it returns a message that stands there, and
\* leaves what follows it.
LEMMA BufferParse ==
  ASSUME NEW d \in Seq(Byte), NEW o \in Nat, o <= Len(d),
         NEW m \in ParseWithRemaining(SubSeq(d, o + 1, Len(d))).msg
  PROVE  /\ m \in WellFormed /\ Holds(d, o, Encode(m))
         /\ Len(d) - Len(ParseWithRemaining(SubSeq(d, o + 1, Len(d))).remaining)
              = o + Len(Encode(m))
<1> DEFINE c == Len(d)
           r == SubSeq(d, o + 1, c)
           x == Len(ParseWithRemaining(r).remaining)
           l == Len(Encode(m))
<1>1. c \in Nat BY SeqLen
<1>2. r \in Seq(Byte) /\ Len(r) = c - o
  <2> o <= c OBVIOUS
  <2> HIDE DEF c
  <2> QED BY <1>1, SeqSub DEF c
<1>3. m \in ParseWithRemaining(r).msg OBVIOUS
<1> HIDE DEF r
<1>4. /\ 0 + LengthBytes <= Len(r) /\ 0 + LengthBytes + LengthAt(r, 0) <= Len(r)
      /\ ValidLength(LengthAt(r, 0)) /\ m \in ParseBody(BodyAt(r, 0))
      /\ x \in Nat /\ Len(r) - x = LengthBytes + LengthAt(r, 0)
  BY <1>2, <1>3, SameParse, Zenon
<1>5. LengthAt(r, 0) <= MaxBodyLen BY <1>4 DEF ValidLength
<1>6. m \in WellFormed /\ Holds(r, 0, Encode(m)) /\ l = LengthBytes + LengthAt(r, 0)
  BY <1>2, <1>4, <1>5, ParseHolds
<1>7. l \in Nat BY <1>6, EncodeLen
<1>8. l <= c - o /\ SubSeq(r, 0 + 1, l) = Encode(m)
  <2>1. 0 + l = l BY <1>7
  <2> HIDE DEF l
  <2>2. l <= Len(r) /\ SubSeq(r, 0 + 1, l) = Encode(m) BY <1>6, <2>1 DEF Holds, l
  <2> QED BY <1>2, <2>2
<1>9. SubSeq(r, 0 + 1, l) = SubSeq(d, o + 0 + 1, o + l)
  <2>1. o <= c /\ c <= Len(d) /\ 0 <= l /\ o + l <= c /\ 0 \in Nat BY <1>1, <1>7, <1>8
  <2> HIDE DEF c, l
  <2> QED BY <1>1, <1>7, <2>1, SubSub DEF r
<1>10. o + 0 + 1 = o + 1 OBVIOUS
<1>11. Holds(d, o, Encode(m))
  <2>1. o + l <= c BY <1>1, <1>7, <1>8
  <2>2. SubSeq(d, o + 1, o + l) = Encode(m)
    <3> HIDE DEF l
    <3> QED BY <1>8, <1>9, <1>10, Zenon
  <2> QED BY <2>1, <2>2 DEF Holds
<1>12. c - x = o + l
  <2>1. (c - o) - x = l BY <1>2, <1>4, <1>6
  <2>2. x \in Nat BY <1>4
  <2> HIDE DEF c, x, l
  <2> QED BY <1>1, <1>7, <2>1, <2>2
<1> QED BY <1>6, <1>11, <1>12 DEF r

-----------------------------------------------------------------------------
(* The stream *)

\* The receiving loop: the first k bytes are the messages it has returned, and
\* it stands after them, after the length that follows them, or before bytes
\* that are no message.
ReaderAt(k) ==
  /\ Cut(received, data, k)
  /\ reader = "length" => pos = k
  /\ reader = "body" =>
       /\ k + LengthBytes <= Len(data) /\ pos = k + LengthBytes
       /\ bodyLen = LengthAt(data, k) /\ ValidLength(bodyLen)
  /\ reader = "invalid" => Stuck(data, k)

\* The inductive invariant: what either parser has returned is a cut of the
\* bytes that have arrived, and what the library has sent is one of all the
\* bytes, those on their way included.
StreamCut ==
  /\ data \in Seq(Byte) /\ wire \in Seq(Byte)
  /\ Cut(parsed, data, left)
  /\ \E k \in Nat : ReaderAt(k)
  /\ peer = "library" => Cut(sent, data \o wire, Len(data) + Len(wire))

\* Nothing has happened yet.
LEMMA InitCut == Init => StreamCut
<1> SUFFICES ASSUME Init PROVE StreamCut OBVIOUS
<1>1. data = <<>> /\ wire = <<>> /\ parsed = <<>> /\ left = 0 /\ sent = <<>> /\ received = <<>>
      /\ reader = "length" /\ pos = 0
  BY DEF Init
<1>2. data \in Seq(Byte) /\ wire \in Seq(Byte) /\ Len(data) + Len(wire) = 0 BY <1>1
<1>3. Cut(parsed, data, left) BY <1>1, CutEmpty
<1>4. ReaderAt(0)
  <2>1. Cut(received, data, 0) BY <1>1, CutEmpty
  <2> QED BY <1>1, <2>1 DEF ReaderAt
<1>5. Cut(sent, data \o wire, Len(data) + Len(wire)) BY <1>1, <1>2, CutEmpty
<1> QED BY <1>2, <1>3, <1>4, <1>5 DEF StreamCut

\* Bytes that arrive disturb neither parser.
LEMMA BytesArrive ==
  ASSUME StreamCut, NEW w \in Seq(Byte), data' = data \o w, UNCHANGED <<readVars, bufVars>>
  PROVE  Cut(parsed, data, left)' /\ (\E k \in Nat : ReaderAt(k))'
<1>1. data \in Seq(Byte) /\ Cut(parsed, data, left) BY DEF StreamCut
<1>2. PICK k \in Nat : ReaderAt(k) BY DEF StreamCut
<1>3. /\ received' = received /\ reader' = reader /\ pos' = pos /\ bodyLen' = bodyLen
      /\ left' = left /\ parsed' = parsed
  BY DEF readVars, bufVars
<1>4. Cut(parsed, data \o w, left) /\ Cut(received, data \o w, k) BY <1>1, <1>2, CutGrow DEF ReaderAt
<1>5. reader = "body" =>
        /\ k + LengthBytes <= Len(data \o w) /\ pos = k + LengthBytes
        /\ bodyLen = LengthAt(data \o w, k) /\ ValidLength(bodyLen)
  <2> SUFFICES ASSUME reader = "body"
               PROVE  /\ k + LengthBytes <= Len(data \o w) /\ pos = k + LengthBytes
                      /\ bodyLen = LengthAt(data \o w, k) /\ ValidLength(bodyLen)
    OBVIOUS
  <2>1. /\ k + LengthBytes <= Len(data) /\ pos = k + LengthBytes
        /\ bodyLen = LengthAt(data, k) /\ ValidLength(bodyLen)
    BY <1>2 DEF ReaderAt
  <2>2. LengthAt(data \o w, k) = LengthAt(data, k) /\ k + LengthBytes <= Len(data \o w)
    BY <1>1, <2>1, AtGrow
  <2> QED BY <2>1, <2>2
<1>6. reader = "invalid" => Stuck(data \o w, k) BY <1>1, <1>2, StuckGrow DEF ReaderAt
<1>7. ReaderAt(k)' BY <1>2, <1>3, <1>4, <1>5, <1>6 DEF ReaderAt
<1>8. Cut(parsed, data, left)' BY <1>3, <1>4
<1> QED BY <1>7, <1>8

LEMMA WriteCut ==
  ASSUME StreamCut, NEW m \in Outgoing, Write(m) PROVE StreamCut'
<1> DEFINE e == Encode(m)
           c == data \o wire
<1>1. m \in WellFormed BY FramingConstants DEF Write, WellFormed
<1>2. e \in Seq(Byte) /\ Len(e) \in Nat BY <1>1, EncodeLen
<1>3. /\ data' = data /\ wire' = wire \o e /\ sent' = Append(sent, m) /\ parsed' = parsed
      /\ left' = left /\ received' = received /\ reader' = reader /\ pos' = pos
      /\ bodyLen' = bodyLen /\ peer = "library"
  BY DEF Write, readVars, bufVars
<1>4. data \in Seq(Byte) /\ wire \in Seq(Byte) /\ Cut(sent, c, Len(data) + Len(wire))
      /\ Cut(parsed, data, left)
  BY <1>3 DEF StreamCut
<1>5. c \in Seq(Byte) /\ Len(c) = Len(data) + Len(wire) /\ wire \o e \in Seq(Byte)
      /\ Len(wire \o e) = Len(wire) + Len(e)
  BY <1>2, <1>4, SeqConcat
<1>6. c \o e = data \o (wire \o e) BY <1>2, <1>4, ConcatAssoc
<1> HIDE DEF c, e
<1>7. Cut(sent, c \o e, Len(c)) BY <1>2, <1>4, <1>5, CutGrow
<1>8. Holds(c \o e, Len(c), e) BY <1>2, <1>5, HoldsLast
<1>9. Cut(Append(sent, m), c \o e, Len(c) + Len(e)) BY <1>1, <1>7, <1>8, CutAppend DEF e
<1>10. Len(c) + Len(e) = Len(data) + Len(wire \o e)
  <2>1. Len(data) \in Nat /\ Len(wire) \in Nat BY <1>4, SeqLen
  <2> QED BY <1>2, <1>5, <2>1
<1>11. Cut(sent, data \o wire, Len(data) + Len(wire))' BY <1>3, <1>6, <1>9, <1>10
<1>12. PICK k \in Nat : ReaderAt(k) BY DEF StreamCut
<1>13. ReaderAt(k)' BY <1>3, <1>12 DEF ReaderAt
<1>14. Cut(parsed, data, left)' BY <1>3, <1>4
<1> QED BY <1>3, <1>4, <1>5, <1>11, <1>13, <1>14 DEF StreamCut

LEMMA ArriveCut == ASSUME StreamCut, Arrive PROVE StreamCut'
<1> DEFINE w == <<Head(wire)>>
           t == Tail(wire)
<1>1. data \in Seq(Byte) /\ wire \in Seq(Byte) /\ wire # <<>> BY DEF StreamCut, Arrive
<1>2. w \in Seq(Byte) /\ t \in Seq(Byte) /\ Len(w) = 1 /\ w \o t = wire
      /\ Append(data, Head(wire)) = data \o w
  <2>1. Head(wire) \in Byte /\ t \in Seq(Byte) BY <1>1
  <2>2. w \o t = wire BY <1>1
  <2>3. Append(data, Head(wire)) = data \o w BY <1>1, <2>1
  <2> QED BY <2>1, <2>2, <2>3
<1>3. data' = data \o w /\ wire' = t /\ UNCHANGED <<peer, sent>> /\ UNCHANGED <<readVars, bufVars>>
  BY <1>2 DEF Arrive
<1> HIDE DEF w, t
<1>4. Cut(parsed, data, left)' /\ (\E k \in Nat : ReaderAt(k))' BY <1>2, <1>3, BytesArrive
<1>5. data' \o wire' = data \o wire
  <2>a. w \in Seq(Byte) /\ t \in Seq(Byte) /\ data \in Seq(Byte) BY <1>1, <1>2
  <2>1. (data \o w) \o t = data \o (w \o t) BY <2>a, ConcatAssoc
  <2> QED BY <1>2, <1>3, <2>1
<1>6. data' \in Seq(Byte) /\ wire' \in Seq(Byte) BY <1>1, <1>2, <1>3, SeqConcat
<1>7. Len(data') + Len(wire') = Len(data) + Len(wire)
  <2>1. Len(data') + Len(wire') = Len(data' \o wire') BY <1>6, SeqConcat
  <2>2. Len(data) + Len(wire) = Len(data \o wire) BY <1>1, SeqConcat
  <2> QED BY <1>5, <2>1, <2>2
<1>8. (peer = "library" => Cut(sent, data \o wire, Len(data) + Len(wire)))'
  BY <1>3, <1>5, <1>7 DEF StreamCut
<1> QED BY <1>4, <1>6, <1>8 DEF StreamCut

LEMMA ArriveAnyCut == ASSUME StreamCut, NEW b \in Byte, ArriveAny(b) PROVE StreamCut'
<1> DEFINE w == <<b>>
<1>1. data \in Seq(Byte) /\ wire \in Seq(Byte) /\ w \in Seq(Byte) BY DEF StreamCut
<1>2. data' = data \o w /\ wire' = wire /\ peer' # "library" /\ UNCHANGED <<readVars, bufVars>>
  BY <1>1 DEF ArriveAny
<1> HIDE DEF w
<1>3. Cut(parsed, data, left)' /\ (\E k \in Nat : ReaderAt(k))' BY <1>1, <1>2, BytesArrive, Zenon
<1>4. data' \in Seq(Byte) /\ wire' \in Seq(Byte) BY <1>1, <1>2, SeqConcat
<1> QED BY <1>2, <1>3, <1>4 DEF StreamCut

LEMMA ReadLengthCut == ASSUME StreamCut, ReadLength PROVE StreamCut'
<1> DEFINE n == LengthAt(data, pos)
<1>1. data \in Seq(Byte) /\ wire \in Seq(Byte) /\ Cut(parsed, data, left) BY DEF StreamCut
<1>2. PICK k \in Nat : ReaderAt(k) BY DEF StreamCut
<1>3. /\ reader = "length" /\ Len(data) - pos >= LengthBytes /\ pos' = pos + LengthBytes
      /\ IF ValidLength(n) THEN reader' = "body" /\ bodyLen' = n
         ELSE reader' = "invalid" /\ UNCHANGED bodyLen
  BY DEF ReadLength, LengthAt
<1>4. /\ data' = data /\ wire' = wire /\ sent' = sent /\ peer' = peer /\ received' = received
      /\ left' = left /\ parsed' = parsed
  BY DEF ReadLength, bufVars
<1>5. pos = k /\ Cut(received, data, k) BY <1>2, <1>3 DEF ReaderAt
<1>6. k + LengthBytes <= Len(data)
  <2>1. Len(data) \in Nat /\ LengthBytes \in Nat BY <1>1, SeqLen, Sizes
  <2> QED BY <1>3, <1>5, <2>1
<1>7. ReaderAt(k)'
  <2> HIDE DEF n
  <2>0. n = LengthAt(data, k) BY <1>5 DEF n
  <2>1. CASE ValidLength(n)
    <3>1. reader' = "body" /\ bodyLen' = n BY <1>3, <2>1
    <3> QED BY <1>3, <1>4, <1>5, <1>6, <2>0, <2>1, <3>1 DEF ReaderAt
  <2>2. CASE ~ ValidLength(n)
    <3>1. reader' = "invalid" BY <1>3, <2>2
    <3>2. Stuck(data, k) BY <1>6, <2>0, <2>2 DEF Stuck
    <3> QED BY <1>4, <1>5, <3>1, <3>2 DEF ReaderAt
  <2> QED BY <2>1, <2>2
<1>8. (peer = "library" => Cut(sent, data \o wire, Len(data) + Len(wire)))'
  BY <1>4 DEF StreamCut
<1>9. Cut(parsed, data, left)' BY <1>1, <1>4
<1> QED BY <1>1, <1>4, <1>7, <1>8, <1>9 DEF StreamCut

LEMMA ReadBodyCut == ASSUME StreamCut, ReadBody PROVE StreamCut'
<1>1. data \in Seq(Byte) /\ wire \in Seq(Byte) /\ Cut(parsed, data, left) BY DEF StreamCut
<1>2. PICK k \in Nat : ReaderAt(k) BY DEF StreamCut
<1> DEFINE n == LengthAt(data, k)
           parse == ParseBody(BodyAt(data, k))
<1>3. reader = "body" /\ Len(data) - pos >= bodyLen /\ pos' = pos + bodyLen BY DEF ReadBody
<1>4. /\ data' = data /\ wire' = wire /\ sent' = sent /\ peer' = peer
      /\ left' = left /\ parsed' = parsed
  BY DEF ReadBody, bufVars
<1>5. /\ Cut(received, data, k) /\ k + LengthBytes <= Len(data) /\ pos = k + LengthBytes
      /\ bodyLen = n /\ ValidLength(n)
  BY <1>2, <1>3 DEF ReaderAt
<1>6. \/ parse = Nothing /\ reader' = "invalid" /\ received' = received
      \/ reader' = "length" /\ \E m \in parse : received' = Append(received, m)
  <2>1. SubSeq(data, pos + 1, pos + bodyLen) = BodyAt(data, k) BY <1>5 DEF BodyAt
  <2> QED BY <2>1, Zenon DEF ReadBody
<1> HIDE DEF parse, n
<1>7. n \in Nat /\ Len(data) \in Nat /\ LengthBytes \in Nat BY <1>1, <1>5, AtGrow, SeqLen, Sizes DEF n
<1>8. k + LengthBytes + n <= Len(data) BY <1>3, <1>5, <1>7
<1>9. \E j \in Nat : ReaderAt(j)'
  <2>1. CASE parse = Nothing /\ reader' = "invalid" /\ received' = received
    <3>1. Stuck(data, k) BY <1>5, <1>8, <2>1 DEF Stuck, n, parse
    <3>2. ReaderAt(k)' BY <1>4, <1>5, <2>1, <3>1 DEF ReaderAt
    <3> QED BY <3>2
  <2>2. CASE reader' = "length" /\ \E m \in parse : received' = Append(received, m)
    <3>1. PICK m \in parse : received' = Append(received, m) BY <2>2
    <3> DEFINE j == k + Len(Encode(m))
    <3>2. n <= MaxBodyLen BY <1>5 DEF ValidLength
    <3>3. m \in WellFormed /\ Holds(data, k, Encode(m)) /\ Len(Encode(m)) = LengthBytes + n
      BY <1>1, <1>5, <1>8, <3>2, ParseHolds DEF parse, n
    <3>4. Cut(Append(received, m), data, j) BY <1>5, <3>3, CutAppend
    <3>5. j = pos' /\ j \in Nat BY <1>3, <1>5, <1>7, <3>3
    <3> HIDE DEF j
    <3>6. ReaderAt(j)' BY <1>4, <2>2, <3>1, <3>4, <3>5 DEF ReaderAt
    <3> QED BY <3>5, <3>6
  <2> QED BY <1>6, <2>1, <2>2
<1>10. (peer = "library" => Cut(sent, data \o wire, Len(data) + Len(wire)))'
  BY <1>4 DEF StreamCut
<1>11. Cut(parsed, data, left)' BY <1>1, <1>4
<1> QED BY <1>1, <1>4, <1>9, <1>10, <1>11 DEF StreamCut

LEMMA ParseBufferCut == ASSUME StreamCut, ParseBuffer PROVE StreamCut'
<1> DEFINE r == SubSeq(data, left + 1, Len(data))
<1>1. data \in Seq(Byte) /\ wire \in Seq(Byte) /\ Cut(parsed, data, left) BY DEF StreamCut
<1>2. PICK m \in ParseWithRemaining(r).msg : parsed' = Append(parsed, m) BY DEF ParseBuffer
<1>3. left' = Len(data) - Len(ParseWithRemaining(r).remaining) BY DEF ParseBuffer
<1>4. /\ data' = data /\ wire' = wire /\ sent' = sent /\ peer' = peer /\ received' = received
      /\ reader' = reader /\ pos' = pos /\ bodyLen' = bodyLen
  BY DEF ParseBuffer, readVars
<1>5. left \in Nat /\ left <= Len(data) BY <1>1, CutEncoded, Zenon DEF Cut
<1>6. m \in WellFormed /\ Holds(data, left, Encode(m)) /\ left' = left + Len(Encode(m))
  BY <1>1, <1>2, <1>3, <1>5, BufferParse, Zenon
<1>7. Cut(Append(parsed, m), data, left + Len(Encode(m))) BY <1>1, <1>6, CutAppend
<1>8. Cut(parsed, data, left)' BY <1>2, <1>4, <1>6, <1>7
<1>9. PICK k \in Nat : ReaderAt(k) BY DEF StreamCut
<1>10. ReaderAt(k)' BY <1>4, <1>9 DEF ReaderAt
<1>11. (peer = "library" => Cut(sent, data \o wire, Len(data) + Len(wire)))'
  BY <1>4 DEF StreamCut
<1> QED BY <1>1, <1>4, <1>8, <1>10, <1>11 DEF StreamCut

\* A read that fails, and a step that changes nothing.
LEMMA QuietCut == ASSUME StreamCut, ReadFails \/ UNCHANGED vars PROVE StreamCut'
<1>1. /\ data' = data /\ wire' = wire /\ sent' = sent /\ peer' = peer /\ received' = received
      /\ pos' = pos /\ bodyLen' = bodyLen /\ left' = left /\ parsed' = parsed
      /\ reader' = reader \/ reader' = "failed"
  BY DEF ReadFails, vars, readVars, bufVars
<1>2. PICK k \in Nat : ReaderAt(k) BY DEF StreamCut
<1>3. ReaderAt(k)' BY <1>1, <1>2 DEF ReaderAt
<1>4. /\ data' \in Seq(Byte) /\ wire' \in Seq(Byte) /\ Cut(parsed, data, left)'
      /\ (peer = "library" => Cut(sent, data \o wire, Len(data) + Len(wire)))'
  BY <1>1 DEF StreamCut
<1> QED BY <1>3, <1>4 DEF StreamCut

LEMMA AlwaysCut == Spec => []StreamCut
<1>1. StreamCut /\ [Next]_vars => StreamCut'
  <2> SUFFICES ASSUME StreamCut, [Next]_vars PROVE StreamCut' OBVIOUS
  <2>1. CASE \E m \in Outgoing : Write(m) BY <2>1, WriteCut
  <2>2. CASE Arrive BY <2>2, ArriveCut
  <2>3. CASE \E b \in Byte : ArriveAny(b) BY <2>3, ArriveAnyCut
  <2>4. CASE ReadLength BY <2>4, ReadLengthCut
  <2>5. CASE ReadBody BY <2>5, ReadBodyCut
  <2>6. CASE ReadFails \/ UNCHANGED vars BY <2>6, QuietCut
  <2>7. CASE ParseBuffer BY <2>7, ParseBufferCut
  <2> QED BY <2>1, <2>2, <2>3, <2>4, <2>5, <2>6, <2>7 DEF Next
<1> QED BY <1>1, InitCut, PTL DEF Spec

-----------------------------------------------------------------------------
(* Theorems *)

\* Between two messages the bytes the receiving loop has read are exactly the
\* encodings of the messages it has returned, whatever a peer sends, for every
\* width of the fields and every limit that fits them.
THEOREM InSync == Spec => []StreamInSync
<1>1. StreamCut => StreamInSync
  <2> SUFFICES ASSUME StreamCut, reader = "length" PROVE SubSeq(data, 1, pos) = Encoded(received)
    BY DEF StreamInSync
  <2>1. PICK k \in Nat : ReaderAt(k) BY DEF StreamCut
  <2>2. pos = k /\ Cut(received, data, k) /\ data \in Seq(Byte) BY <2>1 DEF ReaderAt, StreamCut
  <2> QED BY <2>2, CutEncoded
<1> QED BY <1>1, AlwaysCut, PTL

\* ParseFromReader and ParseWithRemaining cut any bytes into the same messages,
\* and behind bytes the reader has refused the buffer holds no message either.
THEOREM SameMessages == Spec => []ParsersAgree
<1>1. StreamCut => ParsersAgree
  <2> SUFFICES ASSUME StreamCut PROVE ParsersAgree OBVIOUS
  <2>1. PICK k \in Nat : ReaderAt(k) BY DEF StreamCut
  <2>2. Cut(received, data, k) /\ Cut(parsed, data, left) /\ data \in Seq(Byte)
    BY <2>1 DEF ReaderAt, StreamCut
  <2>3. Len(received) \in Nat /\ Len(parsed) \in Nat BY <2>2, SeqLen DEF Cut
  <2>4. Len(received) <= Len(parsed) \/ Len(parsed) <= Len(received) BY <2>3
  <2>5. Prefix(received, parsed) \/ Prefix(parsed, received) BY <2>2, <2>4, OneCut
  <2>6. ASSUME reader = "invalid" PROVE Len(parsed) <= Len(received)
    <3> SUFFICES ASSUME Len(received) < Len(parsed) PROVE FALSE BY <2>3
    <3> DEFINE m == parsed[Len(received) + 1]
    <3>1. Len(received) <= Len(parsed) BY <2>3
    <3>2. m \in WellFormed /\ Holds(data, k, Encode(m)) BY <2>2, <3>1, OneCut, Zenon
    <3>3. Stuck(data, k) BY <2>1, <2>6 DEF ReaderAt
    <3> HIDE DEF m
    <3> QED BY <2>2, <3>2, <3>3, StuckHolds
  <2> QED BY <2>5, <2>6 DEF ParsersAgree
<1> QED BY <1>1, AlwaysCut, PTL

\* What either parser returns is a prefix of what the library has sent: no
\* message is lost, cut, joined with another or reordered, however the bytes
\* are chunked.
THEOREM ReceivedAsSent == Spec => []ReceivedIsSent
<1>1. StreamCut => ReceivedIsSent
  <2> SUFFICES ASSUME StreamCut, peer = "library"
               PROVE  Prefix(received, sent) /\ Prefix(parsed, sent)
    BY DEF ReceivedIsSent
  <2> DEFINE all == data \o wire
             end == Len(data) + Len(wire)
  <2>1. PICK k \in Nat : ReaderAt(k) BY DEF StreamCut
  <2>2. data \in Seq(Byte) /\ wire \in Seq(Byte) /\ Cut(parsed, data, left)
        /\ Cut(received, data, k) /\ Cut(sent, all, end)
    BY <2>1 DEF ReaderAt, StreamCut
  <2>3. all \in Seq(Byte) /\ Len(all) = end /\ end \in Nat
    <3>1. Len(data) \in Nat /\ Len(wire) \in Nat BY <2>2, SeqLen
    <3> QED BY <2>2, <3>1, SeqConcat
  <2>4. Cut(parsed, all, left) /\ Cut(received, all, k) BY <2>2, CutGrow
  <2> HIDE DEF all, end
  <2>5. ASSUME NEW s, NEW l, Cut(s, all, l) PROVE Prefix(s, sent)
    <3>1. Len(s) \in Nat /\ Len(sent) \in Nat BY <2>2, <2>5, SeqLen DEF Cut
    <3>2. CASE Len(s) <= Len(sent) BY <2>2, <2>3, <2>5, <3>2, OneCut
    <3>3. CASE Len(sent) < Len(s)
      <4> DEFINE m == s[Len(sent) + 1]
      <4>1. Len(sent) <= Len(s) BY <3>1, <3>3
      <4>2. m \in WellFormed /\ Holds(all, end, Encode(m)) BY <2>2, <2>3, <2>5, <3>3, <4>1, OneCut, Zenon
      <4> HIDE DEF m
      <4>3. Len(Encode(m)) \in Nat /\ Len(Encode(m)) >= 1 BY <4>2, EncodeLen
      <4>4. end + Len(Encode(m)) <= end BY <2>3, <4>2 DEF Holds
      <4> QED BY <2>3, <4>3, <4>4
    <3> QED BY <3>1, <3>2, <3>3
  <2> QED BY <2>4, <2>5
<1> QED BY <1>1, AlwaysCut, PTL
=============================================================================
