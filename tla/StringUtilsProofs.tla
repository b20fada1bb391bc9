------------------------- MODULE StringUtilsProofs -------------------------
(***************************************************************************)
(* What trim() and toUnsignedInt() return, for every string, the order of  *)
(* strings, and the induction and recursion these facts rest on.           *)
(***************************************************************************)
EXTENDS StringUtils, SequenceTheorems, FiniteSetTheorems, WellFoundedInduction, TLAPS

(* Induction over a set of numbers: there is no least number outside it.   *)
LEMMA NatSetInduction ==
  ASSUME NEW S, 0 \in S, \A n \in Nat : n \in S => n + 1 \in S
  PROVE  Nat \subseteq S
<1>. SUFFICES ASSUME Nat \ S # {} PROVE FALSE
  OBVIOUS
<1>1. IsWellFoundedOn(OpToRel(<, Nat), Nat)
  BY NatLessThanWellFounded
<1>2. PICK m \in Nat \ S : \A k \in Nat \ S : ~(<<k, m>> \in OpToRel(<, Nat))
  BY <1>1, WFMin
<1>3. m \in Nat /\ m \notin S /\ m # 0
  BY <1>2, Zenon
<1>4. m - 1 \in Nat /\ m - 1 < m /\ (m - 1) + 1 = m
  BY <1>3
<1>5. m - 1 \in S
  BY <1>2, <1>3, <1>4 DEF OpToRel
<1>6. m \in S
  <2>1. (m - 1) + 1 \in S
    BY <1>4, <1>5, Zenon
  <2>. QED  BY <1>4, <2>1
<1>. QED  BY <1>3, <1>6, Zenon

(* What a recursive function on 0 .. N computes, by a step on the values of *)
(* S: there is such a function, and any function that takes the same steps *)
(* is that one.                                                            *)
Iterates(f, N, z, step) == f[0] = z /\ \A n \in 1 .. N : f[n] = step[n][f[n - 1]]

TakesSteps(g, N, S, z, step) ==
  g[0] = z /\ \A n \in 1 .. N : g[n - 1] \in S => g[n] = step[n][g[n - 1]]

LEMMA Iteration ==
  ASSUME NEW N \in Nat, NEW S, NEW z \in S, NEW step \in [1 .. N -> [S -> S]]
  PROVE  \E f \in [0 .. N -> S] : Iterates(f, N, z, step)
<1>. DEFINE P(k) == \E f \in [0 .. k -> S] : Iterates(f, k, z, step)
            T == {k \in Nat : k <= N => P(k)}
<1>1. 0 \in T
  <2>1. [k \in 0 .. 0 |-> z] \in [0 .. 0 -> S] /\ Iterates([k \in 0 .. 0 |-> z], 0, z, step)
    BY DEF Iterates
  <2>. QED  BY <2>1
<1>2. ASSUME NEW k \in Nat, k \in T PROVE k + 1 \in T
  <2>. SUFFICES ASSUME k + 1 <= N PROVE P(k + 1)
    BY k + 1 \in Nat
  <2>1. PICK f \in [0 .. k -> S] : Iterates(f, k, z, step)
    BY <1>2
  <2>. DEFINE g == [i \in 0 .. k + 1 |-> IF i = k + 1 THEN step[k + 1][f[k]] ELSE f[i]]
  <2>2. step[k + 1][f[k]] \in S
    BY k \in 0 .. k, k + 1 \in 1 .. N
  <2>3. g \in [0 .. k + 1 -> S]
    BY <2>2
  <2>4. g[k + 1] = step[k + 1][f[k]] /\ \A i \in 0 .. k : g[i] = f[i]
    OBVIOUS
  <2>. HIDE DEF g
  <2>5. ASSUME NEW n \in 1 .. k + 1 PROVE g[n] = step[n][g[n - 1]]
    <3>1. CASE n = k + 1
      BY <2>4, <3>1
    <3>2. CASE n # k + 1
      <4>1. n \in 1 .. k /\ n \in 0 .. k /\ n - 1 \in 0 .. k
        BY <3>2
      <4>. QED  BY <2>1, <2>4, <4>1 DEF Iterates
    <3>. QED  BY <3>1, <3>2
  <2>6. Iterates(g, k + 1, z, step)
    BY <2>1, <2>4, <2>5 DEF Iterates
  <2>. QED  BY <2>3, <2>6
<1>. HIDE DEF P
<1>3. N \in T
  <2>. HIDE DEF T
  <2>. QED  BY <1>1, <1>2, NatSetInduction
<1>. QED  BY <1>3 DEF P

IteratesOn(f, N, S, z, step) ==
  /\ N \in Nat /\ z \in S /\ step \in [1 .. N -> [S -> S]] /\ f \in [0 .. N -> S]
  /\ Iterates(f, N, z, step)

SameUpTo(N, g, f) == \A n \in 0 .. N : g[n] = f[n]

LEMMA IterationIsUnique ==
  ASSUME NEW N, NEW S, NEW z, NEW step, NEW f, IteratesOn(f, N, S, z, step),
         NEW g, TakesSteps(g, N, S, z, step)
  PROVE  SameUpTo(N, g, f)
<1>. N \in Nat /\ z \in S /\ step \in [1 .. N -> [S -> S]] /\ f \in [0 .. N -> S]
  BY DEF IteratesOn
<1>. Iterates(f, N, z, step)
  BY DEF IteratesOn
<1>. DEFINE T == {k \in Nat : k <= N => g[k] = f[k]}
<1>1. 0 \in T
  BY DEF Iterates, TakesSteps
<1>2. ASSUME NEW k \in Nat, k \in T PROVE k + 1 \in T
  <2>. SUFFICES ASSUME k + 1 <= N PROVE g[k + 1] = f[k + 1]
    BY k + 1 \in Nat
  <2>1. k + 1 \in 1 .. N /\ (k + 1) - 1 = k /\ k \in 0 .. N
    OBVIOUS
  <2>2. g[k] = f[k] /\ f[k] \in S
    BY <1>2, <2>1
  <2>3. g[k + 1] = step[k + 1][g[k]]
    BY <2>1, <2>2 DEF TakesSteps
  <2>4. f[k + 1] = step[k + 1][f[k]]
    BY <2>1 DEF Iterates
  <2>. QED  BY <2>2, <2>3, <2>4
<1>3. Nat \subseteq T
  <2>. HIDE DEF T
  <2>. QED  BY <1>1, <1>2, NatSetInduction
<1>. QED  BY <1>3 DEF SameUpTo

(* A non-empty set of positions in a string has a least and a greatest one.*)
LEMMA SmallestAndLargest ==
  ASSUME NEW n \in Nat, NEW S, S \subseteq 1 .. n, S # {}
  PROVE  /\ Min(S) \in S /\ Max(S) \in S
         /\ \A y \in S : Min(S) <= y /\ y <= Max(S)
<1>0. S \subseteq Nat /\ \A x \in S : x \in Int /\ n - x \in Nat
  BY SMT
<1>1. \E x \in S : \A y \in S : x =< y
  <2>1. IsWellFoundedOn(OpToRel(<, Nat), Nat)
    BY NatLessThanWellFounded
  <2>2. PICK x \in S : \A y \in S : ~(<<y, x>> \in OpToRel(<, Nat))
    BY <1>0, <2>1, WFMin
  <2>3. \A y \in S : ~(y < x)
    BY <1>0, <2>2 DEF OpToRel
  <2>. QED  BY <1>0, <2>3
<1>2. \E x \in S : \A y \in S : x >= y
  <2>. DEFINE T == {n - x : x \in S}
  <2>1. T \subseteq Nat /\ T # {}
    BY <1>0
  <2>2. IsWellFoundedOn(OpToRel(<, Nat), Nat)
    BY NatLessThanWellFounded
  <2>3. PICK t \in T : \A u \in T : ~(<<u, t>> \in OpToRel(<, Nat))
    BY <2>1, <2>2, WFMin
  <2>4. PICK x \in S : t = n - x
    OBVIOUS
  <2>5. ASSUME NEW y \in S PROVE x >= y
    <3>1. n - y \in T /\ n - y \in Nat /\ t \in Nat
      BY <1>0, <2>1
    <3>2. ~(n - y < t)
      BY <2>3, <3>1 DEF OpToRel
    <3>. QED  BY <1>0, <2>4, <3>2
  <2>. QED  BY <2>5
<1>3. Min(S) \in S /\ \A y \in S : Min(S) =< y
  BY <1>1 DEF Min
<1>4. Max(S) \in S /\ \A y \in S : Max(S) >= y
  BY <1>2 DEF Max
<1>5. \A y \in S : y <= Max(S)
  BY <1>0, <1>4
<1>. QED  BY <1>3, <1>4, <1>5

(* The least element is the only one that is below all the others.         *)
LEMMA LeastIsMin ==
  ASSUME NEW S, S \subseteq Int, NEW x \in S, \A y \in S : x <= y
  PROVE  Min(S) = x
<1>1. \A z \in S : (\A y \in S : z =< y) => z = x
  <2>. TAKE z \in S
  <2>. HAVE \A y \in S : z =< y
  <2>1. z =< x /\ x =< z /\ z \in Int /\ x \in Int
    OBVIOUS
  <2>. QED  BY <2>1
<1>2. Min(S) \in S /\ \A y \in S : Min(S) =< y
  BY DEF Min
<1>. QED  BY <1>1, <1>2

(* trim() returns a string that is no longer than its argument.            *)
LEMMA TrimType ==
  ASSUME NEW str \in String
  PROVE  trim(str) \in String /\ Len(trim(str)) <= Len(str)
<1>. DEFINE kept == {i \in 1 .. Len(str) : str[i] \notin Blank}
<1>1. CASE kept = {}
  BY <1>1 DEF trim, String
<1>2. CASE kept # {}
  <2>1. Min(kept) \in kept /\ Max(kept) \in kept
    BY <1>2, SmallestAndLargest, Len(str) \in Nat DEF String
  <2>. DEFINE m == Min(kept)
              k == Max(kept)
  <2>2. m \in 1 .. Len(str) /\ k \in 1 .. Len(str)
    BY <2>1
  <2>. HIDE DEF m, k
  <2>3. \A i \in m .. k : str[i] \in Char
    BY <2>2 DEF String
  <2>4. /\ SubSeq(str, m, k) \in Seq(Char)
        /\ Len(SubSeq(str, m, k)) = IF m <= k THEN k - m + 1 ELSE 0
    BY <2>2, <2>3, SubSeqProperties
  <2>5. trim(str) = SubSeq(str, m, k)
    BY <1>2 DEF trim, m, k
  <2>. QED  BY <2>2, <2>4, <2>5 DEF String
<1>. QED  BY <1>1, <1>2

(* trim() leaves a string alone that has no blanks.                        *)
LEMMA TrimNothing ==
  ASSUME NEW str \in String, \A i \in 1 .. Len(str) : str[i] \notin Blank
  PROVE  trim(str) = str
<1>. DEFINE kept == {i \in 1 .. Len(str) : str[i] \notin Blank}
<1>0. Len(str) \in Nat
  BY DEF String
<1>1. kept = 1 .. Len(str)
  OBVIOUS
<1>2. CASE str = << >>
  BY <1>1, <1>2 DEF trim
<1>3. CASE str # << >>
  <2>1. 1 \in kept /\ Len(str) \in kept
    BY <1>0, <1>1, <1>3, EmptySeq DEF String
  <2>2. Min(kept) \in kept /\ Max(kept) \in kept
    BY <1>0, <2>1, SmallestAndLargest
  <2>3. Min(kept) = 1 /\ Max(kept) = Len(str)
    BY <1>0, <1>1, <2>1 DEF Min, Max
  <2>4. trim(str) = SubSeq(str, 1, Len(str))
    BY <2>1, <2>3 DEF trim
  <2>. QED  BY <2>4, SubSeqFull, Zenon DEF String
<1>. QED  BY <1>2, <1>3

-----------------------------------------------------------------------------
(* The number that a string of digits stands for.  Reads says that f holds *)
(* the numbers of the first 0 .. n digits.                                 *)

Reads(f, digits, base, n) ==
  f = [k \in 0 .. n |->
         IF k = 0 THEN 0 ELSE Accumulate(f[k - 1], hexValue(digits[k]), base)]

SameStart(d, e, n) == \A i \in 1 .. n : d[i] = e[i]

LEMMA ReadsExists ==
  ASSUME NEW digits, NEW base, NEW n \in Nat
  PROVE  \E f : Reads(f, digits, base, n)
<1>. DEFINE S == {k \in Nat : \E f : Reads(f, digits, base, k)}
            Next_(f, k) == Accumulate(f[k - 1], hexValue(digits[k]), base)
<1>1. 0 \in S
  <2>1. Reads([k \in 0 .. 0 |-> 0], digits, base, 0)
    BY DEF Reads
  <2>. QED  BY <2>1
<1>2. ASSUME NEW k \in Nat, k \in S PROVE k + 1 \in S
  <2>1. PICK f : Reads(f, digits, base, k)
    BY <1>2
  <2>. DEFINE g == [i \in 0 .. k + 1 |-> IF i = k + 1 THEN Next_(f, k + 1) ELSE f[i]]
  <2>2. \A i \in 0 .. k : f[i] = IF i = 0 THEN 0 ELSE Next_(f, i)
    BY <2>1, Zenon DEF Reads
  <2>3. \A i \in 1 .. k + 1 : g[i - 1] = f[i - 1]
    OBVIOUS
  <2>4. \A i \in 0 .. k + 1 : g[i] = IF i = 0 THEN 0 ELSE Next_(g, i)
    <3>1. \A i \in 1 .. k + 1 : Next_(g, i) = Next_(f, i)
      BY <2>3
    <3>2. \A i \in 0 .. k + 1 : g[i] = IF i = k + 1 THEN Next_(f, k + 1) ELSE f[i]
      OBVIOUS
    <3>. HIDE DEF g, Next_
    <3>. QED  BY <2>2, <3>1, <3>2
  <2>5. g = [i \in 0 .. k + 1 |-> g[i]]
    OBVIOUS
  <2>6. Reads(g, digits, base, k + 1)
    <3>. HIDE DEF g
    <3>. QED  BY <2>4, <2>5, Zenon DEF Reads
  <2>. QED  BY <2>6
<1>. QED  BY <1>1, <1>2, NatSetInduction

LEMMA NumberOfReads ==
  ASSUME NEW digits \in String, NEW base
  PROVE  \E f : Reads(f, digits, base, Len(digits)) /\ NumberOf(digits, base) = f[Len(digits)]
<1>. DEFINE f == CHOOSE f : Reads(f, digits, base, Len(digits))
<1>1. Reads(f, digits, base, Len(digits))
  BY ReadsExists, Len(digits) \in Nat DEF String
<1>2. NumberOf(digits, base) = f[Len(digits)]
  BY DEF NumberOf, Reads
<1>. QED  BY <1>1, <1>2

(* No digits stand for 0.                                                  *)
LEMMA NumberOfNothing == ASSUME NEW base PROVE NumberOf(<< >>, base) = 0
<1>1. << >> \in String /\ Len(<< >>) = 0
  BY DEF String
<1>2. PICK f : Reads(f, << >>, base, 0) /\ NumberOf(<< >>, base) = f[0]
  BY <1>1, NumberOfReads
<1>. QED  BY <1>2 DEF Reads

(* One more digit is one more step of the conversion.                      *)
LEMMA NumberOfLonger ==
  ASSUME NEW digits \in String, NEW more \in String, NEW base, NEW n \in Nat,
         Len(digits) = n, Len(more) = n + 1, SameStart(digits, more, n)
  PROVE  NumberOf(more, base) = Accumulate(NumberOf(digits, base), hexValue(more[n + 1]), base)
<1>1. PICK f : Reads(f, digits, base, n) /\ NumberOf(digits, base) = f[n]
  BY NumberOfReads
<1>2. PICK g : Reads(g, more, base, n + 1) /\ NumberOf(more, base) = g[n + 1]
  BY NumberOfReads
<1>. DEFINE S == {k \in Nat : k <= n => f[k] = g[k]}
<1>3. 0 \in S
  BY <1>1, <1>2 DEF Reads
<1>4. ASSUME NEW k \in Nat, k \in S PROVE k + 1 \in S
  <2>. SUFFICES ASSUME k + 1 <= n PROVE f[k + 1] = g[k + 1]
    BY k + 1 \in Nat
  <2>1. k + 1 # 0 /\ (k + 1) - 1 = k /\ k + 1 \in 0 .. n /\ k + 1 \in 0 .. n + 1
    OBVIOUS
  <2>2. f[k + 1] = Accumulate(f[k], hexValue(digits[k + 1]), base)
    BY <1>1, <2>1, Zenon DEF Reads
  <2>3. g[k + 1] = Accumulate(g[k], hexValue(more[k + 1]), base)
    BY <1>2, <2>1, Zenon DEF Reads
  <2>4. f[k] = g[k] /\ digits[k + 1] = more[k + 1]
    BY <1>4, <2>1 DEF SameStart
  <2>. QED  BY <2>2, <2>3, <2>4
<1>5. f[n] = g[n]
  <2>. HIDE DEF S
  <2>1. n \in S
    BY <1>3, <1>4, NatSetInduction
  <2>. QED  BY <2>1 DEF S
<1>6. (n + 1) - 1 = n /\ n + 1 # 0 /\ n + 1 \in 0 .. n + 1
  OBVIOUS
<1>7. g[n + 1] = Accumulate(g[(n + 1) - 1], hexValue(more[n + 1]), base)
  BY <1>2, <1>6, Zenon DEF Reads
<1>. QED  BY <1>1, <1>2, <1>5, <1>6, <1>7

LEMMA NumberOfAppend ==
  ASSUME NEW digits \in String, NEW ch \in Char, NEW base
  PROVE  NumberOf(Append(digits, ch), base)
           = Accumulate(NumberOf(digits, base), hexValue(ch), base)
<1>. DEFINE n == Len(digits)
<1>1. /\ Append(digits, ch) \in String /\ n \in Nat
      /\ Len(Append(digits, ch)) = n + 1
      /\ Append(digits, ch)[n + 1] = ch
  BY DEF String
<1>2. SameStart(digits, Append(digits, ch), n)
  BY DEF SameStart, String
<1>. HIDE DEF n
<1>3. NumberOf(Append(digits, ch), base)
        = Accumulate(NumberOf(digits, base), hexValue(Append(digits, ch)[n + 1]), base)
  BY <1>1, <1>2, NumberOfLonger, Zenon DEF n
<1>. QED  BY <1>1, <1>3

LEMMA AccumulateType ==
  ASSUME NEW result, NEW digit \in Nat, NEW base \in Nat, result \in UInt \cup {NotANumber}
  PROVE  Accumulate(result, digit, base) \in UInt \cup {NotANumber}
<1>1. CASE result = NotANumber
  BY <1>1 DEF Accumulate
<1>2. CASE result \in UInt
  <2>1. result * base + digit \in Nat
    BY <1>2, UIntSizeAssumption DEF UInt
  <2>2. (result * base + digit) % UIntSize \in UInt
    <3>. DEFINE sum == result * base + digit
    <3>1. sum \in Nat
      BY <2>1
    <3>. HIDE DEF sum
    <3>2. sum % UIntSize \in UInt
      BY <3>1, UIntSizeAssumption DEF UInt
    <3>. QED  BY <3>2 DEF sum
  <2>. QED  BY <2>2, Zenon DEF Accumulate
<1>. QED  BY <1>1, <1>2

(* The value is an unsigned int, or the conversion has thrown.             *)
LEMMA NumberOfType ==
  ASSUME NEW digits \in String, NEW base \in Nat
  PROVE  NumberOf(digits, base) \in UInt \cup {NotANumber}
<1>1. PICK f : Reads(f, digits, base, Len(digits)) /\ NumberOf(digits, base) = f[Len(digits)]
  BY NumberOfReads
<1>. DEFINE n == Len(digits)
            S == {k \in Nat : k <= n => f[k] \in UInt \cup {NotANumber}}
<1>2. n \in Nat /\ \A k \in 1 .. n : digits[k] \in Char
  BY DEF String
<1>3. \A ch \in Char : hexValue(ch) \in Nat
  BY DEF Char, hexValue, isDigit
<1>4. 0 \in S
  BY <1>1, <1>2, UIntSizeAssumption DEF Reads, UInt
<1>5. ASSUME NEW k \in Nat, k \in S PROVE k + 1 \in S
  <2>. SUFFICES ASSUME k + 1 <= n PROVE f[k + 1] \in UInt \cup {NotANumber}
    BY k + 1 \in Nat
  <2>1. k + 1 # 0 /\ (k + 1) - 1 = k /\ k + 1 \in 0 .. n /\ k + 1 \in 1 .. n /\ k <= n
    BY <1>2
  <2>2. f[k + 1] = Accumulate(f[k], hexValue(digits[k + 1]), base)
    BY <1>1, <2>1, Zenon DEF Reads
  <2>3. f[k] \in UInt \cup {NotANumber} /\ hexValue(digits[k + 1]) \in Nat
    BY <1>2, <1>3, <1>5, <2>1
  <2>. QED  BY <2>2, <2>3, AccumulateType
<1>6. n \in S
  <2>. HIDE DEF S
  <2>. QED  BY <1>2, <1>4, <1>5, NatSetInduction
<1>. QED  BY <1>1, <1>2, <1>6

(* toUnsignedInt() never returns anything but an unsigned int.             *)
LEMMA ToUnsignedIntType ==
  ASSUME NEW str \in String, NEW isHex \in BOOLEAN
  PROVE  toUnsignedInt(str, isHex) \in UInt \cup {NotANumber}
<1>. DEFINE digits == Digits(trim(str), isHex)
<1>1. trim(str) \in String
  BY TrimType
<1>2. CASE trim(str) = << >>
  BY <1>2, UIntSizeAssumption DEF toUnsignedInt, UInt
<1>3. CASE trim(str) # << >>
  <2>1. digits \in String
    BY <1>1, <1>3 DEF Digits, String
  <2>2. \A base \in Nat : NumberOf(digits, base) \in UInt \cup {NotANumber}
    BY <2>1, NumberOfType
  <2>3. (IF isHex THEN 16 ELSE 10) \in Nat
    OBVIOUS
  <2>. HIDE DEF digits
  <2>. QED  BY <1>3, <2>2, <2>3 DEF toUnsignedInt, digits
<1>. QED  BY <1>2, <1>3

(* A string of hex digits that is not a number does not become one by     *)
(* another digit.                                                          *)
LEMMA NotANumberStays ==
  ASSUME NEW str \in String, str # << >>, \A i \in 1 .. Len(str) : isHexDigit(str[i]),
         toUnsignedInt(str, TRUE) \notin UInt,
         NEW ch \in Char, isHexDigit(ch)
  PROVE  toUnsignedInt(Append(str, ch), TRUE) \notin UInt
<1>. DEFINE more == Append(str, ch)
<1>1. more \in String /\ more # << >> /\ \A i \in 1 .. Len(more) : isHexDigit(more[i])
  BY DEF String
<1>2. \A s \in String : s # << >> /\ (\A i \in 1 .. Len(s) : isHexDigit(s[i]))
        => toUnsignedInt(s, TRUE) = NumberOf(s, 16)
  <2>. TAKE s \in String
  <2>. HAVE s # << >> /\ \A i \in 1 .. Len(s) : isHexDigit(s[i])
  <2>1. \A i \in 1 .. Len(s) : s[i] \notin Blank
    <3>1. \A c \in Char : isHexDigit(c) => c \notin Blank
      BY DEF Char, Blank, isHexDigit, isDigit, SP, HT, CR, LF
    <3>2. \A i \in 1 .. Len(s) : s[i] \in Char
      BY DEF String
    <3>. QED  BY <3>1, <3>2
  <2>2. trim(s) = s
    BY <2>1, TrimNothing
  <2>. QED  BY <2>2 DEF toUnsignedInt, Digits, IsDigitOf
<1>3. NumberOf(str, 16) = NotANumber
  <2>1. toUnsignedInt(str, TRUE) = NumberOf(str, 16)
    BY <1>2
  <2>. QED  BY <2>1, NumberOfType
<1>4. NumberOf(more, 16) = NotANumber
  BY <1>3, NumberOfAppend, Zenon DEF Accumulate
<1>. HIDE DEF more
<1>5. toUnsignedInt(more, TRUE) = NumberOf(more, 16)
  BY <1>1, <1>2
<1>6. NotANumber \notin UInt
  BY UIntSizeAssumption DEF UInt, NotANumber
<1>. QED  BY <1>4, <1>5, <1>6 DEF more

-----------------------------------------------------------------------------
(* Strings made of strings, one behind the other.                          *)

\* f holds the first 0 .. Len(strs) of strs as one.
Flattens(f, strs) ==
  /\ f[0] = << >>
  /\ \A n \in 1 .. Len(strs) : f[n] = f[n - 1] \o strs[n]

LEMMA FlattenReads ==
  ASSUME NEW A, NEW strs \in Seq(Seq(A))
  PROVE  \E f \in [0 .. Len(strs) -> Seq(A)] :
           Flattens(f, strs) /\ FlattenSeq(strs) = f[Len(strs)]
<1>. DEFINE N == Len(strs)
            step == [n \in 1 .. N |-> [s \in Seq(A) |-> s \o strs[n]]]
            F(g) == g = [i \in 1 .. N |-> IF i = 1 THEN strs[i] ELSE g[i - 1] \o strs[i]]
<1>1. N \in Nat /\ << >> \in Seq(A) /\ \A n \in 1 .. N : strs[n] \in Seq(A)
  OBVIOUS
<1>2. step \in [1 .. N -> [Seq(A) -> Seq(A)]]
  BY <1>1
<1>. HIDE DEF N
<1>3. PICK f \in [0 .. N -> Seq(A)] : Iterates(f, N, << >>, step)
  <2>. HIDE DEF step
  <2>. QED  BY <1>1, <1>2, Iteration
<1>4. ASSUME NEW n \in 1 .. N PROVE f[n] = f[n - 1] \o strs[n] /\ f[n - 1] \in Seq(A)
  <2>1. n - 1 \in 0 .. N
    BY <1>1
  <2>2. step[n] = [s \in Seq(A) |-> s \o strs[n]] /\ f[n - 1] \in Seq(A)
    BY <2>1
  <2>. HIDE DEF step
  <2>. QED  BY <1>3, <2>2 DEF Iterates
<1>5. Flattens(f, strs)
  BY <1>3, <1>4 DEF Flattens, Iterates, N
<1>6. CASE N = 0
  <2>1. strs = << >>
    BY <1>6 DEF N
  <2>. QED  BY <1>3, <1>5, <1>6, <2>1 DEF FlattenSeq, Flattens, N
<1>7. CASE N # 0
  <2>. DEFINE h == [i \in 1 .. N |-> f[i]]
  <2>1. f[1] = strs[1]
    <3>1. 1 \in 1 .. N /\ f[0] = << >> /\ 1 - 1 = 0
      BY <1>1, <1>3, <1>7 DEF Iterates
    <3>2. f[1] = f[1 - 1] \o strs[1]
      BY <1>4, <3>1
    <3>3. f[1] = << >> \o strs[1]
      BY <3>1, <3>2
    <3>. QED  BY <1>1, <3>1, <3>3, ConcatEmptySeq
  <2>2. ASSUME NEW i \in 1 .. N
        PROVE  h[i] = IF i = 1 THEN strs[i] ELSE h[i - 1] \o strs[i]
    <3>1. i # 1 => i - 1 \in 1 .. N
      BY <1>1
    <3>. QED  BY <1>4, <2>1, <3>1
  <2>3. F(h)
    <3>1. h = [i \in 1 .. N |-> h[i]]
      OBVIOUS
    <3>. HIDE DEF h
    <3>. QED  BY <2>2, <3>1
  <2>. DEFINE g == CHOOSE g : F(g)
  <2>4. F(g)
    BY <2>3
  <2>5. FlattenSeq(strs) = g[N]
    BY <1>7 DEF FlattenSeq, N
  <2>. DEFINE e == [i \in 0 .. N |-> IF i = 0 THEN << >> ELSE g[i]]
  <2>6. \A i \in 1 .. N : g[i] = IF i = 1 THEN strs[i] ELSE g[i - 1] \o strs[i]
    <3>. HIDE DEF g
    <3>. QED  BY <2>4, Zenon
  <2>. HIDE DEF g, F
  <2>7. TakesSteps(e, N, Seq(A), << >>, step)
    <3>1. ASSUME NEW i \in 1 .. N, e[i - 1] \in Seq(A) PROVE e[i] = e[i - 1] \o strs[i]
      <4>1. CASE i = 1
        BY <1>1, <2>6, <4>1, ConcatEmptySeq
      <4>2. CASE i # 1
        <5>1. i - 1 \in 1 .. N /\ i - 1 # 0
          BY <1>1, <4>2
        <5>2. e[i] = g[i] /\ e[i - 1] = g[i - 1]
          BY <5>1
        <5>. QED  BY <2>6, <4>2, <5>2
      <4>. QED  BY <4>1, <4>2
    <3>2. e[0] = << >>
      BY <1>1
    <3>. HIDE DEF e
    <3>. QED  BY <3>1, <3>2 DEF TakesSteps
  <2>8. e[N] = f[N]
    <3>. HIDE DEF e, step, h
    <3>1. \A n \in 0 .. N : e[n] = f[n]
      <4>1. IteratesOn(f, N, Seq(A), << >>, step)
        BY <1>1, <1>2, <1>3 DEF IteratesOn
      <4>2. SameUpTo(N, e, f)
        BY <2>7, <4>1, IterationIsUnique, Zenon
      <4>. QED  BY <4>2 DEF SameUpTo
    <3>2. N \in 0 .. N
      BY <1>1
    <3>. QED  BY <3>1, <3>2, Zenon
  <2>9. e[N] = g[N]
    BY <1>1, <1>7
  <2>. QED  BY <1>5, <2>5, <2>8, <2>9 DEF N
<1>. QED  BY <1>6, <1>7

LEMMA FlattenType ==
  ASSUME NEW A, NEW strs \in Seq(Seq(A))
  PROVE  FlattenSeq(strs) \in Seq(A)
<1>1. PICK f \in [0 .. Len(strs) -> Seq(A)] : FlattenSeq(strs) = f[Len(strs)]
  BY FlattenReads
<1>. QED  BY <1>1

-----------------------------------------------------------------------------
(* The order of strings.                                                   *)

(* Two strings are the same, or one is before the other: by the first      *)
(* place at which one has ended or they differ.                            *)
LEMMA BeforeTotal ==
  ASSUME NEW a \in Seq(Int), NEW b \in Seq(Int), ~Before(a, b), ~Before(b, a)
  PROVE  a = b
<1>. DEFINE n == IF Len(a) <= Len(b) THEN Len(a) ELSE Len(b)
            D == {i \in 1 .. n : a[i] # b[i]}
<1>1. /\ Len(a) \in Nat /\ Len(b) \in Nat /\ n \in Nat /\ n <= Len(a) /\ n <= Len(b)
      /\ n = Len(a) \/ n = Len(b)
  OBVIOUS
<1>. HIDE DEF n
<1>2. D = {}
  <2>. SUFFICES ASSUME D # {} PROVE FALSE
    OBVIOUS
  <2>1. PICK i \in D : \A j \in D : i <= j
    BY <1>1, SmallestAndLargest
  <2>2. \A j \in 1 .. i - 1 : j \in 1 .. Len(a) /\ j \in 1 .. Len(b) /\ a[j] = b[j]
    <3>. TAKE j \in 1 .. i - 1
    <3>1. j \in 1 .. n /\ ~(i <= j)
      BY <1>1, <2>1
    <3>. QED  BY <1>1, <2>1, <3>1
  <2>3. i \in 1 .. Len(a) /\ i \in 1 .. Len(b) /\ a[i] \in Int /\ b[i] \in Int /\ a[i] # b[i]
    BY <1>1, <2>1
  <2>4. a[i] < b[i] \/ b[i] < a[i]
    BY <2>3
  <2>5. CASE a[i] < b[i]
    <3>1. i \in 1 .. Len(b) /\ i <= Len(a)
      BY <2>3
    <3>2. \A j \in 1 .. i - 1 : j \in 1 .. Len(a) /\ a[j] = b[j]
      BY <2>2
    <3>. QED  BY <2>5, <3>1, <3>2, Zenon DEF Before
  <2>6. CASE b[i] < a[i]
    <3>1. i \in 1 .. Len(a) /\ i <= Len(b)
      BY <2>3
    <3>2. \A j \in 1 .. i - 1 : j \in 1 .. Len(b) /\ b[j] = a[j]
      BY <2>2
    <3>. QED  BY <2>6, <3>1, <3>2, Zenon DEF Before
  <2>. QED  BY <2>4, <2>5, <2>6
<1>3. \A i \in 1 .. n : a[i] = b[i]
  BY <1>2
<1>4. Len(a) = Len(b)
  <2>1. CASE Len(a) < Len(b)
    <3>1. Len(a) + 1 \in 1 .. Len(b) /\ n = Len(a)
      BY <1>1, <2>1
    <3>2. \A j \in 1 .. (Len(a) + 1) - 1 : j \in 1 .. Len(a) /\ a[j] = b[j]
      BY <1>1, <1>3, <3>1
    <3>. QED  BY <3>1, <3>2 DEF Before
  <2>2. CASE Len(b) < Len(a)
    <3>1. Len(b) + 1 \in 1 .. Len(a) /\ n = Len(b)
      BY <1>1, <2>2
    <3>2. \A j \in 1 .. (Len(b) + 1) - 1 : j \in 1 .. Len(b) /\ b[j] = a[j]
      BY <1>1, <1>3, <3>1
    <3>. QED  BY <3>1, <3>2 DEF Before
  <2>. QED  BY <1>1, <2>1, <2>2
<1>. QED  BY <1>1, <1>3, <1>4, SeqEqual

LEMMA BeforeTransitive ==
  ASSUME NEW a \in Seq(Int), NEW b \in Seq(Int), NEW c \in Seq(Int), Before(a, b), Before(b, c)
  PROVE  Before(a, c)
<1>1. PICK i \in 1 .. Len(b) :
        /\ \A j \in 1 .. i - 1 : j \in 1 .. Len(a) /\ a[j] = b[j]
        /\ i = Len(a) + 1 \/ (i <= Len(a) /\ a[i] < b[i])
  BY DEF Before
<1>2. PICK k \in 1 .. Len(c) :
        /\ \A j \in 1 .. k - 1 : j \in 1 .. Len(b) /\ b[j] = c[j]
        /\ k = Len(b) + 1 \/ (k <= Len(b) /\ b[k] < c[k])
  BY DEF Before
<1>0. /\ Len(a) \in Nat /\ Len(b) \in Nat /\ Len(c) \in Nat
      /\ \A j \in 1 .. Len(a) : a[j] \in Int
      /\ \A j \in 1 .. Len(b) : b[j] \in Int
      /\ \A j \in 1 .. Len(c) : c[j] \in Int
  OBVIOUS
<1>3. CASE i < k
  <2>1. i \in 1 .. k - 1 /\ i \in 1 .. Len(c)
    BY <1>0, <1>3
  <2>2. \A j \in 1 .. i - 1 : j \in 1 .. Len(a) /\ a[j] = c[j]
    BY <1>0, <1>1, <1>2, <1>3, SMTT(60)
  <2>3. i = Len(a) + 1 \/ (i <= Len(a) /\ a[i] < c[i])
    BY <1>0, <1>1, <1>2, <2>1
  <2>. QED  BY <2>1, <2>2, <2>3 DEF Before
<1>4. CASE k <= i
  <2>1. \A j \in 1 .. k - 1 : j \in 1 .. Len(a) /\ a[j] = c[j]
    BY <1>0, <1>1, <1>2, <1>4, SMTT(60)
  <2>2. k <= Len(b) /\ b[k] < c[k]
    BY <1>0, <1>2, <1>4
  <2>3. k = Len(a) + 1 \/ (k <= Len(a) /\ a[k] < c[k])
    <3>1. CASE k = i
      BY <1>0, <1>1, <2>2, <3>1
    <3>2. CASE k < i
      <4>1. k \in 1 .. i - 1
        BY <1>0, <3>2
      <4>. QED  BY <1>0, <1>1, <2>2, <4>1
    <3>. QED  BY <1>0, <1>4, <3>1, <3>2
  <2>. QED  BY <2>1, <2>3 DEF Before
<1>. QED  BY <1>0, <1>3, <1>4

LEMMA BeforeIrreflexive == ASSUME NEW a \in Seq(Int) PROVE ~Before(a, a)
BY DEF Before

-----------------------------------------------------------------------------
(* Inserting into a sequence.                                              *)

(* A set of positions without a gap below any of them.                     *)
LEMMA PrefixSet ==
  ASSUME NEW m \in Nat, NEW S \in SUBSET (1 .. m), \A i \in S : \A j \in 1 .. i : j \in S
  PROVE  Cardinality(S) \in 0 .. m /\ S = 1 .. Cardinality(S)
<1>1. CASE S = {}
  BY <1>1, FS_EmptySet
<1>2. CASE S # {}
  <2>1. Max(S) \in S /\ \A y \in S : y <= Max(S)
    BY <1>2, SmallestAndLargest
  <2>. DEFINE k == Max(S)
  <2>2. k \in 1 .. m
    BY <2>1
  <2>. HIDE DEF k
  <2>3. S = 1 .. k
    <3>1. \A y \in S : y \in 1 .. k
      BY <2>1, <2>2 DEF k
    <3>2. \A y \in 1 .. k : y \in S
      BY <2>1 DEF k
    <3>. QED  BY <3>1, <3>2
  <2>4. Cardinality(1 .. k) = k
    <3>1. 1 \in Int /\ k \in Int /\ 1 <= k /\ (k - 1) + 1 = k
      BY <2>2
    <3>. QED  BY <3>1, FS_Interval
  <2>. QED  BY <2>2, <2>3, <2>4
<1>. QED  BY <1>1, <1>2

(* Where everything is when h has been put between front and back.         *)
Between(front, h, back, r) ==
  /\ Len(r) = Len(front) + 1 + Len(back)
  /\ \A i \in 1 .. Len(front) : r[i] = front[i]
  /\ r[Len(front) + 1] = h
  /\ \A i \in 1 .. Len(back) : r[Len(front) + 1 + i] = back[i]

LEMMA Inserted ==
  ASSUME NEW T, NEW front \in Seq(T), NEW h \in T, NEW back \in Seq(T)
  PROVE  Between(front, h, back, front \o <<h>> \o back)
<1>1. <<h>> \in Seq(T) /\ Len(<<h>>) = 1 /\ <<h>>[1] = h
  OBVIOUS
<1>. DEFINE fh == front \o <<h>>
<1>2. fh \in Seq(T) /\ Len(fh) = Len(front) + 1
  BY <1>1
<1>3. (\A i \in 1 .. Len(front) : fh[i] = front[i]) /\ fh[Len(front) + 1] = h
  BY <1>1
<1>. HIDE DEF fh
<1>4. /\ Len(fh \o back) = Len(fh) + Len(back)
      /\ \A i \in 1 .. Len(fh) + Len(back) :
           (fh \o back)[i] = IF i <= Len(fh) THEN fh[i] ELSE back[i - Len(fh)]
  BY <1>2
<1>5. /\ \A i \in 1 .. Len(front) : (fh \o back)[i] = fh[i]
      /\ (fh \o back)[Len(front) + 1] = fh[Len(front) + 1]
  BY <1>2, <1>4
<1>6. ASSUME NEW i \in 1 .. Len(back) PROVE (fh \o back)[Len(front) + 1 + i] = back[i]
  <2>1. /\ Len(fh) + i \in 1 .. Len(fh) + Len(back) /\ ~(Len(fh) + i <= Len(fh))
        /\ (Len(fh) + i) - Len(fh) = i
    BY <1>2
  <2>2. (fh \o back)[Len(fh) + i] = back[i]
    BY <1>4, <2>1
  <2>. QED  BY <1>2, <2>2
<1>. QED  BY <1>2, <1>3, <1>4, <1>5, <1>6 DEF fh, Between
(* What InsertAt() returns: r is es with h behind its first n elements.    *)
InsertedBehind(n, es, h, r) ==
  /\ Len(r) = Len(es) + 1
  /\ \A i \in 1 .. Len(es) + 1 :
       r[i] = IF i <= n THEN es[i] ELSE IF i = n + 1 THEN h ELSE es[i - 1]

LEMMA InsertAtPlaces ==
  ASSUME NEW T, NEW es \in Seq(T), NEW h \in T, NEW n \in 0 .. Len(es)
  PROVE  /\ InsertAt(es, n + 1, h) = SubSeq(es, 1, n) \o <<h>> \o SubSeq(es, n + 1, Len(es))
         /\ InsertAt(es, n + 1, h) \in Seq(T)
         /\ InsertedBehind(n, es, h, InsertAt(es, n + 1, h))
<1>0. Len(es) \in Nat /\ n \in Nat
  OBVIOUS
<1>. DEFINE front == SubSeq(es, 1, n)
            back  == SubSeq(es, n + 1, Len(es))
            r     == front \o <<h>> \o back
<1>1. InsertAt(es, n + 1, h) = r
  <2>1. InsertAt(es, n + 1, h) = SubSeq(es, 1, (n + 1) - 1) \o <<h>> \o SubSeq(es, n + 1, Len(es))
    BY DEF InsertAt
  <2>2. (n + 1) - 1 = n
    BY <1>0
  <2>. QED  BY <2>1, <2>2
<1>2. front \in Seq(T) /\ Len(front) = n /\ \A i \in 1 .. n : front[i] = es[i]
  BY <1>0
<1>3. /\ back \in Seq(T) /\ Len(back) = Len(es) - n
      /\ \A i \in 1 .. Len(es) - n : back[i] = es[n + i]
  BY <1>0
<1>. HIDE DEF front, back
<1>4. r \in Seq(T)
  BY <1>2, <1>3
<1>5. /\ Len(r) = Len(front) + 1 + Len(back)
      /\ \A i \in 1 .. Len(front) : r[i] = front[i]
      /\ r[Len(front) + 1] = h
      /\ \A i \in 1 .. Len(back) : r[Len(front) + 1 + i] = back[i]
  <2>1. Between(front, h, back, front \o <<h>> \o back)
    BY <1>2, <1>3, Inserted, Zenon
  <2>. QED  BY <2>1 DEF Between
<1>. HIDE DEF r
<1>6. ASSUME NEW i \in 1 .. Len(es) + 1
      PROVE  r[i] = IF i <= n THEN es[i] ELSE IF i = n + 1 THEN h ELSE es[i - 1]
  <2>1. CASE i <= n
    <3>1. i \in 1 .. n /\ i \in 1 .. Len(front)
      BY <1>0, <1>2, <2>1
    <3>. QED  BY <1>2, <1>5, <2>1, <3>1
  <2>2. CASE i = n + 1
    BY <1>0, <1>2, <1>5, <2>2
  <2>3. CASE i > n + 1
    <3>1. /\ i - (n + 1) \in 1 .. Len(back) /\ i - (n + 1) \in 1 .. Len(es) - n
          /\ n + (i - (n + 1)) = i - 1 /\ Len(front) + 1 + (i - (n + 1)) = i
      BY <1>0, <1>2, <1>3, <2>3
    <3>2. back[i - (n + 1)] = es[i - 1]
      BY <1>3, <3>1
    <3>3. r[i] = back[i - (n + 1)]
      <4>1. r[Len(front) + 1 + (i - (n + 1))] = back[i - (n + 1)]
        BY <1>5, <3>1
      <4>. QED  BY <3>1, <4>1
    <3>. QED  BY <1>0, <2>3, <3>2, <3>3
  <2>. QED  BY <1>0, <2>1, <2>2, <2>3
<1>7. InsertedBehind(n, es, h, r)
  BY <1>0, <1>2, <1>3, <1>5, <1>6 DEF InsertedBehind
<1>. QED  BY <1>1, <1>4, <1>7 DEF r, front, back
=============================================================================
