---------------------------- MODULE ParamsProofs ----------------------------
(***************************************************************************)
(* What Params and Uri promise about the text of a query, for every text,  *)
(* every name and every value: a query reads back as what was composed.    *)
(***************************************************************************)
EXTENDS Params, StringUtilsProofs

-----------------------------------------------------------------------------
(* The first place of a character in a string.                             *)

FirstOf(str, c) == SelectInSeq(str, LAMBDA ch : ch = c)

IsFirst(k, str, c) ==
  \/ k = 0 /\ \A i \in 1 .. Len(str) : str[i] # c
  \/ k \in 1 .. Len(str) /\ str[k] = c /\ \A i \in 1 .. k - 1 : str[i] # c

LEMMA FirstPlace == ASSUME NEW str \in String, NEW c PROVE IsFirst(FirstOf(str, c), str, c)
<1>. DEFINE S == {i \in 1 .. Len(str) : str[i] = c}
            k == FirstOf(str, c)
<1>0. Len(str) \in Nat
  BY DEF String
<1>1. CASE S = {}
  BY <1>1 DEF SelectInSeq, FirstOf, IsFirst
<1>2. CASE S # {}
  <2>1. k = Min(S)
    BY <1>2 DEF SelectInSeq, FirstOf
  <2>2. Min(S) \in S /\ \A y \in S : Min(S) <= y
    BY <1>0, <1>2, SmallestAndLargest
  <2>. HIDE DEF k
  <2>3. k \in 1 .. Len(str) /\ str[k] = c /\ \A y \in S : k <= y
    BY <2>1, <2>2
  <2>4. \A i \in 1 .. k - 1 : i \in 1 .. Len(str) /\ ~(k <= i)
    BY <1>0, <2>3
  <2>5. \A i \in 1 .. k - 1 : str[i] # c
    BY <2>3, <2>4
  <2>. QED  BY <2>3, <2>5 DEF k, IsFirst
<1>. QED  BY <1>1, <1>2

LEMMA NoPlace ==
  ASSUME NEW str \in String, NEW c, \A i \in 1 .. Len(str) : str[i] # c
  PROVE  FirstOf(str, c) = 0
<1>. DEFINE k == FirstOf(str, c)
<1>1. IsFirst(k, str, c)
  BY FirstPlace
<1>. HIDE DEF k
<1>2. k = 0
  BY <1>1 DEF IsFirst
<1>. QED  BY <1>2 DEF k

LEMMA FirstPlaceIs ==
  ASSUME NEW str \in String, NEW c, NEW n, n # 0, IsFirst(n, str, c)
  PROVE  FirstOf(str, c) = n
<1>. DEFINE k == FirstOf(str, c)
<1>1. IsFirst(k, str, c)
  BY FirstPlace
<1>. HIDE DEF k
<1>2. n \in 1 .. Len(str) /\ str[n] = c /\ \A i \in 1 .. n - 1 : str[i] # c
  BY DEF IsFirst
<1>3. k \in 1 .. Len(str) /\ str[k] = c /\ \A i \in 1 .. k - 1 : str[i] # c
  BY <1>1, <1>2 DEF IsFirst
<1>4. Len(str) \in Nat
  BY DEF String
<1>5. ~(k < n) /\ ~(n < k)
  <2>1. ASSUME k < n PROVE FALSE
    <3>1. k \in 1 .. n - 1
      BY <1>2, <1>3, <2>1
    <3>. QED  BY <1>2, <1>3, <3>1
  <2>2. ASSUME n < k PROVE FALSE
    <3>1. n \in 1 .. k - 1
      BY <1>2, <1>3, <2>2
    <3>. QED  BY <1>2, <1>3, <3>1
  <2>. QED  BY <2>1, <2>2
<1>. QED  BY <1>2, <1>3, <1>4, <1>5 DEF k

-----------------------------------------------------------------------------
(* A Uri.  WellFormed says what the constructor makes sure of.             *)

WellFormed(u) ==
  /\ u.encodedPath \in String /\ u.query \in String
  /\ \A i \in 1 .. Len(u.encodedPath) : u.encodedPath[i] # Question
  /\ u = [encodedPath |-> u.encodedPath, path |-> decodePercent(u.encodedPath), query |-> u.query]

LEMMA UriOfWellFormed == ASSUME NEW str \in String PROVE WellFormed(UriOf(str))
<1>. DEFINE mark == FirstOf(str, Question)
            path == IF mark = 0 THEN str ELSE SubSeq(str, 1, mark - 1)
            q    == IF mark = 0 THEN << >> ELSE Query(str, mark)
<1>1. \/ mark = 0 /\ \A i \in 1 .. Len(str) : str[i] # Question
      \/ mark \in 1 .. Len(str) /\ str[mark] = Question /\ \A i \in 1 .. mark - 1 : str[i] # Question
  BY FirstPlace DEF IsFirst
<1>2. UriOf(str) = [encodedPath |-> path, path |-> decodePercent(path), query |-> q]
  BY DEF UriOf, FirstOf
<1>. HIDE DEF mark
<1>3. path \in String /\ q \in String
  BY <1>1 DEF String, Query
<1>4. \A i \in 1 .. Len(path) : path[i] # Question
  <2>1. CASE mark = 0
    BY <1>1, <2>1
  <2>2. CASE mark \in 1 .. Len(str)
    <3>1. Len(path) = mark - 1 /\ \A i \in 1 .. mark - 1 : path[i] = str[i]
      BY <2>2 DEF String
    <3>. QED  BY <1>1, <2>2, <3>1
  <2>. QED  BY <1>1, <2>1, <2>2
<1>. HIDE DEF path, q
<1>. QED  BY <1>2, <1>3, <1>4 DEF WellFormed

\* Behind a question mark a query is found again, whatever it holds.
LEMMA QueryFound ==
  ASSUME NEW u, WellFormed(u), NEW q \in String
  PROVE  UriOf(u.encodedPath \o <<Question>> \o q)
           = [encodedPath |-> u.encodedPath, path |-> decodePercent(u.encodedPath), query |-> q]
<1>. DEFINE p   == u.encodedPath
            str == p \o <<Question>> \o q
            m   == Len(p) + 1
<1>1. p \in Seq(Char) /\ q \in Seq(Char) /\ Question \in Char
  BY DEF WellFormed, String, Char, Question
<1>2. \A i \in 1 .. Len(p) : p[i] # Question
  BY DEF WellFormed
<1>. HIDE DEF p
<1>. HIDE DEF str
<1>3. /\ Len(str) = Len(p) + 1 + Len(q)
      /\ \A i \in 1 .. Len(p) : str[i] = p[i]
      /\ str[Len(p) + 1] = Question
      /\ \A i \in 1 .. Len(q) : str[Len(p) + 1 + i] = q[i]
  <2>1. Between(p, Question, q, p \o <<Question>> \o q)
    BY <1>1, Inserted, Zenon
  <2>. QED  BY <2>1 DEF str, Between
<1>4. str \in Seq(Char) /\ Len(p) \in Nat /\ Len(q) \in Nat
  BY <1>1 DEF str
<1>5. FirstOf(str, Question) = m
  <2>1. m \in 1 .. Len(str) /\ m - 1 = Len(p)
    BY <1>3, <1>4
  <2>2. \A i \in 1 .. m - 1 : str[i] # Question
    BY <1>2, <1>3, <2>1
  <2>3. IsFirst(m, str, Question) /\ m # 0
    BY <1>3, <2>1, <2>2 DEF IsFirst
  <2>. QED  BY <1>4, <2>3, FirstPlaceIs, Zenon DEF String
<1>6. SubSeq(str, 1, m - 1) = p
  <2>1. m - 1 = Len(p) /\ Len(p) <= Len(str)
    BY <1>3, <1>4
  <2>2. SubSeq(str, 1, Len(p)) \in Seq(Char) /\ Len(SubSeq(str, 1, Len(p))) = Len(p)
    BY <1>4, <2>1
  <2>3. \A i \in 1 .. Len(p) : SubSeq(str, 1, Len(p))[i] = p[i]
    BY <1>3, <1>4, <2>1
  <2>4. SubSeq(str, 1, Len(p)) = p
    BY <1>1, <2>2, <2>3, SeqEqual
  <2>. QED  BY <2>1, <2>4
<1>7. Query(str, m) = q
  <2>1. m + 1 \in Nat /\ Len(str) - m = Len(q) /\ m + 1 >= 1
    BY <1>3, <1>4
  <2>. DEFINE r == SubSeq(str, m + 1, Len(str))
  <2>2. r \in Seq(Char) /\ Len(r) = Len(q) /\ \A i \in 1 .. Len(q) : r[i] = str[m + i]
    BY <1>3, <1>4, <2>1
  <2>3. \A i \in 1 .. Len(q) : r[i] = q[i]
    BY <1>3, <2>2
  <2>. HIDE DEF r
  <2>4. r = q
    BY <1>1, <2>2, <2>3, SeqEqual
  <2>. QED  BY <2>4 DEF Query, r
<1>8. m # 0
  BY <1>4
<1>. HIDE DEF m
<1>. QED  BY <1>5, <1>6, <1>7, <1>8 DEF UriOf, FirstOf, str, p

-----------------------------------------------------------------------------
(* What a recursive function computes that goes through a string by jumps: *)
(* at each place it writes a part and goes on at a later place.            *)

Jumps(f, N, M, part, next) ==
  \A p \in 1 .. M : f[p] = IF p > N THEN << >> ELSE part[p] \o f[next[p]]

JumpsForward(N, M, A, part, next) ==
  /\ N \in Nat /\ M \in Nat /\ N <= M
  /\ part \in [1 .. N -> Seq(A)] /\ next \in [1 .. N -> 1 .. M]
  /\ \A p \in 1 .. N : next[p] > p

LEMMA JumpsExist ==
  ASSUME NEW A, NEW N, NEW M, NEW part, NEW next, JumpsForward(N, M, A, part, next)
  PROVE  \E f \in [1 .. M -> Seq(A)] : Jumps(f, N, M, part, next)
<1>0. /\ N \in Nat /\ M \in Nat /\ N <= M
      /\ part \in [1 .. N -> Seq(A)] /\ next \in [1 .. N -> 1 .. M]
      /\ \A p \in 1 .. N : next[p] > p
  BY DEF JumpsForward
<1>. DEFINE Done(f, k) ==
              \A p \in 1 .. M : p > N - k => f[p] = IF p > N THEN << >> ELSE part[p] \o f[next[p]]
            P(k) == \E f \in [1 .. M -> Seq(A)] : Done(f, k)
            T == {k \in Nat : k <= N => P(k)}
<1>1. 0 \in T
  <2>. DEFINE f == [p \in 1 .. M |-> << >>]
  <2>1. f \in [1 .. M -> Seq(A)] /\ \A p \in 1 .. M : p > N - 0 => f[p] = << >> /\ p > N
    BY <1>0
  <2>. HIDE DEF f
  <2>2. Done(f, 0)
    BY <2>1
  <2>. QED  BY <2>1, <2>2
<1>2. ASSUME NEW k \in Nat, k \in T PROVE k + 1 \in T
  <2>. SUFFICES ASSUME k + 1 <= N PROVE P(k + 1)
    BY k + 1 \in Nat
  <2>1. PICK f \in [1 .. M -> Seq(A)] : Done(f, k)
    BY <1>0, <1>2
  <2>. DEFINE q == N - k
              v == part[q] \o f[next[q]]
              g == [f EXCEPT ![q] = v]
  <2>2. q \in 1 .. N /\ q \in 1 .. M /\ next[q] \in 1 .. M /\ next[q] > q /\ q = N - (k + 1) + 1
    BY <1>0
  <2>3. v \in Seq(A)
    BY <1>0, <2>2
  <2>. HIDE DEF q, v
  <2>4. g \in [1 .. M -> Seq(A)] /\ g[q] = v /\ \A p \in 1 .. M : p # q => g[p] = f[p]
    BY <2>2, <2>3
  <2>. HIDE DEF g
  <2>5. ASSUME NEW p \in 1 .. M, p > N - (k + 1)
        PROVE  g[p] = IF p > N THEN << >> ELSE part[p] \o g[next[p]]
    <3>1. CASE p = q
      <4>1. g[next[q]] = f[next[q]] /\ ~(q > N)
        BY <1>0, <2>2, <2>4
      <4>. QED  BY <2>4, <3>1, <4>1 DEF v
    <3>2. CASE p # q
      <4>1. p > N - k /\ g[p] = f[p]
        BY <1>0, <2>2, <2>4, <2>5, <3>2
      <4>2. f[p] = IF p > N THEN << >> ELSE part[p] \o f[next[p]]
        BY <2>1, <4>1
      <4>3. ~(p > N) => g[next[p]] = f[next[p]]
        <5>. HAVE ~(p > N)
        <5>1. p \in 1 .. N /\ next[p] \in 1 .. M /\ next[p] > p /\ next[p] # q
          BY <1>0, <2>2, <4>1
        <5>. QED  BY <2>4, <5>1
      <4>. QED  BY <4>1, <4>2, <4>3
    <3>. QED  BY <3>1, <3>2
  <2>6. Done(g, k + 1)
    BY <2>5
  <2>. QED  BY <2>4, <2>6
<1>. HIDE DEF P
<1>3. N \in T
  <2>. HIDE DEF T
  <2>. QED  BY <1>0, <1>1, <1>2, NatSetInduction
<1>4. PICK f \in [1 .. M -> Seq(A)] : Done(f, N)
  BY <1>0, <1>3 DEF P
<1>5. \A p \in 1 .. M : p > N - N
  BY <1>0
<1>. QED  BY <1>4, <1>5 DEF Jumps

LEMMA JumpsType ==
  ASSUME NEW A, NEW N, NEW M, NEW part, NEW next, JumpsForward(N, M, A, part, next),
         NEW f, Jumps(f, N, M, part, next), NEW m \in 1 .. M
  PROVE  f[m] \in Seq(A)
<1>0. /\ N \in Nat /\ M \in Nat /\ N <= M
      /\ part \in [1 .. N -> Seq(A)] /\ next \in [1 .. N -> 1 .. M]
      /\ \A p \in 1 .. N : next[p] > p
  BY DEF JumpsForward
<1>. DEFINE T == {k \in Nat : \A p \in 1 .. M : p > N - k => f[p] \in Seq(A)}
<1>a. \A p \in 1 .. M : (p > N => f[p] = << >>) /\ (~(p > N) => f[p] = part[p] \o f[next[p]])
  BY Zenon DEF Jumps
<1>b. << >> \in Seq(A)
  OBVIOUS
<1>1. 0 \in T
  <2>1. ASSUME NEW p \in 1 .. M, p > N - 0 PROVE f[p] \in Seq(A)
    <3>1. p > N
      BY <1>0, <2>1
    <3>. QED  BY <1>a, <1>b, <3>1
  <2>. QED  BY <2>1
<1>2. ASSUME NEW k \in Nat, k \in T PROVE k + 1 \in T
  <2>. SUFFICES ASSUME NEW p \in 1 .. M, p > N - (k + 1) PROVE f[p] \in Seq(A)
    BY k + 1 \in Nat
  <2>1. CASE p > N
    BY <1>a, <1>b, <2>1
  <2>2. CASE ~(p > N)
    <3>1. p \in 1 .. N /\ next[p] \in 1 .. M /\ next[p] > N - k
      BY <1>0, <2>2
    <3>2. f[next[p]] \in Seq(A) /\ part[p] \in Seq(A)
      BY <1>0, <1>2, <3>1
    <3>3. f[p] = part[p] \o f[next[p]]
      BY <1>a, <2>2
    <3>. QED  BY <3>2, <3>3
  <2>. QED  BY <2>1, <2>2
<1>3. N \in T
  <2>. HIDE DEF T
  <2>. QED  BY <1>0, <1>1, <1>2, NatSetInduction
<1>4. m > N - N
  BY <1>0
<1>. QED  BY <1>3, <1>4

-----------------------------------------------------------------------------
(* decodePercent().  decoded[i] is what it makes of str from i on.         *)

EscapedChar(str, i) == hexValue(str[i + 1]) * 16 + hexValue(str[i + 2])

PlainChar(ch) == IF ch = Plus THEN SP ELSE ch

Decodes(decoded, str) ==
  \A i \in 1 .. Len(str) + 1 :
    decoded[i] = IF i > Len(str) THEN << >>
                 ELSE IF IsEscape(str, i) THEN <<EscapedChar(str, i)>> \o decoded[i + 3]
                 ELSE <<PlainChar(str[i])>> \o decoded[i + 1]

LEMMA HexValueRange == ASSUME NEW ch \in Char PROVE hexValue(ch) \in 0 .. 15
BY DEF Char, hexValue, isDigit

LEMMA DecodedCharType ==
  ASSUME NEW str \in String, NEW i \in 1 .. Len(str)
  PROVE  PlainChar(str[i]) \in Char /\ (IsEscape(str, i) => EscapedChar(str, i) \in Char)
<1>1. str[i] \in Char /\ Len(str) \in Nat
  BY DEF String
<1>2. PlainChar(str[i]) \in Char
  BY <1>1 DEF PlainChar, Char, SP
<1>3. ASSUME IsEscape(str, i) PROVE EscapedChar(str, i) \in Char
  <2>1. i + 1 \in 1 .. Len(str) /\ i + 2 \in 1 .. Len(str)
    BY <1>1, <1>3 DEF IsEscape
  <2>2. str[i + 1] \in Char /\ str[i + 2] \in Char
    BY <2>1 DEF String
  <2>3. hexValue(str[i + 1]) \in 0 .. 15 /\ hexValue(str[i + 2]) \in 0 .. 15
    BY <2>2, HexValueRange
  <2>4. \A a, b \in 0 .. 15 : a * 16 + b \in Char
    BY DEF Char
  <2>. QED  BY <2>3, <2>4 DEF EscapedChar
<1>. QED  BY <1>2, <1>3

LEMMA DecodePercentDecodes ==
  ASSUME NEW str \in String
  PROVE  \E decoded \in [1 .. Len(str) + 1 -> String] :
           Decodes(decoded, str) /\ decodePercent(str) = decoded[1]
<1>. DEFINE N == Len(str)
            part == [i \in 1 .. N |->
                       IF IsEscape(str, i) THEN <<EscapedChar(str, i)>> ELSE <<PlainChar(str[i])>>]
            next == [i \in 1 .. N |-> IF IsEscape(str, i) THEN i + 3 ELSE i + 1]
            Is(d) == d = [i \in 1 .. N + 1 |->
                            IF i > N THEN << >>
                            ELSE IF IsEscape(str, i) THEN <<EscapedChar(str, i)>> \o d[i + 3]
                            ELSE <<PlainChar(str[i])>> \o d[i + 1]]
<1>0. N \in Nat
  BY DEF String
<1>1. JumpsForward(N, N + 1, Char, part, next)
  <2>1. ASSUME NEW i \in 1 .. N
        PROVE  /\ next[i] \in 1 .. N + 1 /\ next[i] > i
               /\ part[i] \in Seq(Char)
    <3>1. IsEscape(str, i) => i + 3 \in 1 .. N + 1
      BY <1>0 DEF IsEscape
    <3>2. next[i] \in 1 .. N + 1 /\ next[i] > i
      BY <1>0, <3>1
    <3>3. part[i] \in Seq(Char)
      BY DecodedCharType
    <3>. QED  BY <3>2, <3>3
  <2>2. part \in [1 .. N -> Seq(Char)] /\ next \in [1 .. N -> 1 .. N + 1]
    <3>1. part = [i \in 1 .. N |-> part[i]] /\ next = [i \in 1 .. N |-> next[i]]
      OBVIOUS
    <3>. HIDE DEF part, next
    <3>. QED  BY <2>1, <3>1
  <2>. HIDE DEF part, next
  <2>. QED  BY <1>0, <2>1, <2>2 DEF JumpsForward
<1>2. ASSUME NEW d PROVE (\A p \in 1 .. N + 1 : d[p] = IF p > N THEN << >> ELSE part[p] \o d[next[p]]) <=> Decodes(d, str)
  <2>1. ASSUME NEW p \in 1 .. N + 1
        PROVE (IF p > N THEN << >> ELSE part[p] \o d[next[p]])
                = (IF p > N THEN << >>
                   ELSE IF IsEscape(str, p) THEN <<EscapedChar(str, p)>> \o d[p + 3]
                   ELSE <<PlainChar(str[p])>> \o d[p + 1])
    <3>1. CASE p > N
      BY <3>1
    <3>2. CASE ~(p > N)
      <4>1. p \in 1 .. N
        BY <1>0, <3>2
      <4>. QED  BY <3>2, <4>1
    <3>. QED  BY <3>1, <3>2
  <2>. HIDE DEF part, next
  <2>. QED  BY <2>1 DEF Decodes
<1>. HIDE DEF part, next
<1>3. \A d : Jumps(d, N, N + 1, part, next) <=> Decodes(d, str)
  BY <1>2 DEF Jumps
<1>4. PICK f \in [1 .. N + 1 -> Seq(Char)] : Decodes(f, str)
  BY <1>1, <1>3, JumpsExist
<1>5. Is(f)
  BY <1>4 DEF Decodes
<1>. DEFINE d == CHOOSE d : Is(d)
<1>6. Is(d)
  BY <1>5
<1>7. decodePercent(str) = d[1]
  BY DEF decodePercent, EscapedChar, PlainChar
<1>. HIDE DEF d
<1>8. Decodes(d, str)
  BY <1>6, Zenon DEF Decodes
<1>9. d \in [1 .. N + 1 -> String]
  <2>1. \A m \in 1 .. N + 1 : d[m] \in Seq(Char)
    <3>1. Jumps(d, N, N + 1, part, next)
      BY <1>3, <1>8
    <3>. QED  BY <1>1, <3>1, JumpsType
  <2>2. d = [m \in 1 .. N + 1 |-> d[m]]
    BY <1>6
  <2>. QED  BY <2>1, <2>2 DEF String
<1>. QED  BY <1>7, <1>8, <1>9

LEMMA DecodePercentType == ASSUME NEW str \in String PROVE decodePercent(str) \in String
<1>1. PICK d \in [1 .. Len(str) + 1 -> String] : decodePercent(str) = d[1]
  BY DecodePercentDecodes
<1>2. 1 \in 1 .. Len(str) + 1
  BY DEF String
<1>. QED  BY <1>1, <1>2

-----------------------------------------------------------------------------
(* encodePercent().  What stands where in a string made of strings.        *)

LEMMA JoinedPlaces ==
  ASSUME NEW A, NEW a \in Seq(A), NEW b \in Seq(A)
  PROVE  /\ a \o b \in Seq(A) /\ Len(a \o b) = Len(a) + Len(b)
         /\ \A i \in 1 .. Len(a) : (a \o b)[i] = a[i]
         /\ \A i \in 1 .. Len(b) : (a \o b)[Len(a) + i] = b[i]
<1>1. /\ a \o b \in Seq(A) /\ Len(a \o b) = Len(a) + Len(b)
      /\ \A i \in 1 .. Len(a) + Len(b) : (a \o b)[i] = IF i <= Len(a) THEN a[i] ELSE b[i - Len(a)]
  OBVIOUS
<1>2. Len(a) \in Nat /\ Len(b) \in Nat
  OBVIOUS
<1>3. \A i \in 1 .. Len(a) : (a \o b)[i] = a[i]
  BY <1>1, <1>2
<1>4. ASSUME NEW i \in 1 .. Len(b) PROVE (a \o b)[Len(a) + i] = b[i]
  <2>1. /\ Len(a) + i \in 1 .. Len(a) + Len(b) /\ ~(Len(a) + i <= Len(a))
        /\ (Len(a) + i) - Len(a) = i
    BY <1>2
  <2>. QED  BY <1>1, <2>1
<1>. QED  BY <1>1, <1>3, <1>4

PlaceOf(text, at, e) ==
  /\ at + Len(e) <= Len(text)
  /\ \A j \in 1 .. Len(e) : text[at + j] = e[j]

LEMMA FlattenPlaces ==
  ASSUME NEW A, NEW strs \in Seq(Seq(A)), NEW f \in [0 .. Len(strs) -> Seq(A)], Flattens(f, strs),
         NEW n \in 1 .. Len(strs)
  PROVE  PlaceOf(f[Len(strs)], Len(f[n - 1]), strs[n])
<1>. DEFINE N == Len(strs)
            e == strs[n]
            q == Len(f[n - 1])
            T == {k \in Nat : n + k <= N => PlaceOf(f[n + k], q, e)}
<1>0. N \in Nat /\ n \in Nat /\ n - 1 \in 0 .. N /\ n \in 0 .. N /\ \A m \in 1 .. N : strs[m] \in Seq(A)
  OBVIOUS
<1>f. \A m \in 1 .. N : f[m] = f[m - 1] \o strs[m]
  BY DEF Flattens
<1>. HIDE DEF N
<1>a. f \in [0 .. N -> Seq(A)] /\ n \in 1 .. N
  BY DEF N
<1>1. \A m \in 0 .. N : f[m] \in Seq(A)
  BY <1>a
<1>2. e \in Seq(A) /\ f[n - 1] \in Seq(A) /\ f[n] = f[n - 1] \o e
  BY <1>0, <1>1, <1>a, <1>f
<1>3. q \in Nat /\ Len(e) \in Nat
  BY <1>2
<1>. HIDE DEF e
<1>4. 0 \in T
  <2>1. PlaceOf(f[n], q, e)
    <3>1. Len(f[n - 1] \o e) = q + Len(e) /\ \A j \in 1 .. Len(e) : (f[n - 1] \o e)[q + j] = e[j]
      BY <1>2, JoinedPlaces
    <3>. QED  BY <1>2, <1>3, <3>1 DEF PlaceOf
  <2>2. n + 0 = n
    BY <1>0
  <2>. QED  BY <2>1, <2>2
<1>5. ASSUME NEW k \in Nat, k \in T PROVE k + 1 \in T
  <2>. SUFFICES ASSUME n + (k + 1) <= N PROVE PlaceOf(f[n + (k + 1)], q, e)
    BY k + 1 \in Nat
  <2>. DEFINE m == n + (k + 1)
              g == f[n + k]
  <2>1. m \in 1 .. N /\ m - 1 = n + k /\ n + k \in 0 .. N /\ n + k <= N
    BY <1>0
  <2>2. f[m] = g \o strs[m] /\ g \in Seq(A) /\ strs[m] \in Seq(A)
    BY <1>0, <1>1, <1>f, <2>1
  <2>3. PlaceOf(g, q, e)
    BY <1>5, <2>1
  <2>. HIDE DEF q, m, g
  <2>4. /\ Len(f[m]) = Len(g) + Len(strs[m]) /\ \A i \in 1 .. Len(g) : f[m][i] = g[i]
        /\ Len(g) \in Nat /\ Len(strs[m]) \in Nat
    BY <2>2, JoinedPlaces
  <2>5. q + Len(e) <= Len(f[m])
    BY <1>3, <2>3, <2>4 DEF PlaceOf
  <2>6. ASSUME NEW j \in 1 .. Len(e) PROVE f[m][q + j] = e[j]
    <3>1. q + j \in 1 .. Len(g)
      BY <1>3, <2>3, <2>4 DEF PlaceOf
    <3>. QED  BY <2>3, <2>4, <3>1 DEF PlaceOf
  <2>7. PlaceOf(f[m], q, e)
    BY <2>5, <2>6 DEF PlaceOf
  <2>. QED  BY <2>7 DEF m
<1>. HIDE DEF T, q
<1>6. Nat \subseteq T
  BY <1>4, <1>5, NatSetInduction
<1>7. N - n \in Nat /\ n + (N - n) = N
  BY <1>0
<1>8. PlaceOf(f[N], q, e)
  <2>1. N - n \in T
    BY <1>6, <1>7
  <2>2. \A k \in T : n + k <= N => PlaceOf(f[n + k], q, e)
    BY DEF T
  <2>3. n + (N - n) <= N
    BY <1>0, <1>7
  <2>4. PlaceOf(f[n + (N - n)], q, e)
    BY <2>1, <2>2, <2>3, Zenon
  <2>. QED  BY <1>7, <2>4, Zenon
<1>. QED  BY <1>8 DEF N, q, e

LEMMA EncodedType ==
  ASSUME NEW ch \in Char
  PROVE  Encoded(ch) \in Seq(Char) /\ Len(Encoded(ch)) \in {1, 3}
<1>1. ch \div 16 \in 0 .. 15 /\ ch % 16 \in 0 .. 15
  BY DEF Char
<1>2. \A n \in 0 .. 15 : UpperHex(n) \in Char
  BY DEF UpperHex, Char
<1>3. Plus \in Char /\ Percent \in Char
  BY DEF Plus, Percent, Char
<1>4. UpperHex(ch \div 16) \in Char /\ UpperHex(ch % 16) \in Char
  BY <1>1, <1>2
<1>. QED  BY <1>3, <1>4 DEF Encoded

\* encoded[n] is what stands for the first n characters of str.
Encodes(encoded, str) ==
  /\ encoded[0] = << >>
  /\ \A n \in 1 .. Len(str) : encoded[n] = encoded[n - 1] \o Encoded(str[n])

EncodedAt(encoded, str, n, text) ==
  /\ Len(encoded[n]) = Len(encoded[n - 1]) + Len(Encoded(str[n]))
  /\ PlaceOf(text, Len(encoded[n - 1]), Encoded(str[n]))

LEMMA EncodePercentEncodes ==
  ASSUME NEW str \in String
  PROVE  \E encoded \in [0 .. Len(str) -> String] :
           /\ Encodes(encoded, str)
           /\ encodePercent(str) = encoded[Len(str)]
           /\ \A n \in 1 .. Len(str) : EncodedAt(encoded, str, n, encodePercent(str))
<1>. DEFINE strs == [i \in DOMAIN str |-> Encoded(str[i])]
<1>0. Len(str) \in Nat /\ DOMAIN str = 1 .. Len(str) /\ \A i \in 1 .. Len(str) : str[i] \in Char
  BY DEF String
<1>1. \A i \in 1 .. Len(str) : Encoded(str[i]) \in Seq(Char)
  BY <1>0, EncodedType
<1>2. /\ strs \in Seq(Seq(Char)) /\ Len(strs) = Len(str)
      /\ \A i \in 1 .. Len(str) : strs[i] = Encoded(str[i])
  BY <1>0, <1>1
<1>3. encodePercent(str) = FlattenSeq(strs)
  BY DEF encodePercent
<1>. HIDE DEF strs
<1>4. PICK f \in [0 .. Len(strs) -> Seq(Char)] : Flattens(f, strs) /\ FlattenSeq(strs) = f[Len(strs)]
  BY <1>2, FlattenReads
<1>5. f \in [0 .. Len(str) -> String] /\ Encodes(f, str) /\ encodePercent(str) = f[Len(str)]
  BY <1>2, <1>3, <1>4 DEF String, Flattens, Encodes
<1>6. ASSUME NEW n \in 1 .. Len(str) PROVE EncodedAt(f, str, n, encodePercent(str))
  <2>. DEFINE text == encodePercent(str)
              e    == Encoded(str[n])
  <2>1. e \in Seq(Char) /\ Len(e) \in {1, 3} /\ f[n] = f[n - 1] \o e
    BY <1>0, <1>5, EncodedType DEF Encodes
  <2>2. f[n - 1] \in Seq(Char)
    BY <1>0, <1>5 DEF String
  <2>3. Len(f[n]) = Len(f[n - 1]) + Len(e)
    BY <2>1, <2>2
  <2>4. n \in 1 .. Len(strs) /\ strs[n] = e /\ text = f[Len(strs)]
    BY <1>2, <1>3, <1>4
  <2>. HIDE DEF e, text
  <2>5. PlaceOf(f[Len(strs)], Len(f[n - 1]), strs[n])
    BY <1>2, <1>4, <2>4, FlattenPlaces
  <2>. QED  BY <2>3, <2>4, <2>5 DEF EncodedAt, e, text
<1>. QED  BY <1>5, <1>6

LEMMA EncodePercentType == ASSUME NEW str \in String PROVE encodePercent(str) \in String
<1>1. Len(str) \in 0 .. Len(str)
  BY DEF String
<1>. QED  BY <1>1, EncodePercentEncodes

-----------------------------------------------------------------------------
(* What encodePercent() writes of a character, decodePercent() reads back. *)

LEMMA HexDigits ==
  ASSUME NEW n \in 0 .. 15
  PROVE  isHexDigit(UpperHex(n)) /\ hexValue(UpperHex(n)) = n
<1>1. CASE n < 10
  <2>1. UpperHex(n) = 48 + n /\ isDigit(48 + n)
    BY <1>1 DEF UpperHex, isDigit
  <2>. QED  BY <2>1 DEF isHexDigit, hexValue
<1>2. CASE ~(n < 10)
  <2>. DEFINE c == 65 + n - 10
  <2>1. UpperHex(n) = c /\ c \in 65 .. 70 /\ ~isDigit(c) /\ c \notin 97 .. 102 /\ c - 65 + 10 = n
    BY <1>2 DEF UpperHex, isDigit
  <2>. HIDE DEF c
  <2>2. isHexDigit(c)
    BY <2>1 DEF isHexDigit
  <2>3. hexValue(c) = c - 65 + 10
    BY <2>1 DEF hexValue
  <2>. QED  BY <2>1, <2>2, <2>3
<1>. QED  BY <1>1, <1>2

\* What decodePercent() makes of the text from i on, when ch has been encoded there.
LEMMA DecodesEncoded ==
  ASSUME NEW text \in String, NEW d, Decodes(d, text), NEW ch \in Char,
         NEW at \in Nat, PlaceOf(text, at, Encoded(ch))
  PROVE  d[at + 1] = <<ch>> \o d[at + Len(Encoded(ch)) + 1]
<1>. DEFINE e == Encoded(ch)
            i == at + 1
<1>0. Len(text) \in Nat /\ i \in Nat /\ at + Len(e) <= Len(text)
  BY DEF String, PlaceOf
<1>1. Len(e) \in Nat /\ Len(e) >= 1 /\ \A j \in 1 .. Len(e) : text[at + j] = e[j]
  <2>1. Len(e) \in {1, 3}
    BY EncodedType
  <2>2. \A j \in 1 .. Len(e) : text[at + j] = e[j]
    BY Zenon DEF PlaceOf
  <2>3. \A n \in {1, 3} : n \in Nat /\ n >= 1
    OBVIOUS
  <2>. QED  BY <2>1, <2>2, <2>3, Zenon
<1>2. i \in 1 .. Len(text) + 1 /\ ~(i > Len(text)) /\ text[i] = e[1]
  BY <1>0, <1>1
<1>3. d[i] = IF IsEscape(text, i) THEN <<EscapedChar(text, i)>> \o d[i + 3]
             ELSE <<PlainChar(text[i])>> \o d[i + 1]
  BY <1>2, Zenon DEF Decodes
<1>4. CASE isSpace(ch)
  <2>1. e = <<Plus>> /\ Len(e) = 1 /\ text[i] = Plus
    BY <1>2, <1>4 DEF Encoded
  <2>2. ~IsEscape(text, i) /\ PlainChar(text[i]) = ch
    <3>1. Plus # Percent
      BY DEF Plus, Percent
    <3>2. ~IsEscape(text, i)
      BY <2>1, <3>1, Zenon DEF IsEscape
    <3>3. PlainChar(Plus) = ch
      BY <1>4 DEF PlainChar, isSpace
    <3>. QED  BY <2>1, <3>2, <3>3
  <2>3. at + Len(e) + 1 = i + 1
    BY <2>1
  <2>. QED  BY <1>3, <2>2, <2>3
<1>5. CASE ~isSpace(ch) /\ isUrlSafe(ch)
  <2>1. e = <<ch>> /\ Len(e) = 1 /\ text[i] = ch
    BY <1>2, <1>5 DEF Encoded
  <2>2. ~IsEscape(text, i) /\ PlainChar(text[i]) = ch
    <3>1. ch # Percent /\ ch # Plus
      BY <1>5 DEF Plus, Percent, isUrlSafe, isDigit
    <3>2. ~IsEscape(text, i)
      BY <2>1, <3>1, Zenon DEF IsEscape
    <3>. QED  BY <2>1, <3>1, <3>2 DEF PlainChar
  <2>3. at + Len(e) + 1 = i + 1
    BY <2>1
  <2>. QED  BY <1>3, <2>2, <2>3
<1>6. CASE ~isSpace(ch) /\ ~isUrlSafe(ch)
  <2>. DEFINE hi == ch \div 16
              lo == ch % 16
  <2>1. hi \in 0 .. 15 /\ lo \in 0 .. 15 /\ hi * 16 + lo = ch
    BY DEF Char
  <2>2. e = <<Percent, UpperHex(hi), UpperHex(lo)>>
    BY <1>6 DEF Encoded
  <2>. HIDE DEF hi, lo
  <2>3. Len(e) = 3 /\ e[1] = Percent /\ e[2] = UpperHex(hi) /\ e[3] = UpperHex(lo)
    BY <2>2
  <2>. HIDE DEF e
  <2>4. text[i] = Percent /\ text[i + 1] = UpperHex(hi) /\ text[i + 2] = UpperHex(lo)
    <3>1. 2 \in 1 .. Len(e) /\ 3 \in 1 .. Len(e) /\ at + 2 = i + 1 /\ at + 3 = i + 2
      BY <2>3
    <3>. QED  BY <1>1, <1>2, <2>3, <3>1
  <2>5. i + 2 <= Len(text) /\ at + Len(e) + 1 = i + 3
    BY <1>0, <2>3
  <2>6. IsEscape(text, i)
    BY <2>1, <2>4, <2>5, HexDigits DEF IsEscape
  <2>7. EscapedChar(text, i) = hi * 16 + lo
    <3>1. hexValue(text[i + 1]) = hi /\ hexValue(text[i + 2]) = lo
      BY <2>1, <2>4, HexDigits
    <3>. QED  BY <3>1 DEF EscapedChar
  <2>8. EscapedChar(text, i) = ch
    BY <2>1, <2>7
  <2>9. d[at + 1] = <<ch>> \o d[at + Len(e) + 1]
    BY <1>3, <2>5, <2>6, <2>8
  <2>. QED  BY <2>9 DEF e
<1>. QED  BY <1>4, <1>5, <1>6

(* Percent encoding loses nothing: the code behind ParamsReadBack.         *)
THEOREM PercentReadsBack == ASSUME NEW str \in String PROVE decodePercent(encodePercent(str)) = str
<1>. DEFINE text == encodePercent(str)
            N == Len(str)
<1>1. PICK encoded \in [0 .. N -> String] :
        /\ Encodes(encoded, str) /\ text = encoded[N]
        /\ \A n \in 1 .. N : EncodedAt(encoded, str, n, text)
  BY EncodePercentEncodes
<1>2. text \in String /\ N \in Nat
  BY EncodePercentType DEF String
<1>. HIDE DEF text, N
<1>3. PICK d \in [1 .. Len(text) + 1 -> String] : Decodes(d, text) /\ decodePercent(text) = d[1]
  BY <1>2, DecodePercentDecodes
<1>. DEFINE at(n) == Len(encoded[n])
            T == {n \in Nat : n <= N => d[1] = SubSeq(str, 1, n) \o d[at(n) + 1]}
<1>4. \A n \in 0 .. N : encoded[n] \in Seq(Char) /\ at(n) \in Nat
  <2>1. \A n \in 0 .. N : encoded[n] \in Seq(Char)
    BY DEF String
  <2>. QED  BY <2>1
<1>5. /\ \A n \in 1 .. N : str[n] \in Char
      /\ str \in Seq(Char) /\ Len(str) = N
  BY DEF String, N
<1>6. ASSUME NEW n \in 0 .. N PROVE at(n) + 1 \in 1 .. Len(text) + 1
  <2>1. CASE n = 0
    BY <1>1, <1>2, <2>1 DEF Encodes, String
  <2>2. CASE n # 0
    <3>1. n \in 1 .. N /\ n - 1 \in 0 .. N
      BY <1>2, <2>2
    <3>2. EncodedAt(encoded, str, n, text)
      BY <1>1, <3>1
    <3>3. at(n) <= Len(text)
      BY <3>2 DEF EncodedAt, PlaceOf
    <3>4. at(n) \in Nat /\ Len(text) \in Nat
      BY <1>2, <1>4 DEF String
    <3>. QED  BY <3>3, <3>4
  <2>. QED  BY <2>1, <2>2
<1>7. \A n \in 0 .. N : d[at(n) + 1] \in Seq(Char)
  BY <1>6, Zenon DEF String
<1>8. ASSUME NEW n \in 1 .. N PROVE d[at(n - 1) + 1] = <<str[n]>> \o d[at(n) + 1]
  <2>1. EncodedAt(encoded, str, n, text) /\ n - 1 \in 0 .. N
    BY <1>1, <1>2
  <2>2. at(n) = at(n - 1) + Len(Encoded(str[n])) /\ PlaceOf(text, at(n - 1), Encoded(str[n]))
    BY <2>1 DEF EncodedAt
  <2>3. d[at(n - 1) + 1] = <<str[n]>> \o d[at(n - 1) + Len(Encoded(str[n])) + 1]
    <3>1. at(n - 1) \in Nat /\ str[n] \in Char
      BY <1>4, <1>5, <2>1
    <3>. HIDE DEF at
    <3>. QED  BY <1>2, <1>3, <2>2, <3>1, DecodesEncoded, ZenonT(60)
  <2>. QED  BY <2>2, <2>3
<1>. HIDE DEF at
<1>9. 0 \in T
  <2>1. SubSeq(str, 1, 0) = << >> /\ d[1] \in Seq(Char)
    BY <1>2, <1>5 DEF String
  <2>2. at(0) = 0
    BY <1>1 DEF Encodes, at
  <2>3. << >> \o d[1] = d[1]
    BY <2>1
  <2>. QED  BY <2>1, <2>2, <2>3
<1>10. ASSUME NEW n \in Nat, n \in T PROVE n + 1 \in T
  <2>. SUFFICES ASSUME n + 1 <= N PROVE d[1] = SubSeq(str, 1, n + 1) \o d[at(n + 1) + 1]
    BY n + 1 \in Nat
  <2>1. n \in 0 .. N /\ n + 1 \in 0 .. N /\ n + 1 \in 1 .. N /\ (n + 1) - 1 = n /\ n <= N
    BY <1>2
  <2>. DEFINE a == SubSeq(str, 1, n)
              b == d[at(n + 1) + 1]
              c == str[n + 1]
  <2>2. a \in Seq(Char) /\ b \in Seq(Char) /\ c \in Char
    BY <1>5, <1>7, <2>1
  <2>3. d[1] = a \o d[at(n) + 1] /\ d[at(n) + 1] = <<c>> \o b
    BY <1>8, <1>10, <2>1
  <2>4. SubSeq(str, 1, n + 1) = a \o <<c>>
    <3>1. SubSeq(str, 1, n + 1) = Append(SubSeq(str, 1, n), str[n + 1])
      BY <1>5, <2>1
    <3>. QED  BY <2>2, <3>1
  <2>. HIDE DEF a, b, c
  <2>5. a \o (<<c>> \o b) = (a \o <<c>>) \o b
    BY <2>2
  <2>. QED  BY <2>3, <2>4, <2>5 DEF b
<1>11. N \in T
  <2>. HIDE DEF T
  <2>. QED  BY <1>2, <1>9, <1>10, NatSetInduction
<1>12. d[1] = str \o d[at(N) + 1]
  <2>1. SubSeq(str, 1, N) = str
    BY <1>5
  <2>2. N <= N
    BY <1>2
  <2>3. d[1] = SubSeq(str, 1, N) \o d[at(N) + 1]
    BY <1>11, <2>2, Zenon
  <2>. QED  BY <2>1, <2>3
<1>13. d[at(N) + 1] = << >>
  <2>1. at(N) = Len(text)
    BY <1>1 DEF at
  <2>2. Len(text) + 1 > Len(text) /\ Len(text) + 1 \in 1 .. Len(text) + 1
    BY <1>2 DEF String
  <2>. QED  BY <1>3, <2>1, <2>2 DEF Decodes
<1>. QED  BY <1>3, <1>5, <1>12, <1>13 DEF text

-----------------------------------------------------------------------------
(* The multimap.  It is in order, and add() keeps it so.                   *)

Param == [name : String, value : String]

Sorted(es) ==
  \A i, j \in 1 .. Len(es) : i < j => ~Before(es[j].name, es[i].name)

LEMMA ParamName == ASSUME NEW e \in Param PROVE e.name \in Seq(Int)
<1>1. e.name \in String
  BY DEF Param
<1>2. \A ch \in Char : ch \in Int
  BY DEF Char
<1>. QED  BY <1>1, <1>2, SeqMonotonic DEF String

LEMMA ParamNames ==
  ASSUME NEW es \in Seq(Param)
  PROVE  Len(es) \in Nat /\ \A i \in 1 .. Len(es) : es[i].name \in Seq(Int)
<1>1. \A i \in 1 .. Len(es) : es[i] \in Param
  OBVIOUS
<1>. QED  BY <1>1, ParamName

LEMMA NotBefore ==
  ASSUME NEW a \in Seq(Int), NEW b \in Seq(Int), NEW c \in Seq(Int), ~Before(c, b), ~Before(b, a)
  PROVE  ~Before(c, a)
<1>. SUFFICES ASSUME Before(c, a) PROVE FALSE
  OBVIOUS
<1>1. CASE a = b
  BY <1>1
<1>2. CASE a # b
  <2>1. Before(a, b)
    BY <1>2, BeforeTotal, Zenon
  <2>2. Before(c, b)
    BY <2>1, BeforeTransitive, Zenon
  <2>. QED  BY <2>2
<1>. QED  BY <1>1, <1>2

\* add() puts e behind every entry that is not greater, in front of every greater one.
Splits(n, es, e) == \A i \in 1 .. Len(es) : i <= n <=> ~Before(e.name, es[i].name)

LEMMA AddPlace ==
  ASSUME NEW es \in Seq(Param), Sorted(es), NEW e \in Param
  PROVE  \E n \in 0 .. Len(es) : Splits(n, es, e) /\ add(es, e) = InsertAt(es, n + 1, e)
<1>. DEFINE before == {i \in 1 .. Len(es) : ~Before(e.name, es[i].name)}
            n      == Cardinality(before)
<1>0. Len(es) \in Nat /\ \A i \in 1 .. Len(es) : es[i].name \in Seq(Int)
  BY ParamNames
<1>1. e.name \in Seq(Int)
  BY ParamName
<1>2. n \in 0 .. Len(es) /\ before = 1 .. n
  <2>1. ASSUME NEW i \in before, NEW j \in 1 .. i PROVE j \in before
    <3>1. i \in 1 .. Len(es) /\ j \in 1 .. Len(es) /\ (j = i \/ j < i) /\ ~Before(e.name, es[i].name)
      BY <1>0, <2>1
    <3>2. CASE j < i
      <4>1. ~Before(es[i].name, es[j].name)
        BY <3>1, <3>2 DEF Sorted
      <4>2. ~Before(e.name, es[j].name)
        BY <1>0, <1>1, <3>1, <4>1, NotBefore, Zenon
      <4>. QED  BY <3>1, <4>2
    <3>. QED  BY <3>1, <3>2
  <2>2. before \in SUBSET (1 .. Len(es))
    OBVIOUS
  <2>. HIDE DEF before
  <2>. QED  BY <1>0, <2>1, <2>2, PrefixSet
<1>3. Splits(n, es, e)
  <2>. SUFFICES ASSUME NEW i \in 1 .. Len(es) PROVE i <= n <=> ~Before(e.name, es[i].name)
    BY DEF Splits
  <2>1. i <= n <=> i \in before
    <3>. HIDE DEF before
    <3>. QED  BY <1>0, <1>2
  <2>. QED  BY <2>1
<1>4. add(es, e) = InsertAt(es, n + 1, e)
  BY DEF add
<1>. QED  BY <1>2, <1>3, <1>4

LEMMA AddKeepsOrder ==
  ASSUME NEW es \in Seq(Param), Sorted(es), NEW e \in Param
  PROVE  add(es, e) \in Seq(Param) /\ Sorted(add(es, e))
<1>1. PICK n \in 0 .. Len(es) : Splits(n, es, e) /\ add(es, e) = InsertAt(es, n + 1, e)
  BY AddPlace, Zenon
<1>. DEFINE r == add(es, e)
<1>2. r \in Seq(Param) /\ InsertedBehind(n, es, e, r)
  BY <1>1, InsertAtPlaces
<1>. HIDE DEF r
<1>3. /\ Len(r) = Len(es) + 1
      /\ \A i \in 1 .. Len(es) + 1 :
           r[i].name = IF i <= n THEN es[i].name ELSE IF i = n + 1 THEN e.name ELSE es[i - 1].name
  BY <1>2 DEF InsertedBehind
<1>4. Len(es) \in Nat /\ \A i \in 1 .. Len(es) : es[i].name \in Seq(Int)
  BY ParamNames
<1>5. e.name \in Seq(Int)
  BY ParamName
<1>6. \A i \in 1 .. Len(es) : i <= n <=> ~Before(e.name, es[i].name)
  BY <1>1 DEF Splits
<1>7. ASSUME NEW i \in 1 .. Len(es) + 1, NEW j \in 1 .. Len(es) + 1, i < j
      PROVE  ~Before(r[j].name, r[i].name)
  <2>1. CASE j <= n
    <3>1. r[i].name = es[i].name /\ r[j].name = es[j].name /\ i \in 1 .. Len(es) /\ j \in 1 .. Len(es)
      BY <1>3, <1>4, <1>7, <2>1
    <3>. QED  BY <1>7, <3>1 DEF Sorted
  <2>2. CASE j = n + 1
    <3>1. r[i].name = es[i].name /\ r[j].name = e.name /\ i \in 1 .. Len(es) /\ i <= n
      BY <1>3, <1>4, <1>7, <2>2
    <3>. QED  BY <1>6, <3>1
  <2>3. CASE j > n + 1 /\ i <= n
    <3>1. r[i].name = es[i].name /\ r[j].name = es[j - 1].name
      BY <1>3, <1>4, <2>3
    <3>2. i \in 1 .. Len(es) /\ j - 1 \in 1 .. Len(es) /\ i < j - 1
      BY <1>4, <2>3
    <3>. QED  BY <3>1, <3>2 DEF Sorted
  <2>4. CASE j > n + 1 /\ i = n + 1
    <3>1. r[i].name = e.name /\ r[j].name = es[j - 1].name
      BY <1>3, <1>4, <2>4
    <3>2. j - 1 \in 1 .. Len(es) /\ ~(j - 1 <= n)
      BY <1>4, <2>4
    <3>3. Before(e.name, es[j - 1].name)
      BY <1>6, <3>2
    <3>4. ~Before(es[j - 1].name, e.name)
      BY <1>4, <1>5, <3>2, <3>3, BeforeTransitive, BeforeIrreflexive, Zenon
    <3>. QED  BY <3>1, <3>4
  <2>5. CASE i > n + 1
    <3>1. r[i].name = es[i - 1].name /\ r[j].name = es[j - 1].name
      BY <1>3, <1>4, <1>7, <2>5
    <3>2. i - 1 \in 1 .. Len(es) /\ j - 1 \in 1 .. Len(es) /\ i - 1 < j - 1
      BY <1>4, <1>7, <2>5
    <3>. QED  BY <3>1, <3>2 DEF Sorted
  <2>. QED  BY <1>7, <2>1, <2>2, <2>3, <2>4, <2>5
<1>. QED  BY <1>2, <1>3, <1>7 DEF Sorted, r

\* A container that grows in its own order grows at the end.
LEMMA AddAtEnd ==
  ASSUME NEW es \in Seq(Param), NEW e \in Param,
         \A i \in 1 .. Len(es) : ~Before(e.name, es[i].name)
  PROVE  add(es, e) = Append(es, e)
<1>. DEFINE before == {i \in 1 .. Len(es) : ~Before(e.name, es[i].name)}
<1>0. Len(es) \in Nat
  OBVIOUS
<1>1. before = 1 .. Len(es)
  OBVIOUS
<1>2. Cardinality(1 .. Len(es)) = Len(es)
  BY <1>0, FS_Interval, SMTT(60)
<1>3. add(es, e) = InsertAt(es, Len(es) + 1, e)
  BY <1>1, <1>2 DEF add
<1>. DEFINE r == InsertAt(es, Len(es) + 1, e)
<1>4. r \in Seq(Param) /\ InsertedBehind(Len(es), es, e, r)
  <2>1. Len(es) \in 0 .. Len(es)
    BY <1>0
  <2>. QED  BY <2>1, InsertAtPlaces, Zenon
<1>. HIDE DEF r
<1>5. /\ Len(r) = Len(es) + 1 /\ r[Len(es) + 1] = e
      /\ \A i \in 1 .. Len(es) : r[i] = es[i]
  BY <1>0, <1>4 DEF InsertedBehind
<1>. DEFINE s == Append(es, e)
<1>6. /\ s \in Seq(Param) /\ Len(s) = Len(es) + 1 /\ s[Len(es) + 1] = e
      /\ \A i \in 1 .. Len(es) : s[i] = es[i]
  OBVIOUS
<1>. HIDE DEF s
<1>7. \A i \in 1 .. Len(es) + 1 : r[i] = s[i]
  <2>1. \A i \in 1 .. Len(es) + 1 : i \in 1 .. Len(es) \/ i = Len(es) + 1
    BY <1>0
  <2>. QED  BY <1>5, <1>6, <2>1
<1>8. r = s
  BY <1>4, <1>5, <1>6, <1>7, SeqEqual
<1>. QED  BY <1>3, <1>8 DEF r, s

-----------------------------------------------------------------------------
(* The pieces of a query.  from[pos] are the pieces from pos on.           *)

IsEnd(k, str, pos) ==
  /\ k \in pos .. Len(str) + 1
  /\ k = Len(str) + 1 \/ str[k] = Amp
  /\ \A i \in pos .. k - 1 : str[i] # Amp

LEMMA PieceEndIs ==
  ASSUME NEW str \in String, NEW pos \in 1 .. Len(str), NEW k, IsEnd(k, str, pos)
  PROVE  PieceEnd(str, pos) = k
<1>. DEFINE S == {i \in pos .. Len(str) : str[i] = Amp} \cup {Len(str) + 1}
<1>0. Len(str) \in Nat /\ pos \in Nat
  BY DEF String
<1>1. k \in pos .. Len(str) + 1 /\ (k = Len(str) + 1 \/ str[k] = Amp) /\ \A i \in pos .. k - 1 : str[i] # Amp
  BY DEF IsEnd
<1>2. S \subseteq Int /\ k \in S
  BY <1>0, <1>1
<1>3. \A y \in S : k <= y
  <2>1. ASSUME NEW y \in S, y < k PROVE FALSE
    <3>1. y \in pos .. k - 1 /\ str[y] = Amp
      BY <1>0, <1>1, <2>1
    <3>. QED  BY <1>1, <3>1
  <2>. QED  BY <1>0, <1>1, <1>2, <2>1
<1>4. Min(S) = k
  <2>. HIDE DEF S
  <2>. QED  BY <1>2, <1>3, LeastIsMin
<1>. QED  BY <1>4 DEF PieceEnd

LEMMA PieceEndFound ==
  ASSUME NEW str \in String, NEW pos \in 1 .. Len(str)
  PROVE  IsEnd(PieceEnd(str, pos), str, pos)
<1>. DEFINE S == {i \in pos .. Len(str) : str[i] = Amp} \cup {Len(str) + 1}
            k == PieceEnd(str, pos)
<1>0. Len(str) \in Nat /\ pos \in Nat /\ pos >= 1 /\ pos <= Len(str) /\ Len(str) + 1 \in Nat
  BY DEF String
<1>1. S \subseteq 1 .. Len(str) + 1 /\ S # {}
  BY <1>0
<1>2. k \in S /\ \A y \in S : k <= y
  BY <1>0, <1>1, SmallestAndLargest DEF PieceEnd
<1>. HIDE DEF k
<1>3. k \in pos .. Len(str) + 1 /\ (k = Len(str) + 1 \/ str[k] = Amp)
  BY <1>0, <1>2
<1>4. ASSUME NEW i \in pos .. k - 1, str[i] = Amp PROVE FALSE
  <2>1. i \in S /\ ~(k <= i)
    BY <1>0, <1>3, <1>4
  <2>. QED  BY <1>2, <2>1
<1>. QED  BY <1>3, <1>4 DEF IsEnd, k

PiecesFrom(from, str) ==
  \A pos \in 1 .. Len(str) + 2 :
    from[pos] = IF pos > Len(str) THEN << >>
                ELSE <<SubSeq(str, pos, PieceEnd(str, pos) - 1)>> \o from[PieceEnd(str, pos) + 1]

LEMMA PiecesFound ==
  ASSUME NEW str \in String
  PROVE  \E from \in [1 .. Len(str) + 2 -> Seq(String)] :
           PiecesFrom(from, str) /\ Pieces(str) = from[1]
<1>. DEFINE N == Len(str)
            part == [p \in 1 .. N |-> <<SubSeq(str, p, PieceEnd(str, p) - 1)>>]
            next == [p \in 1 .. N |-> PieceEnd(str, p) + 1]
            Is(d) == d = [pos \in 1 .. N + 2 |->
                            IF pos > N THEN << >>
                            ELSE <<SubSeq(str, pos, PieceEnd(str, pos) - 1)>> \o d[PieceEnd(str, pos) + 1]]
<1>0. N \in Nat
  BY DEF String
<1>1. JumpsForward(N, N + 2, String, part, next)
  <2>1. ASSUME NEW p \in 1 .. N
        PROVE  PieceEnd(str, p) + 1 \in 1 .. N + 2 /\ PieceEnd(str, p) + 1 > p
    BY <1>0, PieceEndFound DEF IsEnd
  <2>2. ASSUME NEW p \in 1 .. N
        PROVE  <<SubSeq(str, p, PieceEnd(str, p) - 1)>> \in Seq(String)
    <3>1. PieceEnd(str, p) \in p .. N + 1
      BY PieceEndFound DEF IsEnd
    <3>. DEFINE k == PieceEnd(str, p)
    <3>. HIDE DEF k
    <3>2. k \in p .. N + 1
      BY <3>1 DEF k
    <3>3. \A i \in p .. k - 1 : str[i] \in Char
      BY <1>0, <3>2 DEF String
    <3>4. SubSeq(str, p, k - 1) \in String
      BY <1>0, <3>2, <3>3, SubSeqProperties DEF String
    <3>. QED  BY <3>4 DEF k
  <2>3. part \in [1 .. N -> Seq(String)] /\ next \in [1 .. N -> 1 .. N + 2]
    BY <2>1, <2>2
  <2>4. \A p \in 1 .. N : next[p] > p
    BY <2>1
  <2>. HIDE DEF part, next
  <2>. QED  BY <1>0, <2>3, <2>4 DEF JumpsForward
<1>2. ASSUME NEW d
      PROVE  (\A p \in 1 .. N + 2 : d[p] = IF p > N THEN << >> ELSE part[p] \o d[next[p]])
               <=> PiecesFrom(d, str)
  <2>1. ASSUME NEW p \in 1 .. N + 2
        PROVE (IF p > N THEN << >> ELSE part[p] \o d[next[p]])
                = (IF p > N THEN << >>
                   ELSE <<SubSeq(str, p, PieceEnd(str, p) - 1)>> \o d[PieceEnd(str, p) + 1])
    <3>1. CASE p > N
      BY <3>1
    <3>2. CASE ~(p > N)
      <4>1. p \in 1 .. N
        BY <1>0, <3>2
      <4>. QED  BY <3>2, <4>1
    <3>. QED  BY <3>1, <3>2
  <2>. HIDE DEF part, next
  <2>. QED  BY <2>1 DEF PiecesFrom
<1>. HIDE DEF part, next
<1>3. \A d : Jumps(d, N, N + 2, part, next) <=> PiecesFrom(d, str)
  BY <1>2 DEF Jumps
<1>4. PICK f \in [1 .. N + 2 -> Seq(String)] : PiecesFrom(f, str)
  BY <1>1, <1>3, JumpsExist
<1>5. Is(f)
  BY <1>4 DEF PiecesFrom
<1>. DEFINE d == CHOOSE d : Is(d)
<1>6. Is(d)
  BY <1>5
<1>7. Pieces(str) = d[1]
  BY DEF Pieces
<1>. HIDE DEF d
<1>8. PiecesFrom(d, str)
  BY <1>6, Zenon DEF PiecesFrom
<1>9. d \in [1 .. N + 2 -> Seq(String)]
  <2>1. \A m \in 1 .. N + 2 : d[m] \in Seq(String)
    <3>1. Jumps(d, N, N + 2, part, next)
      BY <1>3, <1>8
    <3>. QED  BY <1>1, <3>1, JumpsType
  <2>2. d = [m \in 1 .. N + 2 |-> d[m]]
    BY <1>6
  <2>. QED  BY <2>1, <2>2
<1>. QED  BY <1>7, <1>8, <1>9

LEMMA PiecesType == ASSUME NEW str \in String PROVE Pieces(str) \in Seq(String)
<1>1. 1 \in 1 .. Len(str) + 2
  BY DEF String
<1>. QED  BY <1>1, PiecesFound

WithoutAmp(str) == str \in String /\ str # << >> /\ \A i \in 1 .. Len(str) : str[i] # Amp

LEMMA NoPieces == Pieces(<< >>) = << >>
<1>1. << >> \in String /\ Len(<< >>) = 0
  BY DEF String
<1>2. PICK from \in [1 .. Len(<< >>) + 2 -> Seq(String)] :
        PiecesFrom(from, << >>) /\ Pieces(<< >>) = from[1]
  BY <1>1, PiecesFound
<1>3. 1 \in 1 .. Len(<< >>) + 2 /\ 1 > Len(<< >>)
  BY <1>1
<1>. QED  BY <1>2, <1>3, Zenon DEF PiecesFrom

\* The last piece: behind at there is u and nothing else.
LEMMA LastPiece ==
  ASSUME NEW str \in String, NEW from \in [1 .. Len(str) + 2 -> Seq(String)], PiecesFrom(from, str),
         NEW u, WithoutAmp(u), NEW at \in Nat, Len(str) = at + Len(u),
         \A i \in 1 .. Len(u) : str[at + i] = u[i]
  PROVE  from[at + 1] = <<u>>
<1>. DEFINE p == at + 1
            k == Len(str) + 1
<1>0. Len(str) \in Nat /\ u \in Seq(Char) /\ Len(u) \in Nat /\ Len(u) # 0 /\ str \in Seq(Char)
  BY EmptySeq DEF WithoutAmp, String
<1>1. p \in 1 .. Len(str) /\ p \in 1 .. Len(str) + 2 /\ ~(p > Len(str))
  BY <1>0
<1>2. ASSUME NEW i \in p .. k - 1 PROVE str[i] # Amp
  <2>1. i - at \in 1 .. Len(u) /\ at + (i - at) = i
    BY <1>0
  <2>2. str[at + (i - at)] = u[i - at]
    BY <2>1
  <2>. QED  BY <2>1, <2>2 DEF WithoutAmp
<1>3. PieceEnd(str, p) = k
  <2>1. IsEnd(k, str, p)
    BY <1>0, <1>1, <1>2 DEF IsEnd
  <2>. HIDE DEF p, k
  <2>. QED  BY <1>1, <2>1, PieceEndIs
<1>4. from[p] = <<SubSeq(str, p, k - 1)>> \o from[k + 1]
  BY <1>1, <1>3, Zenon DEF PiecesFrom
<1>5. from[k + 1] = << >>
  <2>1. k + 1 \in 1 .. Len(str) + 2 /\ k + 1 > Len(str)
    BY <1>0
  <2>. QED  BY <2>1, Zenon DEF PiecesFrom
<1>6. SubSeq(str, p, k - 1) = u
  <2>. DEFINE s == SubSeq(str, p, k - 1)
  <2>1. s \in Seq(Char) /\ Len(s) = Len(u) /\ \A i \in 1 .. Len(u) : s[i] = str[at + i]
    BY <1>0, <1>1
  <2>. HIDE DEF s
  <2>2. s = u
    BY <1>0, <2>1, SeqEqual
  <2>. QED  BY <2>2 DEF s
<1>. QED  BY <1>4, <1>5, <1>6

LEMMA OnePiece == ASSUME NEW u, WithoutAmp(u) PROVE Pieces(u) = <<u>>
<1>1. u \in String
  BY DEF WithoutAmp
<1>2. PICK from \in [1 .. Len(u) + 2 -> Seq(String)] : PiecesFrom(from, u) /\ Pieces(u) = from[1]
  BY <1>1, PiecesFound
<1>3. Len(u) = 0 + Len(u) /\ \A i \in 1 .. Len(u) : u[0 + i] = u[i]
  BY <1>1 DEF String
<1>4. from[0 + 1] = <<u>>
  BY <1>1, <1>2, <1>3, LastPiece
<1>. QED  BY <1>2, <1>4

\* A text that ends with a whole piece.
Ended(t) == t \in String /\ t # << >> /\ t[Len(t)] # Amp

LEMMA PiecesLonger ==
  ASSUME NEW t, Ended(t), NEW u, WithoutAmp(u)
  PROVE  Pieces(t \o <<Amp>> \o u) = Append(Pieces(t), u)
<1>. DEFINE str == t \o <<Amp>> \o u
            N   == Len(t)
            M   == Len(str)
<1>0. t \in Seq(Char) /\ u \in Seq(Char) /\ Amp \in Char /\ t # << >> /\ t[Len(t)] # Amp
  BY DEF Ended, WithoutAmp, String, Amp, Char
<1>1. Between(t, Amp, u, str)
  BY <1>0, Inserted, Zenon
<1>2. str \in String
  BY <1>0 DEF String
<1>. HIDE DEF str
<1>3. /\ M = N + 1 + Len(u) /\ N \in Nat /\ N # 0 /\ Len(u) \in Nat /\ M \in Nat
      /\ \A i \in 1 .. N : str[i] = t[i]
      /\ str[N + 1] = Amp
      /\ \A i \in 1 .. Len(u) : str[N + 1 + i] = u[i]
  BY <1>0, <1>1, EmptySeq DEF Between
<1>. HIDE DEF M, N
<1>4. t \in String /\ Len(t) = N /\ Len(str) = M
  BY <1>0 DEF String, N, M
<1>5. PICK f \in [1 .. N + 2 -> Seq(String)] : PiecesFrom(f, t) /\ Pieces(t) = f[1]
  BY <1>4, PiecesFound
<1>6. PICK g \in [1 .. M + 2 -> Seq(String)] : PiecesFrom(g, str) /\ Pieces(str) = g[1]
  BY <1>2, <1>4, PiecesFound
<1>7. g[N + 2] = <<u>>
  <2>1. N + 1 \in Nat /\ Len(str) = (N + 1) + Len(u) /\ \A i \in 1 .. Len(u) : str[(N + 1) + i] = u[i]
    BY <1>3, <1>4
  <2>2. g \in [1 .. Len(str) + 2 -> Seq(String)]
    BY <1>4
  <2>3. g[(N + 1) + 1] = <<u>>
    BY <1>2, <1>6, <2>1, <2>2, LastPiece
  <2>4. (N + 1) + 1 = N + 2
    BY <1>3
  <2>. QED  BY <2>3, <2>4
<1>8. u \in String
  BY DEF WithoutAmp
<1>. DEFINE T == {k \in Nat : \A p \in 1 .. N : p > N - k => g[p] = Append(f[p], u)}
<1>9. 0 \in T
  BY <1>3
<1>10. ASSUME NEW k \in Nat, k \in T PROVE k + 1 \in T
  <2>. SUFFICES ASSUME NEW p \in 1 .. N, p > N - (k + 1) PROVE g[p] = Append(f[p], u)
    BY k + 1 \in Nat
  <2>. DEFINE e == PieceEnd(t, p)
              s == SubSeq(t, p, e - 1)
  <2>0. p \in 1 .. N + 2 /\ p \in 1 .. M + 2 /\ p \in 1 .. M /\ ~(p > N) /\ ~(p > M)
    BY <1>3
  <2>1. IsEnd(e, t, p)
    BY <1>4, PieceEndFound
  <2>. HIDE DEF e
  <2>2. e \in p .. N + 1 /\ (e = N + 1 \/ t[e] = Amp) /\ \A i \in p .. e - 1 : t[i] # Amp
    BY <1>4, <2>1 DEF IsEnd
  <2>3. PieceEnd(str, p) = e
    <3>1. e \in p .. M + 1 /\ (e = M + 1 \/ str[e] = Amp)
      <4>1. CASE e = N + 1
        BY <1>3, <2>0, <4>1
      <4>2. CASE e # N + 1
        <5>1. e \in 1 .. N /\ t[e] = Amp
          BY <1>3, <2>2, <4>2
        <5>. QED  BY <1>3, <2>0, <2>2, <5>1
      <4>. QED  BY <4>1, <4>2
    <3>2. ASSUME NEW i \in p .. e - 1 PROVE str[i] # Amp
      <4>1. i \in 1 .. N /\ t[i] # Amp
        BY <1>3, <2>2
      <4>. QED  BY <1>3, <4>1
    <3>3. IsEnd(e, str, p)
      BY <1>4, <3>1, <3>2 DEF IsEnd
    <3>. QED  BY <1>2, <1>4, <2>0, <3>3, PieceEndIs
  <2>4. SubSeq(str, p, e - 1) = s
    <3>. DEFINE r == SubSeq(str, p, e - 1)
    <3>1. /\ s \in Seq(Char) /\ Len(s) = e - p
          /\ \A i \in 1 .. e - p : s[i] = t[p + i - 1]
      BY <1>0, <1>3, <1>4, <2>2
    <3>2. /\ r \in Seq(Char) /\ Len(r) = e - p
          /\ \A i \in 1 .. e - p : r[i] = str[p + i - 1]
      BY <1>2, <1>3, <1>4, <2>0, <2>2 DEF String
    <3>3. \A i \in 1 .. e - p : p + i - 1 \in 1 .. N
      BY <1>3, <2>2
    <3>. HIDE DEF r, s
    <3>4. \A i \in 1 .. e - p : r[i] = s[i]
      BY <1>3, <3>1, <3>2, <3>3
    <3>5. r = s
      BY <3>1, <3>2, <3>4, SeqEqual
    <3>. QED  BY <3>5 DEF r
  <2>. HIDE DEF s
  <2>5. f[p] = <<s>> \o f[e + 1] /\ g[p] = <<s>> \o g[e + 1]
    <3>1. f[p] = <<SubSeq(t, p, PieceEnd(t, p) - 1)>> \o f[PieceEnd(t, p) + 1]
      BY <1>4, <1>5, <2>0 DEF PiecesFrom
    <3>2. g[p] = <<SubSeq(str, p, PieceEnd(str, p) - 1)>> \o g[PieceEnd(str, p) + 1]
      BY <1>4, <1>6, <2>0 DEF PiecesFrom
    <3>. QED  BY <2>3, <2>4, <3>1, <3>2 DEF s, e
  <2>6. g[e + 1] = Append(f[e + 1], u) /\ f[e + 1] \in Seq(String)
    <3>1. CASE e = N + 1
      <4>1. e + 1 = N + 2 /\ N + 2 \in 1 .. N + 2 /\ N + 2 > N
        BY <1>3, <3>1
      <4>2. f[N + 2] = << >>
        BY <1>4, <1>5, <4>1, Zenon DEF PiecesFrom
      <4>3. g[e + 1] = <<u>> /\ f[e + 1] = << >>
        BY <1>7, <4>1, <4>2
      <4>. QED  BY <4>3
    <3>2. CASE e # N + 1
      <4>1. t[e] = Amp /\ e # N
        BY <1>0, <1>4, <2>2, <3>2
      <4>2. e + 1 \in 1 .. N /\ e + 1 > N - k /\ e + 1 \in 1 .. N + 2
        BY <1>3, <2>0, <2>2, <3>2, <4>1
      <4>. QED  BY <1>10, <4>2
    <3>. QED  BY <3>1, <3>2
  <2>7. s \in String
    <3>1. \A i \in p .. e - 1 : t[i] \in Char
      BY <1>0, <1>3, <1>4, <2>2
    <3>. QED  BY <1>3, <2>2, <3>1, SubSeqProperties DEF s, String
  <2>8. \A a \in Seq(String) : <<s>> \o Append(a, u) = Append(<<s>> \o a, u)
    BY <1>8, <2>7
  <2>. QED  BY <2>5, <2>6, <2>8
<1>11. N \in T
  <2>. HIDE DEF T
  <2>. QED  BY <1>3, <1>9, <1>10, NatSetInduction
<1>12. 1 \in 1 .. N /\ 1 > N - N
  BY <1>3
<1>. QED  BY <1>5, <1>6, <1>11, <1>12 DEF str

-----------------------------------------------------------------------------
(* parse().  entries[n] is the container after n pieces.                   *)

Containers == {es \in Seq(Param) : Sorted(es)}

LEMMA EntryType == ASSUME NEW piece \in String PROVE Entry(piece) \in Param
<1>. DEFINE eq   == FirstOf(piece, Equals)
            name == IF eq = 0 THEN piece ELSE SubSeq(piece, 1, eq - 1)
            v    == IF eq = 0 THEN << >> ELSE SubSeq(piece, eq + 1, Len(piece))
<1>1. Entry(piece) = [name |-> decodePercent(name), value |-> decodePercent(v)]
  BY DEF Entry, FirstOf
<1>2. eq = 0 \/ eq \in 1 .. Len(piece)
  BY FirstPlace DEF IsFirst
<1>. HIDE DEF eq
<1>3. name \in String /\ v \in String
  BY <1>2 DEF String
<1>. HIDE DEF name, v
<1>. QED  BY <1>1, <1>3, DecodePercentType DEF Param

Adds(entries, pieces) ==
  /\ entries[0] = << >>
  /\ \A n \in 1 .. Len(pieces) : entries[n] = add(entries[n - 1], Entry(pieces[n]))

LEMMA ParseAdds ==
  ASSUME NEW str \in String
  PROVE  \E entries \in [0 .. Len(Pieces(str)) -> Containers] :
           Adds(entries, Pieces(str)) /\ parse(str) = entries[Len(Pieces(str))]
<1>. DEFINE ps == Pieces(str)
            N  == Len(ps)
            step == [n \in 1 .. N |-> [es \in Containers |-> add(es, Entry(ps[n]))]]
            Is(g) == g = [n \in 0 .. N |-> IF n = 0 THEN << >> ELSE add(g[n - 1], Entry(ps[n]))]
<1>1. ps \in Seq(String)
  BY PiecesType
<1>2. parse(str) = (CHOOSE g : Is(g))[N]
  BY DEF parse
<1>. HIDE DEF ps
<1>3. N \in Nat /\ \A n \in 1 .. N : ps[n] \in String
  BY <1>1
<1>. HIDE DEF N
<1>4. << >> \in Containers
  BY DEF Containers, Sorted
<1>5. ASSUME NEW n \in 1 .. N, NEW es \in Containers PROVE add(es, Entry(ps[n])) \in Containers
  BY <1>3, EntryType, AddKeepsOrder DEF Containers
<1>6. step \in [1 .. N -> [Containers -> Containers]]
  BY <1>5
<1>7. PICK f \in [0 .. N -> Containers] : Iterates(f, N, << >>, step)
  <2>. HIDE DEF step
  <2>. QED  BY <1>3, <1>4, <1>6, Iteration
<1>8. f[0] = << >> /\ \A n \in 1 .. N : f[n] = add(f[n - 1], Entry(ps[n]))
  <2>1. \A n \in 1 .. N : f[n] = step[n][f[n - 1]] /\ n - 1 \in 0 .. N
    BY <1>3, <1>7 DEF Iterates
  <2>2. \A n \in 1 .. N : f[n - 1] \in Containers
    BY <2>1
  <2>3. ASSUME NEW n \in 1 .. N PROVE step[n][f[n - 1]] = add(f[n - 1], Entry(ps[n]))
    BY <2>2
  <2>4. f[0] = << >>
    BY <1>7 DEF Iterates
  <2>. HIDE DEF step
  <2>. QED  BY <2>1, <2>3, <2>4
<1>9. Is(f)
  <2>1. ASSUME NEW n \in 0 .. N
        PROVE  f[n] = IF n = 0 THEN << >> ELSE add(f[n - 1], Entry(ps[n]))
    <3>1. n # 0 => n \in 1 .. N
      BY <1>3
    <3>. QED  BY <1>8, <3>1
  <2>. QED  BY <2>1
<1>. DEFINE g == CHOOSE g : Is(g)
<1>10. Is(g)
  BY <1>9
<1>. HIDE DEF g
<1>11. TakesSteps(g, N, Containers, << >>, step)
  <2>1. \A n \in 0 .. N : g[n] = IF n = 0 THEN << >> ELSE add(g[n - 1], Entry(ps[n]))
    BY <1>10, Zenon
  <2>2. g[0] = << >>
    BY <1>3, <2>1
  <2>3. ASSUME NEW n \in 1 .. N, g[n - 1] \in Containers PROVE g[n] = step[n][g[n - 1]]
    <3>1. n \in 0 .. N /\ n # 0
      BY <1>3
    <3>2. g[n] = add(g[n - 1], Entry(ps[n]))
      BY <2>1, <3>1
    <3>. QED  BY <2>3, <3>2
  <2>. HIDE DEF step
  <2>. QED  BY <2>2, <2>3 DEF TakesSteps
<1>12. g[N] = f[N]
  <2>1. IteratesOn(f, N, Containers, << >>, step)
    BY <1>3, <1>4, <1>6, <1>7, Zenon DEF IteratesOn
  <2>. HIDE DEF step
  <2>2. SameUpTo(N, g, f)
    BY <1>11, <2>1, IterationIsUnique, Zenon
  <2>3. N \in 0 .. N
    BY <1>3
  <2>. QED  BY <2>2, <2>3, Zenon DEF SameUpTo
<1>. QED  BY <1>2, <1>8, <1>12 DEF Adds, ps, N, g

LEMMA ParseType == ASSUME NEW str \in String PROVE parse(str) \in Containers
<1>1. PICK f \in [0 .. Len(Pieces(str)) -> Containers] : parse(str) = f[Len(Pieces(str))]
  BY ParseAdds
<1>2. Len(Pieces(str)) \in 0 .. Len(Pieces(str))
  BY PiecesType
<1>. QED  BY <1>1, <1>2

LEMMA ParseNothing == parse(<< >>) = << >>
<1>1. << >> \in String /\ Len(Pieces(<< >>)) = 0
  BY NoPieces DEF String
<1>2. PICK f \in [0 .. Len(Pieces(<< >>)) -> Containers] :
        Adds(f, Pieces(<< >>)) /\ parse(<< >>) = f[Len(Pieces(<< >>))]
  BY <1>1, ParseAdds
<1>. QED  BY <1>1, <1>2 DEF Adds

\* One more piece is one more entry.
LEMMA ParseLonger ==
  ASSUME NEW str \in String, NEW more \in String, NEW piece,
         Pieces(more) = Append(Pieces(str), piece)
  PROVE  parse(more) = add(parse(str), Entry(piece))
<1>. DEFINE ps == Pieces(str)
            qs == Pieces(more)
            N  == Len(ps)
<1>1. PICK f \in [0 .. N -> Containers] : Adds(f, ps) /\ parse(str) = f[N]
  BY ParseAdds
<1>2. PICK g \in [0 .. Len(qs) -> Containers] : Adds(g, qs) /\ parse(more) = g[Len(qs)]
  BY ParseAdds
<1>3. ps \in Seq(String)
  BY PiecesType
<1>4. qs = Append(ps, piece)
  OBVIOUS
<1>. HIDE DEF ps, qs
<1>5. /\ N \in Nat /\ Len(qs) = N + 1 /\ qs[N + 1] = piece
      /\ \A i \in 1 .. N : qs[i] = ps[i]
  BY <1>3, <1>4
<1>. HIDE DEF N
<1>a. Len(ps) = N
  BY DEF N
<1>. DEFINE T == {k \in Nat : k <= N => g[k] = f[k]}
<1>6. 0 \in T
  BY <1>1, <1>2 DEF Adds
<1>7. ASSUME NEW k \in Nat, k \in T PROVE k + 1 \in T
  <2>. SUFFICES ASSUME k + 1 <= N PROVE g[k + 1] = f[k + 1]
    BY k + 1 \in Nat
  <2>. DEFINE n == k + 1
  <2>1. n \in 1 .. N /\ n \in 1 .. N + 1 /\ n - 1 = k /\ g[k] = f[k]
    BY <1>5, <1>7
  <2>. HIDE DEF n
  <2>2. f[n] = add(f[k], Entry(ps[n]))
    BY <1>1, <1>a, <2>1 DEF Adds
  <2>3. g[n] = add(g[k], Entry(qs[n]))
    BY <1>2, <1>5, <2>1 DEF Adds
  <2>4. g[n] = f[n]
    BY <1>5, <2>1, <2>2, <2>3
  <2>. QED  BY <2>4 DEF n
<1>8. g[N] = f[N]
  <2>. HIDE DEF T
  <2>1. N \in T
    BY <1>5, <1>6, <1>7, NatSetInduction
  <2>. QED  BY <1>5, <2>1 DEF T
<1>9. g[N + 1] = add(g[N], Entry(qs[N + 1]))
  <2>1. N + 1 \in 1 .. N + 1 /\ (N + 1) - 1 = N
    BY <1>5
  <2>2. g[N + 1] = add(g[(N + 1) - 1], Entry(qs[N + 1]))
    BY <1>2, <1>5, <2>1 DEF Adds
  <2>. QED  BY <2>1, <2>2
<1>. QED  BY <1>1, <1>2, <1>5, <1>8, <1>9

-----------------------------------------------------------------------------
(* compose().  What encodePercent() leaves in a text, and what is put      *)
(* between the texts.                                                      *)

EncodedChar == {ch \in Char : isUrlSafe(ch)} \cup {Plus, Percent}

QueryChar == EncodedChar \cup {Equals, Amp}

LEMMA QueryChars ==
  ASSUME NEW ch \in QueryChar
  PROVE  /\ ch \in Char /\ isChar(ch) /\ ~isControl(ch) /\ ~isSpaceOrTab(ch) /\ ch # Question
         /\ ch \in EncodedChar => ch # Amp /\ ch # Equals
BY DEF QueryChar, EncodedChar, Char, isUrlSafe, isDigit, isChar, isControl, isSpaceOrTab, isSpace,
       isTab, SP, HT, Plus, Percent, Equals, Amp, Question

LEMMA EncodedText == ASSUME NEW str \in String PROVE encodePercent(str) \in Seq(EncodedChar)
<1>. DEFINE strs == [i \in DOMAIN str |-> Encoded(str[i])]
<1>0. DOMAIN str = 1 .. Len(str) /\ Len(str) \in Nat /\ \A i \in 1 .. Len(str) : str[i] \in Char
  BY DEF String
<1>1. ASSUME NEW ch \in Char PROVE Encoded(ch) \in Seq(EncodedChar)
  <2>1. ch \div 16 \in 0 .. 15 /\ ch % 16 \in 0 .. 15
    BY DEF Char
  <2>2. \A n \in 0 .. 15 : UpperHex(n) \in EncodedChar
    BY DEF UpperHex, EncodedChar, Char, isUrlSafe, isDigit
  <2>3. UpperHex(ch \div 16) \in EncodedChar /\ UpperHex(ch % 16) \in EncodedChar
    BY <2>1, <2>2
  <2>4. Plus \in EncodedChar /\ Percent \in EncodedChar /\ (isUrlSafe(ch) => ch \in EncodedChar)
    BY DEF EncodedChar
  <2>. QED  BY <2>3, <2>4 DEF Encoded
<1>2. \A i \in 1 .. Len(str) : Encoded(str[i]) \in Seq(EncodedChar)
  BY <1>0, <1>1
<1>3. strs \in Seq(Seq(EncodedChar))
  BY <1>0, <1>2
<1>. HIDE DEF strs
<1>. QED  BY <1>3, FlattenType DEF encodePercent, strs

EntryText(e) == encodePercent(e.name) \o <<Equals>> \o encodePercent(e.value)

LEMMA EntryTextProperties ==
  ASSUME NEW e \in Param
  PROVE  /\ EntryText(e) \in Seq(QueryChar)
         /\ WithoutAmp(EntryText(e))
         /\ Entry(EntryText(e)) = e
<1>. DEFINE a == encodePercent(e.name)
            b == encodePercent(e.value)
            t == a \o <<Equals>> \o b
            m == Len(a) + 1
<1>0. e.name \in String /\ e.value \in String /\ e = [name |-> e.name, value |-> e.value]
  BY DEF Param
<1>1. a \in Seq(EncodedChar) /\ b \in Seq(EncodedChar)
  BY <1>0, EncodedText
<1>2. decodePercent(a) = e.name /\ decodePercent(b) = e.value
  BY <1>0, PercentReadsBack
<1>. HIDE DEF a, b
<1>3. a \in Seq(QueryChar) /\ b \in Seq(QueryChar) /\ Equals \in QueryChar
  <2>1. EncodedChar \subseteq QueryChar /\ Equals \in QueryChar
    BY DEF QueryChar
  <2>. QED  BY <1>1, <2>1, SeqMonotonic
<1>4. QueryChar \subseteq Char
  BY QueryChars
<1>5. Between(a, Equals, b, t)
  BY <1>3, Inserted, Zenon
<1>6. t \in Seq(QueryChar)
  BY <1>3
<1>7. t \in String /\ a \in Seq(Char) /\ b \in Seq(Char)
  BY <1>3, <1>4, <1>6, SeqMonotonic DEF String
<1>. HIDE DEF t
<1>8. /\ Len(t) = Len(a) + 1 + Len(b) /\ Len(a) \in Nat /\ Len(b) \in Nat
      /\ \A i \in 1 .. Len(a) : t[i] = a[i]
      /\ t[m] = Equals
      /\ \A i \in 1 .. Len(b) : t[m + i] = b[i]
      /\ m \in 1 .. Len(t) /\ m # 0 /\ m - 1 = Len(a)
  BY <1>3, <1>5 DEF Between
<1>. HIDE DEF m
<1>9. Equals # Amp /\ \A ch \in EncodedChar : ch # Amp /\ ch # Equals
  BY QueryChars DEF QueryChar, Equals, Amp
<1>10. /\ \A i \in 1 .. Len(a) : a[i] # Amp /\ a[i] # Equals
       /\ \A i \in 1 .. Len(b) : b[i] # Amp
  <2>1. (\A i \in 1 .. Len(a) : a[i] \in EncodedChar) /\ (\A i \in 1 .. Len(b) : b[i] \in EncodedChar)
    BY <1>1
  <2>. QED  BY <1>9, <2>1
<1>11. \A i \in 1 .. Len(t) : t[i] # Amp
  <2>. TAKE i \in 1 .. Len(t)
  <2>1. CASE i < m
    <3>1. i \in 1 .. Len(a)
      BY <1>8, <2>1
    <3>. QED  BY <1>8, <1>10, <3>1
  <2>2. CASE i = m
    BY <1>8, <1>9, <2>2
  <2>3. CASE i > m
    <3>1. i - m \in 1 .. Len(b) /\ m + (i - m) = i
      BY <1>8, <2>3
    <3>2. t[m + (i - m)] = b[i - m]
      BY <1>8, <3>1
    <3>. QED  BY <1>10, <3>1, <3>2
  <2>. QED  BY <1>8, <2>1, <2>2, <2>3
<1>12. WithoutAmp(t)
  <2>1. t # << >>
    BY <1>8
  <2>. QED  BY <1>7, <1>11, <2>1 DEF WithoutAmp
<1>13. FirstOf(t, Equals) = m
  <2>1. \A i \in 1 .. m - 1 : t[i] # Equals
    BY <1>8, <1>10
  <2>2. IsFirst(m, t, Equals)
    BY <1>8, <2>1 DEF IsFirst
  <2>. QED  BY <1>7, <1>8, <2>2, FirstPlaceIs, Zenon
<1>14. SubSeq(t, 1, m - 1) = a
  <2>. DEFINE s == SubSeq(t, 1, m - 1)
  <2>1. s \in Seq(Char) /\ Len(s) = Len(a) /\ \A i \in 1 .. Len(a) : s[i] = t[i]
    BY <1>7, <1>8 DEF String
  <2>. HIDE DEF s
  <2>2. s = a
    BY <1>7, <1>8, <2>1, SeqEqual
  <2>. QED  BY <2>2 DEF s
<1>15. SubSeq(t, m + 1, Len(t)) = b
  <2>. DEFINE s == SubSeq(t, m + 1, Len(t))
  <2>1. m + 1 \in Nat /\ Len(t) \in Nat /\ Len(t) - m = Len(b)
    BY <1>8
  <2>2. s \in Seq(Char) /\ Len(s) = Len(b) /\ \A i \in 1 .. Len(b) : s[i] = t[m + i]
    BY <1>7, <1>8, <2>1 DEF String
  <2>. HIDE DEF s
  <2>3. s = b
    BY <1>7, <1>8, <2>2, SeqEqual
  <2>. QED  BY <2>3 DEF s
<1>16. Entry(t) = [name |-> decodePercent(a), value |-> decodePercent(b)]
  BY <1>8, <1>13, <1>14, <1>15 DEF Entry, FirstOf
<1>17. Entry(t) = e
  BY <1>0, <1>2, <1>16
<1>. QED  BY <1>6, <1>12, <1>17 DEF EntryText, t, a, b

Composition == [text : Seq(QueryChar), size : Nat]

LEMMA QueryText == ASSUME NEW t \in Seq(QueryChar) PROVE t \in String
<1>1. QueryChar \subseteq Char
  BY QueryChars
<1>. QED  BY <1>1, SeqMonotonic DEF String

\* What a round of the loop makes of what has been composed.
LEMMA ComposeEntryIs ==
  ASSUME NEW c \in Composition, NEW e \in Param
  PROVE  ComposeEntry(c, e)
           = IF e.name = << >> THEN c
             ELSE IF c.size > 0
             THEN [text |-> c.text \o <<Amp>> \o EntryText(e), size |-> c.size + 1 + Len(EntryText(e))]
             ELSE [text |-> c.text \o EntryText(e), size |-> c.size + Len(EntryText(e))]
<1>. DEFINE t == EntryText(e)
            amp == IF c.size > 0 THEN <<Amp>> ELSE << >>
<1>1. t \in Seq(QueryChar) /\ c.text \in Seq(QueryChar) /\ c.size \in Nat
  BY EntryTextProperties DEF Composition
<1>2. ComposeEntry(c, e) = IF e.name = << >> THEN c
                           ELSE [text |-> c.text \o amp \o t, size |-> c.size + Len(amp) + Len(t)]
  BY DEF ComposeEntry, EntryText
<1>. HIDE DEF t
<1>3. CASE c.size > 0
  BY <1>2, <1>3 DEF t
<1>4. CASE ~(c.size > 0)
  <2>1. amp = << >> /\ Len(amp) = 0 /\ c.text \o << >> = c.text
    BY <1>1, <1>4
  <2>2. c.size + Len(amp) + Len(t) = c.size + Len(t)
    BY <1>1, <2>1
  <2>3. c.text \o amp \o t = c.text \o t
    BY <2>1
  <2>. HIDE DEF amp
  <2>. QED  BY <1>2, <1>4, <2>2, <2>3 DEF t
<1>. QED  BY <1>3, <1>4

LEMMA ComposeEntryType ==
  ASSUME NEW c \in Composition, NEW e \in Param
  PROVE  ComposeEntry(c, e) \in Composition
<1>1. c.text \in Seq(QueryChar) /\ c.size \in Nat /\ EntryText(e) \in Seq(QueryChar)
  BY EntryTextProperties DEF Composition
<1>2. <<Amp>> \in Seq(QueryChar)
  BY DEF QueryChar
<1>3. /\ c.text \o <<Amp>> \o EntryText(e) \in Seq(QueryChar)
      /\ c.text \o EntryText(e) \in Seq(QueryChar)
  BY <1>1, <1>2
<1>4. Len(EntryText(e)) \in Nat
  BY <1>1
<1>5. CASE e.name = << >>
  BY <1>5, ComposeEntryIs
<1>6. CASE e.name # << >> /\ c.size > 0
  <2>1. ComposeEntry(c, e) = [text |-> c.text \o <<Amp>> \o EntryText(e),
                              size |-> c.size + 1 + Len(EntryText(e))]
    BY <1>6, ComposeEntryIs
  <2>2. c.size + 1 + Len(EntryText(e)) \in Nat
    BY <1>1, <1>4
  <2>. QED  BY <1>3, <2>1, <2>2 DEF Composition
<1>7. CASE e.name # << >> /\ ~(c.size > 0)
  <2>1. ComposeEntry(c, e) = [text |-> c.text \o EntryText(e), size |-> c.size + Len(EntryText(e))]
    BY <1>7, ComposeEntryIs
  <2>2. c.size + Len(EntryText(e)) \in Nat
    BY <1>1, <1>4
  <2>. QED  BY <1>3, <2>1, <2>2 DEF Composition
<1>. QED  BY <1>5, <1>6, <1>7

Composes(composed, es) ==
  /\ composed[0] = [text |-> << >>, size |-> 0]
  /\ \A n \in 1 .. Len(es) : composed[n] = ComposeEntry(composed[n - 1], es[n])

LEMMA ComposeComposes ==
  ASSUME NEW es \in Seq(Param)
  PROVE  \E composed \in [0 .. Len(es) -> Composition] :
           Composes(composed, es) /\ compose(es) = composed[Len(es)]
<1>. DEFINE N  == Len(es)
            z  == [text |-> << >>, size |-> 0]
            step == [n \in 1 .. N |-> [c \in Composition |-> ComposeEntry(c, es[n])]]
            Is(g) == g = [n \in 0 .. N |-> IF n = 0 THEN z ELSE ComposeEntry(g[n - 1], es[n])]
<1>2. compose(es) = (CHOOSE g : Is(g))[N]
  BY DEF compose
<1>3. N \in Nat /\ \A n \in 1 .. N : es[n] \in Param
  OBVIOUS
<1>. HIDE DEF N
<1>4. z \in Composition
  BY DEF Composition
<1>. HIDE DEF z
<1>5. ASSUME NEW n \in 1 .. N, NEW c \in Composition PROVE ComposeEntry(c, es[n]) \in Composition
  BY <1>3, ComposeEntryType
<1>6. step \in [1 .. N -> [Composition -> Composition]]
  BY <1>5
<1>7. PICK f \in [0 .. N -> Composition] : Iterates(f, N, z, step)
  <2>. HIDE DEF step
  <2>. QED  BY <1>3, <1>4, <1>6, Iteration
<1>8. f[0] = z /\ \A n \in 1 .. N : f[n] = ComposeEntry(f[n - 1], es[n])
  <2>1. \A n \in 1 .. N : f[n] = step[n][f[n - 1]] /\ n - 1 \in 0 .. N
    BY <1>3, <1>7 DEF Iterates
  <2>2. \A n \in 1 .. N : f[n - 1] \in Composition
    BY <2>1
  <2>3. ASSUME NEW n \in 1 .. N PROVE step[n][f[n - 1]] = ComposeEntry(f[n - 1], es[n])
    BY <2>2
  <2>4. f[0] = z
    BY <1>7 DEF Iterates
  <2>. HIDE DEF step
  <2>. QED  BY <2>1, <2>3, <2>4
<1>9. Is(f)
  <2>1. ASSUME NEW n \in 0 .. N
        PROVE  f[n] = IF n = 0 THEN z ELSE ComposeEntry(f[n - 1], es[n])
    <3>1. n # 0 => n \in 1 .. N
      BY <1>3
    <3>. QED  BY <1>8, <3>1
  <2>. QED  BY <2>1
<1>. DEFINE g == CHOOSE g : Is(g)
<1>10. Is(g)
  BY <1>9
<1>. HIDE DEF g
<1>11. TakesSteps(g, N, Composition, z, step)
  <2>1. \A n \in 0 .. N : g[n] = IF n = 0 THEN z ELSE ComposeEntry(g[n - 1], es[n])
    BY <1>10, Zenon
  <2>2. g[0] = z
    BY <1>3, <2>1
  <2>3. ASSUME NEW n \in 1 .. N, g[n - 1] \in Composition PROVE g[n] = step[n][g[n - 1]]
    <3>1. n \in 0 .. N /\ n # 0
      BY <1>3
    <3>2. g[n] = ComposeEntry(g[n - 1], es[n])
      BY <2>1, <3>1
    <3>. QED  BY <2>3, <3>2
  <2>. HIDE DEF step
  <2>. QED  BY <2>2, <2>3 DEF TakesSteps
<1>12. g[N] = f[N]
  <2>1. IteratesOn(f, N, Composition, z, step)
    BY <1>3, <1>4, <1>6, <1>7, Zenon DEF IteratesOn
  <2>. HIDE DEF step
  <2>2. SameUpTo(N, g, f)
    BY <1>11, <2>1, IterationIsUnique, Zenon
  <2>3. N \in 0 .. N
    BY <1>3
  <2>. QED  BY <2>2, <2>3, Zenon DEF SameUpTo
<1>. QED  BY <1>2, <1>8, <1>12 DEF Composes, N, g, z

-----------------------------------------------------------------------------
(* The entries that are in a set.  kept[n] are those of the first n.       *)

Keeps(kept, es, S) ==
  /\ kept[0] = << >>
  /\ \A n \in 1 .. Len(es) :
       kept[n] = IF es[n] \in S THEN Append(kept[n - 1], es[n]) ELSE kept[n - 1]

LEMMA AmongKeeps ==
  ASSUME NEW es \in Seq(Param), NEW S
  PROVE  \E kept \in [0 .. Len(es) -> Seq(Param)] :
           Keeps(kept, es, S) /\ Among(es, S) = kept[Len(es)]
<1>. DEFINE N  == Len(es)
            A  == Seq(Param)
            step == [n \in 1 .. N |-> [s \in A |-> IF es[n] \in S THEN Append(s, es[n]) ELSE s]]
            Is(g) == g = [n \in 0 .. N |->
                            IF n = 0 THEN << >>
                            ELSE IF es[n] \in S THEN Append(g[n - 1], es[n]) ELSE g[n - 1]]
<1>2. Among(es, S) = (CHOOSE g : Is(g))[N]
  BY DEF Among
<1>3. N \in Nat /\ \A n \in 1 .. N : es[n] \in Param
  OBVIOUS
<1>. HIDE DEF N
<1>4. << >> \in A
  OBVIOUS
<1>5. ASSUME NEW n \in 1 .. N, NEW s \in A
      PROVE  (IF es[n] \in S THEN Append(s, es[n]) ELSE s) \in A
  BY <1>3
<1>. HIDE DEF A
<1>6. step \in [1 .. N -> [A -> A]]
  BY <1>5
<1>7. PICK f \in [0 .. N -> A] : Iterates(f, N, << >>, step)
  <2>. HIDE DEF step
  <2>. QED  BY <1>3, <1>4, <1>6, Iteration
<1>8. f[0] = << >> /\ \A n \in 1 .. N : f[n] = IF es[n] \in S THEN Append(f[n - 1], es[n]) ELSE f[n - 1]
  <2>1. \A n \in 1 .. N : f[n] = step[n][f[n - 1]] /\ n - 1 \in 0 .. N
    BY <1>3, <1>7, SMTT(60) DEF Iterates
  <2>2. \A n \in 1 .. N : f[n - 1] \in A
    BY <2>1
  <2>3. ASSUME NEW n \in 1 .. N
        PROVE  step[n][f[n - 1]] = IF es[n] \in S THEN Append(f[n - 1], es[n]) ELSE f[n - 1]
    BY <2>2
  <2>4. f[0] = << >>
    BY <1>7 DEF Iterates
  <2>. HIDE DEF step
  <2>. QED  BY <2>1, <2>3, <2>4
<1>9. Is(f)
  <2>1. ASSUME NEW n \in 0 .. N
        PROVE  f[n] = IF n = 0 THEN << >>
                      ELSE IF es[n] \in S THEN Append(f[n - 1], es[n]) ELSE f[n - 1]
    <3>1. n # 0 => n \in 1 .. N
      BY <1>3
    <3>. QED  BY <1>8, <3>1
  <2>. QED  BY <2>1
<1>. DEFINE g == CHOOSE g : Is(g)
<1>10. Is(g)
  BY <1>9
<1>. HIDE DEF g
<1>11. TakesSteps(g, N, A, << >>, step)
  <2>1. \A n \in 0 .. N : g[n] = IF n = 0 THEN << >>
                                 ELSE IF es[n] \in S THEN Append(g[n - 1], es[n]) ELSE g[n - 1]
    BY <1>10, Zenon
  <2>2. g[0] = << >>
    <3>1. 0 \in 0 .. N
      BY <1>3
    <3>. QED  BY <2>1, <3>1, Zenon
  <2>3. ASSUME NEW n \in 1 .. N, g[n - 1] \in A PROVE g[n] = step[n][g[n - 1]]
    <3>1. n \in 0 .. N /\ n # 0
      BY <1>3
    <3>2. g[n] = IF es[n] \in S THEN Append(g[n - 1], es[n]) ELSE g[n - 1]
      BY <2>1, <3>1
    <3>. QED  BY <2>3, <3>2
  <2>. HIDE DEF step
  <2>. QED  BY <2>2, <2>3 DEF TakesSteps
<1>12. g[N] = f[N]
  <2>1. IteratesOn(f, N, A, << >>, step)
    BY <1>3, <1>4, <1>6, <1>7, Zenon DEF IteratesOn
  <2>. HIDE DEF step
  <2>2. SameUpTo(N, g, f)
    BY <1>11, <2>1, IterationIsUnique, Zenon
  <2>3. N \in 0 .. N
    BY <1>3
  <2>. QED  BY <2>2, <2>3, Zenon DEF SameUpTo
<1>. QED  BY <1>2, <1>8, <1>12 DEF Keeps, N, A, g

-----------------------------------------------------------------------------
(* Composing and reading back, by induction over the entries.              *)

\* The entries of kept are among the first n of es.
Earlier(kept, es, n) == \A i \in 1 .. Len(kept) : \E j \in 1 .. n : kept[i] = es[j]

\* What has been composed is counted, ends with an entry, and reads back as kept.
ReadsAs(c, kept) ==
  /\ c.size = Len(c.text)
  /\ c.text = << >> \/ Ended(c.text)
  /\ parse(c.text) = kept

NamedParam == [name : String \ {<< >>}, value : String]

LEMMA ComposedEntryReads ==
  ASSUME NEW c \in Composition, NEW kept \in Seq(Param), ReadsAs(c, kept),
         NEW e \in Param, e.name # << >>, \A i \in 1 .. Len(kept) : ~Before(e.name, kept[i].name)
  PROVE  ReadsAs(ComposeEntry(c, e), Append(kept, e))
<1>. DEFINE t == c.text
            u == EntryText(e)
            r == ComposeEntry(c, e)
<1>1. /\ c.size = Len(t) /\ (t = << >> \/ Ended(t)) /\ parse(t) = kept
      /\ t \in Seq(QueryChar) /\ t \in String
  BY QueryText DEF ReadsAs, Composition
<1>2. u \in Seq(QueryChar) /\ u \in String /\ WithoutAmp(u) /\ Entry(u) = e
  BY EntryTextProperties, QueryText
<1>3. r = IF c.size > 0
          THEN [text |-> t \o <<Amp>> \o u, size |-> c.size + 1 + Len(u)]
          ELSE [text |-> t \o u, size |-> c.size + Len(u)]
  BY ComposeEntryIs
<1>. HIDE DEF t, u
<1>4. add(kept, e) = Append(kept, e)
  BY AddAtEnd
<1>5. /\ Len(t) \in Nat /\ Len(u) \in Nat /\ Len(u) # 0 /\ u # << >>
      /\ u[Len(u)] # Amp /\ u \in Seq(Char) /\ t \in Seq(Char) /\ Amp \in Char
  <2>1. u \in Seq(Char) /\ t \in Seq(Char) /\ Amp \in Char
    BY <1>1, <1>2 DEF String, Amp, Char
  <2>2. u # << >> /\ \A i \in 1 .. Len(u) : u[i] # Amp
    BY <1>2 DEF WithoutAmp
  <2>3. Len(u) \in Nat /\ Len(u) # 0 /\ Len(t) \in Nat
    BY <2>1, <2>2, EmptySeq
  <2>4. Len(u) \in 1 .. Len(u)
    BY <2>3
  <2>. QED  BY <2>1, <2>2, <2>3, <2>4
<1>6. CASE t = << >>
  <2>1. Len(t) = 0 /\ ~(c.size > 0) /\ c.size = 0
    BY <1>1, <1>6
  <2>2. t \o u = u
    BY <1>5, <1>6
  <2>3. r = [text |-> u, size |-> Len(u)]
    BY <1>3, <1>5, <2>1, <2>2
  <2>4. Ended(u)
    BY <1>2, <1>5 DEF Ended
  <2>5. parse(u) = add(parse(t), Entry(u))
    <3>1. Pieces(u) = Append(Pieces(t), u)
      <4>1. Pieces(u) = <<u>> /\ Pieces(t) = << >>
        BY <1>2, <1>6, OnePiece, NoPieces, Zenon
      <4>. QED  BY <4>1
    <3>. QED  BY <1>1, <1>2, <3>1, ParseLonger
  <2>. HIDE DEF r
  <2>6. r.text = u /\ r.size = Len(u)
    BY <2>3
  <2>7. parse(u) = Append(kept, e)
    BY <1>1, <1>2, <1>4, <2>5
  <2>8. ReadsAs(r, Append(kept, e))
    BY <2>4, <2>6, <2>7, Zenon DEF ReadsAs
  <2>. QED  BY <2>8 DEF r
<1>7. CASE t # << >>
  <2>. DEFINE more == t \o <<Amp>> \o u
  <2>1. c.size > 0
    BY <1>1, <1>5, <1>7, EmptySeq
  <2>2. r = [text |-> more, size |-> c.size + 1 + Len(u)]
    BY <1>3, <2>1
  <2>3. Between(t, Amp, u, more) /\ more \in String
    <3>1. Between(t, Amp, u, more)
      BY <1>5, Inserted, Zenon
    <3>. QED  BY <1>5, <3>1 DEF String
  <2>4. parse(more) = add(parse(t), Entry(u))
    <3>1. Pieces(more) = Append(Pieces(t), u)
      BY <1>1, <1>2, <1>7, PiecesLonger
    <3>. HIDE DEF more
    <3>. QED  BY <1>1, <2>3, <3>1, ParseLonger
  <2>. HIDE DEF r, more
  <2>5. /\ Len(more) = Len(t) + 1 + Len(u)
        /\ \A i \in 1 .. Len(u) : more[Len(t) + 1 + i] = u[i]
    BY <2>3 DEF Between
  <2>6. Ended(more)
    <3>1. Len(u) \in 1 .. Len(u)
      BY <1>5
    <3>2. more[Len(more)] = u[Len(u)]
      BY <2>5, <3>1
    <3>3. more # << >>
      BY <1>5, <2>5, EmptySeq
    <3>. QED  BY <1>5, <2>3, <3>2, <3>3 DEF Ended
  <2>7. r.text = more /\ r.size = Len(more)
    BY <1>1, <2>2, <2>5
  <2>8. parse(more) = Append(kept, e)
    BY <1>1, <1>2, <1>4, <2>4
  <2>9. ReadsAs(r, Append(kept, e))
    BY <2>6, <2>7, <2>8, Zenon DEF ReadsAs
  <2>. QED  BY <2>9 DEF r
<1>. QED  BY <1>6, <1>7

LEMMA ComposeReadsBack ==
  ASSUME NEW es \in Containers
  PROVE  /\ compose(es) \in Composition
         /\ ReadsAs(compose(es), Among(es, NamedParam))
<1>. DEFINE N == Len(es)
<1>1. es \in Seq(Param) /\ N \in Nat /\ Sorted(es) /\ \A n \in 1 .. N : es[n] \in Param
  BY DEF Containers
<1>2. PICK c \in [0 .. N -> Composition] : Composes(c, es) /\ compose(es) = c[N]
  BY <1>1, ComposeComposes
<1>3. PICK kept \in [0 .. N -> Seq(Param)] :
        Keeps(kept, es, NamedParam) /\ Among(es, NamedParam) = kept[N]
  BY <1>1, AmongKeeps
<1>. DEFINE T == {n \in Nat : n <= N => ReadsAs(c[n], kept[n]) /\ Earlier(kept[n], es, n)}
<1>4. 0 \in T
  <2>1. c[0] = [text |-> << >>, size |-> 0] /\ kept[0] = << >>
    BY <1>2, <1>3 DEF Composes, Keeps
  <2>2. ReadsAs(c[0], kept[0])
    BY <2>1, ParseNothing DEF ReadsAs
  <2>3. Earlier(kept[0], es, 0)
    BY <2>1 DEF Earlier
  <2>. QED  BY <2>2, <2>3
<1>5. ASSUME NEW n \in Nat, n \in T PROVE n + 1 \in T
  <2>. DEFINE m == n + 1
              e == es[m]
  <2>. SUFFICES ASSUME m <= N PROVE ReadsAs(c[m], kept[m]) /\ Earlier(kept[m], es, m)
    BY m \in Nat
  <2>1. m \in 1 .. N /\ m - 1 = n /\ n \in 0 .. N /\ n <= N /\ e \in Param
    BY <1>1
  <2>2. ReadsAs(c[n], kept[n]) /\ Earlier(kept[n], es, n) /\ c[n] \in Composition /\ kept[n] \in Seq(Param)
    BY <1>5, <2>1
  <2>3. c[m] = ComposeEntry(c[n], e)
    BY <1>2, <2>1 DEF Composes
  <2>4. kept[m] = IF e \in NamedParam THEN Append(kept[n], e) ELSE kept[n]
    BY <1>3, <2>1 DEF Keeps
  <2>5. e \in NamedParam <=> e.name # << >>
    BY <2>1 DEF Param, NamedParam
  <2>6. e = es[m]
    OBVIOUS
  <2>. HIDE DEF m, e
  <2>7. CASE e.name = << >>
    <3>1. c[m] = c[n] /\ kept[m] = kept[n]
      BY <2>1, <2>2, <2>3, <2>4, <2>5, <2>7, ComposeEntryIs
    <3>2. \A j \in 1 .. n : j \in 1 .. m
      BY <2>1
    <3>3. Earlier(kept[m], es, m)
      BY <2>2, <3>1, <3>2, Zenon DEF Earlier
    <3>. QED  BY <2>2, <3>1, <3>3
  <2>8. CASE e.name # << >>
    <3>. DEFINE k == kept[n]
    <3>1. kept[m] = Append(k, e) /\ k \in Seq(Param)
      BY <2>2, <2>4, <2>5, <2>8
    <3>2. \A i \in 1 .. Len(k) : ~Before(e.name, k[i].name)
      <4>. TAKE i \in 1 .. Len(k)
      <4>1. PICK j \in 1 .. n : k[i] = es[j]
        BY <2>2 DEF Earlier
      <4>2. j \in 1 .. N /\ j < m
        BY <1>1, <2>1
      <4>3. ~Before(es[m].name, es[j].name)
        BY <1>1, <2>1, <4>2 DEF Sorted
      <4>. QED  BY <2>6, <4>1, <4>3
    <3>3. ReadsAs(c[m], kept[m])
      <4>1. ReadsAs(c[n], k)
        BY <2>2
      <4>. HIDE DEF k
      <4>2. ReadsAs(ComposeEntry(c[n], e), Append(k, e))
        BY <2>1, <2>2, <2>8, <3>1, <3>2, <4>1, ComposedEntryReads
      <4>. QED  BY <2>3, <3>1, <4>2
    <3>4. Earlier(kept[m], es, m)
      <4>. SUFFICES ASSUME NEW i \in 1 .. Len(Append(k, e)) PROVE \E j \in 1 .. m : Append(k, e)[i] = es[j]
        BY <3>1 DEF Earlier
      <4>1. CASE i = Len(k) + 1
        <5>1. Append(k, e)[i] = es[m] /\ m \in 1 .. m
          BY <2>1, <2>6, <3>1, <4>1
        <5>. QED  BY <5>1
      <4>2. CASE i # Len(k) + 1
        <5>1. i \in 1 .. Len(k) /\ Append(k, e)[i] = k[i]
          BY <3>1, <4>2
        <5>2. PICK j \in 1 .. n : k[i] = es[j]
          BY <2>2, <5>1 DEF Earlier
        <5>3. j \in 1 .. m
          BY <2>1
        <5>. QED  BY <5>1, <5>2, <5>3
      <4>. QED  BY <4>1, <4>2
    <3>. QED  BY <3>3, <3>4
  <2>. QED  BY <2>7, <2>8
<1>6. N \in T
  <2>. HIDE DEF T
  <2>. QED  BY <1>1, <1>4, <1>5, NatSetInduction
<1>7. N <= N /\ N \in 0 .. N
  BY <1>1
<1>. QED  BY <1>2, <1>3, <1>6, <1>7

-----------------------------------------------------------------------------
(* The entries of a name.                                                  *)

LEMMA AmongConcat ==
  ASSUME NEW a \in Seq(Param), NEW b \in Seq(Param), NEW S
  PROVE  Among(a \o b, S) = Among(a, S) \o Among(b, S)
<1>. DEFINE es == a \o b
            M  == Len(a)
            N  == Len(b)
<1>1. /\ es \in Seq(Param) /\ Len(es) = M + N /\ M \in Nat /\ N \in Nat
      /\ \A i \in 1 .. M : es[i] = a[i]
      /\ \A i \in 1 .. N : es[M + i] = b[i]
  BY JoinedPlaces
<1>. HIDE DEF es
<1>2. PICK f \in [0 .. Len(es) -> Seq(Param)] : Keeps(f, es, S) /\ Among(es, S) = f[Len(es)]
  BY <1>1, AmongKeeps
<1>3. PICK g \in [0 .. M -> Seq(Param)] : Keeps(g, a, S) /\ Among(a, S) = g[M]
  BY AmongKeeps
<1>4. PICK h \in [0 .. N -> Seq(Param)] : Keeps(h, b, S) /\ Among(b, S) = h[N]
  BY AmongKeeps
<1>5. /\ f[0] = << >> /\ g[0] = << >> /\ h[0] = << >>
      /\ \A n \in 1 .. M + N : f[n] = IF es[n] \in S THEN Append(f[n - 1], es[n]) ELSE f[n - 1]
      /\ \A n \in 1 .. M : g[n] = IF a[n] \in S THEN Append(g[n - 1], a[n]) ELSE g[n - 1]
      /\ \A n \in 1 .. N : h[n] = IF b[n] \in S THEN Append(h[n - 1], b[n]) ELSE h[n - 1]
  BY <1>1, <1>2, <1>3, <1>4 DEF Keeps
<1>. HIDE DEF M, N
<1>. DEFINE T == {n \in Nat : n <= M => f[n] = g[n]}
            U == {n \in Nat : n <= N => f[M + n] = g[M] \o h[n]}
<1>6. 0 \in T
  BY <1>5
<1>7. ASSUME NEW n \in Nat, n \in T PROVE n + 1 \in T
  <2>. DEFINE m == n + 1
  <2>. SUFFICES ASSUME m <= M PROVE f[m] = g[m]
    BY m \in Nat
  <2>1. m \in 1 .. M /\ m \in 1 .. M + N /\ m - 1 = n /\ f[n] = g[n]
    BY <1>1, <1>7
  <2>. HIDE DEF m
  <2>2. es[m] = a[m]
    BY <1>1, <2>1
  <2>. QED  BY <1>5, <2>1, <2>2
<1>8. M \in T
  <2>. HIDE DEF T
  <2>. QED  BY <1>1, <1>6, <1>7, NatSetInduction
<1>9. f[M] = g[M] /\ g[M] \in Seq(Param)
  BY <1>1, <1>3, <1>8
<1>10. 0 \in U
  <2>1. g[M] \o << >> = g[M] /\ M + 0 = M
    BY <1>1, <1>9
  <2>2. f[M + 0] = g[M] \o h[0]
    BY <1>5, <1>9, <2>1
  <2>. QED  BY <2>2
<1>11. ASSUME NEW n \in Nat, n \in U PROVE n + 1 \in U
  <2>. DEFINE m == n + 1
  <2>. SUFFICES ASSUME m <= N PROVE f[M + m] = g[M] \o h[m]
    BY m \in Nat
  <2>0. n <= N
    BY <1>1
  <2>1. /\ m \in 1 .. N /\ M + m \in 1 .. M + N /\ m - 1 = n /\ (M + m) - 1 = M + n
        /\ f[M + n] = g[M] \o h[n] /\ n \in 0 .. N
    <3>1. f[M + n] = g[M] \o h[n]
      BY <1>11, <2>0
    <3>2. m \in 1 .. N /\ M + m \in 1 .. M + N /\ m - 1 = n /\ (M + m) - 1 = M + n /\ n \in 0 .. N
      BY <1>1, <2>0
    <3>. QED  BY <3>1, <3>2
  <2>. HIDE DEF m
  <2>2. es[M + m] = b[m] /\ h[n] \in Seq(Param) /\ b[m] \in Param
    <3>1. b[m] \in Param
      BY <2>1 DEF N
    <3>. QED  BY <1>1, <1>4, <2>1, <3>1
  <2>3. f[M + m] = IF b[m] \in S THEN Append(f[M + n], b[m]) ELSE f[M + n]
    BY <1>5, <2>1, <2>2
  <2>4. h[m] = IF b[m] \in S THEN Append(h[n], b[m]) ELSE h[n]
    BY <1>5, <2>1
  <2>5. Append(g[M] \o h[n], b[m]) = g[M] \o Append(h[n], b[m])
    <3>. DEFINE x == g[M]
                y == h[n]
                z == b[m]
    <3>1. x \in Seq(Param) /\ y \in Seq(Param) /\ z \in Param
      BY <1>9, <2>2
    <3>. HIDE DEF x, y, z
    <3>2. Append(x \o y, z) = x \o Append(y, z)
      <4>1. <<z>> \in Seq(Param) /\ x \o y \in Seq(Param)
        BY <3>1
      <4>2. x \o (y \o <<z>>) = (x \o y) \o <<z>>
        BY <3>1, <4>1
      <4>3. Append(y, z) = y \o <<z>> /\ Append(x \o y, z) = (x \o y) \o <<z>>
        BY <3>1, <4>1
      <4>. QED  BY <4>2, <4>3
    <3>. QED  BY <3>2 DEF x, y, z
  <2>. QED  BY <2>1, <2>3, <2>4, <2>5
<1>12. N \in U
  <2>. HIDE DEF U
  <2>. QED  BY <1>1, <1>10, <1>11, NatSetInduction
<1>13. f[M + N] = g[M] \o h[N]
  BY <1>1, <1>12
<1>. QED  BY <1>1, <1>2, <1>3, <1>4, <1>13 DEF es, M, N

LEMMA AmongType == ASSUME NEW es \in Seq(Param), NEW S PROVE Among(es, S) \in Seq(Param)
<1>1. Len(es) \in 0 .. Len(es)
  OBVIOUS
<1>. QED  BY <1>1, AmongKeeps

LEMMA AmongNone ==
  ASSUME NEW es \in Seq(Param), NEW S, \A i \in 1 .. Len(es) : es[i] \notin S
  PROVE  Among(es, S) = << >>
<1>. DEFINE N == Len(es)
<1>1. PICK f \in [0 .. N -> Seq(Param)] : Keeps(f, es, S) /\ Among(es, S) = f[N]
  BY AmongKeeps
<1>. DEFINE T == {n \in Nat : n <= N => f[n] = << >>}
<1>2. 0 \in T
  BY <1>1 DEF Keeps
<1>3. ASSUME NEW n \in Nat, n \in T PROVE n + 1 \in T
  <2>. DEFINE m == n + 1
  <2>. SUFFICES ASSUME m <= N PROVE f[m] = << >>
    BY m \in Nat
  <2>1. m \in 1 .. N /\ m - 1 = n /\ f[n] = << >>
    BY <1>3
  <2>. HIDE DEF m
  <2>. QED  BY <1>1, <2>1 DEF Keeps
<1>4. N \in Nat
  OBVIOUS
<1>5. N \in T
  <2>. HIDE DEF T
  <2>. QED  BY <1>2, <1>3, <1>4, NatSetInduction
<1>. QED  BY <1>1, <1>4, <1>5

LEMMA AmongOne ==
  ASSUME NEW e \in Param, NEW S
  PROVE  Among(<<e>>, S) = IF e \in S THEN <<e>> ELSE << >>
<1>1. <<e>> \in Seq(Param) /\ Len(<<e>>) = 1 /\ <<e>>[1] = e
  OBVIOUS
<1>2. PICK f \in [0 .. Len(<<e>>) -> Seq(Param)] : Keeps(f, <<e>>, S) /\ Among(<<e>>, S) = f[Len(<<e>>)]
  BY <1>1, AmongKeeps
<1>3. 1 \in 1 .. Len(<<e>>) /\ 1 - 1 = 0
  BY <1>1
<1>4. f[1] = IF e \in S THEN Append(f[0], e) ELSE f[0]
  BY <1>1, <1>2, <1>3 DEF Keeps
<1>5. f[0] = << >> /\ Append(<< >>, e) = <<e>>
  BY <1>2 DEF Keeps
<1>. QED  BY <1>1, <1>2, <1>4, <1>5

OfName(name) == [name : {name}, value : String]

\* A new entry is the last of its name, and changes nothing for the others.
LEMMA AddForName ==
  ASSUME NEW es \in Containers, NEW e \in Param, NEW name \in String
  PROVE  equal_range(add(es, e), name)
           = IF e.name = name THEN Append(equal_range(es, name), e) ELSE equal_range(es, name)
<1>. DEFINE S == OfName(name)
<1>0. es \in Seq(Param) /\ Sorted(es)
  BY DEF Containers
<1>1. PICK n \in 0 .. Len(es) : Splits(n, es, e) /\ add(es, e) = InsertAt(es, n + 1, e)
  BY <1>0, AddPlace, Zenon
<1>. DEFINE front == SubSeq(es, 1, n)
            back  == SubSeq(es, n + 1, Len(es))
<1>2. add(es, e) = front \o <<e>> \o back
  BY <1>0, <1>1, InsertAtPlaces
<1>3. /\ front \in Seq(Param) /\ back \in Seq(Param) /\ <<e>> \in Seq(Param)
      /\ Len(back) = Len(es) - n /\ \A i \in 1 .. Len(es) - n : back[i] = es[n + i]
  BY <1>0
<1>4. front \o back = es
  <2>1. 1 \in 1 .. Len(es) + 1 /\ n \in 1 - 1 .. Len(es) /\ Len(es) \in n .. Len(es)
    BY <1>0
  <2>2. front \o back = SubSeq(es, 1, Len(es))
    BY <1>0, <2>1, ConcatAdjacentSubSeq, Zenon
  <2>. QED  BY <1>0, <2>2, SubSeqFull, Zenon
<1>. HIDE DEF front, back
<1>5. Among(es, S) = Among(front, S) \o Among(back, S)
  BY <1>3, <1>4, AmongConcat, ZenonT(60)
<1>6. Among(add(es, e), S) = (Among(front, S) \o Among(<<e>>, S)) \o Among(back, S)
  <2>1. front \o <<e>> \in Seq(Param)
    BY <1>3, ConcatProperties, Zenon
  <2>2. Among(front \o <<e>>, S) = Among(front, S) \o Among(<<e>>, S)
    BY <1>3, AmongConcat, ZenonT(60)
  <2>3. Among((front \o <<e>>) \o back, S) = Among(front \o <<e>>, S) \o Among(back, S)
    BY <1>3, <2>1, AmongConcat, Zenon
  <2>. QED  BY <1>2, <2>2, <2>3
<1>7. e \in S <=> e.name = name
  BY DEF OfName, Param
<1>8. Among(<<e>>, S) = IF e.name = name THEN <<e>> ELSE << >>
  BY <1>7, AmongOne, Zenon
<1>9. Among(front, S) \in Seq(Param) /\ Among(back, S) \in Seq(Param)
  BY <1>3, AmongType, Zenon
<1>10. CASE e.name = name
  <2>1. ASSUME NEW i \in 1 .. Len(back) PROVE back[i] \notin S
    <3>1. n + i \in 1 .. Len(es) /\ ~(n + i <= n) /\ back[i] = es[n + i] /\ es[n + i] \in Param
      BY <1>0, <1>3
    <3>2. Before(e.name, es[n + i].name)
      BY <1>1, <3>1 DEF Splits
    <3>3. e.name # es[n + i].name
      BY <3>2, ParamName, BeforeIrreflexive
    <3>. QED  BY <1>10, <3>1, <3>3 DEF OfName
  <2>2. Among(back, S) = << >>
    <3>. HIDE DEF S
    <3>. QED  BY <1>3, <2>1, AmongNone
  <2>3. Among(es, S) = Among(front, S)
    BY <1>5, <1>9, <2>2
  <2>4. Among(add(es, e), S) = Among(front, S) \o <<e>>
    <3>. DEFINE x == Among(front, S) \o <<e>>
    <3>1. x \in Seq(Param)
      BY <1>3, <1>9, ConcatProperties, Zenon
    <3>2. Among(add(es, e), S) = x \o << >>
      BY <1>6, <1>8, <1>10, <2>2
    <3>. HIDE DEF x
    <3>3. x \o << >> = x
      BY <3>1
    <3>. QED  BY <3>2, <3>3 DEF x
  <2>5. Among(front, S) \o <<e>> = Append(Among(front, S), e)
    BY <1>9
  <2>6. equal_range(add(es, e), name) = Append(equal_range(es, name), e)
    BY <2>3, <2>4, <2>5 DEF equal_range, OfName
  <2>. QED  BY <1>10, <2>6
<1>11. CASE e.name # name
  <2>1. Among(add(es, e), S) = Among(es, S)
    <3>1. Among(front, S) \o << >> = Among(front, S)
      BY <1>9
    <3>. QED  BY <1>5, <1>6, <1>8, <1>11, <3>1
  <2>2. equal_range(add(es, e), name) = equal_range(es, name)
    BY <2>1 DEF equal_range, OfName
  <2>. QED  BY <1>11, <2>2
<1>. QED  BY <1>10, <1>11

\* The container that parse() builds has the entries of each name as the query has them.
LEMMA ParseKeepsQueryOrder ==
  ASSUME NEW query \in String, NEW name \in String
  PROVE  /\ InOrder(query, name) \in Seq(Param)
         /\ equal_range(parse(query), name) = InOrder(query, name)
<1>. DEFINE ps == Pieces(query)
            qs == [k \in DOMAIN ps |-> Entry(ps[k])]
            N  == Len(ps)
            S  == OfName(name)
<1>1. PICK f \in [0 .. N -> Containers] : Adds(f, ps) /\ parse(query) = f[N]
  BY ParseAdds
<1>2. ps \in Seq(String)
  BY PiecesType
<1>3. InOrder(query, name) = Among(qs, S)
  BY DEF InOrder, equal_range, OfName
<1>. HIDE DEF ps
<1>4. /\ N \in Nat /\ DOMAIN ps = 1 .. N /\ \A n \in 1 .. N : Entry(ps[n]) \in Param
  BY <1>2, EntryType
<1>5. qs \in Seq(Param) /\ Len(qs) = N /\ \A n \in 1 .. N : qs[n] = Entry(ps[n])
  BY <1>4
<1>. HIDE DEF qs
<1>6. PICK kept \in [0 .. Len(qs) -> Seq(Param)] : Keeps(kept, qs, S) /\ Among(qs, S) = kept[Len(qs)]
  BY <1>5, AmongKeeps
<1>7. ASSUME NEW e \in Param PROVE e \in S <=> e.name = name
  BY DEF OfName, Param
<1>8. /\ f[0] = << >> /\ kept[0] = << >>
      /\ \A n \in 1 .. N : f[n] = add(f[n - 1], qs[n])
      /\ \A n \in 1 .. N : kept[n] = IF qs[n] \in S THEN Append(kept[n - 1], qs[n]) ELSE kept[n - 1]
  BY <1>1, <1>5, <1>6 DEF Adds, Keeps
<1>. HIDE DEF N
<1>. DEFINE T == {n \in Nat : n <= N => equal_range(f[n], name) = kept[n]}
<1>9. 0 \in T
  <2>1. << >> \in Seq(Param) /\ \A i \in 1 .. Len(<< >>) : << >>[i] \notin S
    OBVIOUS
  <2>2. Among(<< >>, S) = << >>
    <3>. HIDE DEF S
    <3>. QED  BY <2>1, AmongNone
  <2>. QED  BY <1>8, <2>2 DEF equal_range, OfName
<1>10. ASSUME NEW n \in Nat, n \in T PROVE n + 1 \in T
  <2>. DEFINE m == n + 1
  <2>. SUFFICES ASSUME m <= N PROVE equal_range(f[m], name) = kept[m]
    BY m \in Nat
  <2>0. n <= N
    BY <1>4
  <2>1. m \in 1 .. N /\ m - 1 = n /\ n \in 0 .. N
    BY <1>4, <2>0
  <2>2. equal_range(f[n], name) = kept[n]
    BY <1>10, <2>0
  <2>. HIDE DEF m, S
  <2>3. f[n] \in Containers /\ qs[m] \in Param
    BY <1>1, <1>4, <1>5, <2>1
  <2>4. f[m] = add(f[n], qs[m])
    BY <1>8, <2>1
  <2>5. kept[m] = IF qs[m].name = name THEN Append(kept[n], qs[m]) ELSE kept[n]
    BY <1>7, <1>8, <2>1, <2>3
  <2>6. equal_range(add(f[n], qs[m]), name)
          = IF qs[m].name = name THEN Append(equal_range(f[n], name), qs[m]) ELSE equal_range(f[n], name)
    BY <2>3, AddForName
  <2>. QED  BY <2>2, <2>4, <2>5, <2>6
<1>11. N \in T
  <2>. HIDE DEF T
  <2>. QED  BY <1>4, <1>9, <1>10, NatSetInduction
<1>12. N <= N
  BY <1>4
<1>13. InOrder(query, name) \in Seq(Param)
  BY <1>3, <1>5, AmongType
<1>. QED  BY <1>1, <1>3, <1>5, <1>6, <1>11, <1>12, <1>13

-----------------------------------------------------------------------------
(* The inductive invariant of the specification: the Uri is one that the   *)
(* constructor makes, the container is in order, and the values of every   *)
(* name, whether it is there or not, begin with those of the query.        *)

BeginsWith(s, t) == \E u \in Seq(Param) : t = s \o u

ParamsInv ==
  /\ WellFormed(uri)
  /\ params \in Containers
  /\ \A name \in String : BeginsWith(InOrder(uri.query, name), equal_range(params, name))

LEMMA ParamsInit == Init => ParamsInv
<1>. SUFFICES ASSUME Init PROVE ParamsInv
  OBVIOUS
<1>1. PICK target \in Targets : uri = UriOf(target)
  BY DEF Init
<1>2. WellFormed(uri)
  BY <1>1, UriOfWellFormed, ParamsAssumption
<1>3. uri.query \in String
  BY <1>2 DEF WellFormed
<1>4. params = parse(uri.query) /\ params \in Containers
  BY <1>3, ParseType DEF Init
<1>5. ASSUME NEW name \in String
      PROVE  BeginsWith(InOrder(uri.query, name), equal_range(params, name))
  <2>. DEFINE s == InOrder(uri.query, name)
  <2>1. s \in Seq(Param) /\ equal_range(params, name) = s
    BY <1>3, <1>4, ParseKeepsQueryOrder
  <2>. HIDE DEF s
  <2>2. << >> \in Seq(Param) /\ s \o << >> = s
    BY <2>1
  <2>3. BeginsWith(s, equal_range(params, name))
    BY <2>1, <2>2 DEF BeginsWith
  <2>. QED  BY <2>3 DEF s
<1>. QED  BY <1>2, <1>4, <1>5 DEF ParamsInv

LEMMA ParamsNext == ParamsInv /\ [Next]_paramsVars => ParamsInv'
<1>. SUFFICES ASSUME ParamsInv, [Next]_paramsVars PROVE ParamsInv'
  OBVIOUS
<1>1. CASE UNCHANGED paramsVars
  <2>1. uri' = uri /\ params' = params
    BY <1>1 DEF paramsVars
  <2>. QED  BY <2>1 DEF ParamsInv
<1>2. ASSUME NEW n \in Names, NEW v \in Values, Add(n, v) PROVE ParamsInv'
  <2>. DEFINE e == [name |-> n, value |-> v]
  <2>1. n \in String /\ v \in String
    BY ParamsAssumption
  <2>2. uri' = uri /\ params' = add(params, e) /\ e \in Param
    BY <1>2, <2>1 DEF Add, Param
  <2>. HIDE DEF e
  <2>3. params \in Containers /\ WellFormed(uri)
    BY DEF ParamsInv
  <2>4. params' \in Containers
    BY <2>2, <2>3, AddKeepsOrder DEF Containers
  <2>5. ASSUME NEW name \in String
        PROVE  BeginsWith(InOrder(uri.query, name), equal_range(params', name))
    <3>. DEFINE s == InOrder(uri.query, name)
                t == equal_range(params, name)
    <3>1. BeginsWith(s, t)
      BY DEF ParamsInv
    <3>2. PICK u \in Seq(Param) : t = s \o u
      BY <3>1 DEF BeginsWith
    <3>3. s \in Seq(Param)
      BY <2>3, ParseKeepsQueryOrder DEF WellFormed
    <3>4. equal_range(params', name) = IF e.name = name THEN Append(t, e) ELSE t
      BY <2>2, <2>3, AddForName
    <3>. HIDE DEF s, t
    <3>5. Append(t, e) = s \o Append(u, e)
      <4>1. <<e>> \in Seq(Param)
        BY <2>2
      <4>2. s \o (u \o <<e>>) = (s \o u) \o <<e>>
        BY <3>3, <4>1
      <4>3. Append(u, e) = u \o <<e>> /\ Append(s \o u, e) = (s \o u) \o <<e>>
        BY <2>2, <3>3, SMTT(60)
      <4>. QED  BY <3>2, <4>2, <4>3
    <3>6. Append(u, e) \in Seq(Param)
      BY <2>2
    <3>7. BeginsWith(s, equal_range(params', name))
      BY <3>2, <3>4, <3>5, <3>6 DEF BeginsWith
    <3>. QED  BY <3>7 DEF s
  <2>. QED  BY <2>2, <2>3, <2>4, <2>5 DEF ParamsInv
<1>. QED  BY <1>1, <1>2 DEF Next

(* Whatever a target holds and whatever is added to its params, a peer     *)
(* that parses what compose() writes has the same params in the same       *)
(* order, but for those without a name.                                    *)
THEOREM ReadBackCorrect == Spec => []ParamsReadBack
<1>1. ParamsInv => ParamsReadBack
  BY ComposeReadsBack DEF ParamsInv, ParamsReadBack, ReadsAs, Named, NamedParam
<1>. QED  BY <1>1, ParamsInit, ParamsNext, PTL DEF Spec

(* A Uri reads back what it composes.                                      *)
THEOREM UriReadBackCorrect == Spec => []UriReadsBack
<1>1. ASSUME ParamsInv PROVE UriReadsBack
  <2>. DEFINE p == uri.encodedPath
              q == uri.query
  <2>1. WellFormed(uri)
    BY <1>1 DEF ParamsInv
  <2>2. /\ p \in String /\ q \in String /\ \A i \in 1 .. Len(p) : p[i] # Question
        /\ uri = [encodedPath |-> p, path |-> decodePercent(p), query |-> q]
    BY <2>1 DEF WellFormed
  <2>. HIDE DEF p, q
  <2>3. CASE q = << >>
    <3>1. composeUri(uri) = p
      BY <2>2, <2>3 DEF composeUri, String, p, q
    <3>2. FirstOf(p, Question) = 0
      BY <2>2, NoPlace
    <3>3. UriOf(p) = [encodedPath |-> p, path |-> decodePercent(p), query |-> << >>]
      BY <3>2 DEF UriOf, FirstOf
    <3>. QED  BY <2>2, <2>3, <3>1, <3>3 DEF UriReadsBack
  <2>4. CASE q # << >>
    <3>1. composeUri(uri) = p \o (<<Question>> \o q)
      BY <2>4 DEF composeUri, p, q
    <3>2. p \o (<<Question>> \o q) = p \o <<Question>> \o q
      <4>1. p \in Seq(Char) /\ q \in Seq(Char) /\ <<Question>> \in Seq(Char)
        BY <2>2 DEF String, Question, Char
      <4>. QED  BY <4>1
    <3>3. UriOf(p \o <<Question>> \o q) = [encodedPath |-> p, path |-> decodePercent(p), query |-> q]
      BY <2>1, <2>2, QueryFound DEF p
    <3>. QED  BY <2>2, <3>1, <3>2, <3>3 DEF UriReadsBack
  <2>. QED  BY <2>3, <2>4
<1>. QED  BY <1>1, ParamsInit, ParamsNext, PTL DEF Spec

(* A composed query is one token to a MessageParser, and the query of the  *)
(* Uri it is put into.                                                     *)
THEOREM QueryFitsCorrect == Spec => []QueryFitsATarget
<1>1. ASSUME ParamsInv PROVE QueryFitsATarget
  <2>. DEFINE q == compose(params).text
  <2>1. WellFormed(uri) /\ params \in Containers
    BY <1>1 DEF ParamsInv
  <2>2. q \in Seq(QueryChar)
    BY <2>1, ComposeReadsBack DEF Composition
  <2>3. q \in String
    BY <2>2, QueryText
  <2>4. uri.path = decodePercent(uri.encodedPath)
    BY <2>1 DEF WellFormed
  <2>. HIDE DEF q
  <2>5. UriOf(uri.encodedPath \o <<Question>> \o q)
          = [encodedPath |-> uri.encodedPath, path |-> decodePercent(uri.encodedPath), query |-> q]
    BY <2>1, <2>3, QueryFound
  <2>6. \A ch \in Range(q) : ch \in QueryChar
    BY <2>2 DEF Range
  <2>7. \A ch \in Range(q) : isChar(ch) /\ ~isControl(ch) /\ ~isSpaceOrTab(ch)
    BY <2>6, QueryChars
  <2>. QED  BY <2>4, <2>5, <2>7 DEF QueryFitsATarget, q
<1>. QED  BY <1>1, ParamsInit, ParamsNext, PTL DEF Spec

(* The sizes are those of the texts.                                       *)
THEOREM SizesCorrect == Spec => []ComposedSizesExact
<1>1. ASSUME ParamsInv PROVE ComposedSizesExact
  <2>1. WellFormed(uri) /\ params \in Containers
    BY <1>1 DEF ParamsInv
  <2>2. compose(params).size = Len(compose(params).text)
    BY <2>1, ComposeReadsBack DEF ReadsAs
  <2>3. UriComposedSize(uri) = Len(composeUri(uri))
    <3>. DEFINE p == uri.encodedPath
                q == uri.query
    <3>1. p \in Seq(Char) /\ q \in Seq(Char) /\ <<Question>> \in Seq(Char)
      BY <2>1 DEF WellFormed, String, Question, Char
    <3>. HIDE DEF p, q
    <3>2. Len(<<Question>>) = 1 /\ Len(p) \in Nat /\ Len(q) \in Nat
      BY <3>1
    <3>3. Len(p \o << >>) = Len(p) + 0 /\ Len(p \o (<<Question>> \o q)) = Len(p) + (1 + Len(q))
      <4>1. <<Question>> \o q \in Seq(Char) /\ Len(<<Question>> \o q) = 1 + Len(q)
        BY <3>1, <3>2
      <4>2. Len(p \o (<<Question>> \o q)) = Len(p) + Len(<<Question>> \o q)
        BY <3>1, <4>1
      <4>3. p \o << >> = p /\ Len(p) + 0 = Len(p)
        BY <3>1, <3>2
      <4>. QED  BY <4>1, <4>2, <4>3
    <3>. QED  BY <3>3 DEF UriComposedSize, composeUri, p, q
  <2>. QED  BY <2>2, <2>3 DEF ComposedSizesExact, composedSize
<1>. QED  BY <1>1, ParamsInit, ParamsNext, PTL DEF Spec

(* The values a query gives a name come first, and in its order.           *)
THEOREM QueryOrderCorrect == Spec => []QueryOrderIsKept
<1>1. ASSUME ParamsInv PROVE QueryOrderIsKept
  <2>. SUFFICES ASSUME NEW e \in Range(params)
                PROVE  IsPrefix(InOrder(uri.query, e.name), equal_range(params, e.name))
    BY DEF QueryOrderIsKept
  <2>1. e.name \in String
    <3>1. params \in Seq(Param)
      BY <1>1 DEF ParamsInv, Containers
    <3>2. e \in Param
      BY <3>1 DEF Range
    <3>. QED  BY <3>2 DEF Param
  <2>. DEFINE s == InOrder(uri.query, e.name)
              t == equal_range(params, e.name)
  <2>2. s \in Seq(Param)
    BY <1>1, <2>1, ParseKeepsQueryOrder DEF ParamsInv, WellFormed
  <2>3. PICK u \in Seq(Param) : t = s \o u
    BY <1>1, <2>1 DEF ParamsInv, BeginsWith
  <2>. HIDE DEF s, t
  <2>4. /\ t \in Seq(Param) /\ Len(t) = Len(s) + Len(u) /\ Len(s) \in Nat /\ Len(u) \in Nat
        /\ \A i \in 1 .. Len(s) : t[i] = s[i]
    BY <2>2, <2>3, JoinedPlaces
  <2>5. SubSeq(t, 1, Len(s)) = s
    <3>. DEFINE r == SubSeq(t, 1, Len(s))
    <3>1. r \in Seq(Param) /\ Len(r) = Len(s) /\ \A i \in 1 .. Len(s) : r[i] = s[i]
      BY <2>4
    <3>. HIDE DEF r
    <3>2. r = s
      BY <2>2, <3>1, SeqEqual
    <3>. QED  BY <3>2 DEF r
  <2>6. SubSeq(s, 1, Len(s)) = s
    BY <2>2
  <2>7. IsPrefix(s, t)
    BY <2>4, <2>5, <2>6 DEF IsPrefix
  <2>. QED  BY <2>7 DEF s, t
<1>. QED  BY <1>1, ParamsInit, ParamsNext, PTL DEF Spec
=============================================================================
