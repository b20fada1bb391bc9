-------------------------- MODULE MessageTextProofs --------------------------
(***************************************************************************)
(* Lemmas about the text of a message: the container its headers come from *)
(* and go to, what is written around a payload, and how a text is read     *)
(* that grows by a character at a time.                                    *)
(***************************************************************************)
EXTENDS Envelope, MessageText, StringUtilsProofs

-----------------------------------------------------------------------------
(* The order of the header container, what add() returns, and what is then *)
(* looked up, for every container that add() can build.                    *)

(* add() returns the entries it was given, and the new one among them.     *)
LEMMA AddProperties ==
  ASSUME NEW hs \in Seq(Header), NEW name \in String, NEW v \in String
  PROVE  /\ add(hs, name, v) \in Seq(Header)
         /\ Len(add(hs, name, v)) = Len(hs) + 1
         /\ Range(add(hs, name, v)) = Range(hs) \cup {[name |-> name, value |-> v]}
<1>. DEFINE before == {i \in 1 .. Len(hs) : ~Less(name, hs[i].name)}
            n      == Cardinality(before)
            h      == [name |-> name, value |-> v]
            front  == SubSeq(hs, 1, n)
            back   == SubSeq(hs, n + 1, Len(hs))
<1>1. n \in 0 .. Len(hs)
  <2>1. IsFiniteSet(1 .. Len(hs)) /\ Cardinality(1 .. Len(hs)) = Len(hs)
    BY FS_Interval, Len(hs) \in Nat
  <2>2. before \in SUBSET (1 .. Len(hs))
    OBVIOUS
  <2>3. IsFiniteSet(before) /\ Cardinality(before) <= Len(hs)
    BY <2>1, <2>2, FS_Subset
  <2>. QED  BY <2>3, FS_CardinalityType
<1>2. h \in Header
  BY DEF Header
<1>. HIDE DEF n, h
<1>3. front \in Seq(Header) /\ back \in Seq(Header)
  BY <1>1
<1>4. Len(front) = n /\ Len(back) = Len(hs) - n
  BY <1>1
<1>5. add(hs, name, v) = front \o <<h>> \o back
  <2>1. add(hs, name, v) = SubSeq(hs, 1, (n + 1) - 1) \o <<h>> \o SubSeq(hs, n + 1, Len(hs))
    BY DEF add, InsertAt, n, h
  <2>2. (n + 1) - 1 = n
    BY <1>1
  <2>. QED  BY <2>1, <2>2
<1>6. front \o back = hs
  <2>1. 1 \in 1 .. Len(hs) + 1 /\ n \in 1 - 1 .. Len(hs) /\ Len(hs) \in n .. Len(hs)
    BY <1>1
  <2>2. front \o back = SubSeq(hs, 1, Len(hs))
    BY <2>1, ConcatAdjacentSubSeq, Zenon
  <2>. QED  BY <2>2, SubSeqFull, Zenon
<1>7. <<h>> \in Seq(Header) /\ Range(<<h>>) = {h}
  BY <1>2 DEF Range
<1>. HIDE DEF front, back
<1>8. Range(front) \cup Range(back) = Range(hs)
  BY <1>3, <1>6, RangeConcatenation, ZenonT(60)
<1>9. Range(front \o <<h>> \o back) = Range(front) \cup {h} \cup Range(back)
  <2>1. front \o <<h>> \in Seq(Header)
    BY <1>3, <1>7, ConcatProperties, Zenon
  <2>2. Range(front \o <<h>>) = Range(front) \cup Range(<<h>>)
    BY <1>3, <1>7, RangeConcatenation, ZenonT(60)
  <2>3. Range((front \o <<h>>) \o back) = Range(front \o <<h>>) \cup Range(back)
    BY <1>3, <2>1, RangeConcatenation, ZenonT(60)
  <2>. QED  BY <1>7, <2>2, <2>3
<1>10. front \o <<h>> \o back \in Seq(Header) /\ Len(front \o <<h>> \o back) = Len(hs) + 1
  BY <1>1, <1>3, <1>4, <1>7
<1>. QED  BY <1>5, <1>8, <1>9, <1>10 DEF h

-----------------------------------------------------------------------------
(* The comparator.  strcasecmp() compares what FoldCase makes of two names, *)
(* by the first place where they differ; so names are equivalent when it   *)
(* makes the same of them, and the others are in order.                    *)

LEMMA LessIsBefore ==
  ASSUME NEW lhs, NEW rhs
  PROVE  Less(lhs, rhs) <=> Before(FoldCase(lhs), FoldCase(rhs))
BY DEF Less, Before

LEMMA FoldCaseType == ASSUME NEW str \in String PROVE FoldCase(str) \in Seq(Int)
<1>1. CStr(str) \in String
  <2>. DEFINE S == {i \in 1 .. Len(str) : str[i] = NUL}
              k == Min(S)
  <2>1. CASE NUL \in Range(str)
    <3>1. S # {} /\ Len(str) \in Nat
      BY <2>1 DEF Range, String
    <3>2. k \in S
      BY <3>1, SmallestAndLargest
    <3>3. k \in 1 .. Len(str)
      BY <3>2
    <3>4. SelectInSeq(str, LAMBDA ch : ch = NUL) = k
      BY <3>1 DEF SelectInSeq
    <3>. HIDE DEF k
    <3>5. SubSeq(str, 1, k - 1) \in Seq(Char)
      BY <3>3 DEF String
    <3>. QED  BY <2>1, <3>4, <3>5 DEF CStr, String
  <2>. QED  BY <2>1 DEF CStr
<1>2. \A ch \in Char : ToLower(ch) \in Int
  BY DEF Char, ToLower
<1>. QED  BY <1>1, <1>2 DEF FoldCase, String

(* A strict weak order: Less is asymmetric, and what it does not order one *)
(* way or the other it does not tell apart from any third name either.     *)
LEMMA LessAsymmetric ==
  ASSUME NEW x \in String, NEW y \in String, Less(x, y)
  PROVE  ~Less(y, x)
BY LessIsBefore, FoldCaseType, BeforeTransitive, BeforeIrreflexive, Zenon

LEMMA LessTransitive ==
  ASSUME NEW x \in String, NEW y \in String, NEW z \in String, Less(x, y), ~Less(z, y)
  PROVE  Less(x, z)
<1>1. Before(FoldCase(x), FoldCase(y)) /\ ~Before(FoldCase(z), FoldCase(y))
  BY LessIsBefore
<1>2. CASE FoldCase(z) = FoldCase(y)
  BY <1>1, <1>2, LessIsBefore
<1>3. CASE FoldCase(z) # FoldCase(y)
  <2>1. Before(FoldCase(y), FoldCase(z))
    BY <1>1, <1>3, FoldCaseType, BeforeTotal, Zenon
  <2>2. Before(FoldCase(x), FoldCase(z))
    BY <1>1, <2>1, FoldCaseType, BeforeTransitive, Zenon
  <2>. QED  BY <2>2, LessIsBefore
<1>. QED  BY <1>2, <1>3

-----------------------------------------------------------------------------
(* The container is in order: iteration never goes back to a lesser name.  *)

LEMMA HeaderNames ==
  ASSUME NEW hs \in Seq(Header)
  PROVE  Len(hs) \in Nat /\ \A i \in 1 .. Len(hs) : hs[i].name \in String
<1>1. \A i \in 1 .. Len(hs) : hs[i] \in Header
  OBVIOUS
<1>2. \A h \in Header : h.name \in String
  BY DEF Header
<1>. QED  BY <1>1, <1>2

(* Where add() puts the new entry: behind every entry that is not greater, *)
(* in front of every greater one.                                          *)
PutAt(n, hs, name, v, r) ==
  /\ \A i \in 1 .. Len(hs) : i <= n <=> ~Less(name, hs[i].name)
  /\ Len(r) = Len(hs) + 1
  /\ \A i \in 1 .. Len(hs) + 1 :
       r[i] = IF i <= n THEN hs[i]
              ELSE IF i = n + 1 THEN [name |-> name, value |-> v]
              ELSE hs[i - 1]

LEMMA AddPlace ==
  ASSUME NEW hs \in Seq(Header), InOrder(hs), NEW name \in String, NEW v \in String
  PROVE  \E n \in 0 .. Len(hs) : PutAt(n, hs, name, v, add(hs, name, v))
<1>. DEFINE before == {i \in 1 .. Len(hs) : ~Less(name, hs[i].name)}
            n      == Cardinality(before)
            h      == [name |-> name, value |-> v]
<1>0. Len(hs) \in Nat /\ \A i \in 1 .. Len(hs) : hs[i].name \in String
  BY HeaderNames
<1>1. n \in 0 .. Len(hs) /\ before = 1 .. n
  <2>1. ASSUME NEW i \in before, NEW j \in 1 .. i PROVE j \in before
    <3>1. i \in 1 .. Len(hs) /\ j \in 1 .. Len(hs) /\ (j = i \/ j < i) /\ ~Less(name, hs[i].name)
      BY <1>0, <2>1
    <3>2. CASE j < i
      <4>1. ~Less(hs[i].name, hs[j].name)
        BY <3>1, <3>2 DEF InOrder
      <4>2. ~Less(name, hs[j].name)
        BY <1>0, <3>1, <4>1, LessTransitive, Zenon
      <4>. QED  BY <3>1, <4>2
    <3>. QED  BY <3>1, <3>2
  <2>2. before \in SUBSET (1 .. Len(hs))
    OBVIOUS
  <2>. HIDE DEF before
  <2>. QED  BY <1>0, <2>1, <2>2, PrefixSet
<1>2. \A i \in 1 .. Len(hs) : i <= n <=> ~Less(name, hs[i].name)
  <2>. TAKE i \in 1 .. Len(hs)
  <2>1. i <= n <=> i \in before
    <3>. HIDE DEF before
    <3>. QED  BY <1>0, <1>1
  <2>. QED  BY <2>1
<1>3. add(hs, name, v) = InsertAt(hs, n + 1, h)
  BY DEF add
<1>4. h \in Header
  BY DEF Header
<1>. HIDE DEF n, h, before
<1>5. InsertedBehind(n, hs, h, add(hs, name, v))
  BY <1>1, <1>3, <1>4, InsertAtPlaces
<1>6. PutAt(n, hs, name, v, add(hs, name, v))
  BY <1>2, <1>5 DEF h, PutAt, InsertedBehind
<1>. QED  BY <1>1, <1>6

(* The container that add() returns is in order again.                     *)
LEMMA AddKeepsOrder ==
  ASSUME NEW hs \in Seq(Header), InOrder(hs), NEW name \in String, NEW v \in String
  PROVE  InOrder(add(hs, name, v))
<1>. DEFINE r == add(hs, name, v)
<1>0. PICK n \in 0 .. Len(hs) : PutAt(n, hs, name, v, r)
  BY AddPlace, Zenon
<1>1. /\ \A i \in 1 .. Len(hs) : i <= n <=> ~Less(name, hs[i].name)
      /\ Len(r) = Len(hs) + 1
      /\ \A i \in 1 .. Len(hs) + 1 :
           r[i] = IF i <= n THEN hs[i]
                  ELSE IF i = n + 1 THEN [name |-> name, value |-> v]
                  ELSE hs[i - 1]
  BY <1>0 DEF PutAt
<1>. HIDE DEF r
<1>2. Len(hs) \in Nat /\ \A i \in 1 .. Len(hs) : hs[i].name \in String
  BY HeaderNames
<1>3. \A i \in 1 .. Len(hs) + 1 :
        r[i].name = IF i <= n THEN hs[i].name ELSE IF i = n + 1 THEN name ELSE hs[i - 1].name
  BY <1>1
<1>4. ASSUME NEW i \in 1 .. Len(hs) + 1, NEW j \in 1 .. Len(hs) + 1, i < j
      PROVE  ~Less(r[j].name, r[i].name)
  <2>1. CASE j <= n
    <3>1. r[i].name = hs[i].name /\ r[j].name = hs[j].name /\ i \in 1 .. Len(hs) /\ j \in 1 .. Len(hs)
      BY <1>2, <1>3, <1>4, <2>1
    <3>. QED  BY <1>4, <3>1 DEF InOrder
  <2>2. CASE j = n + 1
    <3>1. r[i].name = hs[i].name /\ r[j].name = name /\ i \in 1 .. Len(hs) /\ i <= n
      BY <1>2, <1>3, <1>4, <2>2
    <3>. QED  BY <1>1, <3>1
  <2>3. CASE j > n + 1 /\ i <= n
    <3>1. r[i].name = hs[i].name /\ r[j].name = hs[j - 1].name
      BY <1>2, <1>3, <2>3
    <3>2. i \in 1 .. Len(hs) /\ j - 1 \in 1 .. Len(hs) /\ i < j - 1
      BY <1>2, <2>3
    <3>. QED  BY <3>1, <3>2 DEF InOrder
  <2>4. CASE j > n + 1 /\ i = n + 1
    <3>1. r[i].name = name /\ r[j].name = hs[j - 1].name
      BY <1>2, <1>3, <2>4
    <3>2. j - 1 \in 1 .. Len(hs) /\ ~(j - 1 <= n)
      BY <1>2, <2>4
    <3>3. Less(name, hs[j - 1].name)
      BY <1>1, <3>2
    <3>. QED  BY <1>2, <3>1, <3>2, <3>3, LessAsymmetric
  <2>5. CASE i > n + 1
    <3>1. r[i].name = hs[i - 1].name /\ r[j].name = hs[j - 1].name
      BY <1>2, <1>3, <1>4, <2>5
    <3>2. i - 1 \in 1 .. Len(hs) /\ j - 1 \in 1 .. Len(hs) /\ i - 1 < j - 1
      BY <1>2, <1>4, <2>5
    <3>. QED  BY <3>1, <3>2 DEF InOrder
  <2>. QED  BY <1>4, <2>1, <2>2, <2>3, <2>4, <2>5
<1>. QED  BY <1>1, <1>4 DEF InOrder, r

-----------------------------------------------------------------------------
(* Looking up.                                                             *)

LEMMA NothingInEmpty ==
  ASSUME NEW name, NEW v
  PROVE  ~have(<< >>, name) /\ ~haveValue(<< >>, name, v)
BY DEF have, haveValue, equal_range

LEMMA EqualRangeType ==
  ASSUME NEW hs \in Seq(Header), NEW name
  PROVE  /\ Len(hs) \in Nat
         /\ equal_range(hs, name) \subseteq 1 .. Len(hs)
         /\ have(hs, name) => Min(equal_range(hs, name)) \in equal_range(hs, name)
BY SmallestAndLargest, Len(hs) \in Nat DEF equal_range, have

LEMMA ValueType ==
  ASSUME NEW hs \in Seq(Header), NEW name
  PROVE  value(hs, name) \in String
<1>1. CASE have(hs, name)
  <2>1. hs[Min(equal_range(hs, name))] \in Header
    BY <1>1, EqualRangeType
  <2>. QED  BY <1>1, <2>1 DEF value, Header
<1>. QED  BY <1>1 DEF value, String

(* A pair of name and value that was there is still there.                 *)
LEMMA AddKeepsPairs ==
  ASSUME NEW hs \in Seq(Header), NEW name \in String, NEW v \in String,
         NEW x, NEW y, haveValue(hs, x, y)
  PROVE  haveValue(add(hs, name, v), x, y)
<1>. DEFINE r == add(hs, name, v)
<1>1. PICK i \in 1 .. Len(hs) :
        ~Less(hs[i].name, x) /\ ~Less(x, hs[i].name) /\ hs[i].value = y
  BY DEF haveValue, equal_range
<1>2. hs[i] \in Range(r)
  <2>1. hs[i] \in Range(hs)
    BY DEF Range
  <2>. QED  BY <2>1, AddProperties
<1>3. r \in Seq(Header)
  BY AddProperties
<1>. HIDE DEF r
<1>4. PICK j \in 1 .. Len(r) : r[j] = hs[i]
  BY <1>2, <1>3 DEF Range
<1>. QED  BY <1>1, <1>4 DEF haveValue, equal_range, r

(* A name that could be looked up keeps its value: the new entry, when it  *)
(* has that name, is put behind the entries that have it.                  *)
LEMMA AddKeepsValue ==
  ASSUME NEW hs \in Seq(Header), InOrder(hs), NEW name \in String, NEW v \in String,
         NEW x \in String, have(hs, x)
  PROVE  value(add(hs, name, v), x) = value(hs, x)
<1>. DEFINE r == add(hs, name, v)
<1>0. PICK n \in 0 .. Len(hs) : PutAt(n, hs, name, v, r)
  BY AddPlace, Zenon
<1>1. /\ \A i \in 1 .. Len(hs) : i <= n <=> ~Less(name, hs[i].name)
      /\ Len(r) = Len(hs) + 1
      /\ \A i \in 1 .. Len(hs) + 1 :
           r[i] = IF i <= n THEN hs[i]
                  ELSE IF i = n + 1 THEN [name |-> name, value |-> v]
                  ELSE hs[i - 1]
  BY <1>0 DEF PutAt
<1>. HIDE DEF r
<1>. DEFINE m == Min(equal_range(hs, x))
            Match(h) == ~Less(h.name, x) /\ ~Less(x, h.name)
<1>2. Len(hs) \in Nat /\ \A i \in 1 .. Len(hs) : hs[i].name \in String
  BY HeaderNames
<1>3. m \in 1 .. Len(hs) /\ Match(hs[m]) /\ \A i \in 1 .. m - 1 : ~Match(hs[i])
  <2>1. m \in equal_range(hs, x) /\ \A i \in equal_range(hs, x) : m <= i
    BY <1>2, EqualRangeType, SmallestAndLargest DEF have
  <2>2. \A i \in 1 .. Len(hs) : Match(hs[i]) <=> i \in equal_range(hs, x)
    BY DEF equal_range
  <2>3. m \in 1 .. Len(hs)
    BY <2>1 DEF equal_range
  <2>. HIDE DEF m, Match
  <2>4. \A i \in 1 .. m - 1 : i \in 1 .. Len(hs) /\ ~(m <= i)
    BY <1>2, <2>3
  <2>. QED  BY <2>1, <2>2, <2>3, <2>4
<1>4. value(hs, x) = hs[m].value
  BY DEF value
<1>. HIDE DEF m
<1>. DEFINE k == IF m <= n THEN m ELSE m + 1
<1>5. k \in 1 .. Len(r) /\ r[k] = hs[m]
  <2>1. CASE m <= n
    BY <1>1, <1>2, <1>3, <2>1
  <2>2. CASE ~(m <= n)
    <3>1. /\ m + 1 \in 1 .. Len(hs) + 1 /\ ~(m + 1 <= n) /\ m + 1 # n + 1
          /\ (m + 1) - 1 = m
      BY <1>2, <1>3, <2>2
    <3>. QED  BY <1>1, <2>2, <3>1
  <2>. QED  BY <2>1, <2>2
<1>6. ASSUME NEW i \in 1 .. Len(r), i < k
      PROVE  ~Match(r[i])
  <2>0. i \in 1 .. Len(hs) + 1
    BY <1>1
  <2>1. CASE i <= n
    <3>1. r[i] = hs[i] /\ i \in 1 .. m - 1
      BY <1>1, <1>2, <1>3, <1>6, <2>0, <2>1
    <3>. QED  BY <1>3, <3>1
  <2>2. CASE i = n + 1
    <3>1. ~(m <= n) /\ Less(name, hs[m].name)
      BY <1>1, <1>2, <1>3, <1>6, <2>2
    <3>2. Less(name, x)
      BY <1>2, <1>3, <3>1, LessTransitive
    <3>3. r[i].name = name
      BY <1>1, <2>0, <2>2
    <3>. QED  BY <3>2, <3>3
  <2>3. CASE i > n + 1
    <3>1. r[i] = hs[i - 1] /\ i - 1 \in 1 .. m - 1
      BY <1>1, <1>2, <1>3, <1>6, <2>0, <2>3
    <3>. QED  BY <1>3, <3>1
  <2>. QED  BY <1>1, <2>0, <2>1, <2>2, <2>3
<1>7. Match(r[k])
  BY <1>3, <1>5
<1>. HIDE DEF k
<1>8. k \in equal_range(r, x) /\ \A i \in equal_range(r, x) : k <= i
  <2>1. k \in equal_range(r, x)
    BY <1>5, <1>7 DEF equal_range
  <2>2. ASSUME NEW i \in equal_range(r, x) PROVE k <= i
    <3>1. i \in 1 .. Len(r) /\ Match(r[i])
      BY <2>2 DEF equal_range
    <3>2. ~(i < k)
      BY <1>6, <3>1
    <3>. QED  BY <1>5, <3>1, <3>2
  <2>. QED  BY <2>1, <2>2
<1>9. Min(equal_range(r, x)) = k
  <2>1. equal_range(r, x) \subseteq Int
    BY DEF equal_range
  <2>. QED  BY <1>8, <2>1, LeastIsMin
<1>10. value(r, x) = r[k].value
  BY <1>8, <1>9 DEF value, have
<1>. QED  BY <1>4, <1>5, <1>10 DEF r
Base == {10, 16}

-----------------------------------------------------------------------------
(* Numbers.                                                                *)

LEMMA Division ==
  ASSUME NEW k \in Nat, NEW base \in Base
  PROVE  /\ k \div base \in 0 .. k /\ k % base \in 0 .. base - 1
         /\ k = ((k \div base) * base) + (k % base)
         /\ k >= base => k \div base < k
<1>1. CASE base = 10
  BY <1>1
<1>2. CASE base = 16
  BY <1>2
<1>. QED  BY <1>1, <1>2 DEF Base

LEMMA DigitProperties ==
  ASSUME NEW base \in Base, NEW d \in 0 .. base - 1
  PROVE  /\ Digit(d) \in Char /\ IsDigitOf(Digit(d), base = 16) /\ Digit(d) # Plus
         /\ hexValue(Digit(d)) = d
<1>1. base \in {10, 16} /\ d \in 0 .. 15 /\ (base = 10 => d < 10)
  BY DEF Base
<1>2. CASE d < 10
  <2>1. Digit(d) = 48 + d /\ 48 + d \in 48 .. 57
    BY <1>1, <1>2 DEF Digit
  <2>. QED  BY <1>1, <2>1 DEF Char, IsDigitOf, isDigit, isHexDigit, Plus, hexValue
<1>3. CASE d >= 10
  <2>1. Digit(d) = 97 + d - 10 /\ 97 + d - 10 \in 97 .. 102 /\ base = 16
    BY <1>1, <1>3 DEF Digit
  <2>. QED  BY <1>1, <2>1 DEF Char, IsDigitOf, isDigit, isHexDigit, Plus, hexValue
<1>. QED  BY <1>1, <1>2, <1>3

\* f holds the texts of the numbers up to n.
Writes(f, base, n) ==
  \A k \in 0 .. n :
    f[k] = IF k < base THEN <<Digit(k)>> ELSE Append(f[k \div base], Digit(k % base))

LEMMA WritesExists ==
  ASSUME NEW base \in Base, NEW n \in Nat
  PROVE  \E f : f = [k \in 0 .. n |-> f[k]] /\ Writes(f, base, n)
<1>. DEFINE S == {k \in Nat : \E f : f = [i \in 0 .. k |-> f[i]] /\ Writes(f, base, k)}
            Text(f, k) == IF k < base THEN <<Digit(k)>>
                          ELSE Append(f[k \div base], Digit(k % base))
<1>1. 0 \in S
  <2>. DEFINE f == [i \in 0 .. 0 |-> <<Digit(0)>>]
  <2>1. Writes(f, base, 0)
    BY DEF Writes, Base
  <2>2. f = [i \in 0 .. 0 |-> f[i]]
    OBVIOUS
  <2>. QED  BY <2>1, <2>2
<1>2. ASSUME NEW k \in Nat, k \in S PROVE k + 1 \in S
  <2>1. PICK f : f = [i \in 0 .. k |-> f[i]] /\ Writes(f, base, k)
    BY <1>2
  <2>. DEFINE g == [i \in 0 .. k + 1 |-> IF i = k + 1 THEN Text(f, k + 1) ELSE f[i]]
  <2>2. \A i \in 0 .. k : f[i] = Text(f, i)
    BY <2>1 DEF Writes
  <2>3. ASSUME NEW i \in 0 .. k + 1 PROVE Text(g, i) = Text(f, i)
    <3>1. i >= base => i \div base \in 0 .. k
      BY Division
    <3>2. i >= base => g[i \div base] = f[i \div base]
      <4>. DEFINE m == i \div base
      <4>. HIDE DEF m, Text
      <4>1. m \in 0 .. k => g[m] = f[m]
        OBVIOUS
      <4>. QED  BY <3>1, <4>1 DEF m
    <3>. HIDE DEF g
    <3>. QED  BY <3>2 DEF Base
  <2>4. \A i \in 0 .. k + 1 : g[i] = Text(g, i)
    <3>1. \A i \in 0 .. k + 1 : g[i] = IF i = k + 1 THEN Text(f, k + 1) ELSE f[i]
      OBVIOUS
    <3>. HIDE DEF g, Text
    <3>. QED  BY <2>2, <2>3, <3>1
  <2>5. g = [i \in 0 .. k + 1 |-> g[i]]
    OBVIOUS
  <2>6. Writes(g, base, k + 1)
    <3>. HIDE DEF g
    <3>. QED  BY <2>4, Zenon DEF Writes
  <2>. QED  BY <2>5, <2>6
<1>3. n \in S
  <2>. HIDE DEF S
  <2>. QED  BY <1>1, <1>2, NatSetInduction
<1>. QED  BY <1>3

LEMMA WritesAgree ==
  ASSUME NEW base \in Base, NEW n \in Nat,
         NEW f, Writes(f, base, n), NEW g, Writes(g, base, n)
  PROVE  f[n] = g[n]
<1>. DEFINE S == {k \in Nat : \A i \in 0 .. k : i <= n => f[i] = g[i]}
<1>1. 0 \in S
  <2>1. 0 \in 0 .. n /\ 0 < base
    BY DEF Base
  <2>2. f[0] = <<Digit(0)>> /\ g[0] = <<Digit(0)>>
    BY <2>1 DEF Writes
  <2>. QED  BY <2>2
<1>2. ASSUME NEW k \in Nat, k \in S PROVE k + 1 \in S
  <2>1. ASSUME k + 1 <= n PROVE f[k + 1] = g[k + 1]
    <3>. DEFINE m == (k + 1) \div base
    <3>1. k + 1 >= base => m \in 0 .. k
      BY Division
    <3>. HIDE DEF m
    <3>2. k + 1 >= base => f[m] = g[m]
      BY <1>2, <2>1, <3>1
    <3>3. k + 1 \in 0 .. n
      BY <2>1
    <3>4. /\ f[k + 1] = IF k + 1 < base THEN <<Digit(k + 1)>> ELSE Append(f[m], Digit((k + 1) % base))
          /\ g[k + 1] = IF k + 1 < base THEN <<Digit(k + 1)>> ELSE Append(g[m], Digit((k + 1) % base))
      BY <3>3, Zenon DEF Writes, m
    <3>. QED  BY <3>2, <3>4 DEF Base
  <2>. QED  BY <1>2, <2>1
<1>3. n \in S
  <2>. HIDE DEF S
  <2>. QED  BY <1>1, <1>2, NatSetInduction
<1>. QED  BY <1>3

LEMMA NumberTextWrites ==
  ASSUME NEW base \in Base, NEW n \in Nat
  PROVE  \E f : Writes(f, base, n) /\ NumberText(n, base) = f[n]
<1>. DEFINE Text(f, k) == IF k < base THEN <<Digit(k)>>
                          ELSE Append(f[k \div base], Digit(k % base))
            F(f) == f = [k \in 0 .. n |-> Text(f, k)]
            f == CHOOSE f : F(f)
<1>1. \E g : F(g)
  <2>1. PICK g : g = [k \in 0 .. n |-> g[k]] /\ Writes(g, base, n)
    BY WritesExists
  <2>2. \A k \in 0 .. n : g[k] = Text(g, k)
    BY <2>1, Zenon DEF Writes
  <2>. HIDE DEF Text
  <2>. QED  BY <2>1, <2>2
<1>2. F(f)
  BY <1>1
<1>3. NumberText(n, base) = f[n]
  BY DEF NumberText
<1>. HIDE DEF f
<1>4. Writes(f, base, n)
  <2>1. \A k \in 0 .. n : f[k] = Text(f, k)
    <3>. HIDE DEF Text
    <3>. QED  BY <1>2
  <2>. QED  BY <2>1, Zenon DEF Writes
<1>. QED  BY <1>3, <1>4

LEMMA NumberTextStep ==
  ASSUME NEW base \in Base, NEW n \in Nat
  PROVE  NumberText(n, base) = IF n < base THEN <<Digit(n)>>
                               ELSE Append(NumberText(n \div base, base), Digit(n % base))
<1>1. PICK f : Writes(f, base, n) /\ NumberText(n, base) = f[n]
  BY NumberTextWrites
<1>. DEFINE m == n \div base
<1>2. m \in 0 .. n
  BY Division
<1>3. n \in 0 .. n
  OBVIOUS
<1>4. f[n] = IF n < base THEN <<Digit(n)>> ELSE Append(f[m], Digit(n % base))
  BY <1>1, <1>3, Zenon DEF Writes
<1>. HIDE DEF m
<1>5. m \in Nat /\ Writes(f, base, m)
  BY <1>1, <1>2 DEF Writes
<1>6. PICK g : Writes(g, base, m) /\ NumberText(m, base) = g[m]
  BY <1>5, NumberTextWrites
<1>7. f[m] = g[m]
  BY <1>5, <1>6, WritesAgree
<1>. QED  BY <1>1, <1>4, <1>6, <1>7 DEF m
\* The text of n is a number that a parser reads as n.
IsNumber(text, n, base) ==
  /\ text \in String /\ text # << >>
  /\ \A i \in 1 .. Len(text) : IsDigitOf(text[i], base = 16) /\ text[i] # Plus
  /\ n \in UInt => NumberOf(text, base) = n

LEMMA OneDigit ==
  ASSUME NEW base \in Base, NEW n \in 0 .. base - 1
  PROVE  IsNumber(<<Digit(n)>>, n, base)
<1>. DEFINE text == Append(<< >>, Digit(n))
<1>1. /\ Digit(n) \in Char /\ IsDigitOf(Digit(n), base = 16) /\ Digit(n) # Plus
      /\ hexValue(Digit(n)) = n
  BY DigitProperties
<1>2. text = <<Digit(n)>> /\ text \in String /\ << >> \in String
  BY <1>1 DEF String
<1>3. NumberOf(text, base) = Accumulate(0, n, base)
  <2>1. NumberOf(text, base) = Accumulate(NumberOf(<< >>, base), hexValue(Digit(n)), base)
    BY <1>1, <1>2, NumberOfAppend, Zenon
  <2>. QED  BY <1>1, <2>1, NumberOfNothing
<1>4. n \in UInt => Accumulate(0, n, base) = n
  <2>1. n \in Nat /\ base \in Nat
    BY DEF Base
  <2>2. 0 * base + n = n
    BY <2>1
  <2>3. n \in UInt => n % UIntSize = n
    BY <2>1, UIntSizeAssumption DEF UInt
  <2>. QED  BY <2>1, <2>2, <2>3 DEF Accumulate, NotANumber
<1>5. Len(<<Digit(n)>>) = 1 /\ <<Digit(n)>>[1] = Digit(n) /\ <<Digit(n)>> # << >>
  OBVIOUS
<1>. QED  BY <1>1, <1>2, <1>3, <1>4, <1>5 DEF IsNumber

LEMMA OneDigitMore ==
  ASSUME NEW base \in Base, NEW n \in Nat, NEW text, IsNumber(text, n \div base, base)
  PROVE  IsNumber(Append(text, Digit(n % base)), n, base)
<1>. DEFINE m == n \div base
            d == n % base
            more == Append(text, Digit(d))
<1>1. m \in 0 .. n /\ d \in 0 .. base - 1 /\ n = m * base + d
  BY Division
<1>2. base \in Nat /\ base > 0
  BY DEF Base
<1>. HIDE DEF m, d
<1>3. /\ Digit(d) \in Char /\ IsDigitOf(Digit(d), base = 16) /\ Digit(d) # Plus
      /\ hexValue(Digit(d)) = d
  BY <1>1, DigitProperties
<1>4. /\ text \in String /\ text # << >>
      /\ \A i \in 1 .. Len(text) : IsDigitOf(text[i], base = 16) /\ text[i] # Plus
      /\ m \in UInt => NumberOf(text, base) = m
  BY DEF IsNumber, m
<1>5. /\ more \in String /\ more # << >> /\ Len(more) = Len(text) + 1 /\ Len(text) \in Nat
      /\ \A i \in 1 .. Len(text) : more[i] = text[i]
      /\ more[Len(text) + 1] = Digit(d)
  BY <1>3, <1>4 DEF String
<1>6. ASSUME n \in UInt PROVE NumberOf(more, base) = n
  <2>1. m \in UInt
    BY <1>1, <1>6, UIntSizeAssumption DEF UInt
  <2>2. NumberOf(more, base) = Accumulate(m, d, base)
    BY <1>3, <1>4, <2>1, NumberOfAppend
  <2>3. n % UIntSize = n
    BY <1>6, UIntSizeAssumption DEF UInt
  <2>4. m # NotANumber /\ ~(n < m)
    BY <1>1 DEF NotANumber
  <2>5. Accumulate(m, d, base) = n
    <3>1. (m * base + d) % UIntSize = n
      BY <1>1, <2>3
    <3>. QED  BY <2>4, <3>1, Zenon DEF Accumulate
  <2>. QED  BY <2>2, <2>5
<1>7. \A i \in 1 .. Len(more) : IsDigitOf(more[i], base = 16) /\ more[i] # Plus
  <2>. TAKE i \in 1 .. Len(more)
  <2>1. i \in 1 .. Len(text) \/ i = Len(text) + 1
    BY <1>5
  <2>. QED  BY <1>3, <1>4, <1>5, <2>1
<1>8. IsNumber(more, n, base)
  <2>. HIDE DEF more
  <2>. QED  BY <1>5, <1>6, <1>7 DEF IsNumber
<1>. QED  BY <1>8 DEF d

LEMMA NumberTextProperties ==
  ASSUME NEW base \in Base, NEW n \in Nat
  PROVE  IsNumber(NumberText(n, base), n, base)
<1>. DEFINE S == {k \in Nat : \A i \in 0 .. k : IsNumber(NumberText(i, base), i, base)}
<1>1. ASSUME NEW k \in Nat, k < base PROVE IsNumber(NumberText(k, base), k, base)
  <2>1. k \in 0 .. base - 1
    BY <1>1 DEF Base
  <2>2. NumberText(k, base) = <<Digit(k)>>
    BY <1>1, NumberTextStep
  <2>. QED  BY <2>1, <2>2, OneDigit
<1>2. 0 \in S
  BY <1>1 DEF Base
<1>3. ASSUME NEW k \in Nat, k \in S PROVE k + 1 \in S
  <2>1. CASE k + 1 < base
    BY <1>1, <1>3, <2>1
  <2>2. CASE ~(k + 1 < base)
    <3>. DEFINE m == (k + 1) \div base
    <3>1. m \in 0 .. k
      BY <2>2, Division DEF Base
    <3>2. NumberText(k + 1, base) = Append(NumberText(m, base), Digit((k + 1) % base))
      BY <2>2, NumberTextStep
    <3>3. IsNumber(NumberText(m, base), m, base)
      <4>. HIDE DEF m
      <4>. QED  BY <1>3, <3>1
    <3>4. IsNumber(NumberText(k + 1, base), k + 1, base)
      <4>1. k + 1 \in Nat
        OBVIOUS
      <4>2. IsNumber(Append(NumberText(m, base), Digit((k + 1) % base)), k + 1, base)
        BY <3>3, <4>1, OneDigitMore, Zenon
      <4>. QED  BY <3>2, <4>2
    <3>. QED  BY <1>3, <3>4
  <2>. QED  BY <2>1, <2>2
<1>4. n \in S
  <2>. HIDE DEF S
  <2>. QED  BY <1>2, <1>3, NatSetInduction
<1>. QED  BY <1>4

(* The length that the composer writes is the one that toUnsignedInt()     *)
(* reads: in decimal behind Content-Length, in hex in front of a chunk.    *)
THEOREM LengthsReadBack ==
  ASSUME NEW n \in UInt
  PROVE  /\ toUnsignedInt(NumberText(n, 10), FALSE) = n
         /\ toUnsignedInt(NumberText(n, 16), TRUE) = n
<1>1. n \in Nat
  BY UIntSizeAssumption DEF UInt
<1>2. ASSUME NEW base \in Base PROVE toUnsignedInt(NumberText(n, base), base = 16) = n
  <2>. DEFINE text == NumberText(n, base)
  <2>1. IsNumber(text, n, base)
    BY <1>1, NumberTextProperties
  <2>. HIDE DEF text
  <2>2. /\ text \in String /\ text # << >> /\ Len(text) \in Nat \ {0} /\ NumberOf(text, base) = n
        /\ \A i \in 1 .. Len(text) : IsDigitOf(text[i], base = 16) /\ text[i] # Plus
    BY <2>1 DEF IsNumber, String
  <2>3. \A i \in 1 .. Len(text) : text[i] \notin Blank
    <3>. TAKE i \in 1 .. Len(text)
    <3>1. IsDigitOf(text[i], base = 16) /\ text[i] \in Char
      BY <2>2 DEF String
    <3>2. \A ch \in Char : IsDigitOf(ch, base = 16) => ch \notin Blank
      BY DEF IsDigitOf, isHexDigit, isDigit, Blank, SP, HT, CR, LF, Char
    <3>. QED  BY <3>1, <3>2, Zenon
  <2>4. trim(text) = text
    BY <2>2, <2>3, TrimNothing
  <2>5. Digits(text, base = 16) = text
    <3>1. Head(text) = text[1] /\ 1 \in 1 .. Len(text)
      BY <2>2 DEF String
    <3>. QED  BY <2>2, <3>1 DEF Digits
  <2>6. base = IF base = 16 THEN 16 ELSE 10
    BY DEF Base
  <2>. QED  BY <2>2, <2>4, <2>5, <2>6 DEF toUnsignedInt, text
<1>3. 10 \in Base /\ 16 \in Base /\ (10 = 16) = FALSE /\ (16 = 16) = TRUE
  BY DEF Base
<1>4. toUnsignedInt(NumberText(n, 10), 10 = 16) = n /\ toUnsignedInt(NumberText(n, 16), 16 = 16) = n
  BY <1>2, <1>3, Zenon
<1>. QED  BY <1>3, <1>4
-----------------------------------------------------------------------------
(* Header containers.                                                      *)

(* erase() returns what is left of the entries it was given.               *)
Erases(f, hs, name) ==
  /\ f[0] = << >>
  /\ \A n \in 1 .. Len(hs) :
       f[n] = IF n \in equal_range(hs, name) THEN f[n - 1] ELSE Append(f[n - 1], hs[n])

LEMMA EraseReads ==
  ASSUME NEW hs \in Seq(Header), NEW name
  PROVE  \E f \in [0 .. Len(hs) -> Seq(Header)] :
           Erases(f, hs, name) /\ erase(hs, name) = f[Len(hs)]
<1>. DEFINE N == Len(hs)
            Kept(s, n) == IF n \in equal_range(hs, name) THEN s ELSE Append(s, hs[n])
            step == [n \in 1 .. N |-> [s \in Seq(Header) |-> Kept(s, n)]]
            F(g) == g = [n \in 0 .. N |->
                           IF n = 0 THEN << >>
                           ELSE IF n \in equal_range(hs, name) THEN g[n - 1]
                           ELSE Append(g[n - 1], hs[n])]
            kept == CHOOSE g : F(g)
<1>1. N \in Nat /\ << >> \in Seq(Header) /\ \A n \in 1 .. N : hs[n] \in Header
  OBVIOUS
<1>. HIDE DEF N
<1>2. step \in [1 .. N -> [Seq(Header) -> Seq(Header)]]
  <2>1. \A n \in 1 .. N : \A s \in Seq(Header) : Kept(s, n) \in Seq(Header)
    BY <1>1
  <2>. HIDE DEF Kept
  <2>. QED  BY <2>1
<1>3. PICK f \in [0 .. N -> Seq(Header)] : Iterates(f, N, << >>, step)
  <2>. HIDE DEF step
  <2>. QED  BY <1>1, <1>2, Iteration
<1>4. \A n \in 1 .. N : f[n] = Kept(f[n - 1], n)
  <2>. TAKE n \in 1 .. N
  <2>1. n - 1 \in 0 .. N
    BY <1>1
  <2>2. step[n] = [s \in Seq(Header) |-> Kept(s, n)] /\ f[n - 1] \in Seq(Header)
    BY <2>1
  <2>. HIDE DEF step, Kept
  <2>. QED  BY <1>3, <2>2 DEF Iterates
<1>5. F(f)
  <2>1. f = [n \in 0 .. N |-> f[n]] /\ f[0] = << >>
    BY <1>3 DEF Iterates
  <2>2. \A n \in 0 .. N : n = 0 \/ n \in 1 .. N
    BY <1>1
  <2>3. \A n \in 0 .. N :
          f[n] = IF n = 0 THEN << >> ELSE IF n \in equal_range(hs, name) THEN f[n - 1]
                 ELSE Append(f[n - 1], hs[n])
    BY <1>4, <2>1, <2>2
  <2>. QED  BY <2>1, <2>3
<1>6. F(kept)
  BY <1>5
<1>7. erase(hs, name) = kept[N]
  BY DEF erase, N
<1>8. TakesSteps(kept, N, Seq(Header), << >>, step)
  <2>1. \A n \in 0 .. N : kept[n] = IF n = 0 THEN << >> ELSE Kept(kept[n - 1], n)
    <3>. HIDE DEF kept
    <3>. QED  BY <1>6
  <2>2. \A n \in 1 .. N : \A s \in Seq(Header) : step[n][s] = Kept(s, n)
    <3>. HIDE DEF Kept
    <3>. QED  OBVIOUS
  <2>3. 0 \in 0 .. N /\ \A n \in 1 .. N : n \in 0 .. N /\ n # 0
    BY <1>1
  <2>. HIDE DEF kept, step, Kept
  <2>. QED  BY <2>1, <2>2, <2>3 DEF TakesSteps
<1>. HIDE DEF kept, step
<1>9. IteratesOn(f, N, Seq(Header), << >>, step)
  BY <1>1, <1>2, <1>3 DEF IteratesOn
<1>10. SameUpTo(N, kept, f)
  BY <1>8, <1>9, IterationIsUnique, Zenon
<1>11. kept[N] = f[N]
  BY <1>1, <1>10 DEF SameUpTo
<1>12. Erases(f, hs, name)
  BY <1>3, <1>4 DEF Erases, Iterates, N
<1>. QED  BY <1>7, <1>11, <1>12 DEF N

(* What is left is in order, is of the container, and is not of that name. *)
LEMMA EraseProperties ==
  ASSUME NEW hs \in Seq(Header), NEW name
  PROVE  /\ erase(hs, name) \in Seq(Header)
         /\ InOrder(hs) => InOrder(erase(hs, name))
         /\ \A i \in 1 .. Len(erase(hs, name)) :
              \E j \in 1 .. Len(hs) : j \notin equal_range(hs, name) /\ erase(hs, name)[i] = hs[j]
<1>. DEFINE N == Len(hs)
            E == equal_range(hs, name)
<1>1. PICK f \in [0 .. N -> Seq(Header)] : Erases(f, hs, name) /\ erase(hs, name) = f[N]
  BY EraseReads
<1>2. N \in Nat /\ \A n \in 1 .. N : hs[n] \in Header
  OBVIOUS
<1>3. f[0] = << >> /\ \A n \in 1 .. N : f[n] = IF n \in E THEN f[n - 1] ELSE Append(f[n - 1], hs[n])
  BY <1>1, Zenon DEF Erases
<1>. HIDE DEF N, E
<1>. DEFINE Left(k) == \A i \in 1 .. Len(f[k]) : \E j \in 1 .. k : j \notin E /\ f[k][i] = hs[j]
            S == {k \in Nat : k <= N => Left(k) /\ (InOrder(hs) => InOrder(f[k]))}
<1>4. 0 \in S
  <2>1. \A i \in 1 .. Len(f[0]) : FALSE
    BY <1>3
  <2>2. Left(0) /\ InOrder(f[0])
    BY <2>1 DEF InOrder
  <2>. QED  BY <2>2
<1>5. ASSUME NEW k \in Nat, k \in S PROVE k + 1 \in S
  <2>0. k + 1 \in Nat
    OBVIOUS
  <2>. SUFFICES ASSUME k + 1 <= N PROVE Left(k + 1) /\ (InOrder(hs) => InOrder(f[k + 1]))
    BY <2>0, Zenon
  <2>1. /\ k + 1 \in 1 .. N /\ (k + 1) - 1 = k /\ k \in 0 .. N
        /\ \A j \in 1 .. k : j \in 1 .. k + 1 /\ j < k + 1 /\ j \in 1 .. N
    BY <1>2
  <2>2. f[k] \in Seq(Header) /\ Left(k) /\ (InOrder(hs) => InOrder(f[k]))
    BY <1>1, <1>5, <2>1
  <2>3. CASE k + 1 \in E
    <3>1. f[k + 1] = f[k]
      BY <1>3, <2>1, <2>3
    <3>2. Left(k + 1)
      <4>. HIDE DEF InOrder
      <4>. QED  BY <2>1, <2>2, <3>1
    <3>. QED  BY <2>2, <3>1, <3>2
  <2>4. CASE k + 1 \notin E
    <3>1. f[k + 1] = Append(f[k], hs[k + 1])
      BY <1>3, <2>1, <2>4
    <3>. DEFINE a == f[k]
                b == f[k + 1]
    <3>2. /\ a \in Seq(Header) /\ Len(a) \in Nat /\ Len(b) = Len(a) + 1
          /\ \A i \in 1 .. Len(a) : b[i] = a[i]
          /\ b[Len(a) + 1] = hs[k + 1]
      BY <1>2, <2>1, <2>2, <3>1
    <3>3. \A i \in 1 .. Len(a) : \E j \in 1 .. k : j \notin E /\ a[i] = hs[j]
      BY <2>2
    <3>. HIDE DEF a, b
    <3>4. \A i \in 1 .. Len(b) : \E j \in 1 .. k + 1 : j \notin E /\ b[i] = hs[j]
      BY <2>1, <2>4, <3>2, <3>3
    <3>5. ASSUME InOrder(hs), InOrder(a) PROVE InOrder(b)
      <4>. SUFFICES ASSUME NEW i \in 1 .. Len(b), NEW j \in 1 .. Len(b), i < j
                    PROVE  ~Less(b[j].name, b[i].name)
        BY DEF InOrder
      <4>1. CASE j = Len(a) + 1
        <5>1. i \in 1 .. Len(a) /\ b[j] = hs[k + 1]
          BY <3>2, <4>1
        <5>2. PICK q \in 1 .. k : a[i] = hs[q]
          BY <3>3, <5>1
        <5>3. b[i] = hs[q] /\ q \in 1 .. Len(hs) /\ k + 1 \in 1 .. Len(hs) /\ q < k + 1
          BY <2>1, <3>2, <5>1, <5>2 DEF N
        <5>. QED  BY <3>5, <5>1, <5>3 DEF InOrder
      <4>2. CASE j # Len(a) + 1
        <5>1. i \in 1 .. Len(a) /\ j \in 1 .. Len(a) /\ b[i] = a[i] /\ b[j] = a[j]
          BY <3>2, <4>2
        <5>. QED  BY <3>5, <5>1 DEF InOrder
      <4>. QED  BY <4>1, <4>2
    <3>. QED  BY <2>2, <3>4, <3>5 DEF a, b
  <2>. QED  BY <2>3, <2>4
<1>6. N \in S
  <2>. HIDE DEF S
  <2>. QED  BY <1>2, <1>4, <1>5, NatSetInduction
<1>7. Left(N) /\ (InOrder(hs) => InOrder(f[N]))
  BY <1>2, <1>6
<1>8. f[N] \in Seq(Header)
  BY <1>1, <1>2
<1>. QED  BY <1>1, <1>7, <1>8 DEF N, E

LEMMA EraseType ==
  ASSUME NEW hs \in Seq(Header), NEW name
  PROVE  erase(hs, name) \in Seq(Header)
BY EraseProperties

LEMMA FramedType ==
  ASSUME NEW hs \in Seq(Header), NEW payloadLen \in Nat
  PROVE  /\ Unframed(hs) \in Seq(Header)
         /\ ChunkedHeaders(hs) \in Seq(Header)
         /\ IdentityHeaders(hs, payloadLen) \in Seq(Header)
<1>1. {TransferEncoding, ContentLength, Chunked} \subseteq String
  BY HeadersAssumption
<1>2. Unframed(hs) \in Seq(Header)
  BY EraseType DEF Unframed
<1>3. NumberText(payloadLen, 10) \in String
  BY NumberTextProperties DEF IsNumber, Base
<1>. QED  BY <1>1, <1>2, <1>3, AddProperties DEF ChunkedHeaders, IdentityHeaders

LEMMA ConcatType ==
  ASSUME NEW s \in Seq(Char), NEW t \in Seq(Char)
  PROVE  s \o t \in Seq(Char) /\ Len(s \o t) = Len(s) + Len(t) /\ Len(s) \in Nat
OBVIOUS

LEMMA Sums ==
  /\ \A a, b \in Nat : a + b + 4 \in Nat
  /\ \A a, b, c \in Nat : a + (b + c + 4) = a + b + c + 4
OBVIOUS

Line(h) == h.name \o <<Colon, SP>> \o h.value \o CRLF

LEMMA LineType ==
  ASSUME NEW h \in Header
  PROVE  Line(h) \in String /\ Len(Line(h)) = Len(h.name) + Len(h.value) + 4
<1>1. h.name \in Seq(Char) /\ h.value \in Seq(Char)
  BY DEF Header, String
<1>2. <<Colon, SP>> \in Seq(Char) /\ CRLF \in Seq(Char) /\ Len(<<Colon, SP>>) = 2 /\ Len(CRLF) = 2
  BY DEF CRLF, Colon, SP, CR, LF, Char
<1>. DEFINE a == h.name
            b == h.value
            c == <<Colon, SP>>
<1>. HIDE DEF a, b, c
<1>3. a \in Seq(Char) /\ b \in Seq(Char) /\ c \in Seq(Char) /\ Len(c) = 2
  BY <1>1, <1>2 DEF a, b, c
<1>4. a \o c \in Seq(Char) /\ Len(a \o c) = Len(a) + Len(c) /\ Len(a) \in Nat
  BY <1>3, ConcatType, Zenon
<1>5. (a \o c) \o b \in Seq(Char) /\ Len((a \o c) \o b) = Len(a \o c) + Len(b)
  BY <1>3, <1>4, ConcatType, Zenon
<1>6. /\ ((a \o c) \o b) \o CRLF \in Seq(Char)
      /\ Len(((a \o c) \o b) \o CRLF) = Len((a \o c) \o b) + Len(CRLF)
      /\ Len(b) \in Nat
  BY <1>2, <1>3, <1>5, ConcatType, Zenon
<1>7. Len(((a \o c) \o b) \o CRLF) = Len(a) + Len(b) + 4
  <2>. DEFINE x == Len(a)
              y == Len(b)
              z == Len(((a \o c) \o b) \o CRLF)
  <2>1. z = ((x + 2) + y) + 2
    BY <1>2, <1>3, <1>4, <1>5, <1>6, Zenon
  <2>2. x \in Nat /\ y \in Nat
    BY <1>4, <1>6
  <2>. HIDE DEF x, y, z
  <2>3. z = x + y + 4
    BY <2>1, <2>2
  <2>. QED  BY <2>3 DEF x, y, z
<1>. QED  BY <1>6, <1>7 DEF Line, a, b, c, String

(* composeHeader() writes a string as long as composedSize() says.         *)
LEMMA ComposeHeaderLength ==
  ASSUME NEW hs \in Seq(Header)
  PROVE  composeHeader(hs) \in String /\ Len(composeHeader(hs)) = composedSize(hs)
<1>. DEFINE N == Len(hs)
            lines == [i \in DOMAIN hs |-> Line(hs[i])]
            more == [n \in 1 .. N |-> Len(hs[n].name) + Len(hs[n].value) + 4]
            F(g) == g = [n \in 0 .. N |->
                      IF n = 0 THEN 0 ELSE g[n - 1] + Len(hs[n].name) + Len(hs[n].value) + 4]
            size == CHOOSE g : F(g)
<1>1. N \in Nat /\ DOMAIN hs = 1 .. N /\ \A n \in 1 .. N : hs[n] \in Header
  OBVIOUS
<1>2. /\ lines \in Seq(Seq(Char)) /\ Len(lines) = N
      /\ \A n \in 1 .. N : lines[n] = Line(hs[n]) /\ lines[n] \in Seq(Char)
  <2>1. \A n \in 1 .. N : Line(hs[n]) \in Seq(Char)
    BY <1>1, LineType DEF String
  <2>2. lines = [i \in 1 .. N |-> Line(hs[i])]
    BY <1>1
  <2>. HIDE DEF lines, N
  <2>. QED  BY <1>1, <2>1, <2>2
<1>3. composeHeader(hs) = FlattenSeq(lines)
  BY DEF composeHeader, Line
<1>4. \A n \in 1 .. N :
        /\ Len(lines[n]) = more[n] /\ more[n] \in Nat
        /\ Len(hs[n].name) \in Nat /\ Len(hs[n].value) \in Nat
        /\ more[n] = Len(hs[n].name) + Len(hs[n].value) + 4
  <2>. TAKE n \in 1 .. N
  <2>1. hs[n] \in Header
    BY <1>1
  <2>2. hs[n].name \in Seq(Char) /\ hs[n].value \in Seq(Char)
    BY <2>1 DEF Header, String
  <2>3. Len(hs[n].name) \in Nat /\ Len(hs[n].value) \in Nat
    BY <2>2
  <2>4. Len(Line(hs[n])) = Len(hs[n].name) + Len(hs[n].value) + 4
    BY <2>1, LineType
  <2>5. more[n] = Len(hs[n].name) + Len(hs[n].value) + 4
    OBVIOUS
  <2>6. lines[n] = Line(hs[n])
    BY <1>2
  <2>7. Len(hs[n].name) + Len(hs[n].value) + 4 \in Nat
    BY <2>3, Sums, Zenon
  <2>. HIDE DEF lines, more
  <2>. QED  BY <2>3, <2>4, <2>5, <2>6, <2>7, Zenon
<1>. HIDE DEF lines, N, more
<1>5. PICK f \in [0 .. N -> Seq(Char)] : Flattens(f, lines) /\ FlattenSeq(lines) = f[N]
  BY <1>2, FlattenReads
<1>6. f[0] = << >> /\ \A n \in 1 .. N : Len(f[n]) = Len(f[n - 1]) + more[n] /\ Len(f[n - 1]) \in Nat
  <2>1. f[0] = << >> /\ \A n \in 1 .. N : f[n] = f[n - 1] \o lines[n]
    BY <1>2, <1>5 DEF Flattens
  <2>2. ASSUME NEW n \in 1 .. N PROVE Len(f[n]) = Len(f[n - 1]) + more[n] /\ Len(f[n - 1]) \in Nat
    <3>1. n - 1 \in 0 .. N
      BY <1>1
    <3>2. f[n - 1] \in Seq(Char) /\ lines[n] \in Seq(Char)
      BY <1>2, <3>1
    <3>3. Len(f[n - 1] \o lines[n]) = Len(f[n - 1]) + Len(lines[n])
      BY <3>2, ConcatType, Zenon
    <3>4. Len(f[n - 1]) \in Nat
      BY <3>2
    <3>. QED  BY <1>4, <2>1, <3>3, <3>4, Zenon
  <2>. QED  BY <2>1, <2>2
<1>7. F([n \in 0 .. N |-> Len(f[n])])
  <2>. DEFINE g == [n \in 0 .. N |-> Len(f[n])]
  <2>1. ASSUME NEW n \in 0 .. N
        PROVE  g[n] = IF n = 0 THEN 0 ELSE g[n - 1] + Len(hs[n].name) + Len(hs[n].value) + 4
    <3>1. n = 0 \/ (n # 0 /\ n \in 1 .. N /\ n - 1 \in 0 .. N)
      BY <1>1
    <3>2. CASE n = 0
      <4>1. g[0] = Len(f[0])
        BY <1>1
      <4>. QED  BY <1>6, <3>2, <4>1
    <3>3. CASE n # 0 /\ n \in 1 .. N /\ n - 1 \in 0 .. N
      <4>1. g[n] = Len(f[n]) /\ g[n - 1] = Len(f[n - 1])
        BY <3>3
      <4>2. Len(f[n]) = Len(f[n - 1]) + more[n] /\ Len(f[n - 1]) \in Nat
        BY <1>6, <3>3
      <4>3. /\ more[n] = Len(hs[n].name) + Len(hs[n].value) + 4
            /\ Len(hs[n].name) \in Nat /\ Len(hs[n].value) \in Nat
        BY <1>4, <3>3
      <4>4. g[n] = g[n - 1] + Len(hs[n].name) + Len(hs[n].value) + 4
        <5>. HIDE DEF g
        <5>1. Len(f[n - 1]) + (Len(hs[n].name) + Len(hs[n].value) + 4)
                = Len(f[n - 1]) + Len(hs[n].name) + Len(hs[n].value) + 4
          BY <4>2, <4>3, Sums, Zenon
        <5>2. g[n] = Len(f[n - 1]) + (Len(hs[n].name) + Len(hs[n].value) + 4)
          BY <4>1, <4>2, <4>3, Zenon
        <5>. QED  BY <4>1, <5>1, <5>2, Zenon
      <4>. HIDE DEF g
      <4>. QED  BY <3>3, <4>4, Zenon
    <3>. QED  BY <3>1, <3>2, <3>3
  <2>2. g = [n \in 0 .. N |-> g[n]]
    OBVIOUS
  <2>. HIDE DEF g
  <2>3. F(g)
    BY <2>1, <2>2
  <2>. QED  BY <2>3 DEF g
<1>8. F(size)
  BY <1>7
<1>9. composedSize(hs) = size[N]
  BY DEF composedSize, N
<1>10. \A n \in 0 .. N :
         size[n] = IF n = 0 THEN 0 ELSE size[n - 1] + Len(hs[n].name) + Len(hs[n].value) + 4
  <2>. HIDE DEF size
  <2>. QED  BY <1>8
<1>. HIDE DEF size, F
<1>. DEFINE T == {k \in Nat : k <= N => size[k] = Len(f[k])}
<1>11. 0 \in T
  BY <1>1, <1>6, <1>10
<1>12. ASSUME NEW k \in Nat, k \in T PROVE k + 1 \in T
  <2>. SUFFICES ASSUME k + 1 <= N PROVE size[k + 1] = Len(f[k + 1])
    BY k + 1 \in Nat
  <2>1. k + 1 \in 0 .. N /\ k + 1 \in 1 .. N /\ k + 1 # 0 /\ (k + 1) - 1 = k
    BY <1>1
  <2>2. size[k + 1] = size[k] + Len(hs[k + 1].name) + Len(hs[k + 1].value) + 4
    <3>1. size[k + 1]
            = size[(k + 1) - 1] + Len(hs[k + 1].name) + Len(hs[k + 1].value) + 4
      BY <1>10, <2>1, Zenon
    <3>. QED  BY <2>1, <3>1
  <2>3. Len(f[k + 1]) = Len(f[k]) + more[k + 1] /\ Len(f[k]) \in Nat
    BY <1>6, <2>1
  <2>4. size[k] = Len(f[k])
    BY <1>1, <1>12
  <2>5. /\ more[k + 1] = Len(hs[k + 1].name) + Len(hs[k + 1].value) + 4
        /\ Len(hs[k + 1].name) \in Nat /\ Len(hs[k + 1].value) \in Nat
    BY <1>4, <2>1
  <2>6. Len(f[k]) + (Len(hs[k + 1].name) + Len(hs[k + 1].value) + 4)
          = Len(f[k]) + Len(hs[k + 1].name) + Len(hs[k + 1].value) + 4
    BY <2>3, <2>5, Sums, Zenon
  <2>. QED  BY <2>2, <2>3, <2>4, <2>5, <2>6, Zenon
<1>13. N \in T
  <2>. HIDE DEF T
  <2>. QED  BY <1>1, <1>11, <1>12, NatSetInduction
<1>14. N \in 0 .. N
  BY <1>1
<1>. QED  BY <1>1, <1>3, <1>5, <1>9, <1>13, <1>14 DEF String
-----------------------------------------------------------------------------
(* Envelopes.                                                              *)

LEMMA ThreeJoined ==
  ASSUME NEW a \in Seq(Char), NEW b \in Seq(Char), NEW c \in Seq(Char)
  PROVE  (a \o b) \o c = a \o (b \o c)
BY ConcatAssociative

TailJoined(a, b, c, d) == ((a \o b) \o c) \o d = a \o ((b \o c) \o d)

LEMMA FourJoined ==
  ASSUME NEW a \in Seq(Char), NEW b \in Seq(Char), NEW c \in Seq(Char), NEW d \in Seq(Char)
  PROVE  TailJoined(a, b, c, d)
<1>1. (a \o b) \o c = a \o (b \o c)
  BY ThreeJoined, ZenonT(60)
<1>2. b \o c \in Seq(Char)
  BY ConcatType, Zenon
<1>3. (a \o (b \o c)) \o d = a \o ((b \o c) \o d)
  BY <1>2, ThreeJoined, ZenonT(60)
<1>. QED  BY <1>1, <1>3, Zenon DEF TailJoined

LEMMA LiteralTypes ==
  /\ CRLF \in Seq(Char) /\ Len(CRLF) = 2
  /\ <<SP>> \in Seq(Char) /\ <<48>> \in Seq(Char) /\ Len(<<48>>) = 1
  /\ <<48, 120>> \in Seq(Char) /\ << >> \in Seq(Char)
BY DEF CRLF, CR, LF, SP, Char

StartLine == [1 .. 3 -> String]

LEMMA FirstLineText ==
  ASSUME NEW t \in StartLine
  PROVE  composeFirstLine(t) \in Seq(Char)
<1>1. t[1] \in Seq(Char) /\ t[2] \in Seq(Char) /\ t[3] \in Seq(Char)
  BY DEF StartLine, String
<1>2. (t[1] \o <<SP>>) \o t[2] \in Seq(Char)
  BY <1>1, LiteralTypes, ConcatType, Zenon
<1>3. (((t[1] \o <<SP>>) \o t[2]) \o <<SP>>) \o t[3] \in Seq(Char)
  BY <1>1, <1>2, LiteralTypes, ConcatType, Zenon
<1>4. ((((t[1] \o <<SP>>) \o t[2]) \o <<SP>>) \o t[3]) \o CRLF \in Seq(Char)
  BY <1>3, LiteralTypes, ConcatType, Zenon
<1>. QED  BY <1>4, Zenon DEF composeFirstLine

LEMMA HeaderSectionText ==
  ASSUME NEW hs \in Seq(Header), NEW payloadLen \in Nat
  PROVE  /\ composeHeader(hs) \in Seq(Char)
         /\ composeHeader(ChunkedHeaders(hs)) \in Seq(Char)
         /\ composeHeader(IdentityHeaders(hs, payloadLen)) \in Seq(Char)
         /\ NumberText(payloadLen, 10) \in Seq(Char)
         /\ NumberText(payloadLen, 16) \in Seq(Char)
<1>1. \A h \in Seq(Header) : composeHeader(h) \in Seq(Char)
  BY ComposeHeaderLength DEF String
<1>2. \A base \in Base : NumberText(payloadLen, base) \in Seq(Char)
  BY NumberTextProperties DEF IsNumber, String
<1>. QED  BY <1>1, <1>2, FramedType DEF Base

(* A last chunk is seven bytes longer than its trailer.                    *)
LEMMA LastChunkLength ==
  ASSUME NEW hs \in Seq(Header)
  PROVE  /\ composeLastChunk(hs) \in Seq(Char)
         /\ Len(composeLastChunk(hs)) = composedSize(hs) + 7 /\ composedSize(hs) \in Nat
<1>. DEFINE a == CRLF \o <<48>>
            b == a \o CRLF
            c == b \o composeHeader(hs)
<1>1. composeHeader(hs) \in Seq(Char) /\ Len(composeHeader(hs)) = composedSize(hs)
  BY ComposeHeaderLength DEF String
<1>2. a \in Seq(Char) /\ Len(a) = Len(CRLF) + Len(<<48>>)
  BY LiteralTypes, ConcatType, Zenon
<1>3. b \in Seq(Char) /\ Len(b) = Len(a) + Len(CRLF)
  BY <1>2, LiteralTypes, ConcatType, Zenon
<1>4. c \in Seq(Char) /\ Len(c) = Len(b) + Len(composeHeader(hs))
  BY <1>1, <1>3, LiteralTypes, ConcatType, Zenon
<1>5. c \o CRLF \in Seq(Char) /\ Len(c \o CRLF) = Len(c) + Len(CRLF)
  BY <1>4, LiteralTypes, ConcatType, Zenon
<1>6. composedSize(hs) \in Nat
  <2>1. \A s \in Seq(Char) : Len(s) \in Nat
    OBVIOUS
  <2>. QED  BY <1>1, <2>1, Zenon
<1>7. composeLastChunk(hs) = c \o CRLF
  BY DEF composeLastChunk
<1>. DEFINE n == composedSize(hs)
            m == Len(c \o CRLF)
<1>8. m = (((2 + 1) + 2) + n) + 2
  BY <1>1, <1>2, <1>3, <1>4, <1>5, LiteralTypes, Zenon
<1>9. n \in Nat
  BY <1>6
<1>. HIDE DEF c, m, n
<1>10. m = n + 7
  BY <1>8, <1>9
<1>. QED  BY <1>5, <1>6, <1>7, <1>10 DEF m, n
-----------------------------------------------------------------------------
(* Texts that grow.  A place that has been found is not found elsewhere    *)
(* when characters are added, nor is what lies before it another.          *)

IsFirst(k, text, p, S) ==
  /\ k \in From(text, p) /\ text[k] \in S
  /\ \A i \in p .. k - 1 : text[i] \notin S

NotYet(text, p, S) == \A i \in From(text, p) : text[i] \notin S

LEMMA Appended ==
  ASSUME NEW text \in String, NEW ch \in Char
  PROVE  /\ Append(text, ch) \in String /\ Len(text) \in Nat
         /\ Len(Append(text, ch)) = Len(text) + 1
         /\ \A i \in 1 .. Len(text) : Append(text, ch)[i] = text[i]
         /\ Append(text, ch)[Len(text) + 1] = ch
BY DEF String

LEMMA FirstIs ==
  ASSUME NEW text \in String, NEW p \in Nat, NEW S, NEW k, IsFirst(k, text, p, S)
  PROVE  First(text, p, S) = k
<1>. DEFINE T == {i \in From(text, p) : text[i] \in S}
<1>1. Len(text) \in Nat /\ T \subseteq Int
  BY DEF String, From
<1>2. k \in T /\ k \in Int
  BY DEF IsFirst, From
<1>3. ASSUME NEW y \in T PROVE k <= y
  <2>1. y \notin p .. k - 1 /\ y \in Int /\ p <= y
    BY <1>1, <1>3 DEF IsFirst, From
  <2>. QED  BY <1>2, <2>1
<1>. QED  BY <1>1, <1>2, <1>3, LeastIsMin DEF First

(* A place that has been found is not found elsewhere in a longer text.    *)
LEMMA FirstStays ==
  ASSUME NEW text \in String, NEW p \in Nat \ {0}, NEW S, NEW k, IsFirst(k, text, p, S),
         NEW ch \in Char
  PROVE  IsFirst(k, Append(text, ch), p, S)
<1>1. k \in 1 .. Len(text) /\ p \in 1 .. k
  BY Appended DEF IsFirst, From
<1>2. k \in p .. Len(text) + 1 /\ \A i \in p .. k : i \in 1 .. Len(text)
  BY <1>1, Appended
<1>. QED  BY <1>1, <1>2, Appended DEF IsFirst, From

(* A character that has not been met is found where it is added.           *)
LEMMA FirstHere ==
  ASSUME NEW text \in String, NEW p \in Nat \ {0}, NEW S, NotYet(text, p, S),
         p <= Len(text) + 1, NEW ch \in Char, ch \in S
  PROVE  IsFirst(Len(text) + 1, Append(text, ch), p, S)
<1>1. Len(text) + 1 \in p .. Len(text) + 1
  BY Appended
<1>2. \A i \in p .. (Len(text) + 1) - 1 : i \in From(text, p) /\ i \in 1 .. Len(text)
  BY Appended DEF From
<1>. QED  BY <1>1, <1>2, Appended DEF IsFirst, NotYet, From

LEMMA NotYetStays ==
  ASSUME NEW text \in String, NEW p \in Nat \ {0}, NEW S, NotYet(text, p, S),
         NEW ch \in Char, ch \notin S
  PROVE  NotYet(Append(text, ch), p, S)
<1>. SUFFICES ASSUME NEW i \in p .. Len(text) + 1 PROVE Append(text, ch)[i] \notin S
  BY Appended DEF NotYet, From
<1>1. CASE i = Len(text) + 1
  BY <1>1, Appended
<1>2. CASE i # Len(text) + 1
  <2>1. i \in From(text, p) /\ i \in 1 .. Len(text)
    BY <1>2, Appended DEF From
  <2>. QED  BY <2>1, Appended DEF NotYet
<1>. QED  BY <1>1, <1>2

LEMMA NothingYet ==
  ASSUME NEW text \in String, NEW p \in Int, p > Len(text), NEW S
  PROVE  NotYet(text, p, S)
BY Len(text) \in Nat DEF NotYet, From, String

LEMMA PartStays ==
  ASSUME NEW text \in String, NEW p \in Nat \ {0}, NEW q \in Int, q <= Len(text), NEW ch \in Char
  PROVE  SubSeq(Append(text, ch), p, q) = SubSeq(text, p, q)
<1>. DEFINE a == SubSeq(Append(text, ch), p, q)
            b == SubSeq(text, p, q)
<1>1. /\ text \in Seq(Char) /\ Append(text, ch) \in Seq(Char) /\ Len(text) \in Nat
      /\ \A i \in p .. q : i \in 1 .. Len(text) /\ i \in 1 .. Len(Append(text, ch))
  BY Appended DEF String
<1>2. a \in Seq(Char) /\ b \in Seq(Char)
  BY <1>1, SubSeqProperties
<1>3. Len(a) = Len(b) /\ \A i \in 1 .. Len(a) : a[i] = b[i]
  <2>1. CASE p <= q
    <3>1. Len(a) = (q - p) + 1 /\ Len(b) = (q - p) + 1
      BY <1>1, <2>1, SubSeqProperties
    <3>2. ASSUME NEW i \in 1 .. (q - p) + 1 PROVE a[i] = b[i]
      <4>1. (p + i) - 1 \in 1 .. Len(text)
        BY <1>1, <2>1
      <4>2. a[i] = Append(text, ch)[(p + i) - 1] /\ b[i] = text[(p + i) - 1]
        BY <1>1, <2>1
      <4>. QED  BY <4>1, <4>2, Appended
    <3>. QED  BY <3>1, <3>2
  <2>2. CASE p > q
    <3>1. a = << >> /\ b = << >>
      BY <1>1, <2>2, SubSeqProperties
    <3>. QED  BY <3>1
  <2>. QED  BY <2>1, <2>2
<1>. QED  BY <1>2, <1>3, SeqEqual

LEMMA PartType ==
  ASSUME NEW text \in String, NEW p \in Nat \ {0}, NEW q \in Int, q <= Len(text)
  PROVE  SubSeq(text, p, q) \in String
<1>1. text \in Seq(Char) /\ \A i \in p .. q : i \in DOMAIN text
  BY Appended DEF String
<1>2. SubSeq(text, p, q) \in Seq(Char)
  BY <1>1
<1>. QED  BY <1>2 DEF String

LEMMA JoinType == ASSUME NEW a \in String, NEW b \in String PROVE a \o b \in String
BY DEF String

LEMMA JoinAppend ==
  ASSUME NEW a \in String, NEW b \in String, NEW ch \in Char
  PROVE  a \o Append(b, ch) = Append(a \o b, ch)
<1>. DEFINE x == a \o Append(b, ch)
            y == Append(a \o b, ch)
<1>1. a \in Seq(Char) /\ b \in Seq(Char) /\ Len(a) \in Nat /\ Len(b) \in Nat
  BY DEF String
<1>2. /\ Append(b, ch) \in Seq(Char) /\ Len(Append(b, ch)) = Len(b) + 1
      /\ \A i \in 1 .. Len(b) : Append(b, ch)[i] = b[i]
      /\ Append(b, ch)[Len(b) + 1] = ch
  BY <1>1
<1>3. /\ a \o b \in Seq(Char) /\ Len(a \o b) = Len(a) + Len(b)
      /\ \A i \in 1 .. Len(a) + Len(b) : (a \o b)[i] = IF i <= Len(a) THEN a[i] ELSE b[i - Len(a)]
  BY <1>1
<1>4. /\ x \in Seq(Char) /\ Len(x) = Len(a) + Len(b) + 1
      /\ \A i \in 1 .. Len(a) + Len(b) + 1 :
           x[i] = IF i <= Len(a) THEN a[i] ELSE Append(b, ch)[i - Len(a)]
  BY <1>1, <1>2
<1>5. /\ y \in Seq(Char) /\ Len(y) = Len(a) + Len(b) + 1
      /\ \A i \in 1 .. Len(a) + Len(b) : y[i] = (a \o b)[i]
      /\ y[Len(a) + Len(b) + 1] = ch
  BY <1>1, <1>3
<1>. HIDE DEF x, y
<1>6. ASSUME NEW i \in 1 .. Len(a) + Len(b) + 1 PROVE x[i] = y[i]
  <2>1. CASE i = Len(a) + Len(b) + 1
    <3>1. ~(i <= Len(a)) /\ i - Len(a) = Len(b) + 1
      BY <1>1, <2>1
    <3>. QED  BY <1>2, <1>4, <1>5, <2>1, <3>1
  <2>2. CASE i # Len(a) + Len(b) + 1
    <3>1. i \in 1 .. Len(a) + Len(b) /\ (~(i <= Len(a)) => i - Len(a) \in 1 .. Len(b))
      BY <1>1, <2>2
    <3>. QED  BY <1>2, <1>3, <1>4, <1>5, <3>1
  <2>. QED  BY <2>1, <2>2
<1>7. x = y
  BY <1>4, <1>5, <1>6, SeqEqual
<1>. QED  BY <1>7 DEF x, y

(* What lies from a place to the end grows by the character that is added. *)
LEMMA PartGrows ==
  ASSUME NEW text \in String, NEW p \in 1 .. Len(text) + 1, NEW ch \in Char
  PROVE  /\ SubSeq(Append(text, ch), p, Len(text) + 1) = Append(SubSeq(text, p, Len(text)), ch)
         /\ SubSeq(text, p, Len(text)) \in String
         /\ Len(SubSeq(text, p, Len(text))) = Len(text) + 1 - p
<1>. DEFINE n == Len(text)
            s == SubSeq(text, p, n)
            u == SubSeq(Append(text, ch), p, n + 1)
<1>0. n \in Nat
  BY Appended
<1>1. s \in Seq(Char) /\ Len(s) = n + 1 - p /\ \A i \in 1 .. n + 1 - p : s[i] = text[i + p - 1]
  BY Appended DEF String
<1>2. u \in Seq(Char) /\ Len(u) = n + 2 - p /\ \A i \in 1 .. n + 2 - p : u[i] = Append(text, ch)[i + p - 1]
  BY Appended DEF String
<1>3. ASSUME NEW i \in 1 .. n + 2 - p PROVE u[i] = Append(s, ch)[i]
  <2>1. CASE i = n + 2 - p
    BY <1>1, <1>2, <2>1, Appended
  <2>2. CASE i # n + 2 - p
    <3>1. i \in 1 .. n + 1 - p /\ i + p - 1 \in 1 .. n
      BY <2>2, <1>0
    <3>2. u[i] = text[i + p - 1] /\ s[i] = text[i + p - 1]
      BY <1>1, <1>2, <3>1, Appended
    <3>. QED  BY <1>1, <3>1, <3>2
  <2>. QED  BY <2>1, <2>2
<1>4. Len(Append(s, ch)) = n + 2 - p /\ Append(s, ch) \in Seq(Char)
  BY <1>0, <1>1
<1>. HIDE DEF s, u
<1>5. u = Append(s, ch)
  BY <1>2, <1>3, <1>4, SeqEqual
<1>. QED  BY <1>1, <1>5 DEF s, u, String
-----------------------------------------------------------------------------
(* The start line is cut at six places, of which each is the first of its  *)
(* kind behind the one before it.  LineRead: text has been cut k times.    *)

Turn == <<Word, White, Word, White, Word, {CR}>>

Places == [0 .. 6 -> Nat \ {0}]

LineRead(text, k, P) ==
  /\ P \in Places /\ P[0] = 1
  /\ \A j \in 1 .. k : IsFirst(P[j], text, P[j - 1], Turn[j])
  /\ k < 6 => NotYet(text, P[k], Turn[k + 1])

\* The token that begins at the m-th place, as far as it has been read.
TokenRead(text, k, P, m) ==
  IF k < m THEN << >> ELSE SubSeq(text, P[m], IF k = m THEN Len(text) ELSE P[m + 1] - 1)

PlacesWithin(text, k, P) ==
  /\ \A j \in 1 .. k : P[j] \in 1 .. Len(text)
  /\ P[k] \in 1 .. Len(text) + 1

LEMMA LineReadWithin ==
  ASSUME NEW text \in String, NEW k \in 0 .. 6, NEW P, LineRead(text, k, P)
  PROVE  PlacesWithin(text, k, P) /\ P \in Places /\ P[0] = 1
<1>. SUFFICES PlacesWithin(text, k, P)
  BY DEF LineRead
<1>1. \A j \in 1 .. k : P[j] \in 1 .. Len(text)
  <2>. SUFFICES ASSUME NEW j \in 1 .. k PROVE P[j] \in 1 .. Len(text)
    OBVIOUS
  <2>1. j - 1 \in 0 .. 6 /\ j \in 0 .. 6
    OBVIOUS
  <2>2. P[j - 1] \in Nat \ {0} /\ P[j] \in P[j - 1] .. Len(text)
    BY <2>1 DEF LineRead, Places, IsFirst, From
  <2>. QED  BY <2>2, Appended
<1>2. CASE k = 0
  BY <1>2, Len(text) \in Nat DEF LineRead, String, PlacesWithin
<1>3. CASE k # 0
  <2>1. k \in 1 .. k
    BY <1>3
  <2>2. P[k] \in 1 .. Len(text) /\ Len(text) \in Nat
    BY <1>1, <2>1, Len(text) \in Nat DEF String
  <2>. QED  BY <1>1, <2>2 DEF PlacesWithin
<1>. QED  BY <1>1, <1>2, <1>3 DEF PlacesWithin

(* A character that does not begin the next word or blank leaves the       *)
(* places of the start line where they are.                                *)
LEMMA LineStays ==
  ASSUME NEW text \in String, NEW k \in 0 .. 6, NEW P, LineRead(text, k, P),
         NEW ch \in Char, k < 6 => ch \notin Turn[k + 1]
  PROVE  LineRead(Append(text, ch), k, P)
<1>1. ASSUME NEW j \in 1 .. k PROVE IsFirst(P[j], Append(text, ch), P[j - 1], Turn[j])
  <2>1. P[j - 1] \in Nat \ {0}
    BY DEF LineRead, Places
  <2>2. IsFirst(P[j], text, P[j - 1], Turn[j])
    BY DEF LineRead
  <2>. QED  BY <2>1, <2>2, FirstStays, Zenon
<1>2. k < 6 => NotYet(Append(text, ch), P[k], Turn[k + 1])
  <2>1. P[k] \in Nat \ {0}
    BY DEF LineRead, Places
  <2>2. k < 6 => NotYet(text, P[k], Turn[k + 1])
    BY DEF LineRead
  <2>. QED  BY <2>1, <2>2, NotYetStays, Zenon
<1>. QED  BY <1>1, <1>2 DEF LineRead

CutHere(text, k, P) == [P EXCEPT ![k + 1] = Len(text) + 1]

LEMMA CutAt ==
  ASSUME NEW text \in String, NEW k \in 0 .. 5, NEW P \in Places
  PROVE  /\ CutHere(text, k, P) \in Places /\ CutHere(text, k, P)[k + 1] = Len(text) + 1
         /\ \A j \in 0 .. k : CutHere(text, k, P)[j] = P[j]
<1>1. Len(text) + 1 \in Nat \ {0} /\ k + 1 \in 0 .. 6 /\ \A j \in 0 .. k : j \in 0 .. 6 /\ j # k + 1
  BY Appended
<1>. QED  BY <1>1 DEF CutHere, Places

(* One that does is the next place.                                        *)
LEMMA LineGoesOn ==
  ASSUME NEW text \in String, NEW k \in 0 .. 5, NEW P, LineRead(text, k, P),
         NEW ch \in Char, ch \in Turn[k + 1], k < 5 => ch \notin Turn[k + 2]
  PROVE  LineRead(Append(text, ch), k + 1, CutHere(text, k, P))
<1>. DEFINE Q == CutHere(text, k, P)
            t == Append(text, ch)
<1>1. Len(text) \in Nat /\ P \in Places /\ P[0] = 1 /\ P[k] \in 1 .. Len(text) + 1
  <2>1. k \in 0 .. 6
    OBVIOUS
  <2>. QED  BY <2>1, LineReadWithin, Appended, Zenon DEF PlacesWithin
<1>2. Q \in Places /\ Q[0] = 1 /\ Q[k + 1] = Len(text) + 1 /\ \A j \in 0 .. k : Q[j] = P[j]
  <2>1. Q \in Places /\ Q[k + 1] = Len(text) + 1 /\ \A j \in 0 .. k : Q[j] = P[j]
    BY <1>1, CutAt, Zenon
  <2>2. 0 \in 0 .. k
    OBVIOUS
  <2>. QED  BY <1>1, <2>1, <2>2, Zenon
<1>. HIDE DEF Q
<1>3. ASSUME NEW j \in 1 .. k + 1 PROVE IsFirst(Q[j], t, Q[j - 1], Turn[j])
  <2>1. CASE j = k + 1
    <3>1. NotYet(text, P[k], Turn[k + 1]) /\ P[k] \in Nat \ {0} /\ P[k] <= Len(text) + 1
      BY <1>1 DEF LineRead
    <3>2. IsFirst(Len(text) + 1, t, P[k], Turn[k + 1])
      BY <3>1, FirstHere
    <3>3. j - 1 = k /\ Q[j - 1] = P[k]
      BY <1>2, <2>1
    <3>. QED  BY <1>2, <2>1, <3>2, <3>3
  <2>2. CASE j # k + 1
    <3>1. j \in 1 .. k /\ j \in 0 .. k /\ j - 1 \in 0 .. k /\ j - 1 \in 0 .. 6
      BY <2>2
    <3>2. P[j - 1] \in Nat \ {0} /\ IsFirst(P[j], text, P[j - 1], Turn[j])
      BY <1>1, <3>1 DEF LineRead, Places
    <3>3. IsFirst(P[j], t, P[j - 1], Turn[j])
      BY <3>2, FirstStays, Zenon
    <3>. QED  BY <1>2, <3>1, <3>3
  <2>. QED  BY <2>1, <2>2
<1>4. k < 5 => NotYet(t, Len(text) + 1, Turn[k + 2])
  <2>1. NotYet(text, Len(text) + 1, Turn[k + 2])
    BY <1>1, NothingYet
  <2>. QED  BY <1>1, <2>1, NotYetStays
<1>5. k + 1 < 6 => NotYet(t, Q[k + 1], Turn[(k + 1) + 1])
  BY <1>2, <1>4
<1>6. LineRead(t, k + 1, Q)
  BY <1>2, <1>3, <1>5 DEF LineRead
<1>. QED  BY <1>6 DEF Q

LEMMA TokenBefore ==
  ASSUME NEW text, NEW k, NEW P, NEW m, k < m
  PROVE  TokenRead(text, k, P, m) = << >>
BY DEF TokenRead

LEMMA TokenOpen ==
  ASSUME NEW text, NEW k \in Int, NEW P
  PROVE  TokenRead(text, k, P, k) = SubSeq(text, P[k], Len(text))
<1>1. ~(k < k)
  OBVIOUS
<1>. QED  BY <1>1, Zenon DEF TokenRead

LEMMA TokenClosed ==
  ASSUME NEW text, NEW k \in Int, NEW P, NEW m \in Int, k > m
  PROVE  TokenRead(text, k, P, m) = SubSeq(text, P[m], P[m + 1] - 1)
<1>1. ~(k < m) /\ k # m
  OBVIOUS
<1>. QED  BY <1>1, Zenon DEF TokenRead

(* The token that is being read grows, and those before it stay.           *)
LEMMA TokenStays ==
  ASSUME NEW text \in String, NEW k \in 0 .. 6, NEW P, LineRead(text, k, P), NEW ch \in Char,
         NEW m \in 1 .. 5
  PROVE  TokenRead(Append(text, ch), k, P, m) =
           IF k = m THEN Append(TokenRead(text, k, P, m), ch) ELSE TokenRead(text, k, P, m)
<1>. DEFINE t == Append(text, ch)
<1>1. k \in Int /\ m \in Int /\ (k < m \/ k = m \/ k > m) /\ (k < m \/ k > m => k # m)
  OBVIOUS
<1>w. PlacesWithin(text, k, P)
  BY LineReadWithin, Zenon
<1>2. CASE k < m
  BY <1>1, <1>2, TokenBefore, Zenon
<1>3. CASE k = m
  <2>1. P[k] \in 1 .. Len(text) + 1
    BY <1>w, Zenon DEF PlacesWithin
  <2>2. SubSeq(t, P[k], Len(t)) = Append(SubSeq(text, P[k], Len(text)), ch)
    BY <2>1, Appended, PartGrows, Zenon
  <2>3. TokenRead(t, k, P, k) = Append(TokenRead(text, k, P, k), ch)
    BY <1>1, <2>2, TokenOpen, Zenon
  <2>. QED  BY <1>3, <2>3, Zenon
<1>4. CASE k > m
  <2>1. m + 1 \in 1 .. k /\ m \in 1 .. k
    BY <1>4
  <2>2. P[m] \in 1 .. Len(text) /\ P[m + 1] \in 1 .. Len(text)
    BY <2>1, <1>w, Zenon DEF PlacesWithin
  <2>3. P[m] \in Nat \ {0} /\ P[m + 1] - 1 \in Int /\ P[m + 1] - 1 <= Len(text)
    BY <2>2, Appended
  <2>4. SubSeq(t, P[m], P[m + 1] - 1) = SubSeq(text, P[m], P[m + 1] - 1)
    BY <2>3, PartStays
  <2>5. TokenRead(t, k, P, m) = SubSeq(t, P[m], P[m + 1] - 1)
    BY <1>1, <1>4, TokenClosed, Zenon
  <2>6. TokenRead(text, k, P, m) = SubSeq(text, P[m], P[m + 1] - 1)
    BY <1>1, <1>4, TokenClosed, Zenon
  <2>. QED  BY <1>1, <1>4, <2>4, <2>5, <2>6, Zenon
<1>. QED  BY <1>1, <1>2, <1>3, <1>4, Zenon

Cuts(text, k, P, ch, m) ==
  TokenRead(Append(text, ch), k + 1, CutHere(text, k, P), m) =
    IF k + 1 = m THEN Append(TokenRead(text, k, P, m), ch) ELSE TokenRead(text, k, P, m)

LEMMA TokenGoesOn ==
  ASSUME NEW text \in String, NEW k \in 0 .. 5, NEW P, LineRead(text, k, P), NEW ch \in Char,
         NEW m \in 1 .. 5
  PROVE  Cuts(text, k, P, ch, m)
<1>. DEFINE n == Len(text)
            Q == CutHere(text, k, P)
            t == Append(text, ch)
            old == TokenRead(text, k, P, m)
            new == TokenRead(t, k + 1, Q, m)
<1>0. n \in Nat /\ Len(t) = n + 1
  BY Appended
<1>1. /\ k \in Int /\ m \in Int /\ k + 1 \in Int /\ k \in 0 .. 6
      /\ k + 1 < m \/ k + 1 = m \/ k = m \/ k > m
  OBVIOUS
<1>w. PlacesWithin(text, k, P) /\ P \in Places
  BY <1>1, LineReadWithin, Zenon
<1>2. Q[k + 1] = n + 1 /\ \A i \in 0 .. k : Q[i] = P[i]
  BY <1>w, CutAt, Zenon
<1>. HIDE DEF Q, n, t
<1>3. CASE k + 1 < m
  <2>1. k < m /\ k + 1 # m
    BY <1>3
  <2>. QED  BY <1>3, <2>1, TokenBefore, Zenon DEF Q, t, Cuts
<1>4. CASE k + 1 = m
  <2>0. k < m
    BY <1>4
  <2>1. old = << >>
    BY <2>0, TokenBefore, Zenon
  <2>2. TokenRead(t, k + 1, Q, k + 1) = SubSeq(t, Q[k + 1], Len(t))
    BY <1>1, TokenOpen, Zenon
  <2>3. n + 1 \in 1 .. Len(text) + 1 /\ Len(text) = n
    BY <1>0 DEF n
  <2>4. SubSeq(t, n + 1, n + 1) = Append(SubSeq(text, n + 1, n), ch)
    BY <2>3, PartGrows, Zenon DEF t
  <2>5. SubSeq(text, n + 1, n) = << >>
    BY <1>0
  <2>6. new = Append(old, ch)
    BY <1>0, <1>2, <1>4, <2>1, <2>2, <2>4, <2>5, Zenon
  <2>. QED  BY <1>4, <2>6, Zenon DEF Q, t, Cuts
<1>5. ASSUME k >= m PROVE P[m] \in Nat \ {0} /\ Q[m] = P[m] /\ k + 1 > m /\ k + 1 # m
  <2>1. m \in 1 .. k /\ m \in 0 .. k /\ k + 1 > m /\ k + 1 # m
    BY <1>5
  <2>2. P[m] \in 1 .. n
    BY <1>w, <2>1, Zenon DEF PlacesWithin, n
  <2>. QED  BY <1>0, <1>2, <2>1, <2>2
<1>6. CASE k = m
  <2>0. k >= m
    BY <1>6
  <2>1. TokenRead(text, k, P, k) = SubSeq(text, P[k], n)
    BY <1>1, TokenOpen, Zenon DEF n
  <2>2. new = SubSeq(t, Q[m], Q[m + 1] - 1)
    BY <1>1, <1>5, <2>0, TokenClosed, Zenon
  <2>3. Q[m + 1] - 1 = n
    BY <1>0, <1>2, <1>6
  <2>4. SubSeq(t, P[m], n) = SubSeq(text, P[m], n)
    BY <1>0, <1>5, <2>0, PartStays DEF n, t
  <2>5. new = old
    BY <1>5, <1>6, <2>0, <2>1, <2>2, <2>3, <2>4, Zenon
  <2>. QED  BY <1>5, <2>0, <2>5, Zenon DEF Q, t, Cuts
<1>7. CASE k > m
  <2>0. k >= m /\ m + 1 \in 1 .. k /\ m + 1 \in 0 .. k
    BY <1>7
  <2>1. P[m + 1] \in 1 .. n /\ Q[m + 1] = P[m + 1]
    BY <1>2, <1>w, <2>0, Zenon DEF PlacesWithin, n
  <2>2. P[m + 1] - 1 \in Int /\ P[m + 1] - 1 <= n
    BY <1>0, <2>1
  <2>3. old = SubSeq(text, P[m], P[m + 1] - 1)
    BY <1>1, <1>7, TokenClosed, Zenon
  <2>4. new = SubSeq(t, Q[m], Q[m + 1] - 1)
    BY <1>1, <1>5, <2>0, TokenClosed, Zenon
  <2>5. SubSeq(t, P[m], P[m + 1] - 1) = SubSeq(text, P[m], P[m + 1] - 1)
    BY <1>5, <2>0, <2>2, PartStays DEF n, t
  <2>6. new = old
    BY <1>5, <2>0, <2>1, <2>3, <2>4, <2>5, Zenon
  <2>. QED  BY <1>5, <2>0, <2>6, Zenon DEF Q, t, Cuts
<1>. QED  BY <1>1, <1>3, <1>4, <1>6, <1>7, Zenon
-----------------------------------------------------------------------------
(* The empty line, and the places at which fields start.                   *)

IsEmptyLine(e, text, p) ==
  /\ e \in From(text, p) /\ text[e] = CR /\ text[e - 1] = LF
  /\ \A i \in p .. e - 1 : ~(text[i] = CR /\ text[i - 1] = LF)

NoEmptyLine(text, p) == \A i \in From(text, p) : ~(text[i] = CR /\ text[i - 1] = LF)

LEMMA EmptyLineIs ==
  ASSUME NEW text \in String, NEW p \in Nat, NEW e, IsEmptyLine(e, text, p)
  PROVE  EmptyLine(text, p) = e
<1>. DEFINE T == {i \in From(text, p) : text[i] = CR /\ text[i - 1] = LF}
<1>1. Len(text) \in Nat /\ T \subseteq Int
  BY DEF String, From
<1>2. e \in T /\ e \in Int
  BY DEF IsEmptyLine, From
<1>3. ASSUME NEW y \in T PROVE e <= y
  <2>1. y \notin p .. e - 1 /\ y \in Int /\ p <= y
    BY <1>1, <1>3 DEF IsEmptyLine, From
  <2>. QED  BY <1>2, <2>1
<1>. QED  BY <1>1, <1>2, <1>3, LeastIsMin DEF EmptyLine

LEMMA EmptyLineStays ==
  ASSUME NEW text \in String, NEW p \in Nat, p >= 2, NEW e, IsEmptyLine(e, text, p), NEW ch \in Char
  PROVE  IsEmptyLine(e, Append(text, ch), p)
<1>1. e \in p .. Len(text) /\ Len(text) \in Nat
  BY Appended DEF IsEmptyLine, From
<1>2. /\ e \in p .. Len(text) + 1
      /\ \A i \in p .. e : i \in 1 .. Len(text) /\ i - 1 \in 1 .. Len(text)
  BY <1>1
<1>3. \A i \in p .. e - 1 : i \in p .. e
  BY <1>1
<1>4. e \in p .. e
  BY <1>1
<1>. QED  BY <1>1, <1>2, <1>3, <1>4, Appended DEF IsEmptyLine, From

(* The empty line is found at the first CR behind a line break.            *)
LEMMA EmptyLineHere ==
  ASSUME NEW text \in String, NEW p \in Nat, p >= 2, p <= Len(text) + 1,
         NoEmptyLine(text, p), text[Len(text)] = LF
  PROVE  IsEmptyLine(Len(text) + 1, Append(text, CR), p)
<1>0. CR \in Char
  BY DEF CR, Char
<1>1. /\ Len(text) \in Nat /\ Len(text) + 1 \in p .. Len(text) + 1
      /\ (Len(text) + 1) - 1 = Len(text) /\ Len(text) \in 1 .. Len(text)
  BY Appended
<1>2. \A i \in p .. (Len(text) + 1) - 1 :
         i \in From(text, p) /\ i \in 1 .. Len(text) /\ i - 1 \in 1 .. Len(text)
  BY <1>1 DEF From
<1>3. /\ Append(text, CR)[Len(text) + 1] = CR /\ Len(Append(text, CR)) = Len(text) + 1
      /\ \A i \in 1 .. Len(text) : Append(text, CR)[i] = text[i]
  BY <1>0, Appended
<1>4. Append(text, CR)[(Len(text) + 1) - 1] = LF
  BY <1>1, <1>3
<1>. QED  BY <1>1, <1>2, <1>3, <1>4 DEF IsEmptyLine, NoEmptyLine, From

LEMMA NoEmptyLineStays ==
  ASSUME NEW text \in String, NEW p \in Nat, p >= 2, NoEmptyLine(text, p),
         NEW ch \in Char, ch = CR => text[Len(text)] # LF
  PROVE  NoEmptyLine(Append(text, ch), p)
<1>. SUFFICES ASSUME NEW i \in p .. Len(text) + 1
              PROVE  ~(Append(text, ch)[i] = CR /\ Append(text, ch)[i - 1] = LF)
  BY Appended DEF NoEmptyLine, From
<1>1. Len(text) \in Nat /\ i - 1 \in 1 .. Len(text)
  BY Appended
<1>2. CASE i = Len(text) + 1
  <2>1. Append(text, ch)[i] = ch /\ Append(text, ch)[i - 1] = text[i - 1] /\ i - 1 = Len(text)
    BY <1>1, <1>2, Appended
  <2>. QED  BY <2>1
<1>3. CASE i # Len(text) + 1
  <2>1. i \in From(text, p) /\ i \in 1 .. Len(text)
    BY <1>1, <1>3 DEF From
  <2>. QED  BY <1>1, <2>1, Appended DEF NoEmptyLine
<1>. QED  BY <1>2, <1>3

\* Whether the field that starts at s is the last one that starts before q.
Starts(text, i) == text[i - 1] = LF /\ text[i] \notin White

IsStart(s, text, p, q) ==
  /\ s \in p .. q - 1 /\ (s = p \/ Starts(text, s))
  /\ \A i \in s + 1 .. q - 1 : ~Starts(text, i)

LEMMA StartIs ==
  ASSUME NEW text, NEW p \in Nat, NEW q \in Nat, NEW s, IsStart(s, text, p, q)
  PROVE  FieldBefore(text, p, q) = s
<1>. DEFINE T == {p} \cup {i \in p + 1 .. q - 1 : text[i - 1] = LF /\ text[i] \notin White}
<1>1. s \in T /\ s \in Int /\ T \subseteq Int
  BY DEF IsStart, Starts
<1>2. ASSUME NEW y \in T PROVE y <= s
  <2>1. y \notin s + 1 .. q - 1 \/ y = p
    BY <1>2 DEF IsStart, Starts
  <2>2. y \in Int /\ (y = p \/ y \in p + 1 .. q - 1) /\ s >= p
    BY <1>1 DEF IsStart
  <2>. QED  BY <1>1, <2>1, <2>2
<1>3. \A x \in T : (\A y \in T : x >= y) => x = s
  BY <1>1, <1>2
<1>. HIDE DEF T
<1>4. \A y \in T : s >= y
  BY <1>1, <1>2
<1>5. Max(T) = s
  BY <1>1, <1>3, <1>4 DEF Max
<1>. QED  BY <1>5 DEF T, FieldBefore

LEMMA StartWithin ==
  ASSUME NEW text, NEW p \in Nat \ {0}, NEW q \in Nat, p < q
  PROVE  FieldBefore(text, p, q) \in p .. q - 1
<1>. DEFINE T == {p} \cup {i \in p + 1 .. q - 1 : text[i - 1] = LF /\ text[i] \notin White}
<1>1. T \subseteq p .. q - 1 /\ T \subseteq 1 .. q /\ T # {}
  OBVIOUS
<1>. HIDE DEF T
<1>2. Max(T) \in T
  BY <1>1, SmallestAndLargest
<1>. QED  BY <1>1, <1>2 DEF T, FieldBefore

LEMMA StartStays ==
  ASSUME NEW text \in String, NEW p \in Nat \ {0}, NEW q \in Nat, q <= Len(text) + 1, NEW ch \in Char
  PROVE  FieldBefore(Append(text, ch), p, q) = FieldBefore(text, p, q)
<1>1. \A i \in p + 1 .. q - 1 : i \in 1 .. Len(text) /\ i - 1 \in 1 .. Len(text)
  BY Appended
<1>2. \A i \in p + 1 .. q - 1 : Append(text, ch)[i] = text[i] /\ Append(text, ch)[i - 1] = text[i - 1]
  BY <1>1, Appended
<1>. QED  BY <1>2 DEF FieldBefore
-----------------------------------------------------------------------------
(* The headers that a part of a text makes.  FiledBy says that f has them  *)
(* for every end from p to q of the part.                                  *)

NextFiled(f, text, p, i) ==
  AddField(f[FieldBefore(text, p, i)], Part(text, FieldBefore(text, p, i), i))

FiledBy(f, hs, text, p, q) ==
  \A i \in p .. q : f[i] = IF i = p THEN hs ELSE NextFiled(f, text, p, i)

IsFiled(f, hs, text, p, q) ==
  f = [i \in p .. q |-> IF i = p THEN hs
                        ELSE LET start == FieldBefore(text, p, i)
                             IN  AddField(f[start], Part(text, start, i))]

LEMMA IsFiledBy ==
  ASSUME NEW f, NEW hs, NEW text, NEW p, NEW q
  PROVE  /\ IsFiled(f, hs, text, p, q) => FiledBy(f, hs, text, p, q)
         /\ f = [i \in p .. q |-> f[i]] /\ FiledBy(f, hs, text, p, q) => IsFiled(f, hs, text, p, q)
<1>. DEFINE E(i) == IF i = p THEN hs ELSE NextFiled(f, text, p, i)
<1>1. IsFiled(f, hs, text, p, q) <=> f = [i \in p .. q |-> E(i)]
  BY Zenon DEF IsFiled, NextFiled
<1>2. FiledBy(f, hs, text, p, q) <=> \A i \in p .. q : f[i] = E(i)
  BY Zenon DEF FiledBy
<1>. HIDE DEF E
<1>. QED  BY <1>1, <1>2, Zenon

(* The recursive function of Filed exists, and its value is what Filed is. *)
LEMMA FiledExists ==
  ASSUME NEW hs, NEW text, NEW p \in Nat \ {0}, NEW n \in Nat
  PROVE  \E f : IsFiled(f, hs, text, p, p + n)
<1>. DEFINE S == {k \in Nat : \E f : IsFiled(f, hs, text, p, p + k)}
<1>1. 0 \in S
  <2>. DEFINE f == [i \in p .. p + 0 |-> hs]
  <2>1. f = [i \in p .. p + 0 |-> f[i]] /\ \A i \in p .. p + 0 : i = p /\ f[i] = hs
    OBVIOUS
  <2>. HIDE DEF f
  <2>2. FiledBy(f, hs, text, p, p + 0)
    BY <2>1 DEF FiledBy
  <2>. QED  BY <2>1, <2>2, IsFiledBy
<1>2. ASSUME NEW k \in Nat, k \in S PROVE k + 1 \in S
  <2>1. PICK f : IsFiled(f, hs, text, p, p + k)
    BY <1>2
  <2>0. FiledBy(f, hs, text, p, p + k)
    BY <2>1, IsFiledBy
  <2>2. \A i \in p .. p + k : f[i] = IF i = p THEN hs ELSE NextFiled(f, text, p, i)
    BY <2>0, Zenon DEF FiledBy
  <2>. DEFINE N == NextFiled(f, text, p, p + k + 1)
              g == [i \in p .. p + (k + 1) |-> IF i = p + k + 1 THEN N ELSE f[i]]
  <2>3. /\ \A i \in p .. p + k : g[i] = f[i]
        /\ g[p + k + 1] = N
        /\ g = [i \in p .. p + (k + 1) |-> g[i]]
    <3>. HIDE DEF N
    <3>. QED  OBVIOUS
  <2>. HIDE DEF g
  <2>4. ASSUME NEW i \in p .. p + (k + 1), i # p PROVE NextFiled(g, text, p, i) = NextFiled(f, text, p, i)
    <3>1. i \in Nat /\ p < i
      BY <2>4
    <3>2. FieldBefore(text, p, i) \in p .. i - 1
      BY <3>1, StartWithin, Zenon
    <3>3. FieldBefore(text, p, i) \in p .. p + k
      BY <3>2, <2>4
    <3>. QED  BY <2>3, <3>3, Zenon DEF NextFiled
  <2>5. ASSUME NEW i \in p .. p + (k + 1) PROVE g[i] = IF i = p THEN hs ELSE NextFiled(g, text, p, i)
    <3>1. CASE i = p + k + 1
      <4>1. i # p
        BY <3>1
      <4>. QED  BY <2>3, <2>4, <3>1, <4>1, Zenon
    <3>2. CASE i # p + k + 1
      <4>1. i \in p .. p + k
        BY <3>2
      <4>. QED  BY <2>2, <2>3, <2>4, <4>1, Zenon
    <3>. QED  BY <3>1, <3>2
  <2>6. FiledBy(g, hs, text, p, p + (k + 1))
    BY <2>5, Zenon DEF FiledBy
  <2>7. IsFiled(g, hs, text, p, p + (k + 1))
    BY <2>3, <2>6, IsFiledBy, Zenon
  <2>. QED  BY <2>7
<1>. QED
  <2>. HIDE DEF S
  <2>1. n \in S
    BY <1>1, <1>2, NatSetInduction
  <2>. QED  BY <2>1 DEF S

LEMMA FiledIs ==
  ASSUME NEW hs, NEW text, NEW p \in Nat \ {0}, NEW q \in Nat, p <= q
  PROVE  \E f : FiledBy(f, hs, text, p, q) /\ Filed(hs, text, p, q) = f[q]
<1>. DEFINE f == CHOOSE f : IsFiled(f, hs, text, p, q)
<1>1. q - p \in Nat /\ p + (q - p) = q
  OBVIOUS
<1>2. \E g : IsFiled(g, hs, text, p, q)
  BY <1>1, FiledExists
<1>3. IsFiled(f, hs, text, p, q)
  BY <1>2, Zenon
<1>4. Filed(hs, text, p, q) = f[q]
  BY Zenon DEF Filed, IsFiled
<1>. QED  BY <1>3, <1>4, IsFiledBy, Zenon

SameFrom(f, g, p, q) == \A i \in p .. q : f[i] = g[i]

LEMMA FiledOnce ==
  ASSUME NEW hs, NEW text, NEW p \in Nat \ {0}, NEW q \in Nat,
         NEW f, FiledBy(f, hs, text, p, q), NEW g, FiledBy(g, hs, text, p, q)
  PROVE  SameFrom(f, g, p, q)
<1>. DEFINE S == {k \in Nat : \A i \in p .. q : i <= p + k => f[i] = g[i]}
<1>0. /\ \A i \in p .. q : f[i] = IF i = p THEN hs ELSE NextFiled(f, text, p, i)
      /\ \A i \in p .. q : g[i] = IF i = p THEN hs ELSE NextFiled(g, text, p, i)
  BY Zenon DEF FiledBy
<1>1. 0 \in S
  BY <1>0
<1>2. ASSUME NEW k \in Nat, k \in S PROVE k + 1 \in S
  <2>. SUFFICES ASSUME NEW i \in p .. q, i <= p + (k + 1) PROVE f[i] = g[i]
    OBVIOUS
  <2>1. CASE i = p
    BY <1>0, <2>1
  <2>2. CASE i # p
    <3>1. i \in Nat /\ p < i
      BY <2>2
    <3>2. FieldBefore(text, p, i) \in p .. i - 1
      BY <3>1, StartWithin, Zenon
    <3>3. FieldBefore(text, p, i) \in p .. q /\ FieldBefore(text, p, i) <= p + k
      BY <3>2
    <3>4. f[FieldBefore(text, p, i)] = g[FieldBefore(text, p, i)]
      BY <1>2, <3>3
    <3>5. NextFiled(f, text, p, i) = NextFiled(g, text, p, i)
      BY <3>4, Zenon DEF NextFiled
    <3>. QED  BY <1>0, <2>2, <3>5, Zenon
  <2>. QED  BY <2>1, <2>2
<1>3. Nat \subseteq S
  <2>. HIDE DEF S
  <2>. QED  BY <1>1, <1>2, NatSetInduction
<1>4. ASSUME NEW i \in p .. q PROVE f[i] = g[i]
  <2>1. i - p \in S
    BY <1>3
  <2>. QED  BY <2>1
<1>. QED  BY <1>4, Zenon DEF SameFrom

(* Nothing is filed before the first field has ended, and then one field   *)
(* after the other.                                                        *)
LEMMA FiledNothing ==
  ASSUME NEW hs, NEW text, NEW p \in Nat \ {0}
  PROVE  Filed(hs, text, p, p) = hs
<1>1. PICK f : FiledBy(f, hs, text, p, p) /\ Filed(hs, text, p, p) = f[p]
  BY FiledIs
<1>2. p \in p .. p
  OBVIOUS
<1>. QED  BY <1>1, <1>2, Zenon DEF FiledBy

(* The last field is added to what has been filed before it begins.        *)
LEMMA FiledNext ==
  ASSUME NEW hs, NEW text, NEW p \in Nat \ {0}, NEW q \in Nat,
         NEW s, IsStart(s, text, p, q)
  PROVE  Filed(hs, text, p, q) = AddField(Filed(hs, text, p, s), Part(text, s, q))
<1>0. s \in p .. q - 1 /\ s \in Nat /\ p <= s /\ p <= q /\ q # p /\ s \in p .. q /\ q \in p .. q
  BY DEF IsStart
<1>1. PICK f : FiledBy(f, hs, text, p, q) /\ Filed(hs, text, p, q) = f[q]
  BY <1>0, FiledIs
<1>2. PICK g : FiledBy(g, hs, text, p, s) /\ Filed(hs, text, p, s) = g[s]
  BY <1>0, FiledIs
<1>3. FiledBy(f, hs, text, p, s)
  <2>1. \A i \in p .. s : i \in p .. q
    BY <1>0
  <2>. QED  BY <1>1, <2>1, Zenon DEF FiledBy
<1>4. f[s] = g[s]
  <2>1. SameFrom(f, g, p, s)
    BY <1>0, <1>2, <1>3, FiledOnce, Zenon
  <2>2. s \in p .. s
    BY <1>0
  <2>. QED  BY <2>1, <2>2, Zenon DEF SameFrom
<1>5. FieldBefore(text, p, q) = s
  <2>1. p \in Nat
    OBVIOUS
  <2>. QED  BY <2>1, StartIs, Zenon
<1>6. f[q] = NextFiled(f, text, p, q)
  BY <1>0, <1>1, Zenon DEF FiledBy
<1>. QED  BY <1>1, <1>2, <1>4, <1>5, <1>6, Zenon DEF NextFiled

(* What has been filed is not changed by the characters that follow.       *)
LEMMA FiledStays ==
  ASSUME NEW hs, NEW text \in String, NEW p \in Nat \ {0}, NEW q \in Nat, p <= q,
         q <= Len(text) + 1, NEW ch \in Char
  PROVE  Filed(hs, Append(text, ch), p, q) = Filed(hs, text, p, q)
<1>. DEFINE t == Append(text, ch)
<1>0. Len(text) \in Nat
  BY Appended
<1>1. PICK f : FiledBy(f, hs, text, p, q) /\ Filed(hs, text, p, q) = f[q]
  BY FiledIs
<1>2. PICK g : FiledBy(g, hs, t, p, q) /\ Filed(hs, t, p, q) = g[q]
  BY FiledIs
<1>3. ASSUME NEW i \in p .. q PROVE f[i] = IF i = p THEN hs ELSE NextFiled(f, t, p, i)
  <2>1. f[i] = IF i = p THEN hs ELSE NextFiled(f, text, p, i)
    BY <1>1, Zenon DEF FiledBy
  <2>2. CASE i # p
    <3>. DEFINE s == FieldBefore(text, p, i)
    <3>1. i \in Nat /\ i <= Len(text) + 1 /\ p < i
      BY <1>0, <2>2
    <3>2. FieldBefore(t, p, i) = s
      BY <3>1, StartStays
    <3>3. s \in p .. i - 1
      BY <3>1, StartWithin, Zenon
    <3>. HIDE DEF s
    <3>4. s \in Nat \ {0} /\ i - 1 \in Int /\ i - 1 <= Len(text)
      BY <1>0, <3>1, <3>3
    <3>5. Part(t, s, i) = Part(text, s, i)
      BY <3>4, PartStays DEF Part
    <3>6. NextFiled(f, t, p, i) = NextFiled(f, text, p, i)
      BY <3>2, <3>5, Zenon DEF NextFiled, s
    <3>. QED  BY <2>1, <3>6, Zenon
  <2>. QED  BY <2>1, <2>2, Zenon
<1>4. FiledBy(f, hs, t, p, q)
  BY <1>3, Zenon DEF FiledBy
<1>5. SameFrom(f, g, p, q)
  BY <1>2, <1>4, FiledOnce
<1>6. q \in p .. q
  OBVIOUS
<1>. QED  BY <1>1, <1>2, <1>5, <1>6, Zenon DEF SameFrom
-----------------------------------------------------------------------------
(* Lines joined to a value: a character more.                              *)

JoinedWith(so, str, n) ==
  IF n > 1 /\ str[n - 1] = LF THEN Append(so, SP)
  ELSE IF str[n] \in {CR, LF} THEN so
  ELSE Append(so, str[n])

Joins(f, str, n) == f = [i \in 0 .. n |-> IF i = 0 THEN << >> ELSE JoinedWith(f[i - 1], str, i)]

JoinsTo(f, str, n) == \A i \in 0 .. n : f[i] = IF i = 0 THEN << >> ELSE JoinedWith(f[i - 1], str, i)

LEMMA JoinsByPlaces ==
  ASSUME NEW f, NEW str, NEW n
  PROVE  /\ Joins(f, str, n) => JoinsTo(f, str, n)
         /\ f = [i \in 0 .. n |-> f[i]] /\ JoinsTo(f, str, n) => Joins(f, str, n)
<1>. DEFINE E(i) == IF i = 0 THEN << >> ELSE JoinedWith(f[i - 1], str, i)
<1>1. Joins(f, str, n) <=> f = [i \in 0 .. n |-> E(i)]
  BY Zenon DEF Joins
<1>2. JoinsTo(f, str, n) <=> \A i \in 0 .. n : f[i] = E(i)
  BY Zenon DEF JoinsTo
<1>. HIDE DEF E
<1>. QED  BY <1>1, <1>2, Zenon

LEMMA JoinsExists ==
  ASSUME NEW str, NEW n \in Nat
  PROVE  \E f : Joins(f, str, n)
<1>. DEFINE S == {k \in Nat : \E f : Joins(f, str, k)}
<1>1. 0 \in S
  <2>. DEFINE f == [i \in 0 .. 0 |-> << >>]
  <2>1. f = [i \in 0 .. 0 |-> f[i]] /\ \A i \in 0 .. 0 : i = 0 /\ f[i] = << >>
    OBVIOUS
  <2>. HIDE DEF f
  <2>2. JoinsTo(f, str, 0)
    BY <2>1 DEF JoinsTo
  <2>. QED  BY <2>1, <2>2, JoinsByPlaces
<1>2. ASSUME NEW k \in Nat, k \in S PROVE k + 1 \in S
  <2>1. PICK f : Joins(f, str, k)
    BY <1>2
  <2>2. JoinsTo(f, str, k)
    BY <2>1, JoinsByPlaces
  <2>3. \A i \in 0 .. k : f[i] = IF i = 0 THEN << >> ELSE JoinedWith(f[i - 1], str, i)
    BY <2>2, Zenon DEF JoinsTo
  <2>. DEFINE N == JoinedWith(f[k], str, k + 1)
              g == [i \in 0 .. k + 1 |-> IF i = k + 1 THEN N ELSE f[i]]
  <2>4. /\ \A i \in 0 .. k : g[i] = f[i]
        /\ g[k + 1] = N
        /\ g = [i \in 0 .. k + 1 |-> g[i]]
    <3>. HIDE DEF N
    <3>. QED  OBVIOUS
  <2>. HIDE DEF g
  <2>5. ASSUME NEW i \in 0 .. k + 1
        PROVE  g[i] = IF i = 0 THEN << >> ELSE JoinedWith(g[i - 1], str, i)
    <3>1. CASE i = k + 1
      <4>1. i # 0 /\ i - 1 = k /\ k \in 0 .. k
        BY <3>1
      <4>. QED  BY <2>4, <3>1, <4>1, Zenon
    <3>2. CASE i # k + 1
      <4>1. i \in 0 .. k /\ (i # 0 => i - 1 \in 0 .. k)
        BY <3>2
      <4>. QED  BY <2>3, <2>4, <4>1, Zenon
    <3>. QED  BY <3>1, <3>2
  <2>6. JoinsTo(g, str, k + 1)
    BY <2>5, Zenon DEF JoinsTo
  <2>7. Joins(g, str, k + 1)
    BY <2>4, <2>6, JoinsByPlaces, Zenon
  <2>. QED  BY <2>7
<1>. QED
  <2>. HIDE DEF S
  <2>1. n \in S
    BY <1>1, <1>2, NatSetInduction
  <2>. QED  BY <2>1 DEF S

LEMMA JoinedIs ==
  ASSUME NEW str \in String
  PROVE  \E f : JoinsTo(f, str, Len(str)) /\ Joined(str) = f[Len(str)]
<1>. DEFINE f == CHOOSE f : Joins(f, str, Len(str))
<1>1. Joins(f, str, Len(str))
  BY JoinsExists, Len(str) \in Nat DEF String
<1>2. Joined(str) = f[Len(str)]
  BY Zenon DEF Joined, Joins, JoinedWith
<1>. QED  BY <1>1, <1>2, JoinsByPlaces, Zenon

LEMMA JoinedNothing == Joined(<< >>) = << >>
<1>1. << >> \in String /\ Len(<< >>) = 0 /\ 0 \in 0 .. 0
  BY DEF String
<1>2. PICK f : JoinsTo(f, << >>, Len(<< >>)) /\ Joined(<< >>) = f[Len(<< >>)]
  BY <1>1, JoinedIs
<1>. QED  BY <1>1, <1>2, Zenon DEF JoinsTo

(* What one more character adds to a folded line: itself, nothing for a    *)
(* line break, and a space for the blank behind one.                       *)
LEMMA JoinedAppend ==
  ASSUME NEW str \in String, NEW ch \in Char
  PROVE  Joined(Append(str, ch)) =
           IF Len(str) > 0 /\ str[Len(str)] = LF THEN Append(Joined(str), SP)
           ELSE IF ch \in {CR, LF} THEN Joined(str)
           ELSE Append(Joined(str), ch)
<1>. DEFINE n == Len(str)
            t == Append(str, ch)
<1>1. n \in Nat /\ t \in String /\ Len(t) = n + 1 /\ t[n + 1] = ch /\ \A i \in 1 .. n : t[i] = str[i]
  BY Appended
<1>2. PICK f : JoinsTo(f, str, n) /\ Joined(str) = f[n]
  BY JoinedIs
<1>3. PICK g : JoinsTo(g, t, n + 1) /\ Joined(t) = g[n + 1]
  BY <1>1, JoinedIs
<1>. HIDE DEF n, t
<1>4. /\ \A i \in 0 .. n : f[i] = IF i = 0 THEN << >> ELSE JoinedWith(f[i - 1], str, i)
      /\ \A i \in 0 .. n + 1 : g[i] = IF i = 0 THEN << >> ELSE JoinedWith(g[i - 1], t, i)
  BY <1>2, <1>3, Zenon DEF JoinsTo
<1>. DEFINE S == {k \in Nat : k <= n => g[k] = f[k]}
<1>5. 0 \in S
  <2>1. 0 \in 0 .. n /\ 0 \in 0 .. n + 1
    BY <1>1
  <2>. QED  BY <1>4, <2>1
<1>6. ASSUME NEW k \in Nat, k \in S PROVE k + 1 \in S
  <2>. SUFFICES ASSUME k + 1 <= n PROVE g[k + 1] = f[k + 1]
    OBVIOUS
  <2>1. k + 1 \in 0 .. n /\ k + 1 \in 0 .. n + 1 /\ k + 1 # 0 /\ (k + 1) - 1 = k /\ g[k] = f[k]
    BY <1>1, <1>6
  <2>2. g[k + 1] = JoinedWith(g[k], t, k + 1) /\ f[k + 1] = JoinedWith(f[k], str, k + 1)
    BY <1>4, <2>1, Zenon
  <2>3. t[k + 1] = str[k + 1] /\ (k + 1 > 1 => t[(k + 1) - 1] = str[(k + 1) - 1])
    BY <1>1
  <2>4. JoinedWith(g[k], t, k + 1) = JoinedWith(g[k], str, k + 1)
    BY <2>3, Zenon DEF JoinedWith
  <2>. QED  BY <2>1, <2>2, <2>4, Zenon
<1>7. g[n] = f[n]
  <2>. HIDE DEF S
  <2>1. n \in S
    BY <1>1, <1>5, <1>6, NatSetInduction
  <2>. QED  BY <1>1, <2>1 DEF S
<1>8. g[n + 1] = JoinedWith(g[n], t, n + 1)
  <2>1. n + 1 \in 0 .. n + 1 /\ n + 1 # 0 /\ (n + 1) - 1 = n
    BY <1>1
  <2>. QED  BY <1>4, <2>1, Zenon
<1>9. /\ t[n + 1] = ch /\ (n + 1) - 1 = n
      /\ n > 0 <=> n + 1 > 1
      /\ n > 0 => t[n] = str[n]
  BY <1>1
<1>10. JoinedWith(f[n], t, n + 1) = IF n > 0 /\ str[n] = LF THEN Append(f[n], SP)
                                    ELSE IF ch \in {CR, LF} THEN f[n] ELSE Append(f[n], ch)
  BY <1>9, Zenon DEF JoinedWith
<1>11. Joined(t) = JoinedWith(f[n], t, n + 1) /\ f[n] = Joined(str)
  BY <1>2, <1>3, <1>7, <1>8, Zenon
<1>. QED  BY <1>10, <1>11, Zenon DEF n, t
-----------------------------------------------------------------------------
(* The buffers of the field that has been read as far as str.              *)

AllTokens(name) == \A i \in 1 .. Len(name) : isToken(name[i])

Unnamed(str, name, v) == name = str /\ v = << >> /\ AllTokens(name)

Named(str, name, v) ==
  /\ AllTokens(name)
  /\ \E c : /\ IsFirst(c, str, 1, {Colon})
            /\ name = SubSeq(str, 1, c - 1) /\ v = Joined(SubSeq(str, c + 1, Len(str)))

LEMMA TokenIsNot ==
  ASSUME NEW ch \in Char, isToken(ch)
  PROVE  ch # Colon /\ ch # LF /\ ch # CR /\ ch \notin White /\ ch \notin Blank
BY DEF isToken, isControl, isSeparator, isSpaceOrTab, isSpace, isTab, Colon, LF, CR, White, SP, HT,
       Blank, Char

LEMMA NameBegins ==
  ASSUME NEW ch \in Char, isToken(ch)
  PROVE  Unnamed(<<ch>>, <<ch>>, << >>)
BY DEF Unnamed, AllTokens

LEMMA NameGoesOn ==
  ASSUME NEW str \in String, NEW name, NEW v, Unnamed(str, name, v), NEW ch \in Char, isToken(ch)
  PROVE  Unnamed(Append(str, ch), Append(name, ch), v)
<1>1. ASSUME NEW i \in 1 .. Len(str) + 1 PROVE isToken(Append(str, ch)[i])
  <2>1. CASE i = Len(str) + 1
    BY <2>1, Appended
  <2>2. CASE i # Len(str) + 1
    <3>1. i \in 1 .. Len(str)
      BY <2>2, Appended
    <3>. QED  BY <3>1, Appended DEF Unnamed, AllTokens
  <2>. QED  BY <2>1, <2>2
<1>. QED  BY <1>1, Appended DEF Unnamed, AllTokens

LEMMA NameEnds ==
  ASSUME NEW str \in String, NEW name, NEW v, Unnamed(str, name, v)
  PROVE  Named(Append(str, Colon), name, v)
<1>. DEFINE n == Len(str)
            t == Append(str, Colon)
<1>1. Colon \in Char /\ n \in Nat /\ Len(t) = n + 1
  BY Appended DEF Colon, Char
<1>2. NotYet(str, 1, {Colon})
  <2>. SUFFICES ASSUME NEW i \in From(str, 1) PROVE str[i] # Colon
    BY DEF NotYet
  <2>1. i \in 1 .. Len(str) /\ str[i] \in Char /\ isToken(str[i])
    BY DEF From, Unnamed, AllTokens, String
  <2>. QED  BY <2>1, TokenIsNot
<1>3. IsFirst(n + 1, t, 1, {Colon})
  BY <1>1, <1>2, FirstHere
<1>4. SubSeq(t, 1, (n + 1) - 1) = str
  <2>1. SubSeq(t, 1, n) = SubSeq(str, 1, n)
    BY <1>1, PartStays
  <2>2. SubSeq(str, 1, n) = str
    BY SubSeqFull, Zenon DEF String
  <2>. QED  BY <1>1, <2>1, <2>2
<1>5. SubSeq(t, (n + 1) + 1, Len(t)) = << >>
  BY <1>1
<1>. HIDE DEF n, t
<1>6. Named(t, str, << >>)
  <2>1. AllTokens(str)
    BY DEF Unnamed
  <2>. QED  BY <1>3, <1>4, <1>5, <2>1, JoinedNothing, Zenon DEF Named
<1>. QED  BY <1>6 DEF t, Unnamed

(* The value that the parser keeps grows as the joined text does.          *)
LEMMA ValueGoesOn ==
  ASSUME NEW str \in String, NEW name, NEW v, Named(str, name, v), NEW ch \in Char
  PROVE  Named(Append(str, ch), name, IF str[Len(str)] = LF THEN Append(v, SP)
                                      ELSE IF ch \in {CR, LF} THEN v ELSE Append(v, ch))
<1>. DEFINE n == Len(str)
            t == Append(str, ch)
<1>1. n \in Nat /\ Len(t) = n + 1
  BY Appended
<1>2. PICK c : /\ IsFirst(c, str, 1, {Colon})
               /\ name = SubSeq(str, 1, c - 1) /\ v = Joined(SubSeq(str, c + 1, Len(str)))
  BY DEF Named
<1>3. IsFirst(c, t, 1, {Colon})
  BY <1>2, FirstStays
<1>4. c \in 1 .. n /\ str[c] = Colon
  BY <1>2 DEF IsFirst, From
<1>5. SubSeq(t, 1, c - 1) = SubSeq(str, 1, c - 1)
  BY <1>1, <1>4, PartStays
<1>. DEFINE u == SubSeq(str, c + 1, n)
<1>6. u \in String /\ Len(u) = n - c /\ SubSeq(t, c + 1, n + 1) = Append(u, ch)
  <2>1. c + 1 \in 1 .. Len(str) + 1
    BY <1>1, <1>4
  <2>2. /\ SubSeq(t, c + 1, n + 1) = Append(u, ch) /\ u \in String
        /\ Len(u) = n + 1 - (c + 1)
    BY <2>1, PartGrows, Zenon
  <2>3. n + 1 - (c + 1) = n - c
    BY <1>1, <1>4
  <2>. QED  BY <2>2, <2>3, Zenon
<1>7. Len(u) > 0 /\ u[Len(u)] = LF <=> str[n] = LF
  <2>1. CASE c = n
    BY <1>1, <1>4, <1>6, <2>1 DEF Colon, LF
  <2>2. CASE c # n
    <3>1. n - c \in 1 .. n - c
      BY <1>1, <1>4, <2>2
    <3>2. u[n - c] = str[n - c + (c + 1) - 1]
      <4>1. str \in Seq(Char) /\ \A i \in c + 1 .. n : i \in DOMAIN str
        BY <1>1, <1>4 DEF String
      <4>2. \A i \in 1 .. n - (c + 1) + 1 : u[i] = str[i + (c + 1) - 1]
        BY <1>1, <1>4, <4>1
      <4>3. n - c \in 1 .. n - (c + 1) + 1
        BY <1>1, <1>4, <3>1
      <4>. HIDE DEF u
      <4>. QED  BY <4>2, <4>3
    <3>3. n - c + (c + 1) - 1 = n
      BY <1>1, <1>4
    <3>. HIDE DEF u
    <3>. QED  BY <1>1, <1>4, <1>6, <3>1, <3>2, <3>3
  <2>. QED  BY <2>1, <2>2
<1>. HIDE DEF u
<1>8. Joined(Append(u, ch)) = IF str[n] = LF THEN Append(Joined(u), SP)
                              ELSE IF ch \in {CR, LF} THEN Joined(u) ELSE Append(Joined(u), ch)
  BY <1>6, <1>7, JoinedAppend
<1>9. AllTokens(name)
  BY DEF Named
<1>. QED  BY <1>1, <1>2, <1>3, <1>5, <1>6, <1>8, <1>9, Zenon DEF Named, u

(* The field that the parser files is the one that the reading adds.       *)
LEMMA FieldAdded ==
  ASSUME NEW hs, NEW str \in String, NEW name \in String, NEW v, Named(str, name, v)
  PROVE  add(hs, trim(name), trim(v)) = AddField(hs, str)
<1>1. PICK c : /\ IsFirst(c, str, 1, {Colon})
               /\ name = SubSeq(str, 1, c - 1) /\ v = Joined(SubSeq(str, c + 1, Len(str)))
  BY DEF Named
<1>2. First(str, 1, {Colon}) = c
  BY <1>1, FirstIs
<1>3. trim(name) = name
  <2>1. ASSUME NEW i \in 1 .. Len(name) PROVE name[i] \notin Blank
    <3>1. name[i] \in Char /\ isToken(name[i])
      BY DEF String, Named, AllTokens
    <3>. QED  BY <3>1, TokenIsNot
  <2>. QED  BY <2>1, TrimNothing
<1>4. (Len(str) + 1) - 1 = Len(str)
  BY Appended
<1>. QED  BY <1>1, <1>2, <1>3, <1>4, Zenon DEF AddField, Part
-----------------------------------------------------------------------------
(* A section of header fields, the header or a trailer, that starts at p   *)
(* with the headers given and has been read to the end of text.  phase is  *)
(* what its states have in common.                                         *)

LineEndsWith(phase, ch) ==
  /\ phase \in {"Name", "Value"} => ch # LF
  /\ phase = "LF"  => ch = CR
  /\ phase = "LWS" => ch = LF

FieldRead(phase, str, name, v) ==
  IF phase = "Name" THEN Unnamed(str, name, v) ELSE Named(str, name, v)

InField(phase, text, p, given, hs, name, v) ==
  \E s : /\ IsStart(s, text, p, Len(text) + 1) /\ hs = Filed(given, text, p, s)
         /\ FieldRead(phase, SubSeq(text, s, Len(text)), name, v)

InSection(phase, text, p, given, hs, name, v) ==
  /\ phase = "Start" => Len(text) + 1 = p /\ text[Len(text)] = LF /\ hs = given
  /\ phase \in {"Name", "Value", "LF", "LWS"} =>
       /\ NoEmptyLine(text, p) /\ LineEndsWith(phase, text[Len(text)])
       /\ InField(phase, text, p, given, hs, name, v)
  /\ phase = "End" => IsEmptyLine(Len(text), text, p) /\ hs = Filed(given, text, p, Len(text))

GoesOn(text, ch) == text[Len(text)] # LF \/ ch \in White

FieldGoesOn(text, new, p, s, given, ch) ==
  /\ IsStart(s, new, p, Len(new) + 1)
  /\ Filed(given, new, p, s) = Filed(given, text, p, s)
  /\ SubSeq(new, s, Len(new)) = Append(SubSeq(text, s, Len(text)), ch)
  /\ SubSeq(text, s, Len(text)) \in String
  /\ SubSeq(text, s, Len(text))[Len(SubSeq(text, s, Len(text)))] = text[Len(text)]

(* A character that goes on with a field leaves where it starts, and what  *)
(* has been filed before it.                                               *)
LEMMA FieldStays ==
  ASSUME NEW text \in String, NEW p \in Nat, p >= 2, NEW s, IsStart(s, text, p, Len(text) + 1),
         NEW ch \in Char, GoesOn(text, ch), NEW given
  PROVE  FieldGoesOn(text, Append(text, ch), p, s, given, ch)
<1>. DEFINE n == Len(text)
            t == Append(text, ch)
            u == SubSeq(text, s, n)
<1>1. /\ n \in Nat /\ Len(t) = n + 1 /\ t[n + 1] = ch /\ \A i \in 1 .. n : t[i] = text[i]
  BY Appended
<1>2. s \in p .. n /\ (s = p \/ Starts(text, s)) /\ \A i \in s + 1 .. n : ~Starts(text, i)
  BY <1>1 DEF IsStart
<1>3. \A i \in s .. n : i \in 1 .. n /\ i - 1 \in 1 .. n
  BY <1>1, <1>2
<1>4. \A i \in s .. n : Starts(t, i) <=> Starts(text, i)
  BY <1>1, <1>3 DEF Starts
<1>5. ~Starts(t, n + 1)
  <2>1. t[(n + 1) - 1] = text[n] /\ n \in 1 .. n
    BY <1>1, <1>2, <1>3
  <2>. QED  BY <1>1, <2>1 DEF Starts, GoesOn
<1>6. IsStart(s, t, p, Len(t) + 1)
  <2>1. s \in p .. (n + 1 + 1) - 1 /\ s \in s .. n
    BY <1>1, <1>2
  <2>2. ASSUME NEW i \in s + 1 .. (n + 1 + 1) - 1 PROVE ~Starts(t, i)
    <3>1. i = n + 1 \/ (i \in s + 1 .. n /\ i \in s .. n)
      BY <1>1, <1>2
    <3>. QED  BY <1>2, <1>4, <1>5, <3>1
  <2>3. s = p \/ Starts(t, s)
    BY <1>2, <1>4, <2>1
  <2>. QED  BY <1>1, <2>1, <2>2, <2>3 DEF IsStart
<1>7. Filed(given, t, p, s) = Filed(given, text, p, s)
  <2>1. s \in Nat /\ p <= s /\ s <= Len(text) + 1 /\ p \in Nat \ {0}
    BY <1>1, <1>2
  <2>. QED  BY <2>1, FiledStays
<1>8. s \in 1 .. Len(text) + 1
  BY <1>1, <1>2
<1>9. /\ SubSeq(t, s, n + 1) = Append(u, ch) /\ u \in String /\ Len(u) = n + 1 - s
  BY <1>8, PartGrows, Zenon
<1>10. u[n + 1 - s] = text[n]
  <2>1. text \in Seq(Char) /\ \A i \in s .. n : i \in DOMAIN text
    BY <1>1, <1>2, <1>3 DEF String
  <2>2. \A i \in 1 .. n - s + 1 : u[i] = text[i + s - 1]
    BY <1>1, <1>2, <2>1
  <2>3. n + 1 - s \in 1 .. n - s + 1 /\ (n + 1 - s) + s - 1 = n
    BY <1>1, <1>2
  <2>. HIDE DEF u
  <2>. QED  BY <2>2, <2>3
<1>. QED  BY <1>1, <1>6, <1>7, <1>9, <1>10, Zenon DEF FieldGoesOn

LEMMA SectionWithin ==
  ASSUME NEW text \in String, NEW p \in Nat, p >= 2, NEW s, IsStart(s, text, p, Len(text) + 1)
  PROVE  s \in 1 .. Len(text) /\ p <= Len(text) + 1 /\ p \in Nat \ {0}
BY Appended DEF IsStart

(* The first character of the first name of a section.                     *)
LEMMA SectionName ==
  ASSUME NEW text \in String, NEW p \in Nat, p >= 2, NEW given, NEW hs, NEW name, NEW v,
         InSection("Start", text, p, given, hs, name, v), NEW ch \in Char, isToken(ch)
  PROVE  InSection("Name", Append(text, ch), p, given, hs, <<ch>>, << >>)
<1>. DEFINE n == Len(text)
            t == Append(text, ch)
<1>1. n \in Nat /\ Len(t) = n + 1 /\ t[n + 1] = ch /\ p = n + 1 /\ hs = given
  BY Appended DEF InSection
<1>2. NoEmptyLine(t, p) /\ LineEndsWith("Name", t[Len(t)])
  BY <1>1, TokenIsNot DEF NoEmptyLine, From, LineEndsWith
<1>3. IsStart(p, t, p, Len(t) + 1)
  BY <1>1 DEF IsStart
<1>4. SubSeq(t, p, Len(t)) = <<ch>>
  <2>1. n + 1 \in 1 .. Len(text) + 1
    BY <1>1
  <2>2. SubSeq(t, n + 1, n + 1) = Append(SubSeq(text, n + 1, n), ch)
    BY <2>1, PartGrows, Zenon
  <2>3. SubSeq(text, n + 1, n) = << >> /\ Append(<< >>, ch) = <<ch>>
    BY <1>1
  <2>. QED  BY <1>1, <2>2, <2>3, Zenon
<1>5. Filed(given, t, p, p) = given
  BY FiledNothing
<1>. HIDE DEF n, t
<1>6. InField("Name", t, p, given, hs, <<ch>>, << >>)
  BY <1>1, <1>3, <1>4, <1>5, NameBegins, Zenon DEF InField, FieldRead
<1>. QED  BY <1>2, <1>6 DEF InSection, t

(* A section without fields.                                               *)
LEMMA SectionNothing ==
  ASSUME NEW text \in String, NEW p \in Nat, p >= 2, NEW given, NEW hs, NEW name, NEW v,
         InSection("Start", text, p, given, hs, name, v), NEW x, NEW y
  PROVE  InSection("End", Append(text, CR), p, given, hs, x, y)
<1>. DEFINE n == Len(text)
            t == Append(text, CR)
<1>0. CR \in Char
  BY DEF CR, Char
<1>1. n \in Nat /\ Len(t) = n + 1 /\ p = n + 1 /\ p <= Len(text) + 1 /\ text[n] = LF /\ hs = given
  BY <1>0, Appended DEF InSection
<1>2. NoEmptyLine(text, p)
  BY <1>1 DEF NoEmptyLine, From
<1>3. IsEmptyLine(n + 1, t, p)
  BY <1>1, <1>2, EmptyLineHere
<1>4. Filed(given, t, p, p) = given
  BY FiledNothing
<1>. QED  BY <1>1, <1>3, <1>4 DEF InSection

(* One more character of a name, and the colon behind it.                  *)
LEMMA SectionNameGoesOn ==
  ASSUME NEW text \in String, NEW p \in Nat, p >= 2, NEW given, NEW hs, NEW name, NEW v,
         InSection("Name", text, p, given, hs, name, v), NEW ch \in Char, isToken(ch)
  PROVE  InSection("Name", Append(text, ch), p, given, hs, Append(name, ch), v)
<1>. DEFINE t == Append(text, ch)
<1>1. PICK s : /\ IsStart(s, text, p, Len(text) + 1) /\ hs = Filed(given, text, p, s)
               /\ Unnamed(SubSeq(text, s, Len(text)), name, v)
  BY DEF InSection, InField, FieldRead
<1>2. text[Len(text)] # LF /\ NoEmptyLine(text, p)
  BY DEF InSection, LineEndsWith
<1>3. NoEmptyLine(t, p)
  BY <1>2, NoEmptyLineStays
<1>4. LineEndsWith("Name", t[Len(t)])
  BY Appended, TokenIsNot DEF LineEndsWith
<1>5. /\ IsStart(s, t, p, Len(t) + 1) /\ Filed(given, t, p, s) = Filed(given, text, p, s)
      /\ SubSeq(t, s, Len(t)) = Append(SubSeq(text, s, Len(text)), ch)
      /\ SubSeq(text, s, Len(text)) \in String
  <2>1. GoesOn(text, ch)
    BY <1>2 DEF GoesOn
  <2>2. FieldGoesOn(text, t, p, s, given, ch)
    BY <1>1, <2>1, FieldStays, Zenon
  <2>. QED  BY <2>2 DEF FieldGoesOn
<1>6. Unnamed(Append(SubSeq(text, s, Len(text)), ch), Append(name, ch), v)
  BY <1>1, <1>5, NameGoesOn, Zenon
<1>. HIDE DEF t
<1>7. InField("Name", t, p, given, hs, Append(name, ch), v)
  BY <1>1, <1>5, <1>6, Zenon DEF InField, FieldRead
<1>. QED  BY <1>3, <1>4, <1>7 DEF InSection, t

LEMMA SectionColon ==
  ASSUME NEW text \in String, NEW p \in Nat, p >= 2, NEW given, NEW hs, NEW name, NEW v,
         InSection("Name", text, p, given, hs, name, v)
  PROVE  InSection("Value", Append(text, Colon), p, given, hs, name, v)
<1>. DEFINE t == Append(text, Colon)
<1>0. Colon \in Char /\ Colon # LF /\ Colon # CR
  BY DEF Colon, Char, LF, CR
<1>1. PICK s : /\ IsStart(s, text, p, Len(text) + 1) /\ hs = Filed(given, text, p, s)
               /\ Unnamed(SubSeq(text, s, Len(text)), name, v)
  BY DEF InSection, InField, FieldRead
<1>2. text[Len(text)] # LF /\ NoEmptyLine(text, p)
  BY DEF InSection, LineEndsWith
<1>3. NoEmptyLine(t, p)
  BY <1>0, <1>2, NoEmptyLineStays
<1>4. LineEndsWith("Value", t[Len(t)])
  BY <1>0, Appended DEF LineEndsWith
<1>5. /\ IsStart(s, t, p, Len(t) + 1) /\ Filed(given, t, p, s) = Filed(given, text, p, s)
      /\ SubSeq(t, s, Len(t)) = Append(SubSeq(text, s, Len(text)), Colon)
      /\ SubSeq(text, s, Len(text)) \in String
  <2>1. GoesOn(text, Colon)
    BY <1>2 DEF GoesOn
  <2>2. FieldGoesOn(text, t, p, s, given, Colon)
    BY <1>0, <1>1, <2>1, FieldStays
  <2>. QED  BY <2>2 DEF FieldGoesOn
<1>6. Named(Append(SubSeq(text, s, Len(text)), Colon), name, v)
  BY <1>1, <1>5, NameEnds, Zenon
<1>. HIDE DEF t
<1>7. InField("Value", t, p, given, hs, name, v)
  <2>1. "Value" # "Name"
    OBVIOUS
  <2>. QED  BY <1>1, <1>5, <1>6, <2>1, Zenon DEF InField, FieldRead
<1>. QED  BY <1>3, <1>4, <1>7 DEF InSection, t

(* One more character of a value, of its line break, or of the blank with  *)
(* which it goes on.                                                       *)
LEMMA SectionValue ==
  ASSUME NEW text \in String, NEW p \in Nat, p >= 2, NEW given, NEW hs, NEW name, NEW v,
         NEW phase \in {"Value", "LF", "LWS"}, InSection(phase, text, p, given, hs, name, v),
         NEW next \in {"Value", "LF", "LWS"}, NEW ch \in Char,
         GoesOn(text, ch), LineEndsWith(next, ch)
  PROVE  InSection(next, Append(text, ch), p, given, hs, name,
                   IF text[Len(text)] = LF THEN Append(v, SP)
                   ELSE IF ch \in {CR, LF} THEN v ELSE Append(v, ch))
<1>. DEFINE t == Append(text, ch)
            w == IF text[Len(text)] = LF THEN Append(v, SP)
                 ELSE IF ch \in {CR, LF} THEN v ELSE Append(v, ch)
<1>0. phase # "Name" /\ next # "Name" /\ phase # "Start" /\ phase # "End"
  OBVIOUS
<1>1. PICK s : /\ IsStart(s, text, p, Len(text) + 1) /\ hs = Filed(given, text, p, s)
               /\ Named(SubSeq(text, s, Len(text)), name, v)
  BY <1>0 DEF InSection, InField, FieldRead
<1>2. NoEmptyLine(text, p)
  BY DEF InSection
<1>3. NoEmptyLine(t, p)
  <2>1. ch = CR => text[Len(text)] # LF
    BY DEF GoesOn, White, SP, HT, CR
  <2>. QED  BY <1>2, <2>1, NoEmptyLineStays
<1>4. LineEndsWith(next, t[Len(t)])
  BY Appended
<1>5. /\ IsStart(s, t, p, Len(t) + 1) /\ Filed(given, t, p, s) = Filed(given, text, p, s)
      /\ SubSeq(t, s, Len(t)) = Append(SubSeq(text, s, Len(text)), ch)
      /\ SubSeq(text, s, Len(text)) \in String
      /\ SubSeq(text, s, Len(text))[Len(SubSeq(text, s, Len(text)))] = text[Len(text)]
  <2>1. FieldGoesOn(text, t, p, s, given, ch)
    BY <1>1, FieldStays, Zenon
  <2>. QED  BY <2>1 DEF FieldGoesOn
<1>6. Named(Append(SubSeq(text, s, Len(text)), ch), name, w)
  <2>. DEFINE u == SubSeq(text, s, Len(text))
  <2>1. u \in String /\ Named(u, name, v) /\ u[Len(u)] = text[Len(text)]
    BY <1>1, <1>5
  <2>. HIDE DEF u
  <2>2. Named(Append(u, ch), name, w)
    BY <2>1, ValueGoesOn
  <2>. QED  BY <2>2 DEF u
<1>. HIDE DEF t, w
<1>7. InField(next, t, p, given, hs, name, w)
  BY <1>0, <1>1, <1>5, <1>6, Zenon DEF InField, FieldRead
<1>8. InSection(next, t, p, given, hs, name, w)
  BY <1>3, <1>4, <1>7 DEF InSection
<1>. QED  BY <1>8 DEF t, w

(* The next field, or the empty line, files the field before it.           *)
LEMMA SectionFiles ==
  ASSUME NEW text \in String, NEW p \in Nat, p >= 2, NEW given, NEW hs, NEW name \in String, NEW v,
         InSection("LWS", text, p, given, hs, name, v), NEW ch \in Char
  PROVE  Filed(given, Append(text, ch), p, Len(text) + 1) = add(hs, trim(name), trim(v))
<1>. DEFINE n == Len(text)
<1>1. PICK s : /\ IsStart(s, text, p, Len(text) + 1) /\ hs = Filed(given, text, p, s)
               /\ Named(SubSeq(text, s, Len(text)), name, v)
  BY DEF InSection, InField, FieldRead
<1>2. n \in Nat /\ s \in 1 .. n /\ p \in Nat \ {0} /\ p <= n + 1 /\ n + 1 \in Nat /\ (n + 1) - 1 = n
  BY <1>1, SectionWithin, Appended
<1>3. Filed(given, Append(text, ch), p, n + 1) = Filed(given, text, p, n + 1)
  BY <1>2, FiledStays
<1>4. Filed(given, text, p, n + 1) = AddField(hs, Part(text, s, n + 1))
  BY <1>1, <1>2, FiledNext
<1>5. SubSeq(text, s, n) \in String
  <2>1. s \in 1 .. Len(text) + 1
    BY <1>2
  <2>. QED  BY <2>1, PartGrows, Appended
<1>6. add(hs, trim(name), trim(v)) = AddField(hs, SubSeq(text, s, n))
  BY <1>1, <1>5, FieldAdded, Zenon
<1>. QED  BY <1>2, <1>3, <1>4, <1>6, Zenon DEF Part

LEMMA SectionNext ==
  ASSUME NEW text \in String, NEW p \in Nat, p >= 2, NEW given, NEW hs, NEW name \in String, NEW v,
         InSection("LWS", text, p, given, hs, name, v), NEW ch \in Char, isToken(ch)
  PROVE  InSection("Name", Append(text, ch), p, given, add(hs, trim(name), trim(v)), <<ch>>, << >>)
<1>. DEFINE n == Len(text)
            t == Append(text, ch)
            new == add(hs, trim(name), trim(v))
<1>1. PICK s : IsStart(s, text, p, Len(text) + 1)
  BY DEF InSection, InField
<1>2. /\ n \in Nat /\ Len(t) = n + 1 /\ t[n + 1] = ch /\ n \in 1 .. n /\ t[n] = text[n]
      /\ p <= n + 1
  <2>1. s \in 1 .. n /\ p <= n + 1
    BY <1>1, SectionWithin, Zenon
  <2>. QED  BY <2>1, Appended
<1>3. text[n] = LF /\ NoEmptyLine(text, p) /\ ch \notin White /\ ch # LF /\ ch # CR
  BY TokenIsNot DEF InSection, LineEndsWith
<1>4. NoEmptyLine(t, p) /\ LineEndsWith("Name", t[Len(t)])
  BY <1>2, <1>3, NoEmptyLineStays DEF LineEndsWith
<1>5. IsStart(n + 1, t, p, Len(t) + 1)
  <2>1. Starts(t, n + 1)
    BY <1>2, <1>3 DEF Starts
  <2>. QED  BY <1>2, <2>1 DEF IsStart
<1>6. SubSeq(t, n + 1, Len(t)) = <<ch>>
  <2>1. n + 1 \in 1 .. Len(text) + 1
    BY <1>2
  <2>2. SubSeq(t, n + 1, n + 1) = Append(SubSeq(text, n + 1, n), ch)
    BY <2>1, PartGrows, Zenon
  <2>3. SubSeq(text, n + 1, n) = << >> /\ Append(<< >>, ch) = <<ch>>
    BY <1>2
  <2>. QED  BY <1>2, <2>2, <2>3, Zenon
<1>7. Filed(given, t, p, n + 1) = new
  BY SectionFiles
<1>. HIDE DEF n, t, new
<1>8. InField("Name", t, p, given, new, <<ch>>, << >>)
  BY <1>2, <1>5, <1>6, <1>7, NameBegins, Zenon DEF InField, FieldRead
<1>. QED  BY <1>4, <1>8 DEF InSection, t, new

LEMMA SectionEnds ==
  ASSUME NEW text \in String, NEW p \in Nat, p >= 2, NEW given, NEW hs, NEW name \in String, NEW v,
         InSection("LWS", text, p, given, hs, name, v), NEW x, NEW y
  PROVE  InSection("End", Append(text, CR), p, given, add(hs, trim(name), trim(v)), x, y)
<1>. DEFINE n == Len(text)
            t == Append(text, CR)
<1>0. CR \in Char
  BY DEF CR, Char
<1>1. PICK s : IsStart(s, text, p, Len(text) + 1)
  BY DEF InSection, InField
<1>2. n \in Nat /\ Len(t) = n + 1 /\ p <= n + 1
  BY <1>0, <1>1, SectionWithin, Appended
<1>3. text[n] = LF /\ NoEmptyLine(text, p)
  BY DEF InSection, LineEndsWith
<1>4. IsEmptyLine(n + 1, t, p)
  BY <1>2, <1>3, EmptyLineHere
<1>5. Filed(given, t, p, n + 1) = add(hs, trim(name), trim(v))
  BY <1>0, SectionFiles
<1>. QED  BY <1>2, <1>4, <1>5 DEF InSection
-----------------------------------------------------------------------------
(* The start line with its tokens, and the header behind it.               *)

StartLineRead(text, k, P, first, second, third) ==
  /\ LineRead(text, k, P)
  /\ first  = TokenRead(text, k, P, 1)
  /\ second = TokenRead(text, k, P, 3)
  /\ third  = TokenRead(text, k, P, 5)

LEMMA TokensStay ==
  ASSUME NEW text \in String, NEW k \in 0 .. 6, NEW P, NEW first, NEW second, NEW third,
         StartLineRead(text, k, P, first, second, third),
         NEW ch \in Char, k < 6 => ch \notin Turn[k + 1]
  PROVE  StartLineRead(Append(text, ch), k, P,
                    IF k = 1 THEN Append(first, ch)  ELSE first,
                    IF k = 3 THEN Append(second, ch) ELSE second,
                    IF k = 5 THEN Append(third, ch)  ELSE third)
<1>1. LineRead(text, k, P)
  BY DEF StartLineRead
<1>2. LineRead(Append(text, ch), k, P)
  BY <1>1, LineStays
<1>3. 1 \in 1 .. 5 /\ 3 \in 1 .. 5 /\ 5 \in 1 .. 5
  OBVIOUS
<1>4. ASSUME NEW m \in 1 .. 5
      PROVE  TokenRead(Append(text, ch), k, P, m)
               = IF k = m THEN Append(TokenRead(text, k, P, m), ch) ELSE TokenRead(text, k, P, m)
  BY <1>1, TokenStays
<1>5. /\ first = TokenRead(text, k, P, 1) /\ second = TokenRead(text, k, P, 3)
      /\ third = TokenRead(text, k, P, 5)
  BY DEF StartLineRead
<1>. QED  BY <1>2, <1>3, <1>4, <1>5, Zenon DEF StartLineRead

(* A character that begins a word begins its token.                        *)
LEMMA TokensGoOn ==
  ASSUME NEW text \in String, NEW k \in 0 .. 5, NEW P, NEW first, NEW second, NEW third,
         StartLineRead(text, k, P, first, second, third),
         NEW ch \in Char, ch \in Turn[k + 1], k < 5 => ch \notin Turn[k + 2]
  PROVE  StartLineRead(Append(text, ch), k + 1, CutHere(text, k, P),
                    IF k + 1 = 1 THEN Append(first, ch)  ELSE first,
                    IF k + 1 = 3 THEN Append(second, ch) ELSE second,
                    IF k + 1 = 5 THEN Append(third, ch)  ELSE third)
<1>1. LineRead(text, k, P)
  BY DEF StartLineRead
<1>2. LineRead(Append(text, ch), k + 1, CutHere(text, k, P))
  BY <1>1, LineGoesOn
<1>3. 1 \in 1 .. 5 /\ 3 \in 1 .. 5 /\ 5 \in 1 .. 5
  OBVIOUS
<1>4. ASSUME NEW m \in 1 .. 5
      PROVE  TokenRead(Append(text, ch), k + 1, CutHere(text, k, P), m)
               = IF k + 1 = m THEN Append(TokenRead(text, k, P, m), ch) ELSE TokenRead(text, k, P, m)
  <2>1. Cuts(text, k, P, ch, m)
    BY <1>1, TokenGoesOn
  <2>. QED  BY <2>1, Zenon DEF Cuts
<1>5. /\ first = TokenRead(text, k, P, 1) /\ second = TokenRead(text, k, P, 3)
      /\ third = TokenRead(text, k, P, 5)
  BY DEF StartLineRead
<1>. QED  BY <1>2, <1>3, <1>4, <1>5, Zenon DEF StartLineRead

\* The start line has been read, and the header fields start at p.
LineDone(text, p, first, second, third) ==
  \E P : StartLineRead(text, 6, P, first, second, third) /\ p = P[6] + 2

LEMMA LineDoneStays ==
  ASSUME NEW text \in String, NEW p, NEW first, NEW second, NEW third,
         LineDone(text, p, first, second, third), NEW ch \in Char
  PROVE  LineDone(Append(text, ch), p, first, second, third)
<1>1. PICK P : StartLineRead(text, 6, P, first, second, third) /\ p = P[6] + 2
  BY DEF LineDone
<1>2. 6 \in 0 .. 6 /\ 6 # 1 /\ 6 # 3 /\ 6 # 5 /\ ~(6 < 6)
  OBVIOUS
<1>3. StartLineRead(Append(text, ch), 6, P, IF 6 = 1 THEN Append(first, ch)  ELSE first,
                    IF 6 = 3 THEN Append(second, ch) ELSE second,
                    IF 6 = 5 THEN Append(third, ch)  ELSE third)
  BY <1>1, <1>2, TokensStay
<1>4. StartLineRead(Append(text, ch), 6, P, first, second, third)
  BY <1>2, <1>3, Zenon
<1>. QED  BY <1>1, <1>4 DEF LineDone

LEMMA LineDoneWithin ==
  ASSUME NEW text \in String, NEW p, NEW first, NEW second, NEW third,
         LineDone(text, p, first, second, third)
  PROVE  p \in Nat /\ p >= 2
<1>1. PICK P : LineRead(text, 6, P) /\ p = P[6] + 2
  BY DEF LineDone, StartLineRead
<1>2. 6 \in 0 .. 6
  OBVIOUS
<1>3. P \in Places
  BY <1>1, <1>2, LineReadWithin, Zenon
<1>. QED  BY <1>1, <1>2, <1>3 DEF Places

\* The header has been read as hs, and the body starts at b.
HeaderDone(text, b, hs, first, second, third) ==
  \E p, e : /\ LineDone(text, p, first, second, third)
            /\ IsEmptyLine(e, text, p) /\ b = e + 2 /\ b <= Len(text) + 1
            /\ hs = Filed(<< >>, text, p, e)

(* A header section that has ended is not changed by what follows it.      *)
LEMMA HeaderDoneStays ==
  ASSUME NEW text \in String, NEW b, NEW hs, NEW first, NEW second, NEW third,
         HeaderDone(text, b, hs, first, second, third), NEW ch \in Char
  PROVE  HeaderDone(Append(text, ch), b, hs, first, second, third)
<1>1. PICK p, e : /\ LineDone(text, p, first, second, third)
                  /\ IsEmptyLine(e, text, p) /\ b = e + 2 /\ b <= Len(text) + 1
                  /\ hs = Filed(<< >>, text, p, e)
  BY DEF HeaderDone
<1>2. p \in Nat /\ p >= 2 /\ p \in Nat \ {0}
  BY <1>1, LineDoneWithin
<1>3. LineDone(Append(text, ch), p, first, second, third)
  BY <1>1, LineDoneStays
<1>4. IsEmptyLine(e, Append(text, ch), p)
  BY <1>1, <1>2, EmptyLineStays
<1>5. e \in Nat /\ p <= e /\ e <= Len(text) + 1
  BY <1>1, <1>2, Appended DEF IsEmptyLine, From
<1>6. Filed(<< >>, Append(text, ch), p, e) = Filed(<< >>, text, p, e)
  BY <1>2, <1>5, FiledStays
<1>7. b <= Len(Append(text, ch)) + 1
  BY <1>1, <1>5, Appended
<1>. QED  BY <1>1, <1>3, <1>4, <1>6, <1>7 DEF HeaderDone

LEMMA HeaderDoneWithin ==
  ASSUME NEW text \in String, NEW b, NEW hs, NEW first, NEW second, NEW third,
         HeaderDone(text, b, hs, first, second, third)
  PROVE  b \in Nat \ {0} /\ b >= 2 /\ b <= Len(text) + 1
<1>1. PICK p, e : /\ LineDone(text, p, first, second, third)
                  /\ IsEmptyLine(e, text, p) /\ b = e + 2 /\ b <= Len(text) + 1
  BY DEF HeaderDone
<1>2. p \in Nat /\ p >= 2
  BY <1>1, LineDoneWithin
<1>. QED  BY <1>1, <1>2, Appended DEF IsEmptyLine, From

\* How the rest of a text is read, of which the header is hs and ends before b.
RestOf(text, hs, b) ==
  IF haveValue(hs, TransferEncoding, Chunked) THEN ChunkedReading(text, hs, b)
                                              ELSE IdentityReading(text, hs, b)

(* A text with a whole header section is read as its start line, its       *)
(* fields, and what the fields say of the rest.                            *)
LEMMA ReadingIs ==
  ASSUME NEW text \in String, NEW b, NEW hs, NEW first, NEW second, NEW third,
         HeaderDone(text, b, hs, first, second, third)
  PROVE  Reading(text) = [first |-> first, second |-> second, third |-> third,
                          headers |-> RestOf(text, hs, b).headers,
                          body |-> RestOf(text, hs, b).body, size |-> RestOf(text, hs, b).size]
<1>1. PICK p, e : /\ LineDone(text, p, first, second, third)
                  /\ IsEmptyLine(e, text, p) /\ b = e + 2
                  /\ hs = Filed(<< >>, text, p, e)
  BY DEF HeaderDone
<1>2. PICK P : StartLineRead(text, 6, P, first, second, third) /\ p = P[6] + 2
  BY <1>1 DEF LineDone
<1>3. /\ P \in Places /\ P[0] = 1
      /\ \A j \in 1 .. 6 : IsFirst(P[j], text, P[j - 1], Turn[j])
  BY <1>2 DEF StartLineRead, LineRead
<1>4. /\ P[1] \in Nat /\ P[2] \in Nat /\ P[3] \in Nat /\ P[4] \in Nat /\ P[5] \in Nat
  BY <1>3 DEF Places
<1>5. /\ IsFirst(P[1], text, 1, Word) /\ IsFirst(P[2], text, P[1], White)
      /\ IsFirst(P[3], text, P[2], Word) /\ IsFirst(P[4], text, P[3], White)
      /\ IsFirst(P[5], text, P[4], Word) /\ IsFirst(P[6], text, P[5], {CR})
  BY <1>3 DEF Turn
<1>6. /\ First(text, 1, Word) = P[1] /\ First(text, P[1], White) = P[2]
      /\ First(text, P[2], Word) = P[3] /\ First(text, P[3], White) = P[4]
      /\ First(text, P[4], Word) = P[5] /\ First(text, P[5], {CR}) = P[6]
  BY <1>4, <1>5, FirstIs
<1>7. EmptyLine(text, P[6] + 2) = e
  BY <1>1, <1>2, LineDoneWithin, EmptyLineIs
<1>8. /\ first  = Part(text, P[1], P[2])
      /\ second = Part(text, P[3], P[4])
      /\ third  = Part(text, P[5], P[6])
  <2>1. /\ TokenRead(text, 6, P, 1) = SubSeq(text, P[1], P[1 + 1] - 1)
        /\ TokenRead(text, 6, P, 3) = SubSeq(text, P[3], P[3 + 1] - 1)
        /\ TokenRead(text, 6, P, 5) = SubSeq(text, P[5], P[5 + 1] - 1)
    BY TokenClosed
  <2>2. 1 + 1 = 2 /\ 3 + 1 = 4 /\ 5 + 1 = 6
    OBVIOUS
  <2>. QED  BY <1>2, <2>1, <2>2, Zenon DEF StartLineRead, Part
<1>9. Filed(<< >>, text, P[6] + 2, e) = hs /\ e + 2 = b
  BY <1>1, <1>2
<1>. QED  BY <1>6, <1>7, <1>8, <1>9, Zenon DEF Reading, RestOf
-----------------------------------------------------------------------------
(* Chunks.  A line that starts at a has a size that ends before x, and ends *)
(* with the carriage return at y.                                          *)

SizeLine(text, a, x, y, size) ==
  /\ IsFirst(x, text, a, Char \ HexDigits) /\ IsFirst(y, text, a, {CR})
  /\ size = toUnsignedInt(Part(text, a, x), TRUE)

ChunkBehind(text, c, y, size) ==
  [data |-> c.data \o Part(text, y + 2, y + 2 + size), last |-> y + 2 + size + 2]

ChunkStep(text, c, d) ==
  \E x, y, size : /\ SizeLine(text, c.last, x, y, size) /\ size \in Nat \ {0}
                  /\ d = ChunkBehind(text, c, y, size) /\ d.last <= Len(text) + 1

NoChunk(start) == [data |-> << >>, last |-> start]

\* f has the chunks of text from start on that have been read, m of them.
ChunksRead(text, start, m, f) ==
  /\ m \in Nat /\ f[0] = NoChunk(start)
  /\ \A j \in 1 .. m : ChunkStep(text, f[j - 1], f[j])
  /\ \A j \in 0 .. m : f[j].last \in Nat /\ f[j].last > j /\ f[j].last <= Len(text) + 1
  /\ \A j \in 0 .. m : f[j].data \in String

LEMMA SizeLineIs ==
  ASSUME NEW text \in String, NEW a \in Nat, NEW x, NEW y, NEW size, SizeLine(text, a, x, y, size)
  PROVE  SizeAt(text, a) = size /\ LineAfter(text, a) = y + 2
BY FirstIs, Zenon DEF SizeLine, SizeAt, LineAfter

LEMMA SizeLineStays ==
  ASSUME NEW text \in String, NEW a \in Nat \ {0}, NEW x, NEW y, NEW size,
         SizeLine(text, a, x, y, size), NEW ch \in Char
  PROVE  SizeLine(Append(text, ch), a, x, y, size)
<1>1. IsFirst(x, Append(text, ch), a, Char \ HexDigits) /\ IsFirst(y, Append(text, ch), a, {CR})
  BY FirstStays, Zenon DEF SizeLine
<1>2. x - 1 \in Int /\ x - 1 <= Len(text)
  <2>1. x \in a .. Len(text)
    BY Zenon DEF SizeLine, IsFirst, From
  <2>. QED  BY <2>1, Appended
<1>3. Part(Append(text, ch), a, x) = Part(text, a, x)
  BY <1>2, PartStays DEF Part
<1>. QED  BY <1>1, <1>3, Zenon DEF SizeLine

LEMMA ChunkStepStays ==
  ASSUME NEW text \in String, NEW c, c.last \in Nat \ {0}, NEW d, ChunkStep(text, c, d), NEW ch \in Char
  PROVE  ChunkStep(Append(text, ch), c, d)
<1>1. PICK x, y, size : /\ SizeLine(text, c.last, x, y, size) /\ size \in Nat \ {0}
                        /\ d = ChunkBehind(text, c, y, size) /\ d.last <= Len(text) + 1
  BY DEF ChunkStep
<1>2. SizeLine(Append(text, ch), c.last, x, y, size)
  BY <1>1, SizeLineStays
<1>3. y \in Nat /\ y + 2 + size + 2 <= Len(text) + 1 /\ Len(text) \in Nat
  <2>1. d.last = y + 2 + size + 2
    BY <1>1 DEF ChunkBehind
  <2>2. y \in c.last .. Len(text)
    BY <1>1 DEF SizeLine, IsFirst, From
  <2>. QED  BY <1>1, <2>1, <2>2, Appended
<1>4. y + 2 \in Nat \ {0} /\ (y + 2 + size) - 1 \in Int /\ (y + 2 + size) - 1 <= Len(text)
  BY <1>1, <1>3
<1>5. Part(Append(text, ch), y + 2, y + 2 + size) = Part(text, y + 2, y + 2 + size)
  BY <1>4, PartStays DEF Part
<1>6. d = ChunkBehind(Append(text, ch), c, y, size)
  BY <1>1, <1>5, Zenon DEF ChunkBehind
<1>7. d.last <= Len(Append(text, ch)) + 1
  BY <1>1, <1>3, Appended DEF ChunkBehind
<1>. QED  BY <1>1, <1>2, <1>6, <1>7, Zenon DEF ChunkStep

(* The chunks that have been read are read likewise from a longer text.    *)
LEMMA ChunksStay ==
  ASSUME NEW text \in String, NEW start, NEW m, NEW f, ChunksRead(text, start, m, f), NEW ch \in Char
  PROVE  ChunksRead(Append(text, ch), start, m, f)
<1>1. ASSUME NEW j \in 1 .. m PROVE ChunkStep(Append(text, ch), f[j - 1], f[j])
  <2>1. j - 1 \in 0 .. m
    BY DEF ChunksRead
  <2>2. f[j - 1].last \in Nat \ {0} /\ ChunkStep(text, f[j - 1], f[j])
    BY <2>1 DEF ChunksRead
  <2>. QED  BY <2>2, ChunkStepStays
<1>2. ASSUME NEW j \in 0 .. m PROVE f[j].last <= Len(Append(text, ch)) + 1
  BY Appended DEF ChunksRead
<1>. QED  BY <1>1, <1>2 DEF ChunksRead

LEMMA NoChunks ==
  ASSUME NEW text \in String, NEW start \in Nat \ {0}, start <= Len(text) + 1
  PROVE  ChunksRead(text, start, 0, [j \in 0 .. 0 |-> NoChunk(start)])
<1>. DEFINE f == [j \in 0 .. 0 |-> NoChunk(start)]
<1>1. /\ f[0] = NoChunk(start) /\ NoChunk(start).last = start /\ NoChunk(start).data \in String
      /\ 0 .. 0 = {0} /\ 1 .. 0 = {}
  BY DEF NoChunk, String
<1>. HIDE DEF f
<1>. QED  BY <1>1 DEF ChunksRead, f

(* One chunk more.                                                         *)
LEMMA ChunksGoOn ==
  ASSUME NEW text \in String, NEW start, NEW m, NEW f, ChunksRead(text, start, m, f),
         NEW d, ChunkStep(text, f[m], d)
  PROVE  ChunksRead(text, start, m + 1, [j \in 0 .. m + 1 |-> IF j = m + 1 THEN d ELSE f[j]])
<1>. DEFINE g == [j \in 0 .. m + 1 |-> IF j = m + 1 THEN d ELSE f[j]]
<1>0. /\ m \in Nat /\ f[0] = NoChunk(start)
      /\ \A j \in 1 .. m : ChunkStep(text, f[j - 1], f[j])
      /\ \A j \in 0 .. m : f[j].last \in Nat /\ f[j].last > j /\ f[j].last <= Len(text) + 1
      /\ \A j \in 0 .. m : f[j].data \in String
  BY DEF ChunksRead
<1>1. /\ \A j \in 0 .. m : j # m + 1 /\ j \in 0 .. m + 1
      /\ m + 1 \in 0 .. m + 1 /\ 0 \in 0 .. m /\ m \in 0 .. m
  BY <1>0
<1>2. g[m + 1] = d /\ \A j \in 0 .. m : g[j] = f[j]
  BY <1>1
<1>. HIDE DEF g
<1>3. d.last \in Nat /\ d.last > m + 1 /\ d.last <= Len(text) + 1 /\ d.data \in String
  <2>1. PICK x, y, size : /\ SizeLine(text, f[m].last, x, y, size) /\ size \in Nat \ {0}
                          /\ d = ChunkBehind(text, f[m], y, size) /\ d.last <= Len(text) + 1
    BY DEF ChunkStep
  <2>2. d.last = y + 2 + size + 2
    BY <2>1 DEF ChunkBehind
  <2>3. y \in f[m].last .. Len(text)
    BY <2>1 DEF SizeLine, IsFirst, From
  <2>4. d.last \in Nat /\ d.last > m + 1 /\ d.last <= Len(text) + 1
    BY <1>0, <1>1, <2>1, <2>2, <2>3, Appended
  <2>5. f[m].data \in String
    BY <1>0, <1>1
  <2>6. Part(text, y + 2, y + 2 + size) \in String
    <3>1. y + 2 \in Nat \ {0} /\ (y + 2 + size) - 1 \in Int /\ (y + 2 + size) - 1 <= Len(text)
      BY <1>0, <1>1, <2>1, <2>2, <2>3, Appended
    <3>. QED  BY <3>1, PartType DEF Part
  <2>7. d.data = f[m].data \o Part(text, y + 2, y + 2 + size)
    BY <2>1, Zenon DEF ChunkBehind
  <2>8. d.data \in String
    BY <2>5, <2>6, <2>7, JoinType, Zenon
  <2>. QED  BY <2>4, <2>8
<1>4. ASSUME NEW j \in 1 .. m + 1 PROVE ChunkStep(text, g[j - 1], g[j])
  <2>1. CASE j = m + 1
    <3>1. j - 1 = m
      BY <1>0, <2>1
    <3>. QED  BY <1>1, <1>2, <2>1, <3>1, Zenon
  <2>2. CASE j # m + 1
    <3>1. j \in 1 .. m /\ j \in 0 .. m /\ j - 1 \in 0 .. m
      BY <1>0, <2>2
    <3>. QED  BY <1>0, <1>2, <3>1, Zenon
  <2>. QED  BY <2>1, <2>2
<1>5. ASSUME NEW j \in 0 .. m + 1
      PROVE  /\ g[j].last \in Nat /\ g[j].last > j /\ g[j].last <= Len(text) + 1
             /\ g[j].data \in String
  <2>1. CASE j = m + 1
    BY <1>2, <1>3, <2>1
  <2>2. CASE j # m + 1
    <3>1. j \in 0 .. m
      BY <1>0, <2>2
    <3>. QED  BY <1>0, <1>2, <3>1
  <2>. QED  BY <2>1, <2>2
<1>6. m + 1 \in Nat /\ g[0] = NoChunk(start)
  BY <1>0, <1>1, <1>2
<1>7. ChunksRead(text, start, m + 1, g)
  BY <1>4, <1>5, <1>6 DEF ChunksRead
<1>. QED  BY <1>7 DEF g

(* Chunks counts on behind the last chunk, so that its number need not be  *)
(* known to find it.                                                       *)
NextChunk(text, c) ==
  LET size == SizeAt(text, c.last)
      from == LineAfter(text, c.last)
  IN  IF size = 0 THEN c
      ELSE [data |-> c.data \o Part(text, from, from + size), last |-> from + size + 2]

IsChunks(g, text, start) ==
  g = [n \in 0 .. Len(text) |-> IF n = 0 THEN NoChunk(start) ELSE NextChunk(text, g[n - 1])]

(* Once a chunk of no size has been reached, the chunks read are all of    *)
(* them: the recursion goes no further.                                    *)
LEMMA ChunksAre ==
  ASSUME NEW text \in String, NEW start, NEW m, NEW f, ChunksRead(text, start, m, f),
         SizeAt(text, f[m].last) = 0
  PROVE  Chunks(text, start) = f[m]
<1>. DEFINE N == Len(text)
            E(h, n) == IF n = 0 THEN NoChunk(start) ELSE NextChunk(text, h[n - 1])
            g == [n \in 0 .. N |-> IF n <= m THEN f[n] ELSE f[m]]
<1>0. /\ m \in Nat /\ N \in Nat /\ m <= N /\ f[0] = NoChunk(start)
      /\ \A j \in 1 .. m : ChunkStep(text, f[j - 1], f[j])
      /\ \A j \in 0 .. m : f[j].last \in Nat
  <2>1. m \in Nat /\ m \in 0 .. m /\ f[m].last > m /\ f[m].last <= Len(text) + 1 /\ f[m].last \in Nat
    BY DEF ChunksRead
  <2>. QED  BY <2>1, Appended DEF ChunksRead
<1>1. ASSUME NEW j \in 1 .. m PROVE f[j] = NextChunk(text, f[j - 1])
  <2>1. PICK x, y, size : /\ SizeLine(text, f[j - 1].last, x, y, size) /\ size \in Nat \ {0}
                          /\ f[j] = ChunkBehind(text, f[j - 1], y, size)
    <3>1. ChunkStep(text, f[j - 1], f[j])
      BY <1>0
    <3>. QED  BY <3>1, Zenon DEF ChunkStep
  <2>2. f[j - 1].last \in Nat
    <3>1. j - 1 \in 0 .. m
      BY <1>0
    <3>. QED  BY <1>0, <3>1
  <2>3. SizeAt(text, f[j - 1].last) = size /\ LineAfter(text, f[j - 1].last) = y + 2
    BY <2>1, <2>2, SizeLineIs
  <2>4. size # 0
    BY <2>1
  <2>. QED  BY <2>1, <2>3, <2>4, Zenon DEF NextChunk, ChunkBehind
<1>2. NextChunk(text, f[m]) = f[m]
  BY Zenon DEF NextChunk
<1>3. \A n \in 0 .. N : g[n] = IF n <= m THEN f[n] ELSE f[m]
  OBVIOUS
<1>4. g = [n \in 0 .. N |-> g[n]]
  OBVIOUS
<1>. HIDE DEF g, N
<1>5. ASSUME NEW n \in 0 .. N PROVE g[n] = E(g, n)
  <2>1. CASE n = 0
    <3>1. n <= m
      BY <1>0, <2>1
    <3>. QED  BY <1>0, <1>3, <2>1, <3>1, Zenon
  <2>2. CASE n # 0 /\ n <= m
    <3>1. n \in 1 .. m /\ n - 1 \in 0 .. N /\ n - 1 <= m
      BY <1>0, <2>2
    <3>2. g[n] = f[n] /\ g[n - 1] = f[n - 1]
      BY <1>3, <2>2, <3>1, Zenon
    <3>. QED  BY <1>1, <2>2, <3>1, <3>2, Zenon
  <2>3. CASE n # 0 /\ ~(n <= m)
    <3>1. n - 1 \in 0 .. N /\ (n - 1 <= m => n - 1 = m)
      BY <1>0, <2>3
    <3>2. g[n] = f[m] /\ g[n - 1] = f[m]
      BY <1>3, <2>3, <3>1, Zenon
    <3>. QED  BY <1>2, <2>3, <3>2, Zenon
  <2>. QED  BY <2>1, <2>2, <2>3
<1>. HIDE DEF E
<1>6. g = [n \in 0 .. N |-> E(g, n)]
  BY <1>4, <1>5, Zenon
<1>7. IsChunks(g, text, start)
  BY <1>6, Zenon DEF IsChunks, E, N
<1>. DEFINE h == CHOOSE h : IsChunks(h, text, start)
<1>8. IsChunks(h, text, start)
  BY <1>7, Zenon
<1>9. Chunks(text, start) = h[N]
  BY Zenon DEF Chunks, IsChunks, NextChunk, NoChunk, N
<1>. HIDE DEF h
<1>10. \A n \in 0 .. N : h[n] = E(h, n)
  <2>1. h = [n \in 0 .. N |-> E(h, n)]
    BY <1>8, Zenon DEF IsChunks, E, N
  <2>. QED  BY <2>1, Zenon
<1>. DEFINE S == {k \in Nat : k <= N => h[k] = g[k]}
<1>11. 0 \in S
  <2>1. 0 \in 0 .. N
    BY <1>0
  <2>. QED  BY <1>5, <1>10, <2>1 DEF E
<1>12. ASSUME NEW k \in Nat, k \in S PROVE k + 1 \in S
  <2>. SUFFICES ASSUME k + 1 <= N PROVE h[k + 1] = g[k + 1]
    OBVIOUS
  <2>1. k + 1 \in 0 .. N /\ k + 1 # 0 /\ (k + 1) - 1 = k /\ h[k] = g[k]
    BY <1>0, <1>12
  <2>2. h[k + 1] = NextChunk(text, h[k]) /\ g[k + 1] = NextChunk(text, g[k])
    BY <1>5, <1>10, <2>1, Zenon DEF E
  <2>. QED  BY <2>1, <2>2, Zenon
<1>13. h[N] = g[N]
  <2>. HIDE DEF S
  <2>1. N \in S
    BY <1>0, <1>11, <1>12, NatSetInduction
  <2>. QED  BY <1>0, <2>1 DEF S
<1>14. g[N] = f[m]
  <2>1. N \in 0 .. N /\ (N <= m => N = m)
    BY <1>0
  <2>2. g[N] = IF N <= m THEN f[N] ELSE f[m]
    BY <1>3, <2>1, Zenon
  <2>. QED  BY <2>1, <2>2
<1>. QED  BY <1>9, <1>13, <1>14, Zenon
-----------------------------------------------------------------------------
(* Inside a chunk that starts at c.last, behind the data c.data.           *)

InChunk(s, text, c, sizeStr, size, parsed, data) ==
  /\ s = "ParsingChunkSize" =>
       /\ NotYet(text, c.last, Char \ HexDigits)
       /\ sizeStr = SubSeq(text, c.last, Len(text)) /\ data = c.data
  /\ s = "ParsingChunkExtension" =>
       \E x : /\ IsFirst(x, text, c.last, Char \ HexDigits) /\ NotYet(text, c.last, {CR})
              /\ size = toUnsignedInt(Part(text, c.last, x), TRUE) /\ data = c.data
  /\ s = "ParsingChunkSizeLF" =>
       \E x : SizeLine(text, c.last, x, Len(text), size) /\ data = c.data
  /\ s = "ParsingChunk" =>
       \E x, y : /\ SizeLine(text, c.last, x, y, size) /\ Len(text) + 1 = y + 2 + parsed
                 /\ data = c.data \o SubSeq(text, y + 2, Len(text))
  /\ s = "ParsingChunkCR" =>
       \E x, y : /\ SizeLine(text, c.last, x, y, size) /\ Len(text) + 1 = y + 2 + size
                 /\ data = c.data \o Part(text, y + 2, y + 2 + size)
  /\ s = "ParsingChunkLF" =>
       \E x, y : /\ SizeLine(text, c.last, x, y, size) /\ Len(text) = y + 2 + size
                 /\ data = c.data \o Part(text, y + 2, y + 2 + size)

ChunkFrom(text, c) == c.last \in Nat \ {0} /\ c.last <= Len(text) + 1 /\ c.data \in String

(* From here on, what one more character does to the chunk being read, in  *)
(* each of the states of the parser.                                       *)
LEMMA ChunkSizeBegins ==
  ASSUME NEW text \in String, NEW c, c.last = Len(text) + 1, NEW size, NEW parsed
  PROVE  InChunk("ParsingChunkSize", text, c, << >>, size, parsed, c.data)
<1>1. c.last \in Int /\ c.last > Len(text)
  BY Appended
<1>2. NotYet(text, c.last, Char \ HexDigits)
  BY <1>1, NothingYet
<1>3. SubSeq(text, c.last, Len(text)) = << >>
  BY <1>1, Appended
<1>. QED  BY <1>2, <1>3 DEF InChunk

LEMMA ChunkSizeGoesOn ==
  ASSUME NEW text \in String, NEW c, ChunkFrom(text, c), NEW sizeStr, NEW size, NEW parsed, NEW data,
         InChunk("ParsingChunkSize", text, c, sizeStr, size, parsed, data),
         NEW ch \in Char, isHexDigit(ch)
  PROVE  InChunk("ParsingChunkSize", Append(text, ch), c, Append(sizeStr, ch), size, parsed, data)
<1>1. /\ NotYet(text, c.last, Char \ HexDigits) /\ sizeStr = SubSeq(text, c.last, Len(text))
      /\ data = c.data
  BY DEF InChunk
<1>2. ch \notin Char \ HexDigits
  BY DEF HexDigits
<1>3. NotYet(Append(text, ch), c.last, Char \ HexDigits)
  BY <1>1, <1>2, NotYetStays DEF ChunkFrom
<1>4. c.last \in 1 .. Len(text) + 1
  BY Appended DEF ChunkFrom
<1>5. SubSeq(Append(text, ch), c.last, Len(Append(text, ch))) = Append(sizeStr, ch)
  BY <1>1, <1>4, Appended, PartGrows, Zenon
<1>. QED  BY <1>1, <1>3, <1>5 DEF InChunk

LEMMA ChunkSizeEnds ==
  ASSUME NEW text \in String, NEW c, ChunkFrom(text, c), NEW sizeStr, NEW size, NEW parsed, NEW data,
         InChunk("ParsingChunkSize", text, c, sizeStr, size, parsed, data),
         NEW ch \in Char, ~isHexDigit(ch), NEW x, NEW y
  PROVE  InChunk(IF ch = CR THEN "ParsingChunkSizeLF" ELSE "ParsingChunkExtension",
                 Append(text, ch), c, x, toUnsignedInt(sizeStr, TRUE), y, data)
<1>. DEFINE n == Len(text)
            t == Append(text, ch)
<1>1. /\ NotYet(text, c.last, Char \ HexDigits) /\ sizeStr = SubSeq(text, c.last, n) /\ data = c.data
  BY DEF InChunk
<1>2. /\ n \in Nat /\ Len(t) = n + 1 /\ c.last \in Nat \ {0} /\ c.last <= n + 1
      /\ c.last \in 1 .. n + 1 /\ (n + 1) - 1 = n
  BY Appended DEF ChunkFrom
<1>3. ch \in Char \ HexDigits
  BY DEF HexDigits
<1>4. IsFirst(n + 1, t, c.last, Char \ HexDigits)
  BY <1>1, <1>2, <1>3, FirstHere
<1>5. NotYet(text, c.last, {CR})
  <2>1. CR \in Char \ HexDigits
    BY DEF CR, Char, HexDigits, isHexDigit, isDigit
  <2>. QED  BY <1>1, <2>1 DEF NotYet
<1>6. toUnsignedInt(sizeStr, TRUE) = toUnsignedInt(Part(t, c.last, n + 1), TRUE)
  <2>1. SubSeq(t, c.last, n) = SubSeq(text, c.last, n)
    BY <1>2, PartStays
  <2>. QED  BY <1>1, <1>2, <2>1, Zenon DEF Part
<1>7. CASE ch = CR
  <2>1. IsFirst(n + 1, t, c.last, {CR})
    BY <1>2, <1>5, <1>7, FirstHere
  <2>2. SizeLine(t, c.last, n + 1, Len(t), toUnsignedInt(sizeStr, TRUE))
    BY <1>2, <1>4, <1>6, <2>1, Zenon DEF SizeLine
  <2>. HIDE DEF t
  <2>3. InChunk("ParsingChunkSizeLF", t, c, x, toUnsignedInt(sizeStr, TRUE), y, data)
    BY <1>1, <2>2 DEF InChunk
  <2>. QED  BY <1>7, <2>3, Zenon DEF t
<1>8. CASE ch # CR
  <2>1. NotYet(t, c.last, {CR})
    BY <1>2, <1>5, <1>8, NotYetStays
  <2>. HIDE DEF t, n
  <2>2. InChunk("ParsingChunkExtension", t, c, x, toUnsignedInt(sizeStr, TRUE), y, data)
    BY <1>1, <1>4, <1>6, <2>1 DEF InChunk
  <2>. QED  BY <1>8, <2>2, Zenon DEF t
<1>. QED  BY <1>7, <1>8

LEMMA ChunkExtension ==
  ASSUME NEW text \in String, NEW c, ChunkFrom(text, c), NEW sizeStr, NEW size, NEW parsed, NEW data,
         InChunk("ParsingChunkExtension", text, c, sizeStr, size, parsed, data), NEW ch \in Char
  PROVE  InChunk(IF ch = CR THEN "ParsingChunkSizeLF" ELSE "ParsingChunkExtension",
                 Append(text, ch), c, sizeStr, size, parsed, data)
<1>. DEFINE n == Len(text)
            t == Append(text, ch)
<1>1. PICK x : /\ IsFirst(x, text, c.last, Char \ HexDigits) /\ NotYet(text, c.last, {CR})
               /\ size = toUnsignedInt(Part(text, c.last, x), TRUE) /\ data = c.data
  BY DEF InChunk
<1>2. n \in Nat /\ Len(t) = n + 1 /\ c.last \in Nat \ {0} /\ c.last <= n + 1
  BY Appended DEF ChunkFrom
<1>3. IsFirst(x, t, c.last, Char \ HexDigits)
  BY <1>1, <1>2, FirstStays
<1>4. Part(t, c.last, x) = Part(text, c.last, x)
  <2>1. x - 1 \in Int /\ x - 1 <= n
    BY <1>1, <1>2 DEF IsFirst, From
  <2>. QED  BY <1>2, <2>1, PartStays DEF Part
<1>5. CASE ch = CR
  <2>1. IsFirst(n + 1, t, c.last, {CR})
    BY <1>1, <1>2, <1>5, FirstHere
  <2>2. SizeLine(t, c.last, x, Len(t), size)
    BY <1>1, <1>2, <1>3, <1>4, <2>1, Zenon DEF SizeLine
  <2>. HIDE DEF t
  <2>3. InChunk("ParsingChunkSizeLF", t, c, sizeStr, size, parsed, data)
    BY <1>1, <2>2 DEF InChunk
  <2>. QED  BY <1>5, <2>3, Zenon DEF t
<1>6. CASE ch # CR
  <2>1. NotYet(t, c.last, {CR})
    BY <1>1, <1>2, <1>6, NotYetStays
  <2>. HIDE DEF t, n
  <2>2. InChunk("ParsingChunkExtension", t, c, sizeStr, size, parsed, data)
    BY <1>1, <1>3, <1>4, <2>1 DEF InChunk
  <2>. QED  BY <1>6, <2>2, Zenon DEF t
<1>. QED  BY <1>5, <1>6

LEMMA ChunkDataBegins ==
  ASSUME NEW text \in String, NEW c, ChunkFrom(text, c), NEW sizeStr, NEW size, NEW parsed, NEW data,
         InChunk("ParsingChunkSizeLF", text, c, sizeStr, size, parsed, data), NEW ch \in Char
  PROVE  InChunk("ParsingChunk", Append(text, ch), c, sizeStr, size, 0, data)
<1>. DEFINE n == Len(text)
            t == Append(text, ch)
<1>1. PICK x : SizeLine(text, c.last, x, n, size) /\ data = c.data
  BY DEF InChunk
<1>2. n \in Nat /\ Len(t) = n + 1 /\ c.last \in Nat \ {0}
  BY Appended DEF ChunkFrom
<1>3. SizeLine(t, c.last, x, n, size)
  BY <1>1, <1>2, SizeLineStays, Zenon
<1>4. SubSeq(t, n + 2, Len(t)) = << >> /\ Len(t) + 1 = n + 2 + 0
  BY <1>2
<1>5. c.data \o << >> = c.data
  BY DEF ChunkFrom, String
<1>. HIDE DEF t, n
<1>6. InChunk("ParsingChunk", t, c, sizeStr, size, 0, data)
  BY <1>1, <1>3, <1>4, <1>5 DEF InChunk
<1>. QED  BY <1>6 DEF t

LEMMA ChunkDataGoesOn ==
  ASSUME NEW text \in String, NEW c, ChunkFrom(text, c), NEW sizeStr, NEW size \in Nat,
         NEW parsed \in Nat, NEW data,
         InChunk("ParsingChunk", text, c, sizeStr, size, parsed, data), NEW ch \in Char,
         NEW next, next = "ParsingChunk" \/ (next = "ParsingChunkCR" /\ parsed + 1 = size)
  PROVE  InChunk(next, Append(text, ch), c, sizeStr, size, parsed + 1, Append(data, ch))
<1>. DEFINE n == Len(text)
            t == Append(text, ch)
<1>1. PICK x, y : /\ SizeLine(text, c.last, x, y, size) /\ n + 1 = y + 2 + parsed
                  /\ data = c.data \o SubSeq(text, y + 2, n)
  BY DEF InChunk
<1>2. n \in Nat /\ Len(t) = n + 1 /\ c.last \in Nat \ {0} /\ c.data \in String
  BY Appended DEF ChunkFrom
<1>3. SizeLine(t, c.last, x, y, size)
  BY <1>1, <1>2, SizeLineStays, Zenon
<1>4. y \in Nat /\ y + 2 \in 1 .. Len(text) + 1 /\ Len(t) + 1 = y + 2 + (parsed + 1)
  <2>1. y \in c.last .. n
    BY <1>1 DEF SizeLine, IsFirst, From
  <2>. QED  BY <1>1, <1>2, <2>1
<1>5. SubSeq(t, y + 2, n + 1) = Append(SubSeq(text, y + 2, n), ch) /\ SubSeq(text, y + 2, n) \in String
  BY <1>4, PartGrows, Zenon
<1>6. Append(data, ch) = c.data \o SubSeq(t, y + 2, Len(t))
  <2>. DEFINE u == SubSeq(text, y + 2, n)
  <2>1. SubSeq(t, y + 2, Len(t)) = Append(u, ch) /\ u \in String /\ data = c.data \o u
    BY <1>1, <1>2, <1>5, Zenon
  <2>. HIDE DEF u, t
  <2>2. c.data \o Append(u, ch) = Append(c.data \o u, ch)
    BY <1>2, <2>1, JoinAppend
  <2>. QED  BY <2>1, <2>2, Zenon
<1>7. parsed + 1 = size => Len(t) = (y + 2 + size) - 1
  BY <1>2, <1>4
<1>. HIDE DEF t, n
<1>8. CASE next = "ParsingChunk"
  <2>1. InChunk("ParsingChunk", t, c, sizeStr, size, parsed + 1, Append(data, ch))
    BY <1>3, <1>4, <1>6 DEF InChunk
  <2>. QED  BY <1>8, <2>1 DEF t
<1>9. CASE next = "ParsingChunkCR" /\ parsed + 1 = size
  <2>1. Append(data, ch) = c.data \o Part(t, y + 2, y + 2 + size)
    BY <1>6, <1>7, <1>9, Zenon DEF Part
  <2>2. InChunk("ParsingChunkCR", t, c, sizeStr, size, parsed + 1, Append(data, ch))
    BY <1>3, <1>4, <1>9, <2>1 DEF InChunk
  <2>. QED  BY <1>9, <2>2 DEF t
<1>. QED  BY <1>8, <1>9

LEMMA ChunkDataEnds ==
  ASSUME NEW text \in String, NEW c, ChunkFrom(text, c), NEW sizeStr, NEW size \in Nat,
         NEW parsed, NEW data,
         InChunk("ParsingChunkCR", text, c, sizeStr, size, parsed, data), NEW ch \in Char
  PROVE  InChunk("ParsingChunkLF", Append(text, ch), c, sizeStr, size, parsed, data)
<1>. DEFINE n == Len(text)
            t == Append(text, ch)
<1>1. PICK x, y : /\ SizeLine(text, c.last, x, y, size) /\ n + 1 = y + 2 + size
                  /\ data = c.data \o Part(text, y + 2, y + 2 + size)
  BY DEF InChunk
<1>2. n \in Nat /\ Len(t) = n + 1 /\ c.last \in Nat \ {0}
  BY Appended DEF ChunkFrom
<1>3. SizeLine(t, c.last, x, y, size)
  BY <1>1, <1>2, SizeLineStays, Zenon
<1>4. Part(t, y + 2, y + 2 + size) = Part(text, y + 2, y + 2 + size)
  <2>1. y \in c.last .. n
    BY <1>1 DEF SizeLine, IsFirst, From
  <2>2. y + 2 \in Nat \ {0} /\ (y + 2 + size) - 1 \in Int /\ (y + 2 + size) - 1 <= n
    BY <1>1, <1>2, <2>1
  <2>. QED  BY <2>2, PartStays DEF Part
<1>. HIDE DEF t, n
<1>5. InChunk("ParsingChunkLF", t, c, sizeStr, size, parsed, data)
  BY <1>1, <1>2, <1>3, <1>4 DEF InChunk
<1>. QED  BY <1>5 DEF t

ChunkEnded(text, ch, c, data) ==
  \E d : ChunkStep(Append(text, ch), c, d) /\ d.last = Len(text) + 2 /\ d.data = data

(* The last character of a chunk makes it one of the chunks read.          *)
LEMMA ChunkEnds ==
  ASSUME NEW text \in String, NEW c, ChunkFrom(text, c), NEW sizeStr, NEW size \in Nat \ {0},
         NEW parsed, NEW data,
         InChunk("ParsingChunkLF", text, c, sizeStr, size, parsed, data), NEW ch \in Char
  PROVE  ChunkEnded(text, ch, c, data)
<1>. DEFINE n == Len(text)
            t == Append(text, ch)
<1>1. PICK x, y : /\ SizeLine(text, c.last, x, y, size) /\ n = y + 2 + size
                  /\ data = c.data \o Part(text, y + 2, y + 2 + size)
  BY DEF InChunk
<1>2. n \in Nat /\ Len(t) = n + 1 /\ c.last \in Nat \ {0}
  BY Appended DEF ChunkFrom
<1>3. SizeLine(t, c.last, x, y, size)
  BY <1>1, <1>2, SizeLineStays, Zenon
<1>4. y \in c.last .. n
  BY <1>1 DEF SizeLine, IsFirst, From
<1>5. Part(t, y + 2, y + 2 + size) = Part(text, y + 2, y + 2 + size)
  <2>2. y + 2 \in Nat \ {0} /\ (y + 2 + size) - 1 \in Int /\ (y + 2 + size) - 1 <= n
    BY <1>1, <1>2, <1>4
  <2>. QED  BY <2>2, PartStays DEF Part
<1>. DEFINE d == ChunkBehind(t, c, y, size)
<1>6. d.last = y + 2 + size + 2 /\ d.data = c.data \o Part(t, y + 2, y + 2 + size)
  BY Zenon DEF ChunkBehind
<1>. HIDE DEF t, n, d
<1>7. d.data = data
  BY <1>1, <1>5, <1>6, Zenon
<1>8. d.last = n + 2 /\ d.last <= Len(t) + 1
  BY <1>1, <1>2, <1>4, <1>6
<1>9. ChunkStep(t, c, d)
  BY <1>3, <1>8, Zenon DEF ChunkStep, d
<1>. QED  BY <1>7, <1>8, <1>9, Zenon DEF ChunkEnded, t, n
==============================================================================
