--------------------------- MODULE ExchangeProofs ---------------------------
(***************************************************************************)
(* Proofs about Exchange: what a composer writes, a parser reads.          *)
(***************************************************************************)
EXTENDS Exchange, MessageParserProofs

-----------------------------------------------------------------------------
(* Texts made of pieces.                                                   *)

LEMMA FlattenAgree ==
  ASSUME NEW s, NEW t, NEW f, Flattens(f, s), NEW g, Flattens(g, t),
         NEW n \in Nat, n <= Len(s), n <= Len(t), Len(s) \in Nat, Len(t) \in Nat,
         SameStart(s, t, n)
  PROVE  f[n] = g[n]
<1>. DEFINE S == {k \in Nat : k <= n => f[k] = g[k]}
<1>1. 0 \in S
  BY DEF Flattens
<1>2. ASSUME NEW k \in Nat, k \in S PROVE k + 1 \in S
  <2>. SUFFICES ASSUME k + 1 <= n PROVE f[k + 1] = g[k + 1]
    OBVIOUS
  <2>1. k + 1 \in 1 .. n /\ k + 1 \in 1 .. Len(s) /\ k + 1 \in 1 .. Len(t) /\ (k + 1) - 1 = k
    OBVIOUS
  <2>2. f[k] = g[k]
    BY <1>2
  <2>3. f[k + 1] = f[(k + 1) - 1] \o s[k + 1] /\ g[k + 1] = g[(k + 1) - 1] \o t[k + 1]
    BY <2>1 DEF Flattens
  <2>. QED  BY <2>1, <2>2, <2>3 DEF SameStart
<1>3. Nat \subseteq S
  <2>. HIDE DEF S
  <2>. QED  BY <1>1, <1>2, NatSetInduction
<1>. QED  BY <1>3

LEMMA FlattenNothing == FlattenSeq(<< >>) = << >>
BY DEF FlattenSeq

LEMMA FlattenLast ==
  ASSUME NEW strs \in Seq(String), NEW x \in String
  PROVE  FlattenSeq(Append(strs, x)) = FlattenSeq(strs) \o x
<1>. DEFINE N    == Len(strs)
            more == Append(strs, x)
<1>1. /\ N \in Nat /\ strs \in Seq(Seq(Char)) /\ more \in Seq(Seq(Char)) /\ Len(more) = N + 1
      /\ \A i \in 1 .. N : more[i] = strs[i]
      /\ more[N + 1] = x
  BY DEF String
<1>2. PICK f : Flattens(f, strs) /\ FlattenSeq(strs) = f[N]
  BY <1>1, FlattenReads
<1>3. PICK g : Flattens(g, more) /\ FlattenSeq(more) = g[N + 1]
  BY <1>1, FlattenReads
<1>4. g[N + 1] = g[N] \o x
  <2>1. N + 1 \in 1 .. Len(more) /\ (N + 1) - 1 = N
    BY <1>1
  <2>. HIDE DEF more, N
  <2>2. g[N + 1] = g[(N + 1) - 1] \o more[N + 1]
    BY <1>3, <2>1 DEF Flattens
  <2>. QED  BY <1>1, <2>1, <2>2
<1>5. f[N] = g[N]
  <2>1. N \in Nat /\ N <= Len(more) /\ N <= Len(strs) /\ Len(more) \in Nat /\ Len(strs) \in Nat
    BY <1>1
  <2>2. SameStart(strs, more, N)
    BY <1>1 DEF SameStart
  <2>3. Flattens(f, strs) /\ Flattens(g, more)
    BY <1>2, <1>3
  <2>. HIDE DEF more, N
  <2>. QED  BY <2>1, <2>2, <2>3, FlattenAgree, SMT
<1>. QED  BY <1>2, <1>3, <1>4, <1>5

LEMMA FlattenFirst ==
  ASSUME NEW strs \in Seq(String), strs # << >>
  PROVE  FlattenSeq(strs) = strs[1] \o FlattenSeq(Tail(strs))
<1>. DEFINE N    == Len(strs)
            rest == Tail(strs)
<1>1. /\ N \in Nat \ {0} /\ strs \in Seq(Seq(Char)) /\ rest \in Seq(Seq(Char)) /\ Len(rest) = N - 1
      /\ \A i \in 1 .. N - 1 : rest[i] = strs[i + 1]
      /\ \A i \in 1 .. N : strs[i] \in Seq(Char)
  <2>1. strs \in Seq(Seq(Char))
    BY DEF String
  <2>. QED  BY <2>1, HeadTailProperties
<1>2. PICK f \in [0 .. N -> Seq(Char)] : Flattens(f, strs) /\ FlattenSeq(strs) = f[N]
  BY <1>1, FlattenReads
<1>3. PICK g \in [0 .. N - 1 -> Seq(Char)] : Flattens(g, rest) /\ FlattenSeq(rest) = g[N - 1]
  BY <1>1, FlattenReads
<1>. HIDE DEF rest, N
<1>. DEFINE S == {k \in Nat : k <= N - 1 => f[k + 1] = strs[1] \o g[k]}
<1>4. 0 \in S
  <2>1. f[1] = f[1 - 1] \o strs[1] /\ f[0] = << >> /\ g[0] = << >> /\ 1 - 1 = 0
    <3>1. 1 \in 1 .. N /\ 1 - 1 = 0
      BY <1>1
    <3>2. f[1] = f[1 - 1] \o strs[1]
      BY <1>2, <3>1 DEF Flattens, N
    <3>. QED  BY <1>2, <1>3, <3>1, <3>2 DEF Flattens
  <2>2. strs[1] \in Seq(Char)
    BY <1>1
  <2>3. << >> \o strs[1] = strs[1] /\ strs[1] \o << >> = strs[1]
    BY <2>2, ConcatEmptySeq
  <2>4. f[0 + 1] = strs[1] \o g[0]
    <3>1. f[1] = strs[1] /\ strs[1] \o g[0] = strs[1]
      BY <2>1, <2>3, Zenon
    <3>. QED  BY <3>1
  <2>. QED  BY <2>4
<1>5. ASSUME NEW k \in Nat, k \in S PROVE k + 1 \in S
  <2>0. k + 1 \in Nat
    OBVIOUS
  <2>. SUFFICES ASSUME k + 1 <= N - 1 PROVE f[(k + 1) + 1] = strs[1] \o g[k + 1]
    BY <2>0, Zenon
  <2>1. /\ k + 1 \in 1 .. N - 1 /\ (k + 1) + 1 \in 1 .. N /\ ((k + 1) + 1) - 1 = k + 1 /\ (k + 1) - 1 = k
        /\ k \in 0 .. N - 1
    BY <1>1
  <2>2. f[k + 1] = strs[1] \o g[k]
    BY <1>5, <2>1
  <2>3. f[(k + 1) + 1] = f[k + 1] \o strs[(k + 1) + 1] /\ g[k + 1] = g[k] \o rest[k + 1]
    <3>1. f[(k + 1) + 1] = f[((k + 1) + 1) - 1] \o strs[(k + 1) + 1]
      BY <1>2, <2>1 DEF Flattens, N
    <3>2. k + 1 \in 1 .. Len(rest)
      BY <1>1, <2>1
    <3>3. g[k + 1] = g[(k + 1) - 1] \o rest[k + 1]
      BY <1>3, <3>2 DEF Flattens
    <3>. QED  BY <2>1, <3>1, <3>3
  <2>4. rest[k + 1] = strs[(k + 1) + 1]
    BY <1>1, <2>1
  <2>6. rest[k + 1] \in Seq(Char) /\ strs[1] \in Seq(Char)
    BY <1>1, <2>1, <2>4
  <2>7. g[k] \in Seq(Char)
    BY <1>3, <2>1
  <2>5. (strs[1] \o g[k]) \o rest[k + 1] = strs[1] \o (g[k] \o rest[k + 1])
    BY <2>6, <2>7, ThreeJoined
  <2>. QED  BY <2>2, <2>3, <2>4, <2>5, Zenon
<1>6. Nat \subseteq S
  <2>. HIDE DEF S
  <2>. QED  BY <1>4, <1>5, NatSetInduction
<1>7. N - 1 \in Nat /\ (N - 1) + 1 = N
  BY <1>1
<1>8. N - 1 \in S /\ N - 1 <= N - 1
  <2>. HIDE DEF S
  <2>. QED  BY <1>6, <1>7
<1>9. f[(N - 1) + 1] = strs[1] \o g[N - 1]
  BY <1>8, Zenon
<1>. QED  BY <1>2, <1>3, <1>7, <1>9 DEF rest, N

TextFrom(strs, i) == FlattenSeq(SubSeq(strs, i, Len(strs)))
TextTo(strs, i)   == FlattenSeq(SubSeq(strs, 1, i))

LEMMA TextType ==
  ASSUME NEW strs \in Seq(String)
  PROVE  /\ Len(strs) \in Nat /\ FlattenSeq(strs) \in String
         /\ \A i \in 1 .. Len(strs) + 1 : TextFrom(strs, i) \in String
         /\ \A i \in 0 .. Len(strs) : TextTo(strs, i) \in String
<1>1. Len(strs) \in Nat /\ \A i \in 1 .. Len(strs) : strs[i] \in String
  OBVIOUS
<1>2. \A s \in Seq(String) : FlattenSeq(s) \in String
  BY FlattenType DEF String
<1>3. ASSUME NEW i \in 1 .. Len(strs) + 1 PROVE SubSeq(strs, i, Len(strs)) \in Seq(String)
  <2>1. \A j \in i .. Len(strs) : strs[j] \in String
    BY <1>1
  <2>. QED  BY <1>1, <2>1, SubSeqProperties
<1>4. ASSUME NEW i \in 0 .. Len(strs) PROVE SubSeq(strs, 1, i) \in Seq(String)
  <2>1. \A j \in 1 .. i : strs[j] \in String
    BY <1>1
  <2>. QED  BY <1>1, <2>1, SubSeqProperties
<1>. QED  BY <1>1, <1>2, <1>3, <1>4 DEF TextFrom, TextTo

LEMMA TextFromStep ==
  ASSUME NEW strs \in Seq(String), NEW i \in 1 .. Len(strs)
  PROVE  TextFrom(strs, i) = strs[i] \o TextFrom(strs, i + 1)
<1>. DEFINE s == SubSeq(strs, i, Len(strs))
<1>1. Len(strs) \in Nat /\ Len(strs) \in i .. Len(strs)
      /\ \A j \in i .. Len(strs) : strs[j] \in String
  OBVIOUS
<1>2. s \in Seq(String) /\ Len(s) = (Len(strs) - i) + 1
  BY <1>1, SubSeqProperties
<1>3. Head(s) = strs[i] /\ Tail(s) = SubSeq(strs, i + 1, Len(strs))
  BY <1>1, HeadTailOfSubSeq
<1>4. s # << >> /\ Head(s) = s[1]
  <2>. HIDE DEF s
  <2>. QED  BY <1>1, <1>2
<1>. QED  BY <1>2, <1>3, <1>4, FlattenFirst DEF TextFrom

LEMMA TextFromEnds ==
  ASSUME NEW strs \in Seq(String)
  PROVE  TextFrom(strs, Len(strs) + 1) = << >> /\ TextFrom(strs, 1) = FlattenSeq(strs)
<1>1. Len(strs) \in Nat
  OBVIOUS
<1>2. SubSeq(strs, Len(strs) + 1, Len(strs)) = << >>
  BY <1>1, SubSeqEmpty
<1>3. SubSeq(strs, 1, Len(strs)) = strs
  BY SubSeqFull
<1>. QED  BY <1>2, <1>3, FlattenNothing DEF TextFrom

LEMMA TextFromAppend ==
  ASSUME NEW strs \in Seq(String), NEW x \in String, NEW i \in 1 .. Len(strs) + 1
  PROVE  TextFrom(Append(strs, x), i) = TextFrom(strs, i) \o x
<1>. DEFINE more == Append(strs, x)
            s    == SubSeq(strs, i, Len(strs))
            t    == SubSeq(more, i, Len(strs) + 1)
<1>1. /\ more \in Seq(String) /\ Len(strs) \in Nat /\ Len(more) = Len(strs) + 1
      /\ \A j \in 1 .. Len(strs) : strs[j] \in String /\ more[j] = strs[j]
      /\ more[Len(strs) + 1] = x
  OBVIOUS
<1>2. \A j \in i .. Len(strs) + 1 : more[j] \in String
  BY <1>1
<1>. HIDE DEF more
<1>3. s \in Seq(String) /\ Len(s) = (Len(strs) - i) + 1
      /\ \A j \in 1 .. (Len(strs) - i) + 1 : s[j] = strs[(i + j) - 1]
  <2>1. \A j \in i .. Len(strs) : strs[j] \in String
    BY <1>1
  <2>2. CASE i <= Len(strs)
    BY <1>1, <2>1, <2>2, SubSeqProperties
  <2>3. CASE i = Len(strs) + 1
    BY <1>1, <2>1, <2>3, SubSeqProperties
  <2>. QED  BY <1>1, <2>2, <2>3
<1>4. t \in Seq(String) /\ Len(t) = (Len(strs) - i) + 2
      /\ \A j \in 1 .. (Len(strs) - i) + 2 : t[j] = more[(i + j) - 1]
  BY <1>1, <1>2, SubSeqProperties
<1>5. Append(s, x) \in Seq(String) /\ Len(Append(s, x)) = Len(t)
      /\ \A j \in 1 .. Len(t) : t[j] = Append(s, x)[j]
  <2>. HIDE DEF s, t
  <2>1. ASSUME NEW j \in 1 .. Len(t) PROVE t[j] = Append(s, x)[j]
    <3>1. CASE j = (Len(strs) - i) + 2
      <4>1. (i + j) - 1 = Len(strs) + 1
        BY <1>1, <3>1
      <4>2. t[j] = x
        BY <1>1, <1>4, <4>1
      <4>3. Append(s, x)[j] = x
        BY <1>1, <1>3, <3>1
      <4>. QED  BY <4>2, <4>3
    <3>2. CASE j # (Len(strs) - i) + 2
      <4>1. j \in 1 .. (Len(strs) - i) + 1 /\ (i + j) - 1 \in 1 .. Len(strs)
        BY <1>1, <1>4, <3>2
      <4>2. Append(s, x)[j] = s[j]
        BY <1>3, <4>1
      <4>. QED  BY <1>1, <1>3, <1>4, <4>1, <4>2
    <3>. QED  BY <3>1, <3>2
  <2>2. Append(s, x) \in Seq(String)
    BY <1>3
  <2>3. Len(Append(s, x)) = Len(s) + 1
    BY <1>3, AppendProperties
  <2>4. Len(s) + 1 = Len(t)
    BY <1>1, <1>3, <1>4
  <2>. QED  BY <2>1, <2>2, <2>3, <2>4
<1>6. t = Append(s, x)
  <2>. HIDE DEF s, t
  <2>. QED  BY <1>4, <1>5, SeqEqual
<1>. QED  BY <1>1, <1>3, <1>6, FlattenLast DEF TextFrom, more

LEMMA TextToStep ==
  ASSUME NEW strs \in Seq(String), NEW i \in 1 .. Len(strs)
  PROVE  TextTo(strs, i) = TextTo(strs, i - 1) \o strs[i]
<1>1. 1 \in 1 .. Len(strs) /\ i \in 1 .. Len(strs) /\ strs[i] \in String
      /\ \A j \in 1 .. i - 1 : strs[j] \in String
  OBVIOUS
<1>2. SubSeq(strs, 1, i) = SubSeq(strs, 1, i - 1) \o <<strs[i]>>
  BY <1>1, SubSeqRecursiveSecond
<1>3. SubSeq(strs, 1, i - 1) \in Seq(String)
  BY <1>1, SubSeqProperties
<1>4. SubSeq(strs, 1, i) = Append(SubSeq(strs, 1, i - 1), strs[i])
  BY <1>1, <1>2, <1>3, AppendIsConcat
<1>. QED  BY <1>1, <1>3, <1>4, FlattenLast DEF TextTo

LEMMA TextToEnds ==
  ASSUME NEW strs \in Seq(String)
  PROVE  TextTo(strs, 0) = << >> /\ TextTo(strs, Len(strs)) = FlattenSeq(strs)
<1>1. SubSeq(strs, 1, 0) = << >>
  BY SubSeqEmpty
<1>2. SubSeq(strs, 1, Len(strs)) = strs
  BY SubSeqFull
<1>. QED  BY <1>1, <1>2, FlattenNothing DEF TextTo

(* A text is what is before a piece and what comes from there on.          *)
LEMMA TextSplit ==
  ASSUME NEW strs \in Seq(String), NEW i \in 1 .. Len(strs) + 1
  PROVE  FlattenSeq(strs) = TextTo(strs, i - 1) \o TextFrom(strs, i)
<1>. DEFINE S == {k \in Nat : k <= Len(strs) =>
                                FlattenSeq(strs) = TextTo(strs, k) \o TextFrom(strs, k + 1)}
<1>0. Len(strs) \in Nat
  OBVIOUS
<1>1. 0 \in S
  <2>1. << >> \o FlattenSeq(strs) = FlattenSeq(strs)
    BY TextType, ConcatEmptySeq DEF String
  <2>2. FlattenSeq(strs) = TextTo(strs, 0) \o TextFrom(strs, 0 + 1)
    <3>1. TextTo(strs, 0) = << >> /\ TextFrom(strs, 0 + 1) = FlattenSeq(strs)
      BY TextToEnds, TextFromEnds
    <3>. QED  BY <2>1, <3>1, Zenon
  <2>. QED  BY <2>2
<1>2. ASSUME NEW k \in Nat, k \in S PROVE k + 1 \in S
  <2>. SUFFICES ASSUME k + 1 <= Len(strs)
                PROVE  FlattenSeq(strs) = TextTo(strs, k + 1) \o TextFrom(strs, (k + 1) + 1)
    OBVIOUS
  <2>1. k + 1 \in 1 .. Len(strs) /\ (k + 1) - 1 = k /\ k \in 0 .. Len(strs)
        /\ (k + 1) + 1 \in 1 .. Len(strs) + 1
    BY <1>0
  <2>2. strs[k + 1] \in String
    BY <2>1
  <2>3. FlattenSeq(strs) = TextTo(strs, k) \o TextFrom(strs, k + 1)
    BY <1>2, <2>1
  <2>4. TextFrom(strs, k + 1) = strs[k + 1] \o TextFrom(strs, (k + 1) + 1)
    BY <2>1, TextFromStep
  <2>5. TextTo(strs, k + 1) = TextTo(strs, k) \o strs[k + 1]
    <3>1. TextTo(strs, k + 1) = TextTo(strs, (k + 1) - 1) \o strs[k + 1]
      BY <2>1, TextToStep
    <3>. QED  BY <2>1, <3>1
  <2>6. TextTo(strs, k) \in Seq(Char) /\ TextFrom(strs, (k + 1) + 1) \in Seq(Char)
    BY <2>1, TextType DEF String
  <2>7. (TextTo(strs, k) \o strs[k + 1]) \o TextFrom(strs, (k + 1) + 1)
          = TextTo(strs, k) \o (strs[k + 1] \o TextFrom(strs, (k + 1) + 1))
    BY <2>2, <2>6, ThreeJoined DEF String
  <2>. QED  BY <2>3, <2>4, <2>5, <2>7, Zenon
<1>3. Nat \subseteq S
  <2>. HIDE DEF S
  <2>. QED  BY <1>1, <1>2, NatSetInduction
<1>4. i - 1 \in Nat /\ i - 1 <= Len(strs) /\ (i - 1) + 1 = i
  BY <1>0
<1>5. FlattenSeq(strs) = TextTo(strs, i - 1) \o TextFrom(strs, (i - 1) + 1)
  BY <1>3, <1>4
<1>. QED  BY <1>4, <1>5
-----------------------------------------------------------------------------
(* How far a text has been read: read is what has been taken of t, and r   *)
(* what is still to come, with more behind t.                              *)

LEMMA Letters ==
  /\ SP \in Char /\ CR \in Char /\ LF \in Char /\ Colon \in Char
  /\ <<SP>> \in String /\ <<CR>> \in String /\ <<LF>> \in String /\ <<Colon>> \in String
  /\ CRLF \in String /\ CRLF = <<CR>> \o <<LF>> /\ << >> \in String
BY DEF SP, CR, LF, Colon, Char, String, CRLF

LEMMA InFront ==
  ASSUME NEW c \in Char, NEW s \in String
  PROVE  /\ <<c>> \o s \in String /\ <<c>> \o s # << >>
         /\ Head(<<c>> \o s) = c /\ Tail(<<c>> \o s) = s /\ Len(<<c>> \o s) = Len(s) + 1
<1>. DEFINE u == <<c>> \o s
<1>1. <<c>> \in Seq(Char) /\ s \in Seq(Char) /\ Len(<<c>>) = 1 /\ <<c>>[1] = c /\ Len(s) \in Nat
  BY DEF String
<1>2. /\ u \in Seq(Char) /\ Len(u) = Len(s) + 1
      /\ \A i \in 1 .. Len(s) + 1 : u[i] = IF i <= 1 THEN <<c>>[i] ELSE s[i - 1]
  BY <1>1, ConcatProperties
<1>. HIDE DEF u
<1>3. u # << >> /\ u[1] = c /\ \A i \in 1 .. Len(s) : u[i + 1] = s[i]
  BY <1>1, <1>2
<1>4. Tail(u) \in Seq(Char) /\ Len(Tail(u)) = Len(s) /\ \A i \in 1 .. Len(s) : Tail(u)[i] = s[i]
  BY <1>1, <1>2, <1>3, HeadTailProperties
<1>5. Tail(u) = s
  BY <1>1, <1>4, SeqEqual
<1>6. Head(u) = c
  BY <1>2, <1>3
<1>. QED  BY <1>2, <1>3, <1>5, <1>6 DEF u, String

LEMMA Split ==
  ASSUME NEW s \in String, s # << >>
  PROVE  /\ Head(s) \in Char /\ Tail(s) \in String /\ s = <<Head(s)>> \o Tail(s)
         /\ Len(Tail(s)) = Len(s) - 1 /\ Len(s) \in Nat \ {0} /\ Head(s) = s[1]
<1>1. /\ Head(s) \in Char /\ Tail(s) \in Seq(Char) /\ Len(Tail(s)) = Len(s) - 1
      /\ \A i \in 1 .. Len(Tail(s)) : Tail(s)[i] = s[i + 1]
  BY HeadTailProperties DEF String
<1>2. Len(s) \in Nat \ {0} /\ Head(s) = s[1] /\ s \in Seq(Char)
  BY DEF String
<1>3. /\ <<Head(s)>> \in Seq(Char) /\ Len(<<Head(s)>>) = 1 /\ <<Head(s)>>[1] = Head(s)
  BY <1>1
<1>4. /\ <<Head(s)>> \o Tail(s) \in Seq(Char) /\ Len(<<Head(s)>> \o Tail(s)) = Len(s)
      /\ \A i \in 1 .. Len(s) :
           (<<Head(s)>> \o Tail(s))[i] = IF i <= 1 THEN <<Head(s)>>[i] ELSE Tail(s)[i - 1]
  BY <1>1, <1>2, <1>3, ConcatProperties
<1>5. ASSUME NEW i \in 1 .. Len(s) PROVE s[i] = (<<Head(s)>> \o Tail(s))[i]
  <2>1. CASE i = 1
    BY <1>2, <1>3, <1>4, <2>1
  <2>2. CASE i # 1
    <3>1. i - 1 \in 1 .. Len(Tail(s)) /\ (i - 1) + 1 = i /\ ~(i <= 1)
      BY <1>1, <1>2, <2>2
    <3>. QED  BY <1>1, <1>4, <3>1
  <2>. QED  BY <2>1, <2>2
<1>6. s = <<Head(s)>> \o Tail(s)
  BY <1>2, <1>4, <1>5, SeqEqual
<1>. QED  BY <1>1, <1>2, <1>6 DEF String

PartOf(t, read, r, more) ==
  read \in String /\ \E rest \in String : t = read \o rest /\ r = rest \o more

PartGoesOn(t, read, r, more) ==
  /\ r # << >> /\ Head(r) \in Char
  /\ Len(read) < Len(t) /\ t[Len(read) + 1] = Head(r)
  /\ PartOf(t, Append(read, Head(r)), Tail(r), more)

LEMMA PartNext ==
  ASSUME NEW t, NEW read, NEW r, NEW more \in String, PartOf(t, read, r, more)
  PROVE  (t = read /\ r = more) \/ PartGoesOn(t, read, r, more)
<1>1. PICK rest \in String : t = read \o rest /\ r = rest \o more
  BY DEF PartOf
<1>2. read \in Seq(Char) /\ rest \in Seq(Char) /\ more \in Seq(Char)
  BY DEF PartOf, String
<1>3. CASE rest = << >>
  BY <1>1, <1>2, <1>3, ConcatEmptySeq
<1>4. CASE rest # << >>
  <2>. DEFINE c == Head(rest)
  <2>1. c \in Char /\ Tail(rest) \in String /\ rest = <<c>> \o Tail(rest)
        /\ Len(rest) \in Nat \ {0} /\ rest[1] = c
    BY <1>4, Split
  <2>2. r = <<c>> \o (Tail(rest) \o more)
    BY <1>1, <1>2, <2>1, ThreeJoined DEF String
  <2>3. Tail(rest) \o more \in String
    BY <2>1, JoinType
  <2>4. r # << >> /\ Head(r) = c /\ Tail(r) = Tail(rest) \o more
    BY <2>1, <2>2, <2>3, InFront
  <2>5. t = Append(read, c) \o Tail(rest)
    <3>1. Append(read, c) = read \o <<c>>
      BY <1>2, <2>1, AppendIsConcat
    <3>2. (read \o <<c>>) \o Tail(rest) = read \o (<<c>> \o Tail(rest))
      BY <1>2, <2>1, ThreeJoined DEF String
    <3>. QED  BY <1>1, <2>1, <3>1, <3>2, Zenon
  <2>6. Len(read) < Len(t) /\ t[Len(read) + 1] = c
    <3>1. /\ Len(read) \in Nat /\ Len(rest) \in Nat \ {0} /\ Len(t) = Len(read) + Len(rest)
          /\ \A i \in 1 .. Len(read) + Len(rest) :
               t[i] = IF i <= Len(read) THEN read[i] ELSE rest[i - Len(read)]
      BY <1>1, <1>2, <2>1, ConcatProperties
    <3>2. Len(read) + 1 \in 1 .. Len(read) + Len(rest) /\ ~(Len(read) + 1 <= Len(read))
          /\ (Len(read) + 1) - Len(read) = 1
      BY <3>1
    <3>. QED  BY <2>1, <3>1, <3>2
  <2>7. Append(read, c) \in String
    BY <1>2, <2>1 DEF String
  <2>. HIDE DEF c
  <2>8. PartOf(t, Append(read, c), Tail(r), more)
    BY <2>1, <2>4, <2>5, <2>7 DEF PartOf
  <2>. QED  BY <2>1, <2>4, <2>6, <2>8 DEF PartGoesOn
<1>. QED  BY <1>3, <1>4

LEMMA PartNothing ==
  ASSUME NEW t \in String, NEW more
  PROVE  PartOf(t, << >>, t \o more, more)
<1>1. t = << >> \o t /\ << >> \in String
  BY ConcatEmptySeq DEF String
<1>. QED  BY <1>1 DEF PartOf

LEMMA PartBegins ==
  ASSUME NEW t \in String, t # << >>, NEW more \in String
  PROVE  /\ t \o more # << >> /\ Head(t \o more) = t[1] /\ t[1] \in Char
         /\ PartOf(t, <<Head(t \o more)>>, Tail(t \o more), more)
<1>1. PartGoesOn(t, << >>, t \o more, more)
  <2>1. (t = << >> /\ t \o more = more) \/ PartGoesOn(t, << >>, t \o more, more)
    BY PartNothing, PartNext
  <2>. QED  BY <2>1
<1>2. Append(<< >>, Head(t \o more)) = <<Head(t \o more)>> /\ Len(<< >>) + 1 = 1
  OBVIOUS
<1>. QED  BY <1>1, <1>2 DEF PartGoesOn

\* A part that is not the whole has room within the limits of the whole.
LEMMA PartHasRoom ==
  ASSUME NEW t \in String, NEW read \in String, read # << >>, Len(read) < Len(t),
         NEW limits, AtMost(t, limits), NEW n \in limits, n \in Nat
  PROVE  ~Full(read, n)
<1>1. Len(read) \in Nat \ {0} /\ Len(t) \in Nat
  BY DEF String
<1>2. PICK k \in {n} \cup {1} : Len(t) <= k
  BY DEF AtMost, Within
<1>. QED  BY <1>1, <1>2 DEF Full
-----------------------------------------------------------------------------
(* What the parser makes of the value of a header.                         *)

LEMMA JoinedType == ASSUME NEW str \in String PROVE Joined(str) \in String
<1>. DEFINE S == {n \in Nat : \A s \in String : Len(s) = n => Joined(s) \in String}
<1>1. 0 \in S
  <2>1. << >> \in String
    BY DEF String
  <2>2. ASSUME NEW s \in String, Len(s) = 0 PROVE Joined(s) \in String
    <3>1. s = << >>
      BY <2>2, EmptySeq DEF String
    <3>. QED  BY <2>1, <3>1, JoinedNothing
  <2>. QED  BY <2>2
<1>2. ASSUME NEW n \in Nat, n \in S PROVE n + 1 \in S
  <2>1. ASSUME NEW s \in String, Len(s) = n + 1 PROVE Joined(s) \in String
    <3>1. s # << >>
      BY <2>1
    <3>2. PICK t \in String, ch \in Char : s = Append(t, ch)
      BY <3>1, SequenceEmptyOrAppend DEF String
    <3>3. Len(t) = n
      BY <2>1, <3>2, Appended
    <3>4. Joined(t) \in String
      BY <1>2, <3>3
    <3>5. SP \in Char
      BY DEF SP, Char
    <3>6. \/ Joined(s) = Append(Joined(t), SP)
          \/ Joined(s) = Joined(t)
          \/ Joined(s) = Append(Joined(t), ch)
      BY <3>2, JoinedAppend
    <3>7. Append(Joined(t), SP) \in String /\ Append(Joined(t), ch) \in String
      BY <3>2, <3>4, <3>5, Appended
    <3>. QED  BY <3>4, <3>6, <3>7
  <2>. QED  BY <2>1
<1>3. Nat \subseteq S
  <2>. HIDE DEF S
  <2>. QED  BY <1>1, <1>2, NatSetInduction
<1>4. Len(str) \in Nat
  BY DEF String
<1>. QED  BY <1>3, <1>4

LEMMA JoinedGrows ==
  ASSUME NEW a \in String, NEW b \in String
  PROVE  Len(Joined(a)) <= Len(Joined(a \o b))
<1>. DEFINE S == {n \in Nat : \A s \in String : Len(s) = n => Len(Joined(a)) <= Len(Joined(a \o s))}
<1>0. Len(Joined(a)) \in Nat
  BY JoinedType DEF String
<1>1. 0 \in S
  <2>2. ASSUME NEW s \in String, Len(s) = 0 PROVE Len(Joined(a)) <= Len(Joined(a \o s))
    <3>1. s = << >>
      BY <2>2, EmptySeq DEF String
    <3>2. a \o s = a
      BY <3>1, ConcatEmptySeq DEF String
    <3>. QED  BY <1>0, <3>2
  <2>. QED  BY <2>2
<1>2. ASSUME NEW n \in Nat, n \in S PROVE n + 1 \in S
  <2>1. ASSUME NEW s \in String, Len(s) = n + 1 PROVE Len(Joined(a)) <= Len(Joined(a \o s))
    <3>1. s # << >>
      BY <2>1
    <3>2. PICK t \in String, ch \in Char : s = Append(t, ch)
      BY <3>1, SequenceEmptyOrAppend DEF String
    <3>3. Len(t) = n
      BY <2>1, <3>2, Appended
    <3>4. Len(Joined(a)) <= Len(Joined(a \o t))
      BY <1>2, <3>3
    <3>5. a \o t \in String /\ a \o s = Append(a \o t, ch)
      BY <3>2, JoinType, JoinAppend
    <3>6. SP \in Char
      BY DEF SP, Char
    <3>. DEFINE u == Joined(a \o t)
                w == Joined(a \o s)
    <3>7. u \in String
      BY <3>5, JoinedType
    <3>8. w = u \/ \E x \in Char : w = Append(u, x)
      <4>1. w = Append(u, SP) \/ w = u \/ w = Append(u, ch)
        BY <3>2, <3>5, JoinedAppend
      <4>. QED  BY <3>2, <3>6, <4>1
    <3>. HIDE DEF u, w
    <3>9. Len(u) \in Nat /\ Len(w) \in Nat /\ Len(u) <= Len(w)
      <4>1. Len(u) \in Nat
        BY <3>7 DEF String
      <4>2. \A x \in Char : Len(Append(u, x)) = Len(u) + 1
        BY <3>7, Appended
      <4>. QED  BY <3>8, <4>1, <4>2
    <3>10. Len(Joined(a)) <= Len(u)
      BY <3>4 DEF u
    <3>11. Len(Joined(a)) <= Len(w)
      BY <1>0, <3>9, <3>10
    <3>. QED  BY <3>11 DEF w
  <2>. QED  BY <2>1
<1>3. Nat \subseteq S
  <2>. HIDE DEF S
  <2>. QED  BY <1>1, <1>2, NatSetInduction
<1>4. Len(b) \in Nat
  BY DEF String
<1>. QED  BY <1>3, <1>4

(* A text without line breaks is on one line already.                      *)
LEMMA JoinedPlain ==
  ASSUME NEW str \in String, \A i \in 1 .. Len(str) : str[i] \notin {CR, LF}
  PROVE  Joined(str) = str
<1>. DEFINE Plain(s) == \A i \in 1 .. Len(s) : s[i] \notin {CR, LF}
            S == {n \in Nat : \A s \in String : Len(s) = n /\ Plain(s) => Joined(s) = s}
<1>1. 0 \in S
  <2>2. ASSUME NEW s \in String, Len(s) = 0 PROVE Joined(s) = s
    <3>1. s = << >>
      BY <2>2, EmptySeq DEF String
    <3>. QED  BY <3>1, JoinedNothing
  <2>. QED  BY <2>2
<1>2. ASSUME NEW n \in Nat, n \in S PROVE n + 1 \in S
  <2>1. ASSUME NEW s \in String, Len(s) = n + 1, Plain(s) PROVE Joined(s) = s
    <3>1. s # << >>
      BY <2>1
    <3>2. PICK t \in String, ch \in Char : s = Append(t, ch)
      BY <3>1, SequenceEmptyOrAppend DEF String
    <3>3. /\ Len(t) = n /\ ch = s[n + 1] /\ \A i \in 1 .. n : t[i] = s[i]
          /\ n + 1 \in 1 .. Len(s) /\ \A i \in 1 .. n : i \in 1 .. Len(s)
      BY <2>1, <3>2, Appended
    <3>4. Plain(t) /\ ch \notin {CR, LF} /\ (Len(t) > 0 => t[Len(t)] # LF)
      <4>1. n > 0 => n \in 1 .. n
        OBVIOUS
      <4>. QED  BY <2>1, <3>3, <4>1
    <3>5. Joined(t) = t
      BY <1>2, <3>3, <3>4
    <3>. QED  BY <3>2, <3>4, <3>5, JoinedAppend
  <2>. QED  BY <2>1
<1>3. Nat \subseteq S
  <2>. HIDE DEF S
  <2>. QED  BY <1>1, <1>2, NatSetInduction
<1>4. Len(str) \in Nat /\ Plain(str)
  BY DEF String
<1>. QED  BY <1>3, <1>4

LEMMA JoinedBehindSP ==
  ASSUME NEW str \in String
  PROVE  Joined(<<SP>> \o str) = <<SP>> \o Joined(str)
<1>. DEFINE S == {n \in Nat : \A s \in String : Len(s) = n => Joined(<<SP>> \o s) = <<SP>> \o Joined(s)}
<1>0. /\ SP \in Char /\ SP # CR /\ SP # LF
      /\ <<SP>> \in String /\ << >> \in String /\ Append(<< >>, SP) = <<SP>> /\ Len(<<SP>>) = 1
  BY DEF SP, Char, String, CR, LF
<1>1. 0 \in S
  <2>1. Joined(<<SP>>) = <<SP>>
    <3>1. \A i \in 1 .. Len(<<SP>>) : <<SP>>[i] \notin {CR, LF}
      BY <1>0
    <3>. QED  BY <1>0, <3>1, JoinedPlain
  <2>2. <<SP>> \o << >> = <<SP>>
    BY <1>0, ConcatEmptySeq DEF String
  <2>3. ASSUME NEW s \in String, Len(s) = 0 PROVE Joined(<<SP>> \o s) = <<SP>> \o Joined(s)
    <3>1. s = << >>
      BY <2>3, EmptySeq DEF String
    <3>. QED  BY <2>1, <2>2, <3>1, JoinedNothing
  <2>. QED  BY <2>3
<1>2. ASSUME NEW n \in Nat, n \in S PROVE n + 1 \in S
  <2>1. ASSUME NEW s \in String, Len(s) = n + 1 PROVE Joined(<<SP>> \o s) = <<SP>> \o Joined(s)
    <3>1. s # << >>
      BY <2>1
    <3>2. PICK t \in String, ch \in Char : s = Append(t, ch)
      BY <3>1, SequenceEmptyOrAppend DEF String
    <3>3. Len(t) = n
      BY <2>1, <3>2, Appended
    <3>. DEFINE u == <<SP>> \o t
    <3>4. Joined(u) = <<SP>> \o Joined(t)
      BY <1>2, <3>3
    <3>5. u \in String /\ <<SP>> \o s = Append(u, ch) /\ Joined(t) \in String
      BY <1>0, <3>2, JoinType, JoinAppend, JoinedType
    <3>6. /\ Len(u) = Len(t) + 1 /\ Len(t) \in Nat
          /\ \A i \in 1 .. Len(t) + 1 : u[i] = IF i <= 1 THEN <<SP>>[i] ELSE t[i - 1]
      BY <1>0, ConcatProperties DEF String
    <3>7. (Len(u) > 0 /\ u[Len(u)] = LF) <=> (Len(t) > 0 /\ t[Len(t)] = LF)
      <4>1. CASE Len(t) = 0
        <5>1. u[1] = <<SP>>[1] /\ Len(u) = 1
          BY <3>6, <4>1
        <5>. QED  BY <1>0, <4>1, <5>1
      <4>2. CASE Len(t) > 0
        <5>1. Len(u) \in 1 .. Len(t) + 1 /\ ~(Len(u) <= 1) /\ Len(u) - 1 = Len(t) /\ Len(u) > 0
          BY <3>6, <4>2
        <5>2. u[Len(u)] = t[Len(t)]
          BY <3>6, <5>1
        <5>. QED  BY <4>2, <5>1, <5>2
      <4>. QED  BY <3>6, <4>1, <4>2
    <3>. HIDE DEF u
    <3>8. \A x \in Char : <<SP>> \o Append(Joined(t), x) = Append(<<SP>> \o Joined(t), x)
      BY <1>0, <3>5, JoinAppend
    <3>9. Joined(Append(u, ch)) = IF Len(t) > 0 /\ t[Len(t)] = LF THEN Append(Joined(u), SP)
                                  ELSE IF ch \in {CR, LF} THEN Joined(u) ELSE Append(Joined(u), ch)
      BY <3>5, <3>7, JoinedAppend
    <3>10. Joined(s) = IF Len(t) > 0 /\ t[Len(t)] = LF THEN Append(Joined(t), SP)
                       ELSE IF ch \in {CR, LF} THEN Joined(t) ELSE Append(Joined(t), ch)
      BY <3>2, JoinedAppend
    <3>. QED  BY <1>0, <3>4, <3>5, <3>8, <3>9, <3>10
  <2>. QED  BY <2>1
<1>3. Nat \subseteq S
  <2>. HIDE DEF S
  <2>. QED  BY <1>1, <1>2, NatSetInduction
<1>4. Len(str) \in Nat
  BY DEF String
<1>. QED  BY <1>3, <1>4

(* Blanks around a text are of no account.                                 *)
LEMMA TrimBehindBlank ==
  ASSUME NEW s \in String, NEW b \in Char, b \in Blank
  PROVE  trim(<<b>> \o s) = trim(s)
<1>. DEFINE u == <<b>> \o s
            K == {i \in 1 .. Len(s) : s[i] \notin Blank}
            L == {i \in 1 .. Len(u) : u[i] \notin Blank}
<1>1. /\ <<b>> \in Seq(Char) /\ Len(<<b>>) = 1 /\ <<b>>[1] = b /\ s \in Seq(Char) /\ Len(s) \in Nat
      /\ u \in Seq(Char) /\ Len(u) = Len(s) + 1
      /\ \A i \in 1 .. Len(s) + 1 : u[i] = IF i <= 1 THEN <<b>>[i] ELSE s[i - 1]
  <2>1. <<b>> \in Seq(Char) /\ Len(<<b>>) = 1 /\ <<b>>[1] = b /\ s \in Seq(Char) /\ Len(s) \in Nat
    BY DEF String
  <2>. QED  BY <2>1, ConcatProperties
<1>2. u[1] = b /\ \A i \in 1 .. Len(s) : u[i + 1] = s[i]
  BY <1>1
<1>. HIDE DEF u
<1>3. /\ \A i \in K : i + 1 \in L
      /\ \A j \in L : j - 1 \in K
  BY <1>1, <1>2
<1>4. K \subseteq 1 .. Len(s) /\ L \subseteq 1 .. Len(u)
  OBVIOUS
<1>5. trim(s) = IF K = {} THEN << >> ELSE SubSeq(s, Min(K), Max(K))
  BY DEF trim
<1>6. trim(u) = IF L = {} THEN << >> ELSE SubSeq(u, Min(L), Max(L))
  BY DEF trim
<1>. HIDE DEF K, L
<1>7. CASE K = {}
  <2>1. L = {}
    BY <1>3, <1>7
  <2>. QED  BY <1>5, <1>6, <1>7, <2>1 DEF u
<1>8. CASE K # {}
  <2>1. L # {}
    BY <1>3, <1>8
  <2>2. Min(K) \in K /\ Max(K) \in K /\ \A y \in K : Min(K) <= y /\ y <= Max(K)
    BY <1>1, <1>4, <1>8, SmallestAndLargest
  <2>3. Min(L) \in L /\ Max(L) \in L /\ \A y \in L : Min(L) <= y /\ y <= Max(L)
    <3>1. Len(u) \in Nat /\ L \subseteq 1 .. Len(u)
      BY <1>1, <1>4
    <3>. QED  BY <2>1, <3>1, SmallestAndLargest
  <2>. DEFINE a == Min(K)
              z == Max(K)
              c == Min(L)
              d == Max(L)
  <2>4. a \in 1 .. Len(s) /\ z \in 1 .. Len(s) /\ c \in 1 .. Len(u) /\ d \in 1 .. Len(u)
    BY <1>4, <2>2, <2>3
  <2>5. c <= a + 1 /\ a <= c - 1 /\ d - 1 <= z /\ z + 1 <= d
    BY <1>3, <2>2, <2>3
  <2>. HIDE DEF a, z, c, d
  <2>6. c = a + 1 /\ d = z + 1
    BY <1>1, <2>4, <2>5
  <2>7. SubSeq(<<b>> \o s, c, d) = SubSeq(s, c - Len(<<b>>), d - Len(<<b>>))
    <3>1. c \in Len(<<b>>) + 1 .. Len(<<b>>) + Len(s) /\ d \in Len(<<b>>) + 1 .. Len(<<b>>) + Len(s)
      BY <1>1, <2>4, <2>6
    <3>. QED  BY <1>1, <3>1, SubSeqOfConcat2
  <2>8. c - Len(<<b>>) = a /\ d - Len(<<b>>) = z
    BY <1>1, <2>4, <2>6
  <2>9. SubSeq(u, c, d) = SubSeq(s, a, z)
    BY <2>7, <2>8 DEF u
  <2>. QED  BY <1>5, <1>6, <1>8, <2>1, <2>9 DEF u, a, z, c, d
<1>. QED  BY <1>7, <1>8

LEMMA TrimBeforeBlank ==
  ASSUME NEW s \in String, NEW b \in Char, b \in Blank
  PROVE  trim(Append(s, b)) = trim(s)
<1>. DEFINE u == Append(s, b)
            K == {i \in 1 .. Len(s) : s[i] \notin Blank}
            L == {i \in 1 .. Len(u) : u[i] \notin Blank}
<1>1. L = K
  BY Appended
<1>2. Len(s) \in Nat /\ K \subseteq 1 .. Len(s)
  BY DEF String
<1>3. trim(s) = IF K = {} THEN << >> ELSE SubSeq(s, Min(K), Max(K))
  BY DEF trim
<1>4. trim(u) = IF L = {} THEN << >> ELSE SubSeq(u, Min(L), Max(L))
  BY DEF trim
<1>5. K # {} => Min(K) \in 1 .. Len(s) /\ Max(K) \in 1 .. Len(s)
  <2>. HIDE DEF K
  <2>. QED  BY <1>2, SmallestAndLargest
<1>. HIDE DEF K, L
<1>6. K # {} => SubSeq(u, Min(K), Max(K)) = SubSeq(s, Min(K), Max(K))
  <2>. SUFFICES ASSUME K # {} PROVE SubSeq(u, Min(K), Max(K)) = SubSeq(s, Min(K), Max(K))
    OBVIOUS
  <2>. DEFINE p == Min(K)
              q == Max(K)
  <2>1. p \in Nat \ {0} /\ q \in Int /\ q <= Len(s)
    BY <1>2, <1>5
  <2>. HIDE DEF p, q
  <2>2. SubSeq(u, p, q) = SubSeq(s, p, q)
    BY <2>1, PartStays
  <2>. QED  BY <2>2 DEF p, q
<1>7. L = K
  BY <1>1 DEF K, L
<1>. HIDE DEF u
<1>8. trim(u) = trim(s)
  <2>1. CASE K = {}
    BY <1>3, <1>4, <1>7, <2>1
  <2>2. CASE K # {}
    BY <1>3, <1>4, <1>6, <1>7, <2>2
  <2>. QED  BY <2>1, <2>2
<1>. QED  BY <1>8 DEF u

(* Of what is behind the colon the parser keeps the value of the header.   *)
LEMMA ValueReadBack ==
  ASSUME NEW v \in String
  PROVE  trim(Joined(BehindColon(v))) = Unfolded(v)
<1>. DEFINE w == <<SP>> \o v
<1>1. /\ SP \in Char /\ CR \in Char /\ LF \in Char /\ CR # LF /\ SP \in Blank
      /\ <<SP>> \in String /\ <<CR>> \in String
  BY DEF SP, CR, LF, Char, String, Blank
<1>2. w \in String /\ Append(w, CR) \in String
  BY <1>1, JoinType, Appended
<1>3. BehindColon(v) = Append(Append(w, CR), LF)
  <2>1. Append(w, CR) \o <<LF>> = Append(Append(w, CR), LF)
    BY <1>1, <1>2, AppendIsConcat DEF String
  <2>2. Append(w, CR) = w \o <<CR>>
    BY <1>1, <1>2, AppendIsConcat DEF String
  <2>3. (w \o <<CR>>) \o <<LF>> = w \o (<<CR>> \o <<LF>>)
    BY <1>1, <1>2, ThreeJoined DEF String
  <2>4. <<CR>> \o <<LF>> = CRLF
    BY Letters
  <2>. QED  BY <2>1, <2>2, <2>3, <2>4, Zenon DEF BehindColon
<1>. HIDE DEF w
<1>4. Joined(Append(Append(w, CR), LF)) = Joined(Append(w, CR))
  <2>1. Append(w, CR)[Len(Append(w, CR))] = CR
    BY <1>1, <1>2, Appended
  <2>. QED  BY <1>1, <1>2, <2>1, JoinedAppend
<1>5. Joined(w) \in String
  BY <1>2, JoinedType
<1>6. trim(Joined(Append(w, CR))) = trim(Joined(w))
  <2>1. Joined(Append(w, CR)) = Joined(w) \/ Joined(Append(w, CR)) = Append(Joined(w), SP)
    BY <1>1, <1>2, JoinedAppend
  <2>. QED  BY <1>1, <1>5, <2>1, TrimBeforeBlank
<1>7. Joined(w) = <<SP>> \o Joined(v) /\ Joined(v) \in String
  BY JoinedBehindSP, JoinedType DEF w
<1>8. trim(<<SP>> \o Joined(v)) = trim(Joined(v))
  BY <1>1, <1>7, TrimBehindBlank
<1>. QED  BY <1>3, <1>4, <1>6, <1>7, <1>8 DEF Unfolded
-----------------------------------------------------------------------------
(* Containers of headers that are read back.                               *)

Fills(f, hs, more) ==
  /\ f[0] = hs
  /\ \A n \in 1 .. Len(more) : f[n] = add(f[n - 1], more[n].name, Unfolded(more[n].value))

LEMMA UnfoldedType == ASSUME NEW v \in String PROVE Unfolded(v) \in String
BY JoinedType, TrimType DEF Unfolded

LEMMA HeaderParts ==
  ASSUME NEW hs \in Seq(Header)
  PROVE  /\ Len(hs) \in Nat /\ DOMAIN hs = 1 .. Len(hs)
         /\ \A i \in 1 .. Len(hs) : hs[i] \in Header /\ hs[i].name \in String /\ hs[i].value \in String
<1>1. Len(hs) \in Nat /\ DOMAIN hs = 1 .. Len(hs) /\ \A i \in 1 .. Len(hs) : hs[i] \in Header
  OBVIOUS
<1>2. \A h \in Header : h.name \in String /\ h.value \in String
  BY DEF Header
<1>. QED  BY <1>1, <1>2

LEMMA FillingReads ==
  ASSUME NEW hs \in Seq(Header), NEW more \in Seq(Header)
  PROVE  \E f \in [0 .. Len(more) -> Seq(Header)] :
           Fills(f, hs, more) /\ Filling(hs, more) = f[Len(more)]
<1>. DEFINE N == Len(more)
            With(s, n) == add(s, more[n].name, Unfolded(more[n].value))
            step == [n \in 1 .. N |-> [s \in Seq(Header) |-> With(s, n)]]
            F(g) == g = [n \in 0 .. N |-> IF n = 0 THEN hs ELSE With(g[n - 1], n)]
            filled == CHOOSE g : F(g)
<1>1. N \in Nat /\ \A n \in 1 .. N : more[n].name \in String /\ Unfolded(more[n].value) \in String
  <2>1. N \in Nat /\ \A n \in 1 .. N : more[n].name \in String /\ more[n].value \in String
    BY HeaderParts
  <2>. QED  BY <2>1, UnfoldedType
<1>. HIDE DEF N
<1>2. step \in [1 .. N -> [Seq(Header) -> Seq(Header)]]
  <2>1. \A n \in 1 .. N : \A s \in Seq(Header) : With(s, n) \in Seq(Header)
    BY <1>1, AddProperties
  <2>. HIDE DEF With
  <2>. QED  BY <2>1
<1>3. PICK f \in [0 .. N -> Seq(Header)] : Iterates(f, N, hs, step)
  <2>. HIDE DEF step
  <2>. QED  BY <1>1, <1>2, Iteration
<1>4. \A n \in 1 .. N : f[n] = With(f[n - 1], n)
  <2>. TAKE n \in 1 .. N
  <2>1. n - 1 \in 0 .. N
    BY <1>1
  <2>2. step[n] = [s \in Seq(Header) |-> With(s, n)] /\ f[n - 1] \in Seq(Header)
    <3>. HIDE DEF With
    <3>. QED  BY <2>1
  <2>. HIDE DEF step, With
  <2>. QED  BY <1>3, <2>2 DEF Iterates
<1>5. F(f)
  <2>1. f = [n \in 0 .. N |-> f[n]] /\ f[0] = hs
    BY <1>3 DEF Iterates
  <2>2. \A n \in 0 .. N : n = 0 \/ n \in 1 .. N
    BY <1>1
  <2>3. \A n \in 0 .. N : f[n] = IF n = 0 THEN hs ELSE With(f[n - 1], n)
    <3>. HIDE DEF With
    <3>. QED  BY <1>4, <2>1, <2>2
  <2>. HIDE DEF With
  <2>. QED  BY <2>1, <2>3
<1>6. F(filled)
  BY <1>5
<1>7. Filling(hs, more) = filled[N]
  BY DEF Filling, N
<1>8. TakesSteps(filled, N, Seq(Header), hs, step)
  <2>1. \A n \in 0 .. N : filled[n] = IF n = 0 THEN hs ELSE With(filled[n - 1], n)
    <3>. HIDE DEF filled, With
    <3>. QED  BY <1>6
  <2>2. \A n \in 1 .. N : \A s \in Seq(Header) : step[n][s] = With(s, n)
    <3>. HIDE DEF With
    <3>. QED  OBVIOUS
  <2>3. 0 \in 0 .. N /\ \A n \in 1 .. N : n \in 0 .. N /\ n # 0
    BY <1>1
  <2>. HIDE DEF filled, step, With
  <2>. QED  BY <2>1, <2>2, <2>3 DEF TakesSteps
<1>. HIDE DEF filled, step
<1>9. IteratesOn(f, N, Seq(Header), hs, step)
  BY <1>1, <1>2, <1>3 DEF IteratesOn
<1>10. SameUpTo(N, filled, f)
  BY <1>8, <1>9, IterationIsUnique, Zenon
<1>11. filled[N] = f[N]
  BY <1>1, <1>10 DEF SameUpTo
<1>12. Fills(f, hs, more)
  BY <1>3, <1>4 DEF Fills, Iterates, N
<1>. QED  BY <1>7, <1>11, <1>12 DEF N

LEMMA FillingNothing ==
  ASSUME NEW hs \in Seq(Header)
  PROVE  Filling(hs, << >>) = hs
<1>1. << >> \in Seq(Header) /\ Len(<< >>) = 0
  OBVIOUS
<1>2. PICK f : Fills(f, hs, << >>) /\ Filling(hs, << >>) = f[Len(<< >>)]
  BY <1>1, FillingReads
<1>. QED  BY <1>1, <1>2 DEF Fills

LEMMA FillingType ==
  ASSUME NEW hs \in Seq(Header), NEW more \in Seq(Header)
  PROVE  Filling(hs, more) \in Seq(Header) /\ Len(Filling(hs, more)) = Len(hs) + Len(more)
<1>. DEFINE N == Len(more)
<1>1. PICK f \in [0 .. N -> Seq(Header)] : Fills(f, hs, more) /\ Filling(hs, more) = f[N]
  BY FillingReads
<1>2. /\ N \in Nat /\ Len(hs) \in Nat
      /\ \A n \in 1 .. N : more[n].name \in String /\ Unfolded(more[n].value) \in String
  <2>1. N \in Nat /\ Len(hs) \in Nat /\ \A n \in 1 .. N : more[n].name \in String /\ more[n].value \in String
    BY HeaderParts
  <2>. QED  BY <2>1, UnfoldedType
<1>3. f[0] = hs /\ \A n \in 1 .. N : f[n] = add(f[n - 1], more[n].name, Unfolded(more[n].value))
  BY <1>1, Zenon DEF Fills
<1>. HIDE DEF N
<1>. DEFINE S == {k \in Nat : k <= N => Len(f[k]) = Len(hs) + k}
<1>4. 0 \in S
  BY <1>2, <1>3
<1>5. ASSUME NEW k \in Nat, k \in S PROVE k + 1 \in S
  <2>. SUFFICES ASSUME k + 1 <= N PROVE Len(f[k + 1]) = Len(hs) + (k + 1)
    OBVIOUS
  <2>1. k + 1 \in 1 .. N /\ (k + 1) - 1 = k /\ k \in 0 .. N
    BY <1>2
  <2>2. f[k] \in Seq(Header) /\ Len(f[k]) = Len(hs) + k
    BY <1>5, <2>1
  <2>3. f[k + 1] = add(f[k], more[k + 1].name, Unfolded(more[k + 1].value))
    BY <1>3, <2>1
  <2>4. Len(f[k + 1]) = Len(f[k]) + 1
    <3>1. more[k + 1].name \in String /\ Unfolded(more[k + 1].value) \in String
      BY <1>2, <2>1
    <3>2. Len(add(f[k], more[k + 1].name, Unfolded(more[k + 1].value))) = Len(f[k]) + 1
      BY <2>2, <3>1, AddProperties
    <3>. QED  BY <2>3, <3>2
  <2>. QED  BY <1>2, <2>2, <2>4
<1>6. N \in S
  <2>. HIDE DEF S
  <2>. QED  BY <1>2, <1>4, <1>5, NatSetInduction
<1>7. Len(f[N]) = Len(hs) + N /\ f[N] \in Seq(Header)
  BY <1>2, <1>6
<1>. QED  BY <1>1, <1>7 DEF N

LEMMA FillingAppend ==
  ASSUME NEW hs \in Seq(Header), NEW more \in Seq(Header), NEW h \in Header
  PROVE  Filling(hs, Append(more, h)) = add(Filling(hs, more), h.name, Unfolded(h.value))
<1>. DEFINE N == Len(more)
            t == Append(more, h)
<1>1. N \in Nat /\ t \in Seq(Header) /\ Len(t) = N + 1 /\ t[N + 1] = h /\ \A i \in 1 .. N : t[i] = more[i]
  OBVIOUS
<1>2. PICK f : Fills(f, hs, more) /\ Filling(hs, more) = f[N]
  BY FillingReads
<1>3. PICK g : Fills(g, hs, t) /\ Filling(hs, t) = g[N + 1]
  BY <1>1, FillingReads
<1>. HIDE DEF t
<1>4. /\ f[0] = hs /\ \A n \in 1 .. N : f[n] = add(f[n - 1], more[n].name, Unfolded(more[n].value))
      /\ g[0] = hs /\ \A n \in 1 .. N + 1 : g[n] = add(g[n - 1], t[n].name, Unfolded(t[n].value))
  BY <1>1, <1>2, <1>3 DEF Fills
<1>. HIDE DEF N
<1>. DEFINE S == {k \in Nat : k <= N => g[k] = f[k]}
<1>5. 0 \in S
  BY <1>4
<1>6. ASSUME NEW k \in Nat, k \in S PROVE k + 1 \in S
  <2>. SUFFICES ASSUME k + 1 <= N PROVE g[k + 1] = f[k + 1]
    OBVIOUS
  <2>1. k + 1 \in 1 .. N /\ k + 1 \in 1 .. N + 1 /\ (k + 1) - 1 = k /\ g[k] = f[k]
    <3>1. N \in Nat
      BY <1>1
    <3>. QED  BY <1>6, <3>1
  <2>2. t[k + 1] = more[k + 1]
    BY <1>1, <2>1
  <2>3. g[k + 1] = add(g[(k + 1) - 1], t[k + 1].name, Unfolded(t[k + 1].value))
    BY <1>4, <2>1
  <2>4. f[k + 1] = add(f[(k + 1) - 1], more[k + 1].name, Unfolded(more[k + 1].value))
    BY <1>4, <2>1
  <2>. QED  BY <2>1, <2>2, <2>3, <2>4
<1>7. N \in S
  <2>. HIDE DEF S
  <2>. QED  BY <1>1, <1>5, <1>6, NatSetInduction
<1>8. N + 1 \in 1 .. N + 1 /\ (N + 1) - 1 = N /\ g[N] = f[N]
  BY <1>1, <1>7
<1>9. g[N + 1] = add(g[(N + 1) - 1], t[N + 1].name, Unfolded(t[N + 1].value))
  BY <1>4, <1>8
<1>. QED  BY <1>1, <1>2, <1>3, <1>8, <1>9 DEF t

\* The container when the first i of the headers hs have been read into given.
FilledSoFar(given, hs, i) == Filling(given, SubSeq(hs, 1, i))

LEMMA FilledSoFarIs ==
  ASSUME NEW given \in Seq(Header), NEW hs \in Seq(Header)
  PROVE  /\ FilledSoFar(given, hs, 0) = given
         /\ FilledSoFar(given, hs, Len(hs)) = Filling(given, hs)
<1>1. SubSeq(hs, 1, 0) = << >>
  BY SubSeqEmpty
<1>2. SubSeq(hs, 1, Len(hs)) = hs
  BY SubSeqFull
<1>. QED  BY <1>1, <1>2, FillingNothing DEF FilledSoFar

LEMMA FilledSoFarType ==
  ASSUME NEW given \in Seq(Header), NEW hs \in Seq(Header), NEW i \in 0 .. Len(hs)
  PROVE  FilledSoFar(given, hs, i) \in Seq(Header) /\ Len(FilledSoFar(given, hs, i)) = Len(given) + i
<1>1. Len(hs) \in Nat /\ \A j \in 1 .. i : hs[j] \in Header
  OBVIOUS
<1>2. SubSeq(hs, 1, i) \in Seq(Header) /\ Len(SubSeq(hs, 1, i)) = i
  BY <1>1, SubSeqProperties
<1>. DEFINE part == SubSeq(hs, 1, i)
<1>. HIDE DEF part
<1>3. part \in Seq(Header) /\ Len(part) = i
  BY <1>2 DEF part
<1>4. Filling(given, part) \in Seq(Header) /\ Len(Filling(given, part)) = Len(given) + Len(part)
  BY <1>3, FillingType
<1>. QED  BY <1>3, <1>4 DEF FilledSoFar, part

LEMMA FilledSoFarStep ==
  ASSUME NEW given \in Seq(Header), NEW hs \in Seq(Header), NEW i \in 1 .. Len(hs)
  PROVE  FilledSoFar(given, hs, i)
           = add(FilledSoFar(given, hs, i - 1), hs[i].name, Unfolded(hs[i].value))
<1>1. 1 \in 1 .. Len(hs) /\ i \in 1 .. Len(hs) /\ hs[i] \in Header
      /\ \A j \in 1 .. i - 1 : hs[j] \in Header
  OBVIOUS
<1>2. SubSeq(hs, 1, i) = SubSeq(hs, 1, i - 1) \o <<hs[i]>>
  BY <1>1, SubSeqRecursiveSecond
<1>3. SubSeq(hs, 1, i - 1) \in Seq(Header)
  BY <1>1, SubSeqProperties
<1>4. SubSeq(hs, 1, i) = Append(SubSeq(hs, 1, i - 1), hs[i])
  BY <1>1, <1>2, <1>3, AppendIsConcat
<1>. DEFINE part == SubSeq(hs, 1, i - 1)
            h    == hs[i]
<1>5. part \in Seq(Header) /\ h \in Header /\ SubSeq(hs, 1, i) = Append(part, h)
  BY <1>1, <1>3, <1>4
<1>. HIDE DEF part, h
<1>6. Filling(given, Append(part, h)) = add(Filling(given, part), h.name, Unfolded(h.value))
  BY <1>5, FillingAppend
<1>. QED  BY <1>5, <1>6 DEF FilledSoFar, part, h

LEMMA ReadBackIs ==
  ASSUME NEW hs \in Seq(Header)
  PROVE  /\ ReadBack(hs) \in Seq(Header) /\ Len(ReadBack(hs)) = Len(hs) /\ Len(hs) \in Nat
         /\ \A i \in 1 .. Len(hs) : /\ ReadBack(hs)[i].name = hs[i].name
                                    /\ ReadBack(hs)[i].value = Unfolded(hs[i].value)
         /\ InOrder(hs) => InOrder(ReadBack(hs))
         /\ \A name : equal_range(ReadBack(hs), name) = equal_range(hs, name)
<1>1. Len(hs) \in Nat /\ DOMAIN hs = 1 .. Len(hs)
      /\ \A i \in 1 .. Len(hs) : hs[i].name \in String /\ hs[i].value \in String
  BY HeaderParts
<1>. DEFINE N == Len(hs)
            H(i) == [name |-> hs[i].name, value |-> Unfolded(hs[i].value)]
<1>2. \A i \in 1 .. N : H(i) \in Header
  BY <1>1, UnfoldedType DEF Header
<1>3. ReadBack(hs) = [i \in 1 .. N |-> H(i)]
  BY <1>1, Zenon DEF ReadBack
<1>. HIDE DEF N, H
<1>4. ReadBack(hs) \in Seq(Header) /\ Len(ReadBack(hs)) = N /\ \A i \in 1 .. N : ReadBack(hs)[i] = H(i)
  BY <1>1, <1>2, <1>3 DEF N
<1>5. \A i \in 1 .. N : ReadBack(hs)[i].name = hs[i].name /\ ReadBack(hs)[i].value = Unfolded(hs[i].value)
  BY <1>4 DEF H
<1>6. InOrder(hs) => InOrder(ReadBack(hs))
  BY <1>4, <1>5 DEF InOrder, N
<1>7. \A name : equal_range(ReadBack(hs), name) = equal_range(hs, name)
  BY <1>4, <1>5 DEF equal_range, N
<1>. QED  BY <1>1, <1>4, <1>5, <1>6, <1>7 DEF N

(* Headers that come in the order of the container end up as they came.    *)
LEMMA FilledInOrder ==
  ASSUME NEW hs \in Seq(Header), InOrder(hs)
  PROVE  Filling(<< >>, hs) = ReadBack(hs)
<1>. DEFINE N == Len(hs)
            t == ReadBack(hs)
<1>1. /\ N \in Nat /\ t \in Seq(Header) /\ Len(t) = N
      /\ \A i \in 1 .. N : t[i].name = hs[i].name /\ t[i].value = Unfolded(hs[i].value)
      /\ InOrder(t)
  BY ReadBackIs
<1>2. \A i \in 1 .. N : t[i] \in Header /\ t[i] = [name |-> t[i].name, value |-> t[i].value]
                        /\ t[i].name \in String /\ t[i].value \in String
  <2>1. \A i \in 1 .. N : t[i] \in Header /\ t[i].name \in String /\ t[i].value \in String
    BY <1>1, HeaderParts
  <2>2. \A h \in Header : h = [name |-> h.name, value |-> h.value]
    BY DEF Header
  <2>. HIDE DEF t, N
  <2>. QED  BY <2>1, <2>2
<1>3. << >> \in Seq(Header)
  OBVIOUS
<1>. HIDE DEF t, N
<1>. DEFINE S == {k \in Nat : k <= N => FilledSoFar(<< >>, hs, k) = SubSeq(t, 1, k)}
<1>4. 0 \in S
  <2>1. SubSeq(t, 1, 0) = << >>
    BY <1>1, SubSeqEmpty
  <2>. QED  BY <1>3, <2>1, FilledSoFarIs
<1>5. ASSUME NEW k \in Nat, k \in S PROVE k + 1 \in S
  <2>. SUFFICES ASSUME k + 1 <= N PROVE FilledSoFar(<< >>, hs, k + 1) = SubSeq(t, 1, k + 1)
    OBVIOUS
  <2>1. k + 1 \in 1 .. N /\ (k + 1) - 1 = k /\ k <= N /\ \A j \in 1 .. k : j \in 1 .. N /\ j < k + 1
    BY <1>1
  <2>. DEFINE a == SubSeq(t, 1, k)
              x == t[k + 1].name
              y == t[k + 1].value
  <2>2. FilledSoFar(<< >>, hs, k + 1) = add(a, x, y)
    <3>1. FilledSoFar(<< >>, hs, k) = a
      BY <1>5, <2>1
    <3>2. FilledSoFar(<< >>, hs, k + 1)
            = add(FilledSoFar(<< >>, hs, (k + 1) - 1), hs[k + 1].name, Unfolded(hs[k + 1].value))
      BY <1>3, <2>1, FilledSoFarStep DEF N
    <3>. QED  BY <1>1, <2>1, <3>1, <3>2
  <2>3. a \in Seq(Header) /\ Len(a) = k /\ \A j \in 1 .. k : a[j] = t[j]
    <3>1. \A j \in 1 .. k : t[j] \in Header
      BY <1>2, <2>1
    <3>. QED  BY <1>1, <3>1, SubSeqProperties
  <2>4. x \in String /\ y \in String /\ t[k + 1] = [name |-> x, value |-> y] /\ t[k + 1] \in Header
    BY <1>2, <2>1
  <2>5. \A j \in 1 .. k : ~Less(x, t[j].name)
    BY <1>1, <2>1 DEF InOrder
  <2>. HIDE DEF a, x, y
  <2>6. InOrder(a)
    BY <1>1, <2>1, <2>3 DEF InOrder
  <2>7. PICK n \in 0 .. k : PutAt(n, a, x, y, add(a, x, y))
    BY <2>3, <2>4, <2>6, AddPlace
  <2>8. /\ \A i \in 1 .. k : i <= n <=> ~Less(x, a[i].name)
        /\ Len(add(a, x, y)) = k + 1
        /\ \A i \in 1 .. k + 1 :
             add(a, x, y)[i] = IF i <= n THEN a[i]
                               ELSE IF i = n + 1 THEN [name |-> x, value |-> y] ELSE a[i - 1]
    BY <2>3, <2>7 DEF PutAt
  <2>9. n = k
    <3>1. CASE k = 0
      BY <3>1
    <3>2. CASE k > 0
      <4>1. k \in 1 .. k /\ ~Less(x, a[k].name)
        BY <2>3, <2>5, <3>2
      <4>. QED  BY <2>8, <4>1
    <3>. QED  BY <3>1, <3>2
  <2>10. \A i \in 1 .. k + 1 : add(a, x, y)[i] = t[i]
    BY <2>3, <2>4, <2>8, <2>9
  <2>11. /\ SubSeq(t, 1, k + 1) \in Seq(Header) /\ Len(SubSeq(t, 1, k + 1)) = k + 1
         /\ \A i \in 1 .. k + 1 : SubSeq(t, 1, k + 1)[i] = t[i]
    <3>1. \A j \in 1 .. k + 1 : t[j] \in Header
      <4>1. \A j \in 1 .. k + 1 : j \in 1 .. N
        BY <1>1, <2>1
      <4>. QED  BY <1>2, <4>1
    <3>. QED  BY <1>1, <2>1, <3>1, SubSeqProperties
  <2>12. add(a, x, y) \in Seq(Header)
    BY <2>3, <2>4, AddProperties
  <2>13. add(a, x, y) = SubSeq(t, 1, k + 1)
    BY <2>8, <2>10, <2>11, <2>12, SeqEqual
  <2>. QED  BY <2>2, <2>13
<1>6. N \in S
  <2>. HIDE DEF S
  <2>. QED  BY <1>1, <1>4, <1>5, NatSetInduction
<1>7. FilledSoFar(<< >>, hs, N) = SubSeq(t, 1, N)
  BY <1>1, <1>6
<1>8. SubSeq(t, 1, N) = t
  BY <1>1, SubSeqFull
<1>. QED  BY <1>3, <1>7, <1>8, FilledSoFarIs DEF N, t
-----------------------------------------------------------------------------
(* The headers that frame a message, as they are read back.                *)

LEMMA Irreflexive == ASSUME NEW x \in String PROVE ~Less(x, x)
BY LessAsymmetric

LEMMA AddedIsThere ==
  ASSUME NEW hs \in Seq(Header), NEW name \in String, NEW v \in String
  PROVE  \E i \in equal_range(add(hs, name, v), name) : add(hs, name, v)[i].value = v
<1>. DEFINE r == add(hs, name, v)
            h == [name |-> name, value |-> v]
<1>1. r \in Seq(Header) /\ Range(r) = Range(hs) \cup {h} /\ h.name = name /\ h.value = v
  BY AddProperties
<1>. HIDE DEF r, h
<1>2. PICK i \in 1 .. Len(r) : r[i] = h
  BY <1>1 DEF Range
<1>3. i \in equal_range(r, name) /\ r[i].value = v
  BY <1>1, <1>2, Irreflexive DEF equal_range
<1>. QED  BY <1>3 DEF r

\* A name that is not in a container is not among what add() leaves there
\* but for the new entry.
LEMMA OnlyAdded ==
  ASSUME NEW hs \in Seq(Header), NEW name \in String, NEW v \in String, NEW x, ~have(hs, x),
         NEW i \in equal_range(add(hs, name, v), x)
  PROVE  add(hs, name, v)[i] = [name |-> name, value |-> v]
<1>. DEFINE r == add(hs, name, v)
            h == [name |-> name, value |-> v]
<1>1. r \in Seq(Header) /\ Range(r) = Range(hs) \cup {h}
  BY AddProperties
<1>2. i \in 1 .. Len(r) /\ ~Less(r[i].name, x) /\ ~Less(x, r[i].name)
  BY DEF equal_range
<1>. HIDE DEF r, h
<1>3. r[i] \in Range(r)
  BY <1>1, <1>2 DEF Range
<1>4. ASSUME r[i] \in Range(hs) PROVE FALSE
  <2>1. PICK j \in 1 .. Len(hs) : hs[j] = r[i]
    BY <1>4 DEF Range
  <2>2. j \in equal_range(hs, x)
    BY <1>2, <2>1 DEF equal_range
  <2>. QED  BY <2>2 DEF have
<1>. QED  BY <1>1, <1>3, <1>4 DEF r, h

LEMMA ErasedIsGone ==
  ASSUME NEW hs \in Seq(Header), NEW name, NEW x, x = name \/ ~have(hs, x)
  PROVE  ~have(erase(hs, name), x)
<1>. DEFINE r == erase(hs, name)
<1>1. \A i \in 1 .. Len(r) : \E j \in 1 .. Len(hs) : j \notin equal_range(hs, name) /\ r[i] = hs[j]
  BY EraseProperties
<1>. HIDE DEF r
<1>2. ASSUME NEW i \in equal_range(r, x) PROVE FALSE
  <2>1. i \in 1 .. Len(r) /\ ~Less(r[i].name, x) /\ ~Less(x, r[i].name)
    BY DEF equal_range
  <2>2. PICK j \in 1 .. Len(hs) : j \notin equal_range(hs, name) /\ r[i] = hs[j]
    BY <1>1, <2>1
  <2>3. j \in equal_range(hs, x)
    BY <2>1, <2>2 DEF equal_range
  <2>. QED  BY <2>2, <2>3 DEF have
<1>. QED  BY <1>2 DEF have, r

LEMMA UnframedIs ==
  ASSUME NEW hs \in Seq(Header), InOrder(hs)
  PROVE  /\ Unframed(hs) \in Seq(Header) /\ InOrder(Unframed(hs))
         /\ ~have(Unframed(hs), ContentLength) /\ ~have(Unframed(hs), TransferEncoding)
<1>. DEFINE r == erase(hs, ContentLength)
<1>1. r \in Seq(Header) /\ InOrder(r)
  BY EraseProperties
<1>2. ~have(r, ContentLength)
  BY ErasedIsGone
<1>. HIDE DEF r
<1>3. erase(r, TransferEncoding) \in Seq(Header) /\ InOrder(erase(r, TransferEncoding))
  BY <1>1, EraseProperties
<1>4. ~have(erase(r, TransferEncoding), TransferEncoding)
  BY <1>1, ErasedIsGone
<1>5. ~have(erase(r, TransferEncoding), ContentLength)
  BY <1>1, <1>2, ErasedIsGone
<1>. QED  BY <1>3, <1>4, <1>5 DEF Unframed, r

\* A text that is a number reads back as it is written.
LEMMA NumberIsPlain ==
  ASSUME NEW n \in Nat
  PROVE  Unfolded(NumberText(n, 10)) = NumberText(n, 10) /\ NumberText(n, 10) \in String
<1>. DEFINE t == NumberText(n, 10)
<1>1. IsNumber(t, n, 10)
  BY NumberTextProperties DEF Base
<1>. HIDE DEF t
<1>2. t \in String /\ \A i \in 1 .. Len(t) : t[i] \notin Blank
  BY <1>1 DEF IsNumber, IsDigitOf, isDigit, isHexDigit, Blank, SP, HT, CR, LF
<1>3. \A i \in 1 .. Len(t) : t[i] \notin {CR, LF}
  BY <1>2 DEF Blank
<1>4. Joined(t) = t /\ trim(t) = t
  BY <1>2, <1>3, JoinedPlain, TrimNothing
<1>. QED  BY <1>2, <1>4 DEF Unfolded, t

\* What a header section says of the body behind it.
Frames(hs, chunked, length) ==
  /\ haveValue(hs, TransferEncoding, Chunked) <=> chunked
  /\ ~chunked => (have(hs, ContentLength) <=> length > 0)
  /\ ~chunked /\ length > 0 => toUnsignedInt(value(hs, ContentLength), FALSE) = length

LEMMA FramedByChunks ==
  ASSUME Unfolded(Chunked) = Chunked, NEW hs \in Seq(Header), InOrder(hs), NEW length
  PROVE  Frames(ReadBack(ChunkedHeaders(hs)), TRUE, length)
<1>. DEFINE r == ChunkedHeaders(hs)
            t == ReadBack(r)
<1>1. {TransferEncoding, ContentLength, Chunked} \subseteq String
  BY HeadersAssumption
<1>2. r = add(Unframed(hs), TransferEncoding, Chunked) /\ Unframed(hs) \in Seq(Header)
  BY UnframedIs DEF ChunkedHeaders
<1>3. r \in Seq(Header)
  BY <1>1, <1>2, AddProperties
<1>4. PICK i \in equal_range(r, TransferEncoding) : r[i].value = Chunked
  BY <1>1, <1>2, AddedIsThere
<1>. HIDE DEF r
<1>5. i \in equal_range(t, TransferEncoding) /\ t[i].value = Unfolded(Chunked)
  <2>1. i \in 1 .. Len(r)
    BY <1>4 DEF equal_range
  <2>. QED  BY <1>3, <1>4, <2>1, ReadBackIs
<1>6. t[i].value = Chunked
  BY <1>5
<1>. HIDE DEF t
<1>7. haveValue(t, TransferEncoding, Chunked)
  BY <1>5, <1>6 DEF haveValue
<1>. QED  BY <1>7 DEF Frames, t, r

LEMMA FramedByLength ==
  ASSUME Less(ContentLength, TransferEncoding) \/ Less(TransferEncoding, ContentLength),
         NEW hs \in Seq(Header), InOrder(hs), NEW length \in UInt
  PROVE  Frames(ReadBack(IdentityHeaders(hs, length)), FALSE, length)
<1>. DEFINE u == Unframed(hs)
            r == IdentityHeaders(hs, length)
            t == ReadBack(r)
            n == NumberText(length, 10)
<1>1. TransferEncoding \in String /\ ContentLength \in String /\ length \in Nat
  BY HeadersAssumption DEF UInt
<1>2. u \in Seq(Header) /\ ~have(u, ContentLength) /\ ~have(u, TransferEncoding)
  BY UnframedIs
<1>3. n \in String /\ Unfolded(n) = n
  BY <1>1, NumberIsPlain
<1>4. r = IF length > 0 THEN add(u, ContentLength, n) ELSE u
  BY DEF IdentityHeaders
<1>5. r \in Seq(Header)
  BY <1>1, <1>2, <1>3, <1>4, AddProperties
<1>. HIDE DEF u, r, n
<1>6. /\ t \in Seq(Header)
      /\ \A name : equal_range(t, name) = equal_range(r, name)
      /\ \A i \in 1 .. Len(r) : t[i].value = Unfolded(r[i].value)
  BY <1>5, ReadBackIs
<1>. HIDE DEF t
<1>7. ~have(r, TransferEncoding)
  <2>1. CASE length > 0
    <3>1. ASSUME NEW i \in equal_range(r, TransferEncoding) PROVE FALSE
      <4>1. r[i] = [name |-> ContentLength, value |-> n]
        BY <1>1, <1>2, <1>3, <1>4, <2>1, OnlyAdded
      <4>2. ~Less(r[i].name, TransferEncoding) /\ ~Less(TransferEncoding, r[i].name)
        BY DEF equal_range
      <4>. QED  BY <4>1, <4>2
    <3>. QED  BY <3>1 DEF have
  <2>2. CASE ~(length > 0)
    BY <1>2, <1>4, <2>2
  <2>. QED  BY <2>1, <2>2
<1>8. ~haveValue(t, TransferEncoding, Chunked)
  BY <1>6, <1>7 DEF have, haveValue
<1>9. have(t, ContentLength) <=> have(r, ContentLength)
  BY <1>6 DEF have
<1>10. CASE length > 0
  <2>1. have(r, ContentLength)
    BY <1>1, <1>2, <1>3, <1>4, <1>10, AddedIsThere DEF have
  <2>. DEFINE i == Min(equal_range(t, ContentLength))
  <2>2. i \in equal_range(t, ContentLength)
    BY <1>6, <1>9, <2>1, EqualRangeType
  <2>3. value(t, ContentLength) = t[i].value
    BY <1>9, <2>1 DEF value
  <2>. HIDE DEF i
  <2>4. i \in equal_range(r, ContentLength) /\ i \in 1 .. Len(r)
    BY <1>6, <2>2 DEF equal_range
  <2>5. r[i] = [name |-> ContentLength, value |-> n]
    BY <1>1, <1>2, <1>3, <1>4, <1>10, <2>4, OnlyAdded
  <2>6. value(t, ContentLength) = n
    BY <1>3, <1>6, <2>3, <2>4, <2>5
  <2>7. toUnsignedInt(n, FALSE) = length
    BY LengthsReadBack DEF n
  <2>. QED  BY <1>8, <1>9, <1>10, <2>1, <2>6, <2>7 DEF Frames, t, r
<1>11. CASE ~(length > 0)
  BY <1>2, <1>4, <1>8, <1>9, <1>11 DEF Frames, t, r
<1>. QED  BY <1>10, <1>11
-----------------------------------------------------------------------------
(* The chunks that are sent, and the payload they carry.                   *)

Accepts(f, chunks) ==
  /\ f[0] = << >>
  /\ \A n \in 1 .. Len(chunks) :
       f[n] = IF RejectsChunk(Len(chunks[n])) THEN f[n - 1] ELSE Append(f[n - 1], chunks[n])

LEMMA AcceptedReads ==
  ASSUME NEW m, m.chunks \in Seq(String)
  PROVE  \E f \in [0 .. Len(m.chunks) -> Seq(String)] :
           Accepts(f, m.chunks) /\ Accepted(m) = f[Len(m.chunks)]
<1>. DEFINE c == m.chunks
            N == Len(c)
            Kept(s, n) == IF RejectsChunk(Len(c[n])) THEN s ELSE Append(s, c[n])
            step == [n \in 1 .. N |-> [s \in Seq(String) |-> Kept(s, n)]]
            F(g) == g = [n \in 0 .. N |->
                           IF n = 0 THEN << >>
                           ELSE IF RejectsChunk(Len(c[n])) THEN g[n - 1]
                           ELSE Append(g[n - 1], c[n])]
            kept == CHOOSE g : F(g)
<1>1. N \in Nat /\ << >> \in Seq(String) /\ \A n \in 1 .. N : c[n] \in String
  OBVIOUS
<1>7. Accepted(m) = kept[N]
  BY DEF Accepted
<1>. HIDE DEF N, c
<1>2. step \in [1 .. N -> [Seq(String) -> Seq(String)]]
  <2>1. \A n \in 1 .. N : \A s \in Seq(String) : Kept(s, n) \in Seq(String)
    BY <1>1
  <2>. HIDE DEF Kept
  <2>. QED  BY <2>1
<1>3. PICK f \in [0 .. N -> Seq(String)] : Iterates(f, N, << >>, step)
  <2>. HIDE DEF step
  <2>. QED  BY <1>1, <1>2, Iteration
<1>4. \A n \in 1 .. N : f[n] = Kept(f[n - 1], n)
  <2>. TAKE n \in 1 .. N
  <2>1. n - 1 \in 0 .. N
    BY <1>1
  <2>2. step[n] = [s \in Seq(String) |-> Kept(s, n)] /\ f[n - 1] \in Seq(String)
    <3>. HIDE DEF Kept
    <3>. QED  BY <2>1
  <2>. HIDE DEF step, Kept
  <2>. QED  BY <1>3, <2>2 DEF Iterates
<1>5. F(f)
  <2>1. f = [n \in 0 .. N |-> f[n]] /\ f[0] = << >>
    BY <1>3 DEF Iterates
  <2>2. \A n \in 0 .. N : n = 0 \/ n \in 1 .. N
    BY <1>1
  <2>3. \A n \in 0 .. N :
          f[n] = IF n = 0 THEN << >> ELSE IF RejectsChunk(Len(c[n])) THEN f[n - 1]
                 ELSE Append(f[n - 1], c[n])
    BY <1>4, <2>1, <2>2
  <2>. QED  BY <2>1, <2>3
<1>6. F(kept)
  BY <1>5
<1>8. TakesSteps(kept, N, Seq(String), << >>, step)
  <2>1. \A n \in 0 .. N : kept[n] = IF n = 0 THEN << >> ELSE Kept(kept[n - 1], n)
    <3>. HIDE DEF kept
    <3>. QED  BY <1>6
  <2>2. \A n \in 1 .. N : \A s \in Seq(String) : step[n][s] = Kept(s, n)
    <3>. HIDE DEF Kept
    <3>. QED  OBVIOUS
  <2>3. 0 \in 0 .. N /\ \A n \in 1 .. N : n \in 0 .. N /\ n # 0
    BY <1>1
  <2>. HIDE DEF kept, step, Kept
  <2>. QED  BY <2>1, <2>2, <2>3 DEF TakesSteps
<1>. HIDE DEF kept, step
<1>9. IteratesOn(f, N, Seq(String), << >>, step)
  BY <1>1, <1>2, <1>3 DEF IteratesOn
<1>10. SameUpTo(N, kept, f)
  BY <1>8, <1>9, IterationIsUnique, Zenon
<1>11. kept[N] = f[N]
  BY <1>1, <1>10 DEF SameUpTo
<1>12. Accepts(f, c)
  BY <1>3, <1>4 DEF Accepts, Iterates, N
<1>. QED  BY <1>7, <1>11, <1>12 DEF N, c

\* Chunks a composer accepts: none of them is empty or too long to be read.
Chunky(s) == s \in Seq(String) /\ \A i \in 1 .. Len(s) : Len(s[i]) \in UInt \ {0} /\ s[i] # << >>

LEMMA AcceptedIs ==
  ASSUME NEW m, m.chunks \in Seq(String), \A i \in DOMAIN m.chunks : Len(m.chunks[i]) \in UInt
  PROVE  /\ Chunky(Accepted(m))
         /\ FlattenSeq(Accepted(m)) = Payload(m)
         /\ (\E i \in DOMAIN m.chunks : m.chunks[i] # << >>) => Accepted(m) # << >>
<1>. DEFINE c == m.chunks
            N == Len(c)
<1>1. PICK f \in [0 .. N -> Seq(String)] : Accepts(f, c) /\ Accepted(m) = f[N]
  BY AcceptedReads
<1>2. /\ N \in Nat /\ DOMAIN c = 1 .. N /\ c \in Seq(String)
      /\ \A n \in 1 .. N : c[n] \in String /\ Len(c[n]) \in UInt
  OBVIOUS
<1>3. f[0] = << >>
      /\ \A n \in 1 .. N : f[n] = IF Len(c[n]) <= 0 THEN f[n - 1] ELSE Append(f[n - 1], c[n])
  BY <1>1 DEF Accepts, RejectsChunk
<1>0. Payload(m) = FlattenSeq(c)
  BY DEF Payload
<1>. HIDE DEF c
<1>. DEFINE Some(k) == \A i \in 1 .. k : c[i] # << >> => f[k] # << >>
            Same(k) == FlattenSeq(f[k]) = TextTo(c, k)
            S == {k \in Nat : k <= N => Chunky(f[k]) /\ Same(k) /\ Some(k)}
<1>4. 0 \in S
  <2>1. Chunky(f[0])
    BY <1>3 DEF Chunky
  <2>2. Same(0)
    <3>1. TextTo(c, 0) = << >>
      BY <1>2, TextToEnds
    <3>. QED  BY <1>3, <3>1, FlattenNothing
  <2>. QED  BY <2>1, <2>2
<1>5. ASSUME NEW k \in Nat, k \in S PROVE k + 1 \in S
  <2>0. k + 1 \in Nat
    OBVIOUS
  <2>. SUFFICES ASSUME k + 1 <= N PROVE Chunky(f[k + 1]) /\ Same(k + 1) /\ Some(k + 1)
    BY <2>0, Zenon
  <2>1. k + 1 \in 1 .. N /\ (k + 1) - 1 = k /\ k \in 0 .. N /\ k <= N
    BY <1>2
  <2>2. Chunky(f[k]) /\ Same(k) /\ Some(k) /\ f[k] \in Seq(String)
    BY <1>1, <1>5, <2>1
  <2>. DEFINE x == c[k + 1]
  <2>3. x \in String /\ Len(x) \in UInt
    BY <1>2, <2>1
  <2>4. TextTo(c, k + 1) = TextTo(c, k) \o x
    <3>1. TextTo(c, k + 1) = TextTo(c, (k + 1) - 1) \o c[k + 1]
      BY <1>2, <2>1, TextToStep DEF N
    <3>. QED  BY <2>1, <3>1
  <2>5. TextTo(c, k) \in Seq(Char)
    BY <1>2, <2>1, TextType DEF String, N
  <2>6. CASE Len(x) <= 0
    <3>1. x = << >>
      BY <2>3, <2>6, EmptySeq DEF String, UInt
    <3>2. f[k + 1] = f[k]
      BY <1>3, <2>1, <2>6
    <3>3. TextTo(c, k + 1) = TextTo(c, k)
      BY <2>4, <2>5, <3>1, ConcatEmptySeq
    <3>4. Some(k + 1)
      <4>1. \A i \in 1 .. k + 1 : i \in 1 .. k \/ i = k + 1
        BY <2>1
      <4>. QED  BY <2>2, <3>1, <3>2, <4>1
    <3>. QED  BY <2>2, <3>2, <3>3, <3>4
  <2>7. CASE ~(Len(x) <= 0)
    <3>1. f[k + 1] = Append(f[k], x)
      BY <1>3, <2>1, <2>7
    <3>2. Len(x) \in UInt \ {0} /\ x # << >>
      BY <2>3, <2>7 DEF UInt
    <3>. HIDE DEF x
    <3>3. Chunky(f[k + 1])
      BY <2>2, <2>3, <3>1, <3>2 DEF Chunky
    <3>4. Same(k + 1)
      BY <2>2, <2>3, <2>4, <3>1, FlattenLast
    <3>5. f[k + 1] # << >>
      <4>1. PICK g \in Seq(String) : g = f[k]
        BY <2>2
      <4>2. Append(g, x) # << >>
        <5>1. Len(Append(g, x)) = Len(g) + 1 /\ Len(g) \in Nat
          BY <2>3
        <5>2. Len(Append(g, x)) # Len(<< >>)
          BY <5>1
        <5>. QED  BY <5>2, Zenon
      <4>. QED  BY <3>1, <4>1, <4>2, Zenon
    <3>. QED  BY <3>3, <3>4, <3>5
  <2>. QED  BY <2>6, <2>7
<1>6. N \in S
  <2>. HIDE DEF S
  <2>. QED  BY <1>2, <1>4, <1>5, NatSetInduction
<1>7. Chunky(f[N]) /\ Same(N) /\ Some(N)
  BY <1>2, <1>6
<1>8. TextTo(c, N) = FlattenSeq(c)
  BY <1>2, TextToEnds
<1>. QED  BY <1>0, <1>1, <1>2, <1>7, <1>8 DEF c
-----------------------------------------------------------------------------
(* A message as the text that the parser has to read.                      *)

Lines(hs) == [i \in DOMAIN hs |-> Line(hs[i])]

\* The headers hs from the i-th on, the empty line and what is behind it.
SectionText(hs, i, more) == TextFrom(Lines(hs), i) \o (CRLF \o more)

LEMMA LinesType ==
  ASSUME NEW hs \in Seq(Header)
  PROVE  /\ Lines(hs) \in Seq(String) /\ Len(Lines(hs)) = Len(hs)
         /\ \A i \in 1 .. Len(hs) : Lines(hs)[i] = Line(hs[i])
         /\ composeHeader(hs) = TextFrom(Lines(hs), 1)
<1>1. Len(hs) \in Nat /\ DOMAIN hs = 1 .. Len(hs) /\ \A i \in 1 .. Len(hs) : Line(hs[i]) \in String
  <2>1. Len(hs) \in Nat /\ DOMAIN hs = 1 .. Len(hs) /\ \A i \in 1 .. Len(hs) : hs[i] \in Header
    OBVIOUS
  <2>. QED  BY <2>1, LineType
<1>2. Lines(hs) = [i \in 1 .. Len(hs) |-> Line(hs[i])]
  BY <1>1, Zenon DEF Lines
<1>3. Lines(hs) \in Seq(String) /\ Len(Lines(hs)) = Len(hs)
      /\ \A i \in 1 .. Len(hs) : Lines(hs)[i] = Line(hs[i])
  BY <1>1, <1>2
<1>4. composeHeader(hs) = FlattenSeq(Lines(hs))
  BY Zenon DEF composeHeader, Lines, Line
<1>. QED  BY <1>3, <1>4, TextFromEnds

LEMMA Regroup ==
  ASSUME NEW a \in String, NEW b \in String, NEW c \in String
  PROVE  (a \o b) \o c = a \o (b \o c)
BY ThreeJoined DEF String

GroupsThree(a, b, c) == (a \o b) \o c = a \o (b \o c)

LEMMA RegroupThree ==
  ASSUME NEW a \in String, NEW b \in String, NEW c \in String
  PROVE  GroupsThree(a, b, c)
BY Regroup DEF GroupsThree

LEMMA BehindColonType == ASSUME NEW v \in String PROVE BehindColon(v) \in String
BY Letters, JoinType DEF BehindColon

LEMMA LineIs ==
  ASSUME NEW h \in Header
  PROVE  Line(h) = h.name \o (<<Colon>> \o BehindColon(h.value))
<1>. DEFINE n == h.name
            v == h.value
<1>1. n \in String /\ v \in String
  BY DEF Header
<1>2. Line(h) = ((n \o <<Colon, SP>>) \o v) \o CRLF
  BY DEF Line
<1>3. <<Colon, SP>> = <<Colon>> \o <<SP>> /\ <<Colon, SP>> \in String
  BY Letters DEF String
<1>. HIDE DEF n, v
<1>4. (n \o <<Colon, SP>>) \o v = n \o (<<Colon, SP>> \o v) /\ <<Colon, SP>> \o v \in String
  BY <1>1, <1>3, Regroup, JoinType
<1>5. (n \o (<<Colon, SP>> \o v)) \o CRLF = n \o ((<<Colon, SP>> \o v) \o CRLF)
  <2>. DEFINE x == <<Colon, SP>> \o v
  <2>1. x \in String
    BY <1>4
  <2>. HIDE DEF x
  <2>2. (n \o x) \o CRLF = n \o (x \o CRLF)
    <3>1. CRLF \in String
      BY Letters
    <3>. QED  BY <1>1, <2>1, <3>1, Regroup
  <2>. QED  BY <2>2 DEF x
<1>6. <<Colon, SP>> \o v = <<Colon>> \o (<<SP>> \o v) /\ <<SP>> \o v \in String
  BY <1>1, <1>3, Letters, Regroup, JoinType
<1>7. (<<Colon>> \o (<<SP>> \o v)) \o CRLF = <<Colon>> \o ((<<SP>> \o v) \o CRLF)
  BY <1>6, Letters, Regroup
<1>8. BehindColon(v) = (<<SP>> \o v) \o CRLF
  BY DEF BehindColon
<1>9. Line(h) = n \o (<<Colon>> \o BehindColon(v))
  BY <1>2, <1>4, <1>5, <1>6, <1>7, <1>8, Zenon
<1>. QED  BY <1>9 DEF n, v

LEMMA SectionType ==
  ASSUME NEW hs \in Seq(Header), NEW i \in 1 .. Len(hs) + 1, NEW more \in String
  PROVE  SectionText(hs, i, more) \in String
<1>1. TextFrom(Lines(hs), i) \in String
  BY LinesType, TextType
<1>. QED  BY <1>1, Letters, JoinType DEF SectionText

LEMMA SectionStep ==
  ASSUME NEW hs \in Seq(Header), NEW i \in 1 .. Len(hs), NEW more \in String
  PROVE  SectionText(hs, i, more)
           = hs[i].name \o (<<Colon>> \o (BehindColon(hs[i].value) \o SectionText(hs, i + 1, more)))
<1>. DEFINE n == hs[i].name
            b == BehindColon(hs[i].value)
            t == TextFrom(Lines(hs), i + 1)
            e == CRLF \o more
<1>1. hs[i] \in Header /\ n \in String /\ hs[i].value \in String
  <2>1. hs[i] \in Header
    OBVIOUS
  <2>. QED  BY <2>1 DEF Header
<1>2. b \in String
  BY <1>1, BehindColonType
<1>3. t \in String /\ e \in String /\ t \o e \in String
  <2>1. i + 1 \in 1 .. Len(hs) + 1
    OBVIOUS
  <2>2. t \in String
    BY <2>1, LinesType, TextType
  <2>. QED  BY <2>2, Letters, JoinType
<1>4. TextFrom(Lines(hs), i) = Line(hs[i]) \o t
  <2>1. TextFrom(Lines(hs), i) = Lines(hs)[i] \o t
    BY LinesType, TextFromStep
  <2>. QED  BY <2>1, LinesType
<1>5. Line(hs[i]) = n \o (<<Colon>> \o b)
  BY <1>1, LineIs
<1>6. SectionText(hs, i, more) = TextFrom(Lines(hs), i) \o e /\ SectionText(hs, i + 1, more) = t \o e
  BY DEF SectionText
<1>. HIDE DEF n, b, t, e
<1>7. <<Colon>> \o b \in String /\ n \o (<<Colon>> \o b) \in String
  BY <1>1, <1>2, Letters, JoinType
<1>8. ((n \o (<<Colon>> \o b)) \o t) \o e = (n \o (<<Colon>> \o b)) \o (t \o e)
  <2>1. GroupsThree(n \o (<<Colon>> \o b), t, e)
    BY <1>3, <1>7, RegroupThree
  <2>. QED  BY <2>1, Zenon DEF GroupsThree
<1>9. (n \o (<<Colon>> \o b)) \o (t \o e) = n \o ((<<Colon>> \o b) \o (t \o e))
  <2>1. GroupsThree(n, <<Colon>> \o b, t \o e)
    BY <1>1, <1>3, <1>7, RegroupThree
  <2>. QED  BY <2>1, Zenon DEF GroupsThree
<1>10. (<<Colon>> \o b) \o (t \o e) = <<Colon>> \o (b \o (t \o e))
  <2>. DEFINE x == <<Colon>>
              y == t \o e
  <2>1. x \in String /\ y \in String
    BY <1>3, Letters
  <2>. HIDE DEF x, y
  <2>2. (x \o b) \o y = x \o (b \o y)
    BY <1>2, <2>1, Regroup
  <2>. QED  BY <2>2 DEF x, y
<1>11. SectionText(hs, i, more) = n \o (<<Colon>> \o (b \o SectionText(hs, i + 1, more)))
  BY <1>4, <1>5, <1>6, <1>8, <1>9, <1>10, Zenon
<1>. QED  BY <1>11 DEF n, b

LEMMA SectionBegins ==
  ASSUME NEW hs \in Seq(Header), NEW more \in String
  PROVE  /\ SectionText(hs, 1, more) = composeHeader(hs) \o (CRLF \o more)
         /\ SectionText(hs, Len(hs) + 1, more) = CRLF \o more
<1>1. SectionText(hs, 1, more) = composeHeader(hs) \o (CRLF \o more)
  BY LinesType DEF SectionText
<1>2. TextFrom(Lines(hs), Len(hs) + 1) = << >>
  BY LinesType, TextFromEnds
<1>3. << >> \o (CRLF \o more) = CRLF \o more
  BY Letters, JoinType, ConcatEmptySeq DEF String
<1>. QED  BY <1>1, <1>2, <1>3 DEF SectionText

\* The data of the i-th chunk and what is behind it; the last chunk has no
\* data, and the trailer behind it.
Data(m, i) == IF i <= Len(Accepted(m)) THEN Accepted(m)[i] ELSE << >>

BehindData(m, i) ==
  IF i <= Len(Accepted(m)) THEN TextFrom(Pieces(m), i + 1) ELSE SectionText(m.trailer, 1, << >>)

ChunkText(m, i) ==
  NumberText(Len(Data(m, i)), 16) \o (CRLF \o (Data(m, i) \o BehindData(m, i)))

BodyText(m) == IF m.chunked THEN ChunkText(m, 1) ELSE Payload(m)

\* What is behind the tokens of the start line.
BehindThird(m)  == CRLF \o SectionText(Fields(m), 1, BodyText(m))
BehindSecond(m) == <<SP>> \o (m.tokens[3] \o BehindThird(m))
BehindFirst(m)  == <<SP>> \o (m.tokens[2] \o BehindSecond(m))

LEMMA ProperParts ==
  ASSUME NEW m, ProperMessage(m)
  PROVE  /\ m.tokens[1] \in String /\ m.tokens[1] # << >>
         /\ m.tokens[2] \in String /\ m.tokens[2] # << >>
         /\ m.tokens[3] \in String /\ m.tokens[3] # << >>
         /\ m.headers \in Seq(Header) /\ InOrder(m.headers)
         /\ m.trailer \in Seq(Header) /\ InOrder(m.trailer)
         /\ m.chunked \in BOOLEAN /\ m.chunks \in Seq(String)
         /\ Payload(m) \in String /\ Len(Payload(m)) \in UInt
         /\ Fields(m) \in Seq(Header)
         /\ Chunky(Accepted(m)) /\ FlattenSeq(Accepted(m)) = Payload(m)
         /\ m.chunked => Accepted(m) # << >>
<1>1. m.tokens[1] \in String \ {<< >>} /\ m.tokens[2] \in String \ {<< >>}
      /\ m.tokens[3] \in String \ {<< >>}
  <2>1. m.tokens \in [1 .. 3 -> String \ {<< >>}]
    BY DEF ProperMessage, ProperTokens
  <2>2. 1 \in 1 .. 3 /\ 2 \in 1 .. 3 /\ 3 \in 1 .. 3
    OBVIOUS
  <2>. QED  BY <2>1, <2>2, Zenon
<1>2. m.headers \in Seq(Header) /\ InOrder(m.headers) /\ m.trailer \in Seq(Header) /\ InOrder(m.trailer)
  BY DEF ProperMessage
<1>3. /\ m.chunked \in BOOLEAN /\ m.chunks \in Seq(String) /\ Len(Payload(m)) \in UInt
      /\ \A i \in DOMAIN m.chunks : Len(m.chunks[i]) \in UInt
      /\ m.chunked => \E i \in DOMAIN m.chunks : m.chunks[i] # << >>
  BY DEF ProperMessage, ProperBody
<1>4. Payload(m) \in String
  BY <1>3, TextType DEF Payload
<1>5. Fields(m) \in Seq(Header)
  <2>1. Len(Payload(m)) \in Nat
    BY <1>4 DEF String
  <2>. QED  BY <1>2, <2>1, FramedType DEF Fields
<1>6. Chunky(Accepted(m)) /\ FlattenSeq(Accepted(m)) = Payload(m)
      /\ ((\E i \in DOMAIN m.chunks : m.chunks[i] # << >>) => Accepted(m) # << >>)
  BY <1>3, AcceptedIs
<1>. QED  BY <1>1, <1>2, <1>3, <1>4, <1>5, <1>6
LEMMA AcceptedParts ==
  ASSUME NEW m, ProperMessage(m)
  PROVE  /\ Accepted(m) \in Seq(String) /\ Len(Accepted(m)) \in Nat
         /\ DOMAIN Accepted(m) = 1 .. Len(Accepted(m))
         /\ \A i \in 1 .. Len(Accepted(m)) :
              /\ Accepted(m)[i] \in String /\ Accepted(m)[i] # << >>
              /\ Len(Accepted(m)[i]) \in UInt /\ Len(Accepted(m)[i]) \in UInt \ {0}
<1>. DEFINE A == Accepted(m)
<1>1. Chunky(A)
  BY ProperParts
<1>. HIDE DEF A
<1>2. A \in Seq(String) /\ \A i \in 1 .. Len(A) : Len(A[i]) \in UInt \ {0} /\ A[i] # << >>
  BY <1>1, Zenon DEF Chunky
<1>3. \A i \in 1 .. Len(A) : A[i] \in String
  BY <1>2
<1>4. Len(A) \in Nat /\ DOMAIN A = 1 .. Len(A)
  BY <1>2
<1>. QED  BY <1>2, <1>3, <1>4 DEF A

GroupsFour(a, b, c, d)    == ((a \o b) \o c) \o d = a \o (b \o (c \o d))
GroupsFive(a, b, c, d, e) == (((a \o b) \o c) \o d) \o e = a \o (b \o (c \o (d \o e)))
GroupsSeven(a, b, c, d, e, f, g) ==
  (((((a \o b) \o c) \o d) \o e) \o f) \o g
    = a \o (b \o (c \o (d \o (e \o (f \o g)))))

LEMMA RegroupFour ==
  ASSUME NEW a \in String, NEW b \in String, NEW c \in String, NEW d \in String
  PROVE  GroupsFour(a, b, c, d)
<1>1. a \o b \in String /\ c \o d \in String
  BY JoinType
<1>2. GroupsThree(a \o b, c, d) /\ GroupsThree(a, b, c \o d)
  BY <1>1, RegroupThree
<1>. QED  BY <1>2, Zenon DEF GroupsThree, GroupsFour

LEMMA RegroupFive ==
  ASSUME NEW a \in String, NEW b \in String, NEW c \in String, NEW d \in String, NEW e \in String
  PROVE  GroupsFive(a, b, c, d, e)
<1>1. (a \o b) \o c \in String /\ d \o e \in String
  BY JoinType
<1>2. GroupsThree((a \o b) \o c, d, e)
  BY <1>1, RegroupThree
<1>3. GroupsFour(a, b, c, d \o e)
  BY <1>1, RegroupFour
<1>. QED  BY <1>2, <1>3, Zenon DEF GroupsThree, GroupsFour, GroupsFive

LEMMA RegroupSeven ==
  ASSUME NEW a \in String, NEW b \in String, NEW c \in String, NEW d \in String, NEW e \in String,
         NEW f \in String, NEW g \in String
  PROVE  GroupsSeven(a, b, c, d, e, f, g)
<1>. DEFINE p == ((a \o b) \o c) \o d
            q == e \o (f \o g)
<1>1. p \in String /\ f \o g \in String /\ q \in String
  BY JoinType
<1>2. GroupsFour(p, e, f, g)
  BY <1>1, RegroupFour
<1>3. GroupsFive(a, b, c, d, q)
  BY <1>1, RegroupFive
<1>. QED  BY <1>2, <1>3, Zenon DEF GroupsFour, GroupsFive, GroupsSeven

LEMMA SizeText ==
  ASSUME NEW n \in UInt
  PROVE  /\ NumberText(n, 16) \in String /\ NumberText(n, 16) # << >>
         /\ \A i \in 1 .. Len(NumberText(n, 16)) : isHexDigit(NumberText(n, 16)[i])
         /\ toUnsignedInt(NumberText(n, 16), TRUE) = n
<1>1. n \in Nat
  BY DEF UInt
<1>2. IsNumber(NumberText(n, 16), n, 16)
  BY <1>1, NumberTextProperties DEF Base
<1>3. /\ NumberText(n, 16) \in String /\ NumberText(n, 16) # << >>
      /\ \A i \in 1 .. Len(NumberText(n, 16)) : isHexDigit(NumberText(n, 16)[i])
  BY <1>2, Zenon DEF IsNumber, IsDigitOf
<1>. QED  BY <1>3, LengthsReadBack

LEMMA NoSizeText == NumberText(0, 16) = <<48>> /\ 0 \in UInt
<1>1. NumberText(0, 16) = <<Digit(0)>>
  BY NumberTextStep DEF Base
<1>. QED  BY <1>1, UIntSizeAssumption DEF Digit, UInt

LEMMA PiecesInChunks ==
  ASSUME NEW m, ProperMessage(m), m.chunked
  PROVE  /\ Pieces(m) \in Seq(String) /\ Len(Pieces(m)) = Len(Accepted(m)) + 1
         /\ \A i \in 1 .. Len(Accepted(m)) : Pieces(m)[i] = ChunkEnvelope(m, i) \o Accepted(m)[i]
         /\ Pieces(m)[Len(Accepted(m)) + 1] = composeLastChunk(m.trailer)
         /\ composeLastChunk(m.trailer) # << >>
<1>. DEFINE A == Accepted(m)
            s == [i \in DOMAIN A |-> ChunkEnvelope(m, i) \o A[i]]
            l == composeLastChunk(m.trailer)
<1>1. /\ A \in Seq(String) /\ Len(A) \in Nat /\ DOMAIN A = 1 .. Len(A)
      /\ \A i \in 1 .. Len(A) : A[i] \in String /\ Len(A[i]) \in UInt
  BY AcceptedParts
<1>2. ASSUME NEW i \in 1 .. Len(A) PROVE ChunkEnvelope(m, i) \o A[i] \in String
  <2>1. NumberText(Len(A[i]), 16) \in String
    BY <1>1, SizeText
  <2>2. composeNextChunkEnvelope(Len(A[i])) \in String
    BY <2>1, Letters, JoinType DEF composeNextChunkEnvelope
  <2>3. composeFirstChunkEnvelope(m.tokens, m.headers, Len(A[i])) \in String
    <3>1. composeFirstLine(m.tokens) \in String
      BY ProperParts, Letters, JoinType DEF composeFirstLine
    <3>2. composeHeader(ChunkedHeaders(m.headers)) \in String
      BY ProperParts, FramedType, ComposeHeaderLength, 0 \in Nat
    <3>. QED  BY <2>1, <3>1, <3>2, Letters, JoinType DEF composeFirstChunkEnvelope
  <2>4. ChunkEnvelope(m, i) \in String
    BY <2>2, <2>3 DEF ChunkEnvelope
  <2>. QED  BY <1>1, <2>4, JoinType
<1>3. l \in String /\ l # << >>
  <2>1. l \in Seq(Char) /\ Len(l) = composedSize(m.trailer) + 7 /\ composedSize(m.trailer) \in Nat
    BY ProperParts, LastChunkLength
  <2>. QED  BY <2>1 DEF String
<1>4. Pieces(m) = s \o <<l>>
  BY DEF Pieces
<1>. DEFINE P(i) == ChunkEnvelope(m, i) \o A[i]
<1>5. s = [i \in 1 .. Len(A) |-> P(i)] /\ \A i \in 1 .. Len(A) : P(i) \in String
  BY <1>1, <1>2
<1>. HIDE DEF s, l, P, A
<1>6. s \in Seq(String) /\ Len(s) = Len(A) /\ \A i \in 1 .. Len(A) : s[i] = P(i)
  BY <1>1, <1>5
<1>7. s \o <<l>> = Append(s, l)
  BY <1>3, <1>6, AppendIsConcat
<1>8. /\ Append(s, l) \in Seq(String) /\ Len(Append(s, l)) = Len(A) + 1
      /\ \A i \in 1 .. Len(A) : Append(s, l)[i] = P(i)
      /\ Append(s, l)[Len(A) + 1] = l
  BY <1>1, <1>3, <1>6
<1>. QED  BY <1>3, <1>4, <1>7, <1>8 DEF P, l, A

LEMMA DataType ==
  ASSUME NEW m, ProperMessage(m), m.chunked, NEW i \in 1 .. Len(Accepted(m)) + 1
  PROVE  /\ Data(m, i) \in String /\ Len(Data(m, i)) \in UInt
         /\ i <= Len(Accepted(m)) <=> Len(Data(m, i)) > 0
         /\ BehindData(m, i) \in String /\ ChunkText(m, i) \in String
         /\ Len(Accepted(m)) \in Nat
<1>1. /\ Accepted(m) \in Seq(String) /\ Len(Accepted(m)) \in Nat
      /\ \A j \in 1 .. Len(Accepted(m)) : Len(Accepted(m)[j]) \in UInt \ {0} /\ Accepted(m)[j] \in String
  BY AcceptedParts
<1>2. << >> \in String /\ Len(<< >>) = 0 /\ 0 \in UInt
  BY Letters, NoSizeText
<1>3. Data(m, i) \in String /\ Len(Data(m, i)) \in UInt
      /\ (i <= Len(Accepted(m)) <=> Len(Data(m, i)) > 0)
  <2>1. CASE i <= Len(Accepted(m))
    <3>1. Data(m, i) = Accepted(m)[i] /\ i \in 1 .. Len(Accepted(m))
      BY <1>1, <2>1 DEF Data
    <3>. QED  BY <1>1, <2>1, <3>1 DEF UInt
  <2>2. CASE ~(i <= Len(Accepted(m)))
    BY <1>2, <2>2 DEF Data
  <2>. QED  BY <2>1, <2>2
<1>4. BehindData(m, i) \in String
  <2>1. CASE i <= Len(Accepted(m))
    <3>1. i + 1 \in 1 .. Len(Pieces(m)) + 1 /\ Pieces(m) \in Seq(String)
      BY <1>1, <2>1, PiecesInChunks
    <3>. QED  BY <2>1, <3>1, TextType DEF BehindData
  <2>2. CASE ~(i <= Len(Accepted(m)))
    <3>1. 1 \in 1 .. Len(m.trailer) + 1 /\ m.trailer \in Seq(Header)
      BY ProperParts
    <3>. QED  BY <2>2, <3>1, Letters, SectionType DEF BehindData
  <2>. QED  BY <2>1, <2>2
<1>5. ChunkText(m, i) \in String
  <2>1. NumberText(Len(Data(m, i)), 16) \in String
    BY <1>3, SizeText
  <2>. QED  BY <1>3, <1>4, <2>1, Letters, JoinType DEF ChunkText
<1>. QED  BY <1>1, <1>3, <1>4, <1>5

LEMMA NextChunkText ==
  ASSUME NEW m, ProperMessage(m), m.chunked, NEW i \in 1 .. Len(Accepted(m))
  PROVE  BehindData(m, i) = CRLF \o ChunkText(m, i + 1)
<1>. DEFINE A == Accepted(m)
            P == Pieces(m)
            d == Data(m, i + 1)
            n == NumberText(Len(d), 16)
            b == BehindData(m, i + 1)
<1>1. /\ P \in Seq(String) /\ Len(P) = Len(A) + 1 /\ Len(A) \in Nat
      /\ i + 1 \in 1 .. Len(P) /\ i + 1 \in 1 .. Len(A) + 1 /\ i <= Len(A)
      /\ (i + 1 \in 1 .. Len(A) \/ i + 1 = Len(A) + 1)
  BY PiecesInChunks, DataType
<1>2. BehindData(m, i) = P[i + 1] \o TextFrom(P, (i + 1) + 1)
  <2>1. BehindData(m, i) = TextFrom(P, i + 1)
    BY <1>1 DEF BehindData
  <2>. QED  BY <1>1, <2>1, TextFromStep
<1>3. d \in String /\ Len(d) \in UInt /\ b \in String
  BY <1>1, DataType
<1>4. n \in String
  BY <1>3, SizeText
<1>5. ChunkText(m, i + 1) = n \o (CRLF \o (d \o b))
  BY DEF ChunkText
<1>6. CASE i + 1 <= Len(A)
  <2>1. P[i + 1] = ChunkEnvelope(m, i + 1) \o d
    <3>1. i + 1 \in 1 .. Len(A) /\ d = A[i + 1]
      BY <1>1, <1>6 DEF Data
    <3>. HIDE DEF d
    <3>. QED  BY <3>1, PiecesInChunks
  <2>2. ChunkEnvelope(m, i + 1) = composeNextChunkEnvelope(Len(d))
    <3>1. i + 1 # 1
      OBVIOUS
    <3>. QED  BY <1>1, <1>6, <3>1 DEF ChunkEnvelope, Data
  <2>3. composeNextChunkEnvelope(Len(d)) = (CRLF \o n) \o CRLF
    BY DEF composeNextChunkEnvelope
  <2>4. TextFrom(P, (i + 1) + 1) = b
    BY <1>1, <1>6 DEF BehindData
  <2>. HIDE DEF d, n, b, P
  <2>5. (((CRLF \o n) \o CRLF) \o d) \o b = CRLF \o (n \o (CRLF \o (d \o b)))
    <3>1. GroupsFive(CRLF, n, CRLF, d, b)
      BY <1>3, <1>4, Letters, RegroupFive
    <3>. QED  BY <3>1, Zenon DEF GroupsFive
  <2>. QED  BY <1>2, <1>5, <2>1, <2>2, <2>3, <2>4, <2>5, Zenon
<1>7. CASE i + 1 = Len(A) + 1
  <2>. DEFINE h == composeHeader(m.trailer)
  <2>1. P[i + 1] = composeLastChunk(m.trailer)
    BY <1>7, PiecesInChunks
  <2>2. composeLastChunk(m.trailer) = (((CRLF \o <<48>>) \o CRLF) \o h) \o CRLF
    BY DEF composeLastChunk
  <2>3. TextFrom(P, (i + 1) + 1) = << >>
    <3>1. (i + 1) + 1 = Len(P) + 1
      BY <1>1, <1>7
    <3>. QED  BY <1>1, <3>1, TextFromEnds
  <2>4. ~(i + 1 <= Len(A))
    BY <1>1, <1>7
  <2>5. d = << >> /\ b = SectionText(m.trailer, 1, << >>)
    BY <2>4 DEF Data, BehindData
  <2>6. n = <<48>>
    BY <2>5, NoSizeText
  <2>7. m.trailer \in Seq(Header) /\ h \in String
    BY ProperParts, ComposeHeaderLength
  <2>8. CRLF \o << >> = CRLF
    BY Letters, ConcatEmptySeq DEF String
  <2>9. b = h \o CRLF
    <3>1. SectionText(m.trailer, 1, << >>) = h \o (CRLF \o << >>)
      BY <2>7, Letters, SectionBegins
    <3>. QED  BY <2>5, <2>8, <3>1
  <2>10. d \o b = h \o CRLF
    BY <1>3, <2>5, <2>9, ConcatEmptySeq DEF String
  <2>11. P[i + 1] \o << >> = P[i + 1]
    <3>1. P[i + 1] \in Seq(Char)
      BY <1>1 DEF String
    <3>. QED  BY <3>1, ConcatEmptySeq
  <2>12. <<48>> \in String
    BY DEF String, Char
  <2>. HIDE DEF d, n, b, P, h
  <2>13. (((CRLF \o <<48>>) \o CRLF) \o h) \o CRLF = CRLF \o (<<48>> \o (CRLF \o (h \o CRLF)))
    <3>1. GroupsFive(CRLF, <<48>>, CRLF, h, CRLF)
      BY <2>7, <2>12, Letters, RegroupFive
    <3>. QED  BY <3>1, Zenon DEF GroupsFive
  <2>. QED  BY <1>2, <1>5, <2>1, <2>2, <2>3, <2>6, <2>10, <2>11, <2>13, Zenon
<1>. QED  BY <1>1, <1>6, <1>7
LEMMA FlattenOne == ASSUME NEW x \in String PROVE FlattenSeq(<<x>>) = x /\ <<x>> \in Seq(String)
<1>1. << >> \in Seq(String) /\ Append(<< >>, x) = <<x>> /\ <<x>> \in Seq(String)
  OBVIOUS
<1>2. FlattenSeq(<<x>>) = << >> \o x
  BY <1>1, FlattenLast, FlattenNothing
<1>3. << >> \o x = x
  BY ConcatEmptySeq DEF String
<1>. QED  BY <1>1, <1>2, <1>3

LEMMA TextTypes ==
  ASSUME NEW m, ProperMessage(m)
  PROVE  /\ BodyText(m) \in String /\ SectionText(Fields(m), 1, BodyText(m)) \in String
         /\ BehindThird(m) \in String /\ BehindSecond(m) \in String /\ BehindFirst(m) \in String
<1>1. BodyText(m) \in String
  <2>1. CASE m.chunked
    <3>1. 1 \in 1 .. Len(Accepted(m)) + 1
      <4>1. Len(Accepted(m)) \in Nat
        BY AcceptedParts
      <4>. QED  BY <4>1
    <3>. QED  BY <2>1, <3>1, DataType DEF BodyText
  <2>2. CASE ~m.chunked
    BY <2>2, ProperParts DEF BodyText
  <2>. QED  BY <2>1, <2>2
<1>2. SectionText(Fields(m), 1, BodyText(m)) \in String
  <2>1. Fields(m) \in Seq(Header) /\ 1 \in 1 .. Len(Fields(m)) + 1
    BY ProperParts
  <2>. QED  BY <1>1, <2>1, SectionType
<1>3. BehindThird(m) \in String
  BY <1>2, Letters, JoinType DEF BehindThird
<1>4. BehindSecond(m) \in String
  BY <1>3, ProperParts, Letters, JoinType DEF BehindSecond
<1>5. BehindFirst(m) \in String
  BY <1>4, ProperParts, Letters, JoinType DEF BehindFirst
<1>. QED  BY <1>1, <1>2, <1>3, <1>4, <1>5

LEMMA TextIs ==
  ASSUME NEW m, ProperMessage(m)
  PROVE  /\ Pieces(m) \in Seq(String) /\ Pieces(m) # << >>
         /\ \A i \in 1 .. Len(Pieces(m)) : Pieces(m)[i] # << >>
         /\ Text(m) = m.tokens[1] \o BehindFirst(m) /\ Text(m) \in String
<1>. DEFINE t1 == m.tokens[1]
            t2 == m.tokens[2]
            t3 == m.tokens[3]
            F  == Fields(m)
            S  == SectionText(F, 1, BodyText(m))
            l  == composeFirstLine(m.tokens)
            h  == composeHeader(F)
<1>1. t1 \in String /\ t2 \in String /\ t3 \in String /\ F \in Seq(Header) /\ S \in String
      /\ BodyText(m) \in String
  BY ProperParts, TextTypes
<1>2. h \in String /\ S = h \o (CRLF \o BodyText(m))
  BY <1>1, ComposeHeaderLength, SectionBegins
<1>3. l \in String /\ Len(l) > 0
  <2>1. l = ((((t1 \o <<SP>>) \o t2) \o <<SP>>) \o t3) \o CRLF
    BY DEF composeFirstLine
  <2>. HIDE DEF t1, t2, t3
  <2>. DEFINE p == (((t1 \o <<SP>>) \o t2) \o <<SP>>) \o t3
  <2>2. p \in String
    BY <1>1, Letters, JoinType
  <2>3. l = p \o CRLF
    BY <2>1
  <2>. HIDE DEF p, l
  <2>4. l \in String /\ Len(l) = Len(p) + Len(CRLF) /\ Len(p) \in Nat /\ Len(CRLF) = 2
    <3>1. p \in Seq(Char) /\ CRLF \in Seq(Char) /\ Len(CRLF) = 2
      BY <2>2, LiteralTypes DEF String
    <3>. HIDE DEF CRLF
    <3>2. Len(p \o CRLF) = Len(p) + Len(CRLF) /\ Len(p) \in Nat /\ p \o CRLF \in Seq(Char)
      <4>1. PICK x \in Seq(Char) : x = CRLF
        BY <3>1
      <4>2. Len(p \o x) = Len(p) + Len(x) /\ Len(p) \in Nat /\ p \o x \in Seq(Char)
        BY <3>1
      <4>. QED  BY <4>1, <4>2, Zenon
    <3>. QED  BY <2>3, <3>1, <3>2, Zenon DEF String
  <2>. QED  BY <2>4
<1>4. l \o S = t1 \o BehindFirst(m)
  <2>1. l = ((((t1 \o <<SP>>) \o t2) \o <<SP>>) \o t3) \o CRLF
    BY DEF composeFirstLine
  <2>2. BehindFirst(m) = <<SP>> \o (t2 \o (<<SP>> \o (t3 \o (CRLF \o S))))
    BY Zenon DEF BehindFirst, BehindSecond, BehindThird
  <2>. HIDE DEF t1, t2, t3, S, l
  <2>3. (((((t1 \o <<SP>>) \o t2) \o <<SP>>) \o t3) \o CRLF) \o S
          = t1 \o (<<SP>> \o (t2 \o (<<SP>> \o (t3 \o (CRLF \o S)))))
    <3>1. GroupsSeven(t1, <<SP>>, t2, <<SP>>, t3, CRLF, S)
      BY <1>1, Letters, RegroupSeven
    <3>. QED  BY <3>1, Zenon DEF GroupsSeven
  <2>. QED  BY <2>1, <2>2, <2>3, Zenon
<1>5. t1 \o BehindFirst(m) \in String
  BY <1>1, TextTypes, JoinType
<1>6. CASE ~m.chunked
  <2>. DEFINE p == Payload(m)
              x == ((l \o h) \o CRLF) \o p
  <2>1. Pieces(m) = <<x>>
    <3>1. F = IdentityHeaders(m.headers, Len(Payload(m)))
      BY <1>6 DEF Fields
    <3>. QED  BY <1>6, <3>1 DEF Pieces, composeEnvelope
  <2>2. p \in String /\ BodyText(m) = p
    BY <1>6, ProperParts DEF BodyText
  <2>. HIDE DEF l, h, p, S
  <2>3. x \in String /\ x = l \o S
    <3>1. x = l \o (h \o (CRLF \o p))
      <4>1. GroupsFour(l, h, CRLF, p)
        BY <1>2, <1>3, <2>2, Letters, RegroupFour
      <4>. QED  BY <4>1, Zenon DEF GroupsFour
    <3>2. x = l \o S
      BY <1>2, <2>2, <3>1, Zenon
    <3>. QED  BY <1>1, <1>3, <3>2, JoinType DEF S
  <2>. HIDE DEF x
  <2>4. x # << >>
    <3>1. Len(x) = Len(l) + Len(S) /\ Len(S) \in Nat /\ Len(l) \in Nat
      BY <1>1, <1>3, <2>3, ConcatProperties DEF String, S
    <3>. QED  BY <1>3, <3>1
  <2>5. Text(m) = x
    BY <2>1, <2>3, FlattenOne DEF Text
  <2>6. <<x>> \in Seq(String) /\ <<x>> # << >> /\ \A i \in 1 .. Len(<<x>>) : <<x>>[i] = x
    BY <2>3
  <2>. QED  BY <1>4, <1>5, <2>1, <2>3, <2>4, <2>5, <2>6
<1>7. CASE m.chunked
  <2>. DEFINE A == Accepted(m)
              P == Pieces(m)
              n == NumberText(Len(A[1]), 16)
              T == TextFrom(P, 2)
  <2>1. /\ A \in Seq(String) /\ A # << >> /\ Len(A) \in Nat \ {0}
        /\ \A i \in 1 .. Len(A) : A[i] \in String /\ Len(A[i]) \in UInt /\ A[i] # << >>
    <3>1. A # << >>
      BY <1>7, ProperParts
    <3>2. /\ A \in Seq(String) /\ Len(A) \in Nat
          /\ \A i \in 1 .. Len(A) : A[i] \in String /\ Len(A[i]) \in UInt /\ A[i] # << >>
      BY AcceptedParts
    <3>. QED  BY <3>1, <3>2
  <2>2. /\ P \in Seq(String) /\ Len(P) = Len(A) + 1
        /\ \A i \in 1 .. Len(A) : P[i] = ChunkEnvelope(m, i) \o A[i]
        /\ P[Len(A) + 1] # << >>
    BY <1>7, PiecesInChunks
  <2>3. 1 \in 1 .. Len(A) /\ 1 \in 1 .. Len(P) /\ 2 \in 1 .. Len(P) + 1 /\ 1 <= Len(A) /\ 1 + 1 = 2
    BY <2>1, <2>2
  <2>4. n \in String /\ T \in String /\ A[1] \in String
    <3>1. T \in String
      BY <2>2, <2>3, TextType
    <3>. QED  BY <2>1, <2>3, <3>1, SizeText
  <2>5. BodyText(m) = n \o (CRLF \o (A[1] \o T))
    BY <1>7, <2>3 DEF BodyText, ChunkText, Data, BehindData
  <2>6. P[1] = ((((l \o h) \o CRLF) \o n) \o CRLF) \o A[1]
    <3>1. ChunkEnvelope(m, 1) = composeFirstChunkEnvelope(m.tokens, m.headers, Len(A[1]))
      BY DEF ChunkEnvelope
    <3>2. F = ChunkedHeaders(m.headers)
      BY <1>7 DEF Fields
    <3>. QED  BY <2>2, <2>3, <3>1, <3>2 DEF composeFirstChunkEnvelope
  <2>7. Text(m) = P[1] \o T
    <3>1. Text(m) = TextFrom(P, 1)
      BY <2>2, TextFromEnds DEF Text
    <3>2. TextFrom(P, 1) = P[1] \o TextFrom(P, 1 + 1)
      BY <2>2, <2>3, TextFromStep
    <3>. QED  BY <2>3, <3>1, <3>2
  <2>8. \A i \in 1 .. Len(P) : P[i] # << >>
    <3>1. ASSUME NEW i \in 1 .. Len(A) PROVE P[i] # << >>
      <4>1. A[i] \in String /\ A[i] # << >> /\ P[i] \in String
        BY <2>1, <2>2
      <4>2. ChunkEnvelope(m, i) \in Seq(Char)
        <5>1. NumberText(Len(A[i]), 16) \in String
          BY <2>1, SizeText
        <5>2. F = ChunkedHeaders(m.headers)
          BY <1>7 DEF Fields
        <5>3. composeFirstChunkEnvelope(m.tokens, m.headers, Len(A[i])) \in String
          BY <1>2, <1>3, <5>1, <5>2, Letters, JoinType DEF composeFirstChunkEnvelope
        <5>4. composeNextChunkEnvelope(Len(A[i])) \in String
          BY <5>1, Letters, JoinType DEF composeNextChunkEnvelope
        <5>. QED  BY <5>3, <5>4 DEF ChunkEnvelope, String
      <4>3. P[i] = ChunkEnvelope(m, i) \o A[i]
        BY <2>2
      <4>4. Len(P[i]) = Len(ChunkEnvelope(m, i)) + Len(A[i]) /\ Len(ChunkEnvelope(m, i)) \in Nat
        BY <4>1, <4>2, <4>3, ConcatProperties DEF String
      <4>5. Len(A[i]) \in Nat \ {0}
        BY <4>1 DEF String
      <4>. QED  BY <4>4, <4>5
    <3>. QED  BY <2>1, <2>2, <3>1
  <2>. HIDE DEF l, h, n, T
  <2>9. (((((l \o h) \o CRLF) \o n) \o CRLF) \o A[1]) \o T
          = l \o (h \o (CRLF \o (n \o (CRLF \o (A[1] \o T)))))
    <3>1. GroupsSeven(l, h, CRLF, n, CRLF, A[1], T)
      BY <1>2, <1>3, <2>4, Letters, RegroupSeven
    <3>. QED  BY <3>1, Zenon DEF GroupsSeven
  <2>10. Text(m) = l \o S
    BY <1>2, <2>5, <2>6, <2>7, <2>9, Zenon
  <2>11. P # << >>
    BY <2>1, <2>2
  <2>. QED  BY <1>4, <1>5, <2>2, <2>8, <2>10, <2>11
<1>. QED  BY <1>6, <1>7
-----------------------------------------------------------------------------
(* Calls of parse(char) that read on in a message.  Each case of its       *)
(* switch is for one state.                                                *)

LEMMA Dispatch ==
  ASSUME NEW ch, Parse(ch)
  PROVE  /\ state = "ParsingMessage" => ParseMessage(ch)
         /\ state = "ParsingFirstToken" => ParseFirstToken(ch)
         /\ state = "ParsingFirstTokenSP" => ParseFirstTokenSP(ch)
         /\ state = "ParsingSecondToken" => ParseSecondToken(ch)
         /\ state = "ParsingSecondTokenSP" => ParseSecondTokenSP(ch)
         /\ state = "ParsingThirdToken" => ParseThirdToken(ch)
         /\ state = "ParsingFirstLineLF" => ParseFirstLineLF(ch)
         /\ state = "ParsingHeader" => parseHeader(ch, FALSE)
         /\ state = "ParsingHeaderName" => parseHeaderName(ch, FALSE)
         /\ state = "ParsingHeaderValue" => parseHeaderValue(ch, FALSE)
         /\ state = "ParsingHeaderValueLF" => parseHeaderValueLF(ch, FALSE)
         /\ state = "ParsingHeaderValueLWS" => parseHeaderValueLWS(ch, FALSE)
         /\ state = "ParsingEndOfHeader" => ParseEndOfHeader(ch)
         /\ state = "ParsingIdentityBody" => ParseIdentityBody(ch)
         /\ state = "ParsingChunkSize" => ParseChunkSize(ch)
         /\ state = "ParsingChunkSizeLF" => ParseChunkSizeLF(ch)
         /\ state = "ParsingChunk" => ParseChunk(ch)
         /\ state = "ParsingChunkCR" => ParseChunkCR(ch)
         /\ state = "ParsingChunkLF" => ParseChunkLF(ch)
         /\ state = "ParsingTrailerHeader" => parseHeader(ch, TRUE)
         /\ state = "ParsingTrailerHeaderName" => parseHeaderName(ch, TRUE)
         /\ state = "ParsingTrailerHeaderValue" => parseHeaderValue(ch, TRUE)
         /\ state = "ParsingTrailerHeaderValueLF" => parseHeaderValueLF(ch, TRUE)
         /\ state = "ParsingTrailerHeaderValueLWS" => parseHeaderValueLWS(ch, TRUE)
         /\ state = "ParsingFinalLF" => ParseFinalLF(ch)
<1>1. /\ ParseMessage(ch) => state = "ParsingMessage"
      /\ ParseLeadingSP(ch) => state = "ParsingLeadingSP"
      /\ ParseFirstToken(ch) => state = "ParsingFirstToken"
      /\ ParseFirstTokenSP(ch) => state = "ParsingFirstTokenSP"
      /\ ParseSecondToken(ch) => state = "ParsingSecondToken"
      /\ ParseSecondTokenSP(ch) => state = "ParsingSecondTokenSP"
      /\ ParseThirdToken(ch) => state = "ParsingThirdToken"
      /\ ParseFirstLineLF(ch) => state = "ParsingFirstLineLF"
  BY DEF ParseMessage, ParseLeadingSP, ParseFirstToken, ParseFirstTokenSP, ParseSecondToken,
         ParseSecondTokenSP, ParseThirdToken, ParseFirstLineLF
<1>2. /\ ParseEndOfHeader(ch) => state = "ParsingEndOfHeader"
      /\ ParseIdentityBody(ch) => state = "ParsingIdentityBody"
      /\ ParseChunkSize(ch) => state = "ParsingChunkSize"
      /\ ParseChunkExtension(ch) => state = "ParsingChunkExtension"
      /\ ParseChunkSizeLF(ch) => state = "ParsingChunkSizeLF"
      /\ ParseChunk(ch) => state = "ParsingChunk"
      /\ ParseChunkCR(ch) => state = "ParsingChunkCR"
      /\ ParseChunkLF(ch) => state = "ParsingChunkLF"
      /\ ParseFinalLF(ch) => state = "ParsingFinalLF"
  BY DEF ParseEndOfHeader, ParseIdentityBody, ParseChunkSize, ParseChunkExtension,
         ParseChunkSizeLF, ParseChunk, ParseChunkCR, ParseChunkLF, ParseFinalLF
<1>3. /\ ParseHeader(ch) <=> state = "ParsingHeader" /\ parseHeader(ch, FALSE)
      /\ ParseHeaderName(ch) <=> state = "ParsingHeaderName" /\ parseHeaderName(ch, FALSE)
      /\ ParseHeaderValue(ch) <=> state = "ParsingHeaderValue" /\ parseHeaderValue(ch, FALSE)
      /\ ParseHeaderValueLF(ch) <=> state = "ParsingHeaderValueLF" /\ parseHeaderValueLF(ch, FALSE)
      /\ ParseHeaderValueLWS(ch) <=> state = "ParsingHeaderValueLWS" /\ parseHeaderValueLWS(ch, FALSE)
      /\ ParseTrailerHeader(ch) <=> state = "ParsingTrailerHeader" /\ parseHeader(ch, TRUE)
      /\ ParseTrailerHeaderName(ch) <=>
           state = "ParsingTrailerHeaderName" /\ parseHeaderName(ch, TRUE)
      /\ ParseTrailerHeaderValue(ch) <=>
           state = "ParsingTrailerHeaderValue" /\ parseHeaderValue(ch, TRUE)
      /\ ParseTrailerHeaderValueLF(ch) <=>
           state = "ParsingTrailerHeaderValueLF" /\ parseHeaderValueLF(ch, TRUE)
      /\ ParseTrailerHeaderValueLWS(ch) <=>
           state = "ParsingTrailerHeaderValueLWS" /\ parseHeaderValueLWS(ch, TRUE)
  BY Zenon DEF ParseHeader, ParseHeaderName, ParseHeaderValue, ParseHeaderValueLF,
         ParseHeaderValueLWS, ParseTrailerHeader, ParseTrailerHeaderName,
         ParseTrailerHeaderValue, ParseTrailerHeaderValueLF, ParseTrailerHeaderValueLWS
<1>4. ParseStartLine(ch) \/ ParseHeaderSection(ch) \/ ParseBody(ch) \/ ParseTrailer(ch)
  BY DEF Parse
<1>. QED
  BY <1>1, <1>2, <1>3, <1>4 DEF ParseStartLine, ParseHeaderSection, ParseBody, ParseTrailer

\* The call has returned, a character further on.
Moved == result' = Returned(state') /\ pos' = pos + 1

LEMMA AcceptMoves == ASSUME NEW next, NEW ch, Accept(next, ch) PROVE Moved /\ state' = next
BY DEF Accept, AdvanceFrom, Moved

TokensAre(first, second, third) ==
  firstToken = first /\ secondToken = second /\ thirdToken = third

InStartLine(m, r) ==
  /\ headers = << >>
  /\ \/ /\ state = "ParsingFirstToken"
        /\ firstToken # << >> /\ secondToken = << >> /\ thirdToken = << >>
        /\ PartOf(m.tokens[1], firstToken, r, BehindFirst(m))
     \/ /\ state = "ParsingFirstTokenSP" /\ TokensAre(m.tokens[1], << >>, << >>)
        /\ r = m.tokens[2] \o BehindSecond(m)
     \/ /\ state = "ParsingSecondToken"
        /\ firstToken = m.tokens[1] /\ secondToken # << >> /\ thirdToken = << >>
        /\ PartOf(m.tokens[2], secondToken, r, BehindSecond(m))
     \/ /\ state = "ParsingSecondTokenSP" /\ TokensAre(m.tokens[1], m.tokens[2], << >>)
        /\ r = m.tokens[3] \o BehindThird(m)
     \/ /\ state = "ParsingThirdToken"
        /\ firstToken = m.tokens[1] /\ secondToken = m.tokens[2] /\ thirdToken # << >>
        /\ PartOf(m.tokens[3], thirdToken, r, BehindThird(m))
     \/ /\ state = "ParsingFirstLineLF" /\ TokensAre(m.tokens[1], m.tokens[2], m.tokens[3])
        /\ r = <<LF>> \o SectionText(Fields(m), 1, BodyText(m))

Tokens(m) == TokensAre(m.tokens[1], m.tokens[2], m.tokens[3])

HeaderBegins(m, r) ==
  /\ state = "ParsingHeader" /\ headers = << >> /\ Tokens(m)
  /\ r = SectionText(Fields(m), 1, BodyText(m))

LEMMA ProperCharacters ==
  ASSUME NEW m, ProperMessage(m)
  PROVE  /\ \A i \in 1 .. Len(m.tokens[1]) : isWord(m.tokens[1][i])
         /\ \A i \in 1 .. Len(m.tokens[2]) : isWord(m.tokens[2][i])
         /\ isWord(m.tokens[3][1])
         /\ \A i \in 1 .. Len(m.tokens[3]) : isText(m.tokens[3][i])
         /\ AtMost(m.tokens[1], {MaxFirstTokenLength})
         /\ AtMost(m.tokens[2], {MaxSecondTokenLength})
         /\ AtMost(m.tokens[3], {MaxThirdTokenLength})
<1>1. ProperTokens(m.tokens)
  BY DEF ProperMessage
<1>2. DOMAIN m.tokens[1] = 1 .. Len(m.tokens[1]) /\ DOMAIN m.tokens[2] = 1 .. Len(m.tokens[2])
      /\ DOMAIN m.tokens[3] = 1 .. Len(m.tokens[3])
  BY ProperParts DEF String
<1>. QED  BY <1>1, <1>2, Zenon DEF ProperTokens

LEMMA MessageBegins ==
  ASSUME NEW m, ProperMessage(m), state = "ParsingMessage",
         NEW r, r = Text(m), Parse(Head(r))
  PROVE  /\ r # << >> /\ result' = Returned(state') /\ pos' = 1
         /\ InStartLine(m, Tail(r))'
<1>. DEFINE t  == m.tokens[1]
            ch == Head(r)
<1>1. t \in String /\ t # << >> /\ BehindFirst(m) \in String /\ r = t \o BehindFirst(m)
  BY ProperParts, TextTypes, TextIs
<1>2. r # << >> /\ ch = t[1] /\ ch \in Char /\ PartOf(t, <<ch>>, Tail(r), BehindFirst(m))
  BY <1>1, PartBegins
<1>3. isWord(ch)
  <2>1. 1 \in 1 .. Len(t)
    BY <1>1 DEF String
  <2>. QED  BY <1>2, <2>1, ProperCharacters
<1>. HIDE DEF ch, t
<1>4. ParseMessage(ch)
  BY Dispatch DEF ch
<1>5. Begin(<<ch>>, "ParsingFirstToken", ch)
  BY <1>3, <1>4 DEF ParseMessage, isWord
<1>6. /\ state' = "ParsingFirstToken" /\ result' = Returned("ParsingFirstToken") /\ pos' = 1
      /\ firstToken' = <<ch>> /\ secondToken' = << >> /\ thirdToken' = << >> /\ headers' = << >>
  BY <1>5 DEF Begin, ClearContent, AdvanceFrom
<1>. QED  BY <1>2, <1>6 DEF InStartLine, t, ch

LEMMA StartLineStep ==
  ASSUME TypeOK, NEW m, ProperMessage(m), NEW r, InStartLine(m, r), Parse(Head(r))
  PROVE  r # << >> /\ Moved /\ (InStartLine(m, Tail(r))' \/ HeaderBegins(m, Tail(r))')
<1>. DEFINE t1 == m.tokens[1]
            t2 == m.tokens[2]
            t3 == m.tokens[3]
            ch == Head(r)
<1>1. /\ t1 \in String /\ t1 # << >> /\ t2 \in String /\ t2 # << >> /\ t3 \in String /\ t3 # << >>
      /\ Len(t1) \in Nat \ {0} /\ Len(t2) \in Nat \ {0} /\ Len(t3) \in Nat \ {0}
  BY ProperParts DEF String
<1>2. /\ BehindFirst(m) \in String /\ BehindSecond(m) \in String /\ BehindThird(m) \in String
      /\ SectionText(Fields(m), 1, BodyText(m)) \in String
  BY TextTypes
<1>3. /\ MaxFirstTokenLength \in Nat /\ MaxSecondTokenLength \in Nat /\ MaxThirdTokenLength \in Nat
  BY ParserAssumption
<1>4. isSpaceOrTab(SP) /\ ~isWord(SP) /\ isText(SP) /\ isCarriageReturn(CR) /\ ~isText(CR)
      /\ isLineFeed(LF)
  BY DEF isSpaceOrTab, isSpace, isWord, isText, isChar, isControl, isCarriageReturn, isLineFeed,
         SP, CR, LF
<1>5. \A x : isWord(x) => isText(x) /\ ~isSpaceOrTab(x)
  BY DEF isWord
<1>6. \A x : isText(x) => ~isCarriageReturn(x)
  BY DEF isText, isControl, isCarriageReturn, CR
<1>7. CASE state = "ParsingFirstToken"
  <2>1. /\ firstToken # << >> /\ secondToken = << >> /\ thirdToken = << >> /\ headers = << >>
        /\ PartOf(t1, firstToken, r, BehindFirst(m))
    BY <1>7 DEF InStartLine
  <2>2. ParseFirstToken(ch)
    BY <1>7, Dispatch
  <2>3. CASE t1 = firstToken /\ r = BehindFirst(m)
    <3>1. /\ r # << >> /\ ch = SP /\ Tail(r) = t2 \o BehindSecond(m)
      <4>1. t2 \o BehindSecond(m) \in String
        BY <1>1, <1>2, JoinType
      <4>. QED  BY <2>3, <4>1, Letters, InFront DEF BehindFirst
    <3>. HIDE DEF ch, t1, t2, t3
    <3>2. Accept("ParsingFirstTokenSP", ch) /\ UNCHANGED contentVars
      BY <1>4, <1>5, <2>2, <3>1 DEF ParseFirstToken
    <3>3. Moved /\ state' = "ParsingFirstTokenSP"
      BY <3>2, AcceptMoves
    <3>4. firstToken' = t1 /\ secondToken' = << >> /\ thirdToken' = << >> /\ headers' = << >>
      BY <2>1, <2>3, <3>2 DEF contentVars, tokenVars
    <3>5. InStartLine(m, Tail(r))'
      BY <3>1, <3>3, <3>4 DEF InStartLine, TokensAre, t1, t2
    <3>. QED  BY <3>1, <3>3, <3>5
  <2>4. CASE PartGoesOn(t1, firstToken, r, BehindFirst(m))
    <3>1. /\ r # << >> /\ ch \in Char /\ Len(firstToken) < Len(t1) /\ ch = t1[Len(firstToken) + 1]
          /\ PartOf(t1, Append(firstToken, ch), Tail(r), BehindFirst(m))
      BY <2>4 DEF PartGoesOn
    <3>. HIDE DEF ch, t1, t2, t3
    <3>2. firstToken \in String
      BY DEF TypeOK, ContentOK
    <3>3. isWord(ch)
      <4>1. Len(firstToken) + 1 \in 1 .. Len(t1)
        BY <1>1, <3>1, <3>2 DEF String
      <4>. QED  BY <3>1, <4>1, ProperCharacters DEF t1
    <3>4. ~Full(firstToken, MaxFirstTokenLength)
      <4>1. AtMost(t1, {MaxFirstTokenLength}) /\ MaxFirstTokenLength \in {MaxFirstTokenLength}
        BY ProperCharacters DEF t1
      <4>. QED  BY <1>1, <1>3, <2>1, <3>1, <3>2, <4>1, PartHasRoom
    <3>5. /\ firstToken' = Append(firstToken, ch) /\ Accept("ParsingFirstToken", ch)
          /\ UNCHANGED <<secondToken, thirdToken, restVars>>
      BY <1>5, <2>2, <3>3, <3>4 DEF ParseFirstToken
    <3>6. Moved /\ state' = "ParsingFirstToken"
      BY <3>5, AcceptMoves
    <3>7. firstToken' # << >> /\ secondToken' = << >> /\ thirdToken' = << >> /\ headers' = << >>
      BY <2>1, <3>1, <3>2, <3>5, Appended DEF restVars
    <3>8. InStartLine(m, Tail(r))'
      BY <3>1, <3>5, <3>6, <3>7 DEF InStartLine, t1
    <3>. QED  BY <3>1, <3>6, <3>8
  <2>. QED  BY <1>2, <2>1, <2>3, <2>4, PartNext
<1>8. CASE state = "ParsingFirstTokenSP"
  <2>1. /\ headers = << >> /\ firstToken = t1 /\ secondToken = << >> /\ thirdToken = << >>
        /\ r = t2 \o BehindSecond(m)
    BY <1>8 DEF InStartLine, TokensAre
  <2>2. ParseFirstTokenSP(ch)
    BY <1>8, Dispatch
  <2>3. r # << >> /\ ch = t2[1] /\ ch \in Char /\ PartOf(t2, <<ch>>, Tail(r), BehindSecond(m))
    BY <1>1, <1>2, <2>1, PartBegins
  <2>4. isWord(ch)
    <3>1. 1 \in 1 .. Len(t2)
      BY <1>1
    <3>. QED  BY <2>3, <3>1, ProperCharacters
  <2>. HIDE DEF ch, t1, t2, t3
  <2>5. /\ secondToken' = Append(secondToken, ch) /\ Accept("ParsingSecondToken", ch)
        /\ UNCHANGED <<firstToken, thirdToken, restVars>>
    BY <1>5, <2>2, <2>4 DEF ParseFirstTokenSP
  <2>6. Moved /\ state' = "ParsingSecondToken"
    BY <2>5, AcceptMoves
  <2>7. secondToken' = <<ch>> /\ <<ch>> # << >>
    BY <2>1, <2>3, <2>5
  <2>8. headers' = << >> /\ firstToken' = t1 /\ thirdToken' = << >>
    BY <2>1, <2>5 DEF restVars
  <2>9. InStartLine(m, Tail(r))'
    BY <2>3, <2>6, <2>7, <2>8 DEF InStartLine, t1, t2, t3
  <2>. QED  BY <2>3, <2>6, <2>9
<1>9. CASE state = "ParsingSecondToken"
  <2>1. /\ firstToken = t1 /\ secondToken # << >> /\ thirdToken = << >> /\ headers = << >>
        /\ PartOf(t2, secondToken, r, BehindSecond(m))
    BY <1>9 DEF InStartLine
  <2>2. ParseSecondToken(ch)
    BY <1>9, Dispatch
  <2>3. CASE t2 = secondToken /\ r = BehindSecond(m)
    <3>1. /\ r # << >> /\ ch = SP /\ Tail(r) = t3 \o BehindThird(m)
      <4>1. t3 \o BehindThird(m) \in String
        BY <1>1, <1>2, JoinType
      <4>. QED  BY <2>3, <4>1, Letters, InFront DEF BehindSecond
    <3>. HIDE DEF ch, t1, t2, t3
    <3>2. Accept("ParsingSecondTokenSP", ch) /\ UNCHANGED contentVars
      BY <1>4, <1>5, <2>2, <3>1 DEF ParseSecondToken
    <3>3. Moved /\ state' = "ParsingSecondTokenSP"
      BY <3>2, AcceptMoves
    <3>4. firstToken' = t1 /\ secondToken' = t2 /\ thirdToken' = << >> /\ headers' = << >>
      BY <2>1, <2>3, <3>2 DEF contentVars, tokenVars
    <3>5. InStartLine(m, Tail(r))'
      BY <3>1, <3>3, <3>4 DEF InStartLine, TokensAre, t1, t2, t3
    <3>. QED  BY <3>1, <3>3, <3>5
  <2>4. CASE PartGoesOn(t2, secondToken, r, BehindSecond(m))
    <3>1. /\ r # << >> /\ ch \in Char /\ Len(secondToken) < Len(t2) /\ ch = t2[Len(secondToken) + 1]
          /\ PartOf(t2, Append(secondToken, ch), Tail(r), BehindSecond(m))
      BY <2>4 DEF PartGoesOn
    <3>. HIDE DEF ch, t1, t2, t3
    <3>2. secondToken \in String
      BY DEF TypeOK, ContentOK
    <3>3. isWord(ch)
      <4>1. Len(secondToken) + 1 \in 1 .. Len(t2)
        BY <1>1, <3>1, <3>2 DEF String
      <4>. QED  BY <3>1, <4>1, ProperCharacters DEF t2
    <3>4. ~Full(secondToken, MaxSecondTokenLength)
      <4>1. AtMost(t2, {MaxSecondTokenLength}) /\ MaxSecondTokenLength \in {MaxSecondTokenLength}
        BY ProperCharacters DEF t2
      <4>. QED  BY <1>1, <1>3, <2>1, <3>1, <3>2, <4>1, PartHasRoom
    <3>5. /\ secondToken' = Append(secondToken, ch) /\ Accept("ParsingSecondToken", ch)
          /\ UNCHANGED <<firstToken, thirdToken, restVars>>
      BY <1>5, <2>2, <3>3, <3>4 DEF ParseSecondToken
    <3>6. Moved /\ state' = "ParsingSecondToken"
      BY <3>5, AcceptMoves
    <3>7. firstToken' = t1 /\ secondToken' # << >> /\ thirdToken' = << >> /\ headers' = << >>
      BY <2>1, <3>1, <3>2, <3>5, Appended DEF restVars
    <3>8. InStartLine(m, Tail(r))'
      BY <3>1, <3>5, <3>6, <3>7 DEF InStartLine, t1, t2
    <3>. QED  BY <3>1, <3>6, <3>8
  <2>. QED  BY <1>2, <2>1, <2>3, <2>4, PartNext
<1>10. CASE state = "ParsingSecondTokenSP"
  <2>1. /\ headers = << >> /\ firstToken = t1 /\ secondToken = t2 /\ thirdToken = << >>
        /\ r = t3 \o BehindThird(m)
    BY <1>10 DEF InStartLine, TokensAre
  <2>2. ParseSecondTokenSP(ch)
    BY <1>10, Dispatch
  <2>3. r # << >> /\ ch = t3[1] /\ ch \in Char /\ PartOf(t3, <<ch>>, Tail(r), BehindThird(m))
    BY <1>1, <1>2, <2>1, PartBegins
  <2>4. isWord(ch)
    <3>1. 1 \in 1 .. Len(t3)
      BY <1>1
    <3>. QED  BY <2>3, <3>1, ProperCharacters
  <2>. HIDE DEF ch, t1, t2, t3
  <2>5. /\ thirdToken' = Append(thirdToken, ch) /\ Accept("ParsingThirdToken", ch)
        /\ UNCHANGED <<firstToken, secondToken, restVars>>
    BY <1>5, <2>2, <2>4 DEF ParseSecondTokenSP
  <2>6. Moved /\ state' = "ParsingThirdToken"
    BY <2>5, AcceptMoves
  <2>7. thirdToken' = <<ch>> /\ <<ch>> # << >>
    BY <2>1, <2>3, <2>5
  <2>8. headers' = << >> /\ firstToken' = t1 /\ secondToken' = t2
    BY <2>1, <2>5 DEF restVars
  <2>9. InStartLine(m, Tail(r))'
    BY <2>3, <2>6, <2>7, <2>8 DEF InStartLine, t1, t2, t3
  <2>. QED  BY <2>3, <2>6, <2>9
<1>11. CASE state = "ParsingThirdToken"
  <2>1. /\ firstToken = t1 /\ secondToken = t2 /\ thirdToken # << >> /\ headers = << >>
        /\ PartOf(t3, thirdToken, r, BehindThird(m))
    BY <1>11 DEF InStartLine
  <2>2. ParseThirdToken(ch)
    BY <1>11, Dispatch
  <2>3. CASE t3 = thirdToken /\ r = BehindThird(m)
    <3>1. /\ r # << >> /\ ch = CR
          /\ Tail(r) = <<LF>> \o SectionText(Fields(m), 1, BodyText(m))
      <4>1. <<LF>> \o SectionText(Fields(m), 1, BodyText(m)) \in String
        BY <1>2, Letters, JoinType
      <4>2. r = <<CR>> \o (<<LF>> \o SectionText(Fields(m), 1, BodyText(m)))
        BY <1>2, <2>3, Letters, Regroup DEF BehindThird
      <4>. QED  BY <4>1, <4>2, Letters, InFront
    <3>. HIDE DEF ch, t1, t2, t3
    <3>2. Accept("ParsingFirstLineLF", ch) /\ UNCHANGED contentVars
      BY <1>4, <2>2, <3>1 DEF ParseThirdToken
    <3>3. Moved /\ state' = "ParsingFirstLineLF"
      BY <3>2, AcceptMoves
    <3>4. firstToken' = t1 /\ secondToken' = t2 /\ thirdToken' = t3 /\ headers' = << >>
      BY <2>1, <2>3, <3>2 DEF contentVars, tokenVars
    <3>5. InStartLine(m, Tail(r))'
      BY <3>1, <3>3, <3>4 DEF InStartLine, TokensAre, t1, t2, t3
    <3>. QED  BY <3>1, <3>3, <3>5
  <2>4. CASE PartGoesOn(t3, thirdToken, r, BehindThird(m))
    <3>1. /\ r # << >> /\ ch \in Char /\ Len(thirdToken) < Len(t3) /\ ch = t3[Len(thirdToken) + 1]
          /\ PartOf(t3, Append(thirdToken, ch), Tail(r), BehindThird(m))
      BY <2>4 DEF PartGoesOn
    <3>. HIDE DEF ch, t1, t2, t3
    <3>2. thirdToken \in String
      BY DEF TypeOK, ContentOK
    <3>3. isText(ch)
      <4>1. Len(thirdToken) + 1 \in 1 .. Len(t3)
        BY <1>1, <3>1, <3>2 DEF String
      <4>. QED  BY <3>1, <4>1, ProperCharacters DEF t3
    <3>4. ~Full(thirdToken, MaxThirdTokenLength)
      <4>1. AtMost(t3, {MaxThirdTokenLength}) /\ MaxThirdTokenLength \in {MaxThirdTokenLength}
        BY ProperCharacters DEF t3
      <4>. QED  BY <1>1, <1>3, <2>1, <3>1, <3>2, <4>1, PartHasRoom
    <3>5. /\ thirdToken' = Append(thirdToken, ch) /\ Accept("ParsingThirdToken", ch)
          /\ UNCHANGED <<firstToken, secondToken, restVars>>
      BY <1>6, <2>2, <3>3, <3>4 DEF ParseThirdToken
    <3>6. Moved /\ state' = "ParsingThirdToken"
      BY <3>5, AcceptMoves
    <3>7. firstToken' = t1 /\ secondToken' = t2 /\ thirdToken' # << >> /\ headers' = << >>
      BY <2>1, <3>1, <3>2, <3>5, Appended DEF restVars
    <3>8. InStartLine(m, Tail(r))'
      BY <3>1, <3>5, <3>6, <3>7 DEF InStartLine, t1, t2, t3
    <3>. QED  BY <3>1, <3>6, <3>8
  <2>. QED  BY <1>2, <2>1, <2>3, <2>4, PartNext
<1>12. CASE state = "ParsingFirstLineLF"
  <2>1. /\ headers = << >> /\ Tokens(m)
        /\ r = <<LF>> \o SectionText(Fields(m), 1, BodyText(m))
    BY <1>12 DEF InStartLine, Tokens
  <2>2. ParseFirstLineLF(ch)
    BY <1>12, Dispatch
  <2>3. /\ r # << >> /\ ch = LF
        /\ Tail(r) = SectionText(Fields(m), 1, BodyText(m))
    BY <1>2, <2>1, Letters, InFront
  <2>. HIDE DEF ch, t1, t2, t3
  <2>4. Accept("ParsingHeader", ch) /\ UNCHANGED contentVars
    BY <1>4, <2>2, <2>3 DEF ParseFirstLineLF, Expect
  <2>5. Moved /\ state' = "ParsingHeader"
    BY <2>4, AcceptMoves
  <2>6. Tokens(m)' /\ headers' = << >>
    BY <2>1, <2>4 DEF contentVars, tokenVars, Tokens, TokensAre
  <2>7. HeaderBegins(m, Tail(r))'
    BY <2>3, <2>5, <2>6 DEF HeaderBegins
  <2>. QED  BY <2>3, <2>5, <2>7
<1>. QED
  BY <1>7, <1>8, <1>9, <1>10, <1>11, <1>12 DEF InStartLine
-----------------------------------------------------------------------------
(* The fields of a header or of a trailer: given are the headers of the    *)
(* message before them, hs the fields, and more is what follows them.      *)

ProperFields(given, hs, more) ==
  /\ given \in Seq(Header) /\ hs \in Seq(Header) /\ more \in String
  /\ \A i \in 1 .. Len(hs) : ProperField(hs[i])
  /\ \A n \in HeadersAmountLimits : Len(given) + Len(hs) <= n

BehindName(hs, i, more) ==
  <<Colon>> \o (BehindColon(hs[i].value) \o SectionText(hs, i + 1, more))

ReadsName(given, hs, i, more, r) ==
  /\ headers = FilledSoFar(given, hs, i - 1)
  /\ headerFieldName # << >> /\ headerFieldValue = << >>
  /\ PartOf(hs[i].name, headerFieldName, r, BehindName(hs, i, more))

ValueState(isTrailer, read) ==
  IF read # << >> /\ read[Len(read)] = CR
  THEN Section(isTrailer, "ParsingTrailerHeaderValueLF", "ParsingHeaderValueLF")
  ELSE IF read # << >> /\ read[Len(read)] = LF
  THEN Section(isTrailer, "ParsingTrailerHeaderValueLWS", "ParsingHeaderValueLWS")
  ELSE Section(isTrailer, "ParsingTrailerHeaderValue", "ParsingHeaderValue")

ReadsValue(isTrailer, given, hs, i, more, r, read) ==
  /\ headers = FilledSoFar(given, hs, i - 1)
  /\ headerFieldName = hs[i].name
  /\ PartOf(BehindColon(hs[i].value), read, r, SectionText(hs, i + 1, more))
  /\ headerFieldValue = Joined(read) /\ state = ValueState(isTrailer, read)

InFields(isTrailer, given, hs, more, r) ==
  \/ /\ state = Section(isTrailer, "ParsingTrailerHeader", "ParsingHeader")
     /\ headers = given /\ r = SectionText(hs, 1, more)
  \/ /\ state = Section(isTrailer, "ParsingTrailerHeaderName", "ParsingHeaderName")
     /\ \E i \in 1 .. Len(hs) : ReadsName(given, hs, i, more, r)
  \/ \E i \in 1 .. Len(hs) : \E read : ReadsValue(isTrailer, given, hs, i, more, r, read)
  \/ /\ state = Section(isTrailer, "ParsingFinalLF", "ParsingEndOfHeader")
     /\ headers = Filling(given, hs) /\ r = <<LF>> \o more

FieldsGoOn(isTrailer, given, hs, more, r) ==
  /\ r # << >> /\ Moved /\ UNCHANGED <<tokenVars, bodyVars, chunkVars>>
  /\ InFields(isTrailer, given, hs, more, Tail(r))'

LEMMA TokenCharacters ==
  /\ \A ch : isToken(ch) =>
       ch # Colon /\ ch \notin Blank /\ ~isCarriageReturn(ch) /\ ~isSpaceOrTab(ch)
  /\ \A ch \in White : isSpaceOrTab(ch) /\ ~isCarriageReturn(ch) /\ ch # Colon /\ ~isToken(ch)
  /\ isCarriageReturn(CR) /\ isControl(CR) /\ ~isToken(CR) /\ CR # Colon /\ ~isSpaceOrTab(CR)
  /\ isLineFeed(LF) /\ isControl(LF)
  /\ ~isToken(Colon) /\ ~isCarriageReturn(Colon)
  /\ \A ch : ~isControl(ch) => ch # CR /\ ch # LF /\ ~isCarriageReturn(ch)
  /\ ~isControl(SP)
BY DEF isToken, isSeparator, isCarriageReturn, isSpaceOrTab, isSpace, isTab, isControl, isChar,
       isLineFeed, Blank, White, Colon, CR, LF, SP, HT

LEMMA ProperName ==
  ASSUME NEW h \in Header, ProperField(h)
  PROVE  /\ h.name \in String /\ h.name # << >> /\ h.value \in String
         /\ \A i \in 1 .. Len(h.name) : isToken(h.name[i])
         /\ trim(h.name) = h.name /\ AtMost(h.name, HeaderNameLimits)
<1>1. h.name \in String /\ h.value \in String
  BY DEF Header
<1>2. DOMAIN h.name = 1 .. Len(h.name)
  BY <1>1 DEF String
<1>3. h.name # << >> /\ AtMost(h.name, HeaderNameLimits) /\ \A i \in 1 .. Len(h.name) : isToken(h.name[i])
  BY <1>2 DEF ProperField
<1>4. \A i \in 1 .. Len(h.name) : h.name[i] \notin Blank
  BY <1>3, TokenCharacters
<1>5. trim(h.name) = h.name
  BY <1>1, <1>4, TrimNothing
<1>. QED  BY <1>1, <1>3, <1>5

\* What follows a field, or what the fields begin with.
LEMMA FieldFollows ==
  ASSUME NEW given, NEW hs, NEW more, ProperFields(given, hs, more),
         NEW i \in 0 .. Len(hs), NEW r, r = SectionText(hs, i + 1, more)
  PROVE  /\ r # << >>
         /\ \/ i = Len(hs) /\ Head(r) = CR /\ Tail(r) = <<LF>> \o more
            \/ /\ i + 1 \in 1 .. Len(hs) /\ isToken(Head(r)) /\ Head(r) \in Char
               /\ PartOf(hs[i + 1].name, <<Head(r)>>, Tail(r), BehindName(hs, i + 1, more))
<1>1. hs \in Seq(Header) /\ more \in String /\ Len(hs) \in Nat
  BY DEF ProperFields
<1>2. CASE i = Len(hs)
  <2>1. r = <<CR>> \o (<<LF>> \o more)
    <3>1. r = CRLF \o more
      BY <1>1, <1>2, SectionBegins
    <3>. DEFINE x == <<CR>>
                y == <<LF>>
    <3>2. x \in String /\ y \in String /\ CRLF = x \o y
      BY Letters
    <3>. HIDE DEF x, y
    <3>3. (x \o y) \o more = x \o (y \o more)
      BY <1>1, <3>2, Regroup
    <3>. QED  BY <3>1, <3>2, <3>3 DEF x, y
  <2>2. <<LF>> \o more \in String
    BY <1>1, Letters, JoinType
  <2>. QED  BY <1>2, <2>1, <2>2, Letters, InFront
<1>3. CASE i < Len(hs)
  <2>1. i + 1 \in 1 .. Len(hs) /\ i + 1 + 1 \in 1 .. Len(hs) + 1 /\ hs[i + 1] \in Header
    BY <1>1, <1>3
  <2>. DEFINE name == hs[i + 1].name
              behind == BehindName(hs, i + 1, more)
  <2>2. name \in String /\ name # << >> /\ isToken(name[1]) /\ hs[i + 1].value \in String
    <3>1. ProperField(hs[i + 1])
      BY <2>1 DEF ProperFields
    <3>2. 1 \in 1 .. Len(name) \/ name = << >>
      <4>1. name \in String
        BY <2>1, <3>1, ProperName
      <4>. QED  BY <4>1 DEF String
    <3>. QED  BY <2>1, <3>1, <3>2, ProperName
  <2>3. behind \in String
    <3>1. SectionText(hs, i + 1 + 1, more) \in String
      BY <1>1, <2>1, SectionType
    <3>. QED  BY <2>2, <3>1, Letters, BehindColonType, JoinType DEF BehindName
  <2>4. r = name \o behind
    BY <1>1, <2>1, SectionStep DEF BehindName
  <2>. HIDE DEF name, behind
  <2>5. r # << >> /\ Head(r) = name[1] /\ name[1] \in Char /\ PartOf(name, <<Head(r)>>, Tail(r), behind)
    BY <2>2, <2>3, <2>4, PartBegins
  <2>. QED  BY <2>1, <2>2, <2>5 DEF name, behind
<1>. QED  BY <1>1, <1>2, <1>3

LEMMA FieldsBegin ==
  ASSUME NEW isTrailer \in BOOLEAN, NEW given, NEW hs, NEW more, ProperFields(given, hs, more),
         NEW r, r = SectionText(hs, 1, more), headers = given, parseHeader(Head(r), isTrailer)
  PROVE  FieldsGoOn(isTrailer, given, hs, more, r)
<1>. DEFINE ch == Head(r)
<1>1. given \in Seq(Header) /\ hs \in Seq(Header) /\ more \in String /\ Len(hs) \in Nat
  BY DEF ProperFields
<1>2. /\ r # << >>
      /\ \/ 0 = Len(hs) /\ ch = CR /\ Tail(r) = <<LF>> \o more
         \/ /\ 1 \in 1 .. Len(hs) /\ isToken(ch) /\ ch \in Char
            /\ PartOf(hs[1].name, <<ch>>, Tail(r), BehindName(hs, 1, more))
  <2>1. 0 \in 0 .. Len(hs) /\ 0 + 1 = 1
    BY <1>1
  <2>. QED  BY <2>1, FieldFollows
<1>3. FilledSoFar(given, hs, 0) = given /\ FilledSoFar(given, hs, Len(hs)) = Filling(given, hs)
  BY <1>1, FilledSoFarIs
<1>. HIDE DEF ch
<1>4. parseHeader(ch, isTrailer)
  BY DEF ch
<1>5. CASE 0 = Len(hs) /\ ch = CR /\ Tail(r) = <<LF>> \o more
  <2>1. /\ SetField(<< >>, << >>)
        /\ Accept(Section(isTrailer, "ParsingFinalLF", "ParsingEndOfHeader"), ch)
    BY <1>4, <1>5, TokenCharacters DEF parseHeader
  <2>2. Moved /\ state' = Section(isTrailer, "ParsingFinalLF", "ParsingEndOfHeader")
    BY <2>1, AcceptMoves
  <2>3. headers' = Filling(given, hs) /\ UNCHANGED <<tokenVars, bodyVars, chunkVars>>
    BY <1>3, <1>5, <2>1 DEF SetField
  <2>. QED  BY <1>2, <1>5, <2>2, <2>3 DEF FieldsGoOn, InFields
<1>6. CASE /\ 1 \in 1 .. Len(hs) /\ isToken(ch) /\ ch \in Char
           /\ PartOf(hs[1].name, <<ch>>, Tail(r), BehindName(hs, 1, more))
  <2>1. /\ SetField(<<ch>>, << >>)
        /\ Accept(Section(isTrailer, "ParsingTrailerHeaderName", "ParsingHeaderName"), ch)
    BY <1>4, <1>6, TokenCharacters DEF parseHeader
  <2>2. Moved /\ state' = Section(isTrailer, "ParsingTrailerHeaderName", "ParsingHeaderName")
    BY <2>1, AcceptMoves
  <2>3. /\ headers' = given /\ headerFieldName' = <<ch>> /\ headerFieldValue' = << >> /\ <<ch>> # << >>
        /\ UNCHANGED <<tokenVars, bodyVars, chunkVars>>
    BY <2>1 DEF SetField
  <2>4. ReadsName(given, hs, 1, more, Tail(r))'
    <3>1. 1 - 1 = 0
      OBVIOUS
    <3>. QED  BY <1>3, <1>6, <2>3, <3>1 DEF ReadsName
  <2>. QED  BY <1>2, <1>6, <2>2, <2>3, <2>4 DEF FieldsGoOn, InFields
<1>. QED  BY <1>2, <1>5, <1>6
LEMMA FieldsDispatch ==
  ASSUME NEW isTrailer \in BOOLEAN, NEW ch, Parse(ch)
  PROVE  /\ state = Section(isTrailer, "ParsingTrailerHeader", "ParsingHeader") =>
              parseHeader(ch, isTrailer)
         /\ state = Section(isTrailer, "ParsingTrailerHeaderName", "ParsingHeaderName") =>
              parseHeaderName(ch, isTrailer)
         /\ state = Section(isTrailer, "ParsingTrailerHeaderValue", "ParsingHeaderValue") =>
              parseHeaderValue(ch, isTrailer)
         /\ state = Section(isTrailer, "ParsingTrailerHeaderValueLF", "ParsingHeaderValueLF") =>
              parseHeaderValueLF(ch, isTrailer)
         /\ state = Section(isTrailer, "ParsingTrailerHeaderValueLWS", "ParsingHeaderValueLWS") =>
              parseHeaderValueLWS(ch, isTrailer)
<1>1. CASE isTrailer = TRUE
  BY <1>1, Dispatch DEF Section
<1>2. CASE isTrailer = FALSE
  BY <1>2, Dispatch DEF Section
<1>. QED  BY <1>1, <1>2

LEMMA FieldsName ==
  ASSUME TypeOK, NEW isTrailer \in BOOLEAN, NEW given, NEW hs, NEW more, ProperFields(given, hs, more),
         NEW i \in 1 .. Len(hs), NEW r, ReadsName(given, hs, i, more, r),
         state = Section(isTrailer, "ParsingTrailerHeaderName", "ParsingHeaderName"),
         parseHeaderName(Head(r), isTrailer)
  PROVE  FieldsGoOn(isTrailer, given, hs, more, r)
<1>. DEFINE ch   == Head(r)
            name == hs[i].name
            text == BehindColon(hs[i].value)
            rest == SectionText(hs, i + 1, more)
            behind == BehindName(hs, i, more)
<1>1. /\ hs \in Seq(Header) /\ more \in String /\ Len(hs) \in Nat /\ hs[i] \in Header
      /\ ProperField(hs[i])
  BY DEF ProperFields
<1>2. /\ name \in String /\ hs[i].value \in String /\ \A j \in 1 .. Len(name) : isToken(name[j])
      /\ AtMost(name, HeaderNameLimits)
  BY <1>1, ProperName
<1>3. text \in String /\ rest \in String /\ text \o rest \in String /\ behind = <<Colon>> \o (text \o rest)
      /\ behind \in String
  <2>1. text \in String
    BY <1>2, BehindColonType
  <2>2. i + 1 \in 1 .. Len(hs) + 1
    BY <1>1
  <2>3. rest \in String
    BY <1>1, <2>2, SectionType
  <2>4. behind = <<Colon>> \o (text \o rest)
    BY DEF BehindName
  <2>. QED  BY <2>1, <2>3, <2>4, Letters, JoinType
<1>4. /\ headers = FilledSoFar(given, hs, i - 1)
      /\ headerFieldName # << >> /\ headerFieldValue = << >>
      /\ PartOf(name, headerFieldName, r, behind)
  BY DEF ReadsName
<1>5. headerFieldName \in String /\ maxHeaderNameLength \in HeaderNameLimits /\ maxHeaderNameLength \in Nat
  BY ParserAssumption DEF TypeOK, ContentOK, LimitsOK
<1>6. CASE name = headerFieldName /\ r = behind
  <2>1. r # << >> /\ ch = Colon /\ Tail(r) = text \o rest
    BY <1>3, <1>6, Letters, InFront
  <2>. HIDE DEF ch, name, text, rest, behind
  <2>2. parseHeaderName(ch, isTrailer)
    BY DEF ch
  <2>3. /\ Accept(Section(isTrailer, "ParsingTrailerHeaderValue", "ParsingHeaderValue"), ch)
        /\ UNCHANGED contentVars
    BY <2>1, <2>2, TokenCharacters DEF parseHeaderName
  <2>4. Moved /\ state' = Section(isTrailer, "ParsingTrailerHeaderValue", "ParsingHeaderValue")
    BY <2>3, AcceptMoves
  <2>5. UNCHANGED <<tokenVars, bodyVars, chunkVars>> /\ UNCHANGED <<headers, headerFieldName, headerFieldValue>>
    BY <2>3 DEF contentVars, fieldVars
  <2>6. PartOf(text, << >>, Tail(r), rest)
    BY <1>3, <2>1, PartNothing
  <2>7. ReadsValue(isTrailer, given, hs, i, more, Tail(r), << >>)'
    BY <1>4, <1>6, <2>4, <2>5, <2>6, JoinedNothing DEF ReadsValue, ValueState, text, name, rest
  <2>. QED  BY <2>1, <2>4, <2>5, <2>7 DEF FieldsGoOn, InFields
<1>7. CASE PartGoesOn(name, headerFieldName, r, behind)
  <2>1. /\ r # << >> /\ ch \in Char /\ Len(headerFieldName) < Len(name)
        /\ ch = name[Len(headerFieldName) + 1]
        /\ PartOf(name, Append(headerFieldName, ch), Tail(r), behind)
    BY <1>7 DEF PartGoesOn
  <2>. HIDE DEF ch, name, text, rest, behind
  <2>2. isToken(ch)
    <3>1. Len(headerFieldName) + 1 \in 1 .. Len(name)
      BY <1>2, <1>5, <2>1 DEF String
    <3>. QED  BY <1>2, <2>1, <3>1
  <2>3. ~Full(headerFieldName, maxHeaderNameLength)
    BY <1>2, <1>4, <1>5, <2>1, PartHasRoom
  <2>4. parseHeaderName(ch, isTrailer)
    BY DEF ch
  <2>5. SetField(Append(headerFieldName, ch), headerFieldValue) /\ Accept(state, ch)
    BY <2>2, <2>3, <2>4, TokenCharacters DEF parseHeaderName
  <2>6. Moved /\ state' = state
    BY <2>5, AcceptMoves
  <2>7. /\ headers' = headers /\ headerFieldName' = Append(headerFieldName, ch)
        /\ headerFieldValue' = << >> /\ headerFieldName' # << >>
        /\ UNCHANGED <<tokenVars, bodyVars, chunkVars>>
    BY <1>4, <1>5, <2>1, <2>5, Appended DEF SetField
  <2>8. ReadsName(given, hs, i, more, Tail(r))'
    BY <1>4, <2>1, <2>7 DEF ReadsName, name, behind
  <2>. QED  BY <2>1, <2>6, <2>7, <2>8 DEF FieldsGoOn, InFields
<1>. QED  BY <1>3, <1>4, <1>6, <1>7, PartNext

LEMMA ProperValue ==
  ASSUME NEW h \in Header, ProperField(h)
  PROVE  LET text == BehindColon(h.value)
         IN  /\ text \in String /\ Len(text) \in Nat \ {0} /\ text[1] = SP /\ text[Len(text)] = LF
             /\ \A i \in 1 .. Len(text) - 1 : MayFollow(text[i], text[i + 1])
             /\ \A n \in HeaderValueLimits : Len(Joined(text)) <= n
<1>. DEFINE text == BehindColon(h.value)
<1>1. h.value \in String
  BY DEF Header
<1>2. text \in String
  BY <1>1, BehindColonType
<1>3. Len(text) \in Nat \ {0} /\ text[1] = SP /\ text[Len(text)] = LF
  <2>1. text = (<<SP>> \o h.value) \o CRLF
    BY DEF BehindColon
  <2>2. SP \in Char /\ <<SP>> \in Seq(Char) /\ h.value \in Seq(Char) /\ CRLF \in Seq(Char)
        /\ CRLF = <<CR, LF>>
    BY <1>1, Letters DEF String, CRLF
  <2>. QED  BY <2>1, <2>2
<1>. QED  BY <1>2, <1>3 DEF ProperField

\* What may be next in a value.
MayBeNext(read, ch) == IF read = << >> THEN ch = SP ELSE MayFollow(read[Len(read)], ch)

LEMMA ValueNext ==
  ASSUME NEW h \in Header, ProperField(h), NEW read, NEW r, NEW more \in String,
         PartOf(BehindColon(h.value), read, r, more)
  PROVE  \/ /\ BehindColon(h.value) = read /\ r = more
            /\ read # << >> /\ read[Len(read)] = LF
         \/ /\ PartGoesOn(BehindColon(h.value), read, r, more) /\ read \in String
            /\ MayBeNext(read, Head(r))
            /\ \A n \in HeaderValueLimits : Len(Joined(Append(read, Head(r)))) <= n
<1>. DEFINE text == BehindColon(h.value)
            ch   == Head(r)
<1>1. /\ text \in String /\ Len(text) \in Nat \ {0} /\ text[1] = SP /\ text[Len(text)] = LF
      /\ \A i \in 1 .. Len(text) - 1 : MayFollow(text[i], text[i + 1])
      /\ \A n \in HeaderValueLimits : Len(Joined(text)) <= n
  BY ProperValue
<1>2. PartOf(text, read, r, more)
  OBVIOUS
<1>. HIDE DEF text
<1>3. read \in String /\ \E rest \in String : text = read \o rest
  BY <1>2 DEF PartOf
<1>4. CASE text = read /\ r = more
  <2>1. read # << >>
    BY <1>1, <1>4
  <2>. QED  BY <1>1, <1>4, <2>1 DEF text
<1>5. CASE PartGoesOn(text, read, r, more)
  <2>1. /\ ch \in Char /\ Len(read) < Len(text) /\ text[Len(read) + 1] = ch
        /\ PartOf(text, Append(read, ch), Tail(r), more)
    BY <1>5 DEF PartGoesOn
  <2>. HIDE DEF ch
  <2>2. MayBeNext(read, ch)
    <3>1. CASE read = << >>
      BY <1>1, <2>1, <3>1 DEF MayBeNext
    <3>2. CASE read # << >>
      <4>1. Len(read) \in 1 .. Len(text) - 1
        BY <1>1, <1>3, <2>1, <3>2 DEF String
      <4>2. text[Len(read)] = read[Len(read)]
        BY <1>3, <4>1 DEF String
      <4>3. MayFollow(text[Len(read)], text[Len(read) + 1])
        BY <1>1, <4>1
      <4>. QED  BY <2>1, <3>2, <4>2, <4>3 DEF MayBeNext
    <3>. QED  BY <3>1, <3>2
  <2>3. ASSUME NEW n \in HeaderValueLimits
        PROVE  Len(Joined(Append(read, ch))) <= n
    <3>1. PICK rest \in String : text = Append(read, ch) \o rest
      BY <2>1 DEF PartOf
    <3>2. Append(read, ch) \in String
      BY <1>3, <2>1, Appended
    <3>3. Len(Joined(Append(read, ch))) <= Len(Joined(text))
      BY <3>1, <3>2, JoinedGrows
    <3>4. Len(Joined(text)) <= n /\ n \in Nat
      BY <1>1, ParserAssumption
    <3>5. Len(Joined(text)) \in Nat /\ Len(Joined(Append(read, ch))) \in Nat
      <4>1. Joined(text) \in String /\ Joined(Append(read, ch)) \in String
        BY <1>1, <3>2, JoinedType
      <4>. QED  BY <4>1 DEF String
    <3>. QED  BY <3>3, <3>4, <3>5
  <2>. QED  BY <1>3, <1>5, <2>2, <2>3 DEF text, ch
<1>. QED  BY <1>2, <1>4, <1>5, PartNext
\* The value with another character, and the state it is then in.
LEMMA ValueStateAppend ==
  ASSUME NEW isTrailer, NEW read \in String, NEW ch \in Char
  PROVE  /\ ch = CR => ValueState(isTrailer, Append(read, ch))
                         = Section(isTrailer, "ParsingTrailerHeaderValueLF", "ParsingHeaderValueLF")
         /\ ch = LF => ValueState(isTrailer, Append(read, ch))
                         = Section(isTrailer, "ParsingTrailerHeaderValueLWS", "ParsingHeaderValueLWS")
         /\ ch \notin {CR, LF} => ValueState(isTrailer, Append(read, ch))
                         = Section(isTrailer, "ParsingTrailerHeaderValue", "ParsingHeaderValue")
<1>. DEFINE longer == Append(read, ch)
<1>1. longer # << >> /\ longer[Len(longer)] = ch
  BY Appended
<1>2. CR # LF
  BY DEF CR, LF
<1>. HIDE DEF longer
<1>. QED  BY <1>1, <1>2 DEF ValueState, longer

ValueGrows(isTrailer, read, ch) ==
  /\ Moved /\ UNCHANGED <<tokenVars, bodyVars, chunkVars, headers, headerFieldName>>
  /\ headerFieldValue' = Joined(Append(read, ch))
  /\ state' = ValueState(isTrailer, Append(read, ch))

LEMMA FieldValueGoesOn ==
  ASSUME NEW isTrailer, NEW given, NEW hs, NEW i \in 1 .. Len(hs), NEW more, NEW r, NEW read,
         ReadsValue(isTrailer, given, hs, i, more, r, read),
         PartGoesOn(BehindColon(hs[i].value), read, r, SectionText(hs, i + 1, more)),
         ValueGrows(isTrailer, read, Head(r))
  PROVE  FieldsGoOn(isTrailer, given, hs, more, r)
<1>. DEFINE ch == Head(r)
<1>1. r # << >>
  BY DEF PartGoesOn
<1>2. PartOf(BehindColon(hs[i].value), Append(read, ch), Tail(r), SectionText(hs, i + 1, more))
  BY DEF PartGoesOn
<1>3. headers = FilledSoFar(given, hs, i - 1) /\ headerFieldName = hs[i].name
  BY DEF ReadsValue
<1>4. /\ Moved /\ UNCHANGED <<tokenVars, bodyVars, chunkVars>>
      /\ headers' = headers /\ headerFieldName' = headerFieldName
      /\ headerFieldValue' = Joined(Append(read, ch)) /\ state' = ValueState(isTrailer, Append(read, ch))
  BY DEF ValueGrows
<1>. HIDE DEF ch
<1>5. ReadsValue(isTrailer, given, hs, i, more, Tail(r), Append(read, ch))'
  BY <1>2, <1>3, <1>4 DEF ReadsValue
<1>. QED  BY <1>1, <1>4, <1>5 DEF FieldsGoOn, InFields

LEMMA FieldsValue ==
  ASSUME TypeOK, NEW isTrailer \in BOOLEAN, NEW given, NEW hs, NEW more, ProperFields(given, hs, more),
         NEW i \in 1 .. Len(hs), NEW r, NEW read, ReadsValue(isTrailer, given, hs, i, more, r, read),
         PartGoesOn(BehindColon(hs[i].value), read, r, SectionText(hs, i + 1, more)),
         read \in String, MayBeNext(read, Head(r)),
         \A n \in HeaderValueLimits : Len(Joined(Append(read, Head(r)))) <= n,
         Parse(Head(r))
  PROVE  FieldsGoOn(isTrailer, given, hs, more, r)
<1>. DEFINE ch == Head(r)
            last == read[Len(read)]
            longer == Append(read, ch)
<1>0. /\ state = ValueState(isTrailer, read) /\ headerFieldValue = Joined(read)
      /\ ch \in Char /\ maxHeaderValueLength \in HeaderValueLimits /\ maxHeaderValueLength \in Nat
      /\ CR # LF /\ MayBeNext(read, ch)
  BY ParserAssumption DEF ReadsValue, PartGoesOn, TypeOK, LimitsOK, CR, LF
<1>1. Joined(longer) = IF read # << >> /\ last = LF THEN Append(Joined(read), SP)
                       ELSE IF ch \in {CR, LF} THEN Joined(read)
                       ELSE Append(Joined(read), ch)
  <2>1. read # << >> <=> Len(read) > 0
    BY DEF String
  <2>. QED  BY <1>0, <2>1, JoinedAppend
<1>2. Joined(read) \in String /\ Len(Joined(longer)) <= maxHeaderValueLength
  BY <1>0, JoinedType
<1>3. ASSUME NEW x \in Char, Joined(longer) = Append(Joined(read), x)
      PROVE  ~Full(headerFieldValue, maxHeaderValueLength)
  <2>1. Len(Joined(longer)) = Len(Joined(read)) + 1 /\ Len(Joined(read)) \in Nat
    BY <1>2, <1>3, Appended
  <2>. QED  BY <1>0, <1>2, <2>1 DEF Full
<1>. HIDE DEF longer
<1>4. SUFFICES ValueGrows(isTrailer, read, ch)
  BY FieldValueGoesOn
<1>. HIDE DEF ch, last
<1>5. Parse(ch)
  BY DEF ch
<1>6. CASE read # << >> /\ last = CR
  <2>1. ch = LF /\ isLineFeed(ch)
    BY <1>0, <1>6 DEF MayBeNext, MayFollow, last, isLineFeed
  <2>2. state = Section(isTrailer, "ParsingTrailerHeaderValueLF", "ParsingHeaderValueLF")
    BY <1>0, <1>6 DEF ValueState, last
  <2>3. parseHeaderValueLF(ch, isTrailer)
    BY <1>5, <2>2, FieldsDispatch
  <2>4. /\ Accept(Section(isTrailer, "ParsingTrailerHeaderValueLWS", "ParsingHeaderValueLWS"), ch)
        /\ UNCHANGED contentVars
    BY <2>1, <2>3 DEF parseHeaderValueLF, Expect
  <2>5. Moved /\ state' = ValueState(isTrailer, longer)
    BY <1>0, <2>1, <2>4, AcceptMoves, ValueStateAppend DEF longer
  <2>6. headerFieldValue' = Joined(longer)
    BY <1>0, <1>1, <1>6, <2>1, <2>4 DEF contentVars, fieldVars
  <2>7. UNCHANGED <<tokenVars, bodyVars, chunkVars, headers, headerFieldName>>
    BY <2>4 DEF contentVars, fieldVars
  <2>. QED  BY <2>5, <2>6, <2>7 DEF ValueGrows, longer
<1>7. CASE read # << >> /\ last = LF
  <2>1. ch \in White /\ ch \notin {CR, LF}
    BY <1>0, <1>6, <1>7 DEF MayBeNext, MayFollow, last, White, CR, LF, SP, HT
  <2>2. state = Section(isTrailer, "ParsingTrailerHeaderValueLWS", "ParsingHeaderValueLWS")
    BY <1>0, <1>7 DEF ValueState, last
  <2>3. parseHeaderValueLWS(ch, isTrailer)
    BY <1>5, <2>2, FieldsDispatch
  <2>4. ~Full(headerFieldValue, maxHeaderValueLength)
    BY <1>1, <1>3, <1>7, Letters
  <2>5. /\ SetField(headerFieldName, Append(headerFieldValue, SP))
        /\ Accept(Section(isTrailer, "ParsingTrailerHeaderValue", "ParsingHeaderValue"), ch)
    BY <2>1, <2>3, <2>4, TokenCharacters DEF parseHeaderValueLWS, ExtendValue
  <2>6. Moved /\ state' = ValueState(isTrailer, longer)
    BY <1>0, <2>1, <2>5, AcceptMoves, ValueStateAppend DEF longer
  <2>7. headerFieldValue' = Joined(longer)
    BY <1>0, <1>1, <1>7, <2>5 DEF SetField
  <2>8. UNCHANGED <<tokenVars, bodyVars, chunkVars, headers, headerFieldName>>
    BY <2>5 DEF SetField
  <2>. QED  BY <2>6, <2>7, <2>8 DEF ValueGrows, longer
<1>8. CASE read = << >> \/ last \notin {CR, LF}
  <2>1. ch = CR \/ ~isControl(ch)
    BY <1>0, <1>8, TokenCharacters DEF MayBeNext, MayFollow, last
  <2>2. state = Section(isTrailer, "ParsingTrailerHeaderValue", "ParsingHeaderValue")
    BY <1>0, <1>8 DEF ValueState, last
  <2>3. parseHeaderValue(ch, isTrailer)
    BY <1>5, <2>2, FieldsDispatch
  <2>4. CASE ch = CR
    <3>1. /\ Accept(Section(isTrailer, "ParsingTrailerHeaderValueLF", "ParsingHeaderValueLF"), ch)
          /\ UNCHANGED contentVars
      BY <2>3, <2>4, TokenCharacters DEF parseHeaderValue
    <3>2. Moved /\ state' = ValueState(isTrailer, longer)
      BY <1>0, <2>4, <3>1, AcceptMoves, ValueStateAppend DEF longer
    <3>3. headerFieldValue' = Joined(longer)
      BY <1>0, <1>1, <1>8, <2>4, <3>1 DEF contentVars, fieldVars
    <3>4. UNCHANGED <<tokenVars, bodyVars, chunkVars, headers, headerFieldName>>
      BY <3>1 DEF contentVars, fieldVars
    <3>. QED  BY <3>2, <3>3, <3>4 DEF ValueGrows, longer
  <2>5. CASE ~isControl(ch)
    <3>1. ch \notin {CR, LF} /\ ~isCarriageReturn(ch)
      BY <2>5, TokenCharacters
    <3>2. Joined(longer) = Append(Joined(read), ch)
      BY <1>1, <1>8, <3>1
    <3>3. ~Full(headerFieldValue, maxHeaderValueLength)
      BY <1>0, <1>3, <3>2
    <3>4. SetField(headerFieldName, Append(headerFieldValue, ch)) /\ Accept(state, ch)
      BY <2>3, <2>5, <3>1, <3>3 DEF parseHeaderValue, ExtendValue
    <3>5. Moved /\ state' = ValueState(isTrailer, longer)
      BY <1>0, <2>2, <3>1, <3>4, AcceptMoves, ValueStateAppend DEF longer
    <3>6. headerFieldValue' = Joined(longer)
      BY <1>0, <3>2, <3>4 DEF SetField
    <3>7. UNCHANGED <<tokenVars, bodyVars, chunkVars, headers, headerFieldName>>
      BY <3>4 DEF SetField
    <3>. QED  BY <3>5, <3>6, <3>7 DEF ValueGrows, longer
  <2>. QED  BY <2>1, <2>4, <2>5
<1>. QED  BY <1>6, <1>7, <1>8

\* Behind the line break that ends a value.
LEMMA FieldsFile ==
  ASSUME TypeOK, NEW isTrailer \in BOOLEAN, NEW given, NEW hs, NEW more, ProperFields(given, hs, more),
         NEW i \in 1 .. Len(hs), NEW r, NEW read, ReadsValue(isTrailer, given, hs, i, more, r, read),
         BehindColon(hs[i].value) = read, r = SectionText(hs, i + 1, more),
         read # << >>, read[Len(read)] = LF,
         Parse(Head(r))
  PROVE  FieldsGoOn(isTrailer, given, hs, more, r)
<1>. DEFINE ch == Head(r)
<1>1. /\ given \in Seq(Header) /\ hs \in Seq(Header) /\ more \in String /\ Len(hs) \in Nat
      /\ hs[i] \in Header /\ ProperField(hs[i]) /\ Len(given) \in Nat
      /\ \A n \in HeadersAmountLimits : Len(given) + Len(hs) <= n
  BY DEF ProperFields
<1>2. hs[i].value \in String /\ trim(hs[i].name) = hs[i].name
  BY <1>1, ProperName
<1>3. /\ r # << >>
      /\ \/ i = Len(hs) /\ ch = CR /\ Tail(r) = <<LF>> \o more
         \/ /\ i + 1 \in 1 .. Len(hs) /\ isToken(ch) /\ ch \in Char
            /\ PartOf(hs[i + 1].name, <<ch>>, Tail(r), BehindName(hs, i + 1, more))
  <2>1. i \in 0 .. Len(hs)
    BY <1>1
  <2>. QED  BY <2>1, FieldFollows
<1>4. /\ headers = FilledSoFar(given, hs, i - 1) /\ headerFieldName = hs[i].name
      /\ headerFieldValue = Joined(read)
      /\ state = Section(isTrailer, "ParsingTrailerHeaderValueLWS", "ParsingHeaderValueLWS")
  <2>1. CR # LF
    BY DEF CR, LF
  <2>. QED  BY <2>1 DEF ReadsValue, ValueState
<1>5. add(headers, trim(headerFieldName), trim(headerFieldValue)) = FilledSoFar(given, hs, i)
  <2>1. trim(headerFieldValue) = Unfolded(hs[i].value)
    BY <1>2, <1>4, ValueReadBack
  <2>. QED  BY <1>1, <1>2, <1>4, <2>1, FilledSoFarStep
<1>6. ~HeadersFull
  <2>1. i - 1 \in 0 .. Len(hs)
    BY <1>1
  <2>2. Len(headers) = Len(given) + (i - 1)
    BY <1>1, <1>4, <2>1, FilledSoFarType
  <2>3. Len(given) + Len(hs) <= maxHeadersAmount /\ maxHeadersAmount \in Nat
    BY <1>1, ParserAssumption DEF TypeOK, LimitsOK
  <2>. QED  BY <1>1, <2>2, <2>3 DEF HeadersFull, Full
<1>7. parseHeaderValueLWS(ch, isTrailer)
  BY <1>4, FieldsDispatch
<1>. HIDE DEF ch
<1>8. CASE i = Len(hs) /\ ch = CR /\ Tail(r) = <<LF>> \o more
  <2>1. FileField(<< >>) /\ Accept(Section(isTrailer, "ParsingFinalLF", "ParsingEndOfHeader"), ch)
    BY <1>6, <1>7, <1>8, TokenCharacters DEF parseHeaderValueLWS, appendHeader
  <2>2. Moved /\ state' = Section(isTrailer, "ParsingFinalLF", "ParsingEndOfHeader")
    BY <2>1, AcceptMoves
  <2>3. headers' = Filling(given, hs) /\ UNCHANGED <<tokenVars, bodyVars, chunkVars>>
    <3>1. FilledSoFar(given, hs, Len(hs)) = Filling(given, hs)
      BY <1>1, FilledSoFarIs
    <3>. QED  BY <1>5, <1>8, <2>1, <3>1 DEF FileField
  <2>. QED  BY <1>3, <1>8, <2>2, <2>3 DEF FieldsGoOn, InFields
<1>9. CASE /\ i + 1 \in 1 .. Len(hs) /\ isToken(ch) /\ ch \in Char
           /\ PartOf(hs[i + 1].name, <<ch>>, Tail(r), BehindName(hs, i + 1, more))
  <2>1. FileField(<<ch>>) /\ Accept(Section(isTrailer, "ParsingTrailerHeaderName", "ParsingHeaderName"), ch)
    BY <1>6, <1>7, <1>9, TokenCharacters DEF parseHeaderValueLWS, appendHeader
  <2>2. Moved /\ state' = Section(isTrailer, "ParsingTrailerHeaderName", "ParsingHeaderName")
    BY <2>1, AcceptMoves
  <2>3. /\ headers' = FilledSoFar(given, hs, i) /\ headerFieldName' = <<ch>> /\ headerFieldValue' = << >>
        /\ <<ch>> # << >> /\ UNCHANGED <<tokenVars, bodyVars, chunkVars>>
    BY <1>5, <2>1 DEF FileField
  <2>4. ReadsName(given, hs, i + 1, more, Tail(r))'
    <3>1. (i + 1) - 1 = i
      BY <1>1
    <3>. QED  BY <1>9, <2>3, <3>1 DEF ReadsName
  <2>. QED  BY <1>3, <1>9, <2>2, <2>3, <2>4 DEF FieldsGoOn, InFields
<1>. QED  BY <1>3, <1>8, <1>9

LEMMA FieldsStep ==
  ASSUME TypeOK, NEW isTrailer \in BOOLEAN, NEW given, NEW hs, NEW more, ProperFields(given, hs, more),
         NEW r, InFields(isTrailer, given, hs, more, r), Parse(Head(r)),
         state # Section(isTrailer, "ParsingFinalLF", "ParsingEndOfHeader")
  PROVE  FieldsGoOn(isTrailer, given, hs, more, r)
<1>1. CASE /\ state = Section(isTrailer, "ParsingTrailerHeader", "ParsingHeader")
           /\ headers = given /\ r = SectionText(hs, 1, more)
  BY <1>1, FieldsDispatch, FieldsBegin
<1>2. CASE /\ state = Section(isTrailer, "ParsingTrailerHeaderName", "ParsingHeaderName")
           /\ \E i \in 1 .. Len(hs) : ReadsName(given, hs, i, more, r)
  BY <1>2, FieldsDispatch, FieldsName
<1>3. ASSUME NEW i \in 1 .. Len(hs), NEW read, ReadsValue(isTrailer, given, hs, i, more, r, read)
      PROVE  FieldsGoOn(isTrailer, given, hs, more, r)
  <2>1. hs[i] \in Header /\ ProperField(hs[i]) /\ SectionText(hs, i + 1, more) \in String
    <3>1. hs \in Seq(Header) /\ more \in String /\ i + 1 \in 1 .. Len(hs) + 1
      BY DEF ProperFields
    <3>. QED  BY <3>1, SectionType DEF ProperFields
  <2>2. PartOf(BehindColon(hs[i].value), read, r, SectionText(hs, i + 1, more))
    BY <1>3 DEF ReadsValue
  <2>. QED  BY <1>3, <2>1, <2>2, ValueNext, FieldsValue, FieldsFile
<1>. QED  BY <1>1, <1>2, <1>3 DEF InFields
-----------------------------------------------------------------------------
(* From the header to the body: the headers that frame the message say to  *)
(* the parser what the sender meant by them.                               *)

LEMMA ProperFraming ==
  ASSUME NEW m, ProperMessage(m)
  PROVE  /\ Fields(m) \in Seq(Header) /\ InOrder(Fields(m))
         /\ ReadBack(Fields(m)) \in Seq(Header)
         /\ Filling(<< >>, Fields(m)) = ReadBack(Fields(m))
         /\ Frames(ReadBack(Fields(m)), m.chunked, Len(Payload(m)))
<1>. DEFINE length == Len(Payload(m))
            plain  == Unframed(m.headers)
<1>1. /\ m.headers \in Seq(Header) /\ InOrder(m.headers) /\ m.chunked \in BOOLEAN
      /\ Fields(m) \in Seq(Header) /\ length \in UInt
  BY ProperParts
<1>2. length \in Nat
  BY <1>1, UIntSizeAssumption DEF UInt
<1>. HIDE DEF length
<1>3. plain \in Seq(Header) /\ InOrder(plain)
  BY <1>1, UnframedIs
<1>4. ContentLength \in String /\ TransferEncoding \in String /\ Chunked \in String
  BY HeadersAssumption
<1>. HIDE DEF plain
<1>5. CASE m.chunked
  <2>1. Fields(m) = add(plain, TransferEncoding, Chunked) /\ Fields(m) = ChunkedHeaders(m.headers)
    BY <1>5 DEF Fields, ChunkedHeaders, plain
  <2>2. InOrder(Fields(m))
    BY <1>3, <1>4, <2>1, AddKeepsOrder
  <2>3. Frames(ReadBack(Fields(m)), TRUE, length)
    BY <1>1, <2>1, ExchangeAssumption, FramedByChunks
  <2>4. m.chunked = TRUE
    BY <1>1, <1>5
  <2>. QED  BY <1>1, <2>2, <2>3, <2>4, ReadBackIs, FilledInOrder DEF length
<1>6. CASE ~m.chunked
  <2>1. Fields(m) = IdentityHeaders(m.headers, length)
    BY <1>6 DEF Fields, length
  <2>2. NumberText(length, 10) \in String
    BY <1>2, NumberIsPlain
  <2>3. Fields(m) = plain \/ Fields(m) = add(plain, ContentLength, NumberText(length, 10))
    BY <2>1 DEF IdentityHeaders, plain
  <2>4. InOrder(Fields(m))
    BY <1>3, <1>4, <2>2, <2>3, AddKeepsOrder
  <2>5. Frames(ReadBack(Fields(m)), FALSE, length)
    BY <1>1, <2>1, ExchangeAssumption, FramedByLength
  <2>6. m.chunked = FALSE
    BY <1>1, <1>6
  <2>. QED  BY <1>1, <2>4, <2>5, <2>6, ReadBackIs, FilledInOrder DEF length
<1>. QED  BY <1>1, <1>5, <1>6

LEMMA ProperSections ==
  ASSUME NEW m, ProperMessage(m)
  PROVE  /\ ProperFields(<< >>, Fields(m), BodyText(m))
         /\ m.chunked => ProperFields(ReadBack(Fields(m)), m.trailer, << >>)
         /\ << >> \in Seq(Header)
<1>1. /\ Fields(m) \in Seq(Header) /\ m.trailer \in Seq(Header) /\ BodyText(m) \in String
      /\ ReadBack(Fields(m)) \in Seq(Header) /\ Len(ReadBack(Fields(m))) = Len(Fields(m))
  BY ProperParts, TextTypes, ReadBackIs
<1>2. << >> \in Seq(Header) /\ Len(<< >>) = 0 /\ << >> \in String
  BY Letters
<1>3. /\ \A h \in Range(Fields(m)) \cup Range(Trailer(m)) : ProperField(h)
      /\ \A n \in HeadersAmountLimits : Len(Fields(m)) + Len(Trailer(m)) <= n
  BY DEF ProperMessage
<1>4. \A i \in 1 .. Len(Fields(m)) : Fields(m)[i] \in Range(Fields(m))
  BY <1>1 DEF Range
<1>5. Len(Fields(m)) \in Nat /\ Len(Trailer(m)) \in Nat
  BY <1>1, <1>2 DEF Trailer
<1>6. ProperFields(<< >>, Fields(m), BodyText(m))
  <2>1. \A n \in HeadersAmountLimits : 0 + Len(Fields(m)) <= n
    BY <1>3, <1>5, ParserAssumption
  <2>. QED  BY <1>1, <1>2, <1>3, <1>4, <2>1 DEF ProperFields
<1>7. ASSUME m.chunked
      PROVE  ProperFields(ReadBack(Fields(m)), m.trailer, << >>)
  <2>1. Trailer(m) = m.trailer
    BY <1>7 DEF Trailer
  <2>2. \A i \in 1 .. Len(m.trailer) : m.trailer[i] \in Range(Trailer(m))
    BY <1>1, <2>1 DEF Range
  <2>. QED  BY <1>1, <1>2, <1>3, <2>1, <2>2 DEF ProperFields
<1>. QED  BY <1>2, <1>6, <1>7

InHeader(m, r) == Tokens(m) /\ InFields(FALSE, << >>, Fields(m), BodyText(m), r)

InIdentityBody(m, r) ==
  /\ state = "ParsingIdentityBody" /\ ~m.chunked /\ Tokens(m) /\ headers = ReadBack(Fields(m))
  /\ PartOf(Payload(m), body, r, << >>)
  /\ identityBodyBytesParsed = Len(body) /\ contentLength = Len(Payload(m))

ReadsChunk(m, i, r) ==
  \/ /\ state = "ParsingChunkSize" /\ body = TextTo(Accepted(m), i - 1)
     /\ PartOf(NumberText(Len(Data(m, i)), 16), chunkSizeStr, r,
               CRLF \o (Data(m, i) \o BehindData(m, i)))
  \/ /\ state = "ParsingChunkSizeLF" /\ body = TextTo(Accepted(m), i - 1)
     /\ r = <<LF>> \o (Data(m, i) \o BehindData(m, i)) /\ chunkSize = Len(Data(m, i))
  \/ /\ state = "ParsingChunk" /\ i <= Len(Accepted(m))
     /\ \E read : /\ PartOf(Data(m, i), read, r, BehindData(m, i))
                  /\ chunkBytesParsed = Len(read) /\ chunkSize = Len(Data(m, i))
                  /\ body = TextTo(Accepted(m), i - 1) \o read
  \/ /\ state = "ParsingChunkCR" /\ i <= Len(Accepted(m)) /\ body = TextTo(Accepted(m), i)
     /\ r = CRLF \o ChunkText(m, i + 1)
  \/ /\ state = "ParsingChunkLF" /\ i <= Len(Accepted(m)) /\ body = TextTo(Accepted(m), i)
     /\ r = <<LF>> \o ChunkText(m, i + 1)

InChunkedBody(m, r) ==
  /\ m.chunked /\ Tokens(m) /\ headers = ReadBack(Fields(m))
  /\ \E i \in 1 .. Len(Accepted(m)) + 1 : ReadsChunk(m, i, r)

InTrailer(m, r) ==
  /\ m.chunked /\ Tokens(m) /\ body = Payload(m)
  /\ InFields(TRUE, ReadBack(Fields(m)), m.trailer, << >>, r)

InMessage(m, r) ==
  \/ InStartLine(m, r) /\ body = << >>
  \/ InHeader(m, r) /\ body = << >>
  \/ InIdentityBody(m, r)
  \/ InChunkedBody(m, r)
  \/ InTrailer(m, r)

MessageDone(m, r) ==
  /\ state = "ParsingMessage" /\ Tokens(m) /\ headers = View(m).headers /\ body = Payload(m)
  /\ r = << >>

\* The stream collects what the parser marks.
Collects(ch) ==
  body' = IF result'.type = "returned" /\ result'.isBodyChar THEN Append(body, ch) ELSE body

LEMMA CollectsIs ==
  ASSUME Moved, NEW ch, Collects(ch)
  PROVE  body' = IF bodyExpected THEN Append(body, ch) ELSE body
BY DEF Moved, Collects, Returned

MessageGoesOn(m, r) ==
  r # << >> /\ Moved /\ (InMessage(m, Tail(r))' \/ MessageDone(m, Tail(r))')

LEMMA EmptyTail ==
  ASSUME NEW c \in Char, NEW r, r = <<c>> \o << >>
  PROVE  r # << >> /\ Head(r) = c /\ Tail(r) = << >>
BY Letters, InFront

LEMMA BodyBegins ==
  ASSUME TypeOK, BodyCountersExact, NEW m, ProperMessage(m), NEW r, InHeader(m, r), body = << >>,
         state = "ParsingEndOfHeader", Parse(Head(r)), Collects(Head(r))
  PROVE  MessageGoesOn(m, r)
<1>. DEFINE ch   == Head(r)
            hs   == ReadBack(Fields(m))
            text == BodyText(m)
            length == Len(Payload(m))
<1>1. Tokens(m) /\ headers = hs /\ r = <<LF>> \o text
  <2>1. headers = Filling(<< >>, Fields(m)) /\ r = <<LF>> \o text
    BY DEF InHeader, InFields, Section, ReadsName, ReadsValue, ValueState
  <2>. QED  BY <2>1, ProperFraming DEF InHeader
<1>2. text \in String /\ Payload(m) \in String /\ length \in UInt /\ length \in Nat /\ m.chunked \in BOOLEAN
  BY ProperParts, TextTypes DEF String
<1>3. r # << >> /\ ch = LF /\ Tail(r) = text /\ isLineFeed(ch)
  BY <1>1, <1>2, Letters, InFront, TokenCharacters
<1>4. Frames(hs, m.chunked, length) /\ hs \in Seq(Header)
  BY ProperFraming
<1>5. ParseEndOfHeader(ch)
  BY Dispatch
<1>6. contentLength = 0 /\ identityBodyBytesParsed = 0 /\ chunkSizeStr = << >> /\ ~bodyExpected
  BY DEF BodyCountersExact, TypeOK, ContentOK, SizeT, bodyExpected
<1>7. Collects(ch)
  OBVIOUS
<1>. HIDE DEF ch, hs, text, length
<1>8. (IsChunked <=> m.chunked) /\ (~m.chunked => (HasLength <=> length > 0))
      /\ (~m.chunked /\ length > 0 => DeclaredLength = length)
  BY <1>1, <1>4 DEF Frames, IsChunked, HasLength, DeclaredLength
<1>9. CASE m.chunked
  <2>1. Accept("ParsingChunkSize", ch) /\ UNCHANGED contentVars
    BY <1>3, <1>5, <1>8, <1>9 DEF ParseEndOfHeader
  <2>2. Moved /\ state' = "ParsingChunkSize"
    BY <2>1, AcceptMoves
  <2>3. /\ Tokens(m)' /\ headers' = hs /\ chunkSizeStr' = << >> /\ body' = << >>
    BY <1>1, <1>6, <1>7, <2>1, <2>2, CollectsIs
       DEF contentVars, tokenVars, chunkVars, Tokens, TokensAre
  <2>4. 1 \in 1 .. Len(Accepted(m)) + 1 /\ Len(Accepted(m)) \in Nat /\ 1 - 1 = 0
        /\ TextTo(Accepted(m), 0) = << >>
    <3>1. Accepted(m) \in Seq(String)
      BY AcceptedParts
    <3>. QED  BY <3>1, TextToEnds
  <2>5. PartOf(NumberText(Len(Data(m, 1)), 16), << >>, Tail(r), CRLF \o (Data(m, 1) \o BehindData(m, 1)))
    <3>1. Len(Data(m, 1)) \in UInt
      BY <1>9, <2>4, DataType
    <3>2. NumberText(Len(Data(m, 1)), 16) \in String
      BY <3>1, SizeText
    <3>3. text = NumberText(Len(Data(m, 1)), 16) \o (CRLF \o (Data(m, 1) \o BehindData(m, 1)))
      BY <1>9 DEF text, BodyText, ChunkText
    <3>. QED  BY <1>3, <3>2, <3>3, PartNothing
  <2>6. ReadsChunk(m, 1, Tail(r))'
    BY <2>2, <2>3, <2>4, <2>5 DEF ReadsChunk
  <2>7. InChunkedBody(m, Tail(r))'
    BY <1>9, <2>3, <2>4, <2>6 DEF InChunkedBody, hs
  <2>. QED  BY <1>3, <2>2, <2>7 DEF MessageGoesOn, InMessage
<1>10. CASE ~m.chunked /\ length > 0
  <2>1. /\ contentLength' = length
        /\ Accept("ParsingIdentityBody", ch)
        /\ UNCHANGED <<identityBodyBytesParsed, tokenVars, fieldVars, headers, chunkVars>>
    BY <1>2, <1>3, <1>5, <1>8, <1>10 DEF ParseEndOfHeader
  <2>2. Moved /\ state' = "ParsingIdentityBody"
    BY <2>1, AcceptMoves
  <2>3. Tokens(m)' /\ headers' = hs /\ body' = << >> /\ identityBodyBytesParsed' = Len(<< >>)
    BY <1>1, <1>6, <1>7, <2>1, <2>2, CollectsIs DEF tokenVars, Tokens, TokensAre
  <2>4. PartOf(Payload(m), << >>, Tail(r), << >>)
    <3>1. text = Payload(m) \o << >>
      BY <1>2, <1>10 DEF text, BodyText, String
    <3>. QED  BY <1>2, <1>3, <3>1, PartNothing
  <2>5. InIdentityBody(m, Tail(r))'
    BY <1>10, <2>1, <2>2, <2>3, <2>4 DEF InIdentityBody, hs, length
  <2>. QED  BY <1>3, <2>2, <2>5 DEF MessageGoesOn, InMessage
<1>11. CASE ~m.chunked /\ ~(length > 0)
  <2>1. Accept("ParsingMessage", ch) /\ UNCHANGED contentVars
    BY <1>3, <1>5, <1>8, <1>11 DEF ParseEndOfHeader
  <2>2. Moved /\ state' = "ParsingMessage"
    BY <2>1, AcceptMoves
  <2>3. Tokens(m)' /\ headers' = hs /\ body' = << >>
    BY <1>1, <1>6, <1>7, <2>1, <2>2, CollectsIs DEF contentVars, tokenVars, Tokens, TokensAre
  <2>4. Payload(m) = << >>
    BY <1>2, <1>11 DEF length, String
  <2>5. View(m).headers = hs
    <3>1. View(m).headers = Filling(hs, << >>)
      BY <1>11 DEF View, Trailer, hs
    <3>. QED  BY <1>4, <3>1, FillingNothing
  <2>6. Tail(r) = << >>
    BY <1>3, <1>11, <2>4 DEF text, BodyText
  <2>7. MessageDone(m, Tail(r))'
    BY <2>2, <2>3, <2>4, <2>5, <2>6 DEF MessageDone
  <2>. QED  BY <1>3, <2>2, <2>7 DEF MessageGoesOn
<1>. QED  BY <1>2, <1>9, <1>10, <1>11
LEMMA HeaderStep ==
  ASSUME TypeOK, BodyCountersExact, NEW m, ProperMessage(m), NEW r, InHeader(m, r), body = << >>,
         Parse(Head(r)), Collects(Head(r))
  PROVE  MessageGoesOn(m, r)
<1>1. CASE state = "ParsingEndOfHeader"
  BY <1>1, BodyBegins
<1>2. CASE state # "ParsingEndOfHeader"
  <2>. DEFINE given == << >>
              hs    == Fields(m)
              more  == BodyText(m)
  <2>1. /\ Tokens(m) /\ InFields(FALSE, given, hs, more, r) /\ ProperFields(given, hs, more)
        /\ state # Section(FALSE, "ParsingFinalLF", "ParsingEndOfHeader")
    BY <1>2, ProperSections DEF InHeader, Section
  <2>2. ~bodyExpected
    BY <2>1 DEF InFields, Section, ReadsValue, ValueState, bodyExpected
  <2>. HIDE DEF given, hs, more
  <2>3. FieldsGoOn(FALSE, given, hs, more, r)
    BY <2>1, FieldsStep
  <2>4. /\ r # << >> /\ Moved /\ UNCHANGED tokenVars
        /\ InFields(FALSE, given, hs, more, Tail(r))'
    BY <2>3 DEF FieldsGoOn
  <2>5. InHeader(m, Tail(r))'
    BY <2>1, <2>4 DEF InHeader, Tokens, TokensAre, tokenVars, given, hs, more
  <2>6. body' = << >>
    BY <2>2, <2>4, CollectsIs
  <2>. QED  BY <2>4, <2>5, <2>6 DEF MessageGoesOn, InMessage
<1>. QED  BY <1>1, <1>2

LEMMA SmallSizes == \A n \in UInt : n \in Nat /\ n \in SizeT
BY UIntSizeAssumption, ParserAssumption DEF UInt, SizeT

LEMMA IdentityBodyStep ==
  ASSUME TypeOK, BodyCountersExact, NEW m, ProperMessage(m), NEW r, InIdentityBody(m, r),
         Parse(Head(r)), Collects(Head(r))
  PROVE  MessageGoesOn(m, r)
<1>. DEFINE ch == Head(r)
            payload == Payload(m)
<1>1. /\ state = "ParsingIdentityBody" /\ ~m.chunked /\ Tokens(m) /\ headers = ReadBack(Fields(m))
      /\ PartOf(payload, body, r, << >>)
      /\ identityBodyBytesParsed = Len(body) /\ contentLength = Len(payload)
  BY DEF InIdentityBody
<1>2. payload \in String /\ Len(payload) \in UInt /\ << >> \in String
  BY ProperParts, Letters
<1>3. Collects(ch) /\ ParseIdentityBody(ch) /\ bodyExpected
  BY <1>1, Dispatch DEF bodyExpected
<1>. HIDE DEF payload
<1>4. identityBodyBytesParsed < contentLength /\ identityBodyBytesParsed \in SizeT /\ contentLength \in UInt
  BY <1>1 DEF BodyCountersExact, TypeOK, ContentOK
<1>5. PartGoesOn(payload, body, r, << >>) /\ body \in String
  <2>1. payload # body
    BY <1>1, <1>2, <1>4, SmallSizes
  <2>. QED  BY <1>1, <1>2, <2>1, PartNext DEF PartOf
<1>6. /\ r # << >> /\ ch \in Char /\ Len(body) < Len(payload)
      /\ PartOf(payload, Append(body, ch), Tail(r), << >>)
  BY <1>5 DEF PartGoesOn
<1>. HIDE DEF ch
<1>7. Len(Append(body, ch)) = Len(body) + 1 /\ Append(body, ch) \in String
  BY <1>5, <1>6, Appended
<1>8. /\ identityBodyBytesParsed' = Len(body) + 1
      /\ Accept(IF identityBodyBytesParsed' >= contentLength THEN "ParsingMessage" ELSE state, ch)
      /\ UNCHANGED <<contentLength, tokenVars, fieldVars, headers, chunkVars>>
  BY <1>1, <1>3, <1>4, IncrementBelow DEF ParseIdentityBody
<1>9. /\ Moved
      /\ state' = IF Len(body) + 1 >= Len(payload) THEN "ParsingMessage" ELSE "ParsingIdentityBody"
  BY <1>1, <1>8, AcceptMoves
<1>10. body' = Append(body, ch)
  BY <1>3, <1>9, CollectsIs
<1>11. Tokens(m)' /\ headers' = ReadBack(Fields(m))
  BY <1>1, <1>8 DEF tokenVars, Tokens, TokensAre
<1>12. CASE Len(body) + 1 >= Len(payload)
  <2>1. payload = Append(body, ch) /\ Tail(r) = << >>
    <3>1. ~PartGoesOn(payload, Append(body, ch), Tail(r), << >>)
      <4>1. ~(Len(Append(body, ch)) < Len(payload))
        BY <1>2, <1>7, <1>12, SmallSizes
      <4>. QED  BY <4>1 DEF PartGoesOn
    <3>. QED  BY <1>2, <1>6, <3>1, PartNext
  <2>2. View(m).headers = ReadBack(Fields(m))
    <3>1. View(m).headers = Filling(ReadBack(Fields(m)), << >>)
      BY <1>1 DEF View, Trailer
    <3>. QED  BY <3>1, ProperFraming, FillingNothing
  <2>3. MessageDone(m, Tail(r))'
    BY <1>9, <1>10, <1>11, <1>12, <2>1, <2>2 DEF MessageDone, payload
  <2>. QED  BY <1>6, <1>9, <2>3 DEF MessageGoesOn, ch
<1>13. CASE ~(Len(body) + 1 >= Len(payload))
  <2>1. identityBodyBytesParsed' = Len(body') /\ contentLength' = Len(payload)
    BY <1>1, <1>7, <1>8, <1>10
  <2>2. InIdentityBody(m, Tail(r))'
    BY <1>1, <1>6, <1>9, <1>10, <1>11, <1>13, <2>1 DEF InIdentityBody, payload
  <2>. QED  BY <1>6, <1>9, <2>2 DEF MessageGoesOn, InMessage, ch
<1>. QED  BY <1>12, <1>13

-----------------------------------------------------------------------------
(* The chunks.                                                             *)

\* What a step in the chunks leaves as it is, and a step that keeps it.
Chunking(m) == m.chunked /\ Tokens(m) /\ headers = ReadBack(Fields(m))

LEMMA ChunkingGoesOn ==
  ASSUME NEW m, Chunking(m), UNCHANGED <<tokenVars, headers>>, Moved, NEW r, r # << >>,
         NEW i \in 1 .. Len(Accepted(m)) + 1, ReadsChunk(m, i, Tail(r))'
  PROVE  MessageGoesOn(m, r)
<1>1. m.chunked /\ Tokens(m)' /\ headers' = ReadBack(Fields(m))
  BY DEF Chunking, tokenVars, Tokens, TokensAre
<1>2. InChunkedBody(m, Tail(r))'
  BY <1>1 DEF InChunkedBody
<1>. QED  BY <1>2 DEF MessageGoesOn, InMessage

LEMMA ChunkParts ==
  ASSUME NEW m, ProperMessage(m), m.chunked, NEW i \in 1 .. Len(Accepted(m)) + 1
  PROVE  /\ Data(m, i) \in String /\ Len(Data(m, i)) \in UInt /\ Len(Data(m, i)) \in Nat
         /\ BehindData(m, i) \in String /\ Data(m, i) \o BehindData(m, i) \in String
         /\ <<LF>> \o (Data(m, i) \o BehindData(m, i)) \in String
         /\ CRLF \o (Data(m, i) \o BehindData(m, i))
              = <<CR>> \o (<<LF>> \o (Data(m, i) \o BehindData(m, i)))
         /\ CRLF \o (Data(m, i) \o BehindData(m, i)) \in String
<1>1. Data(m, i) \in String /\ Len(Data(m, i)) \in UInt /\ BehindData(m, i) \in String
  BY DataType
<1>2. Data(m, i) \o BehindData(m, i) \in String
  BY <1>1, JoinType
<1>. DEFINE x == <<CR>>
            y == <<LF>>
            t == Data(m, i) \o BehindData(m, i)
<1>3. x \in String /\ y \in String /\ x \o y \in String /\ CRLF = x \o y
  BY Letters, JoinType
<1>4. Len(Data(m, i)) \in Nat
  BY <1>1, SmallSizes
<1>. HIDE DEF x, y, t
<1>5. t \in String
  BY <1>2 DEF t
<1>6. GroupsThree(x, y, t) /\ y \o t \in String /\ (x \o y) \o t \in String
  BY <1>3, <1>5, RegroupThree, JoinType
<1>7. CRLF \o t = x \o (y \o t) /\ CRLF \o t \in String
  BY <1>3, <1>6, Zenon DEF GroupsThree
<1>. QED  BY <1>1, <1>2, <1>4, <1>6, <1>7, Zenon DEF t, x, y

LEMMA ChunkSizeStep ==
  ASSUME TypeOK, BodyCountersExact, NEW m, ProperMessage(m), Chunking(m), NEW r,
         NEW i \in 1 .. Len(Accepted(m)) + 1,
         state = "ParsingChunkSize", body = TextTo(Accepted(m), i - 1),
         PartOf(NumberText(Len(Data(m, i)), 16), chunkSizeStr, r,
                CRLF \o (Data(m, i) \o BehindData(m, i))),
         Parse(Head(r)), Collects(Head(r))
  PROVE  MessageGoesOn(m, r)
<1>. DEFINE ch   == Head(r)
            size == Len(Data(m, i))
            text == NumberText(size, 16)
            data == Data(m, i) \o BehindData(m, i)
            behind == CRLF \o data
<1>1. m.chunked
  BY DEF Chunking
<1>2. /\ size \in UInt /\ behind = <<CR>> \o (<<LF>> \o data) /\ <<LF>> \o data \in String
      /\ behind \in String
  BY <1>1, ChunkParts
<1>3. /\ text \in String /\ text # << >> /\ \A j \in 1 .. Len(text) : isHexDigit(text[j])
      /\ toUnsignedInt(text, TRUE) = size
  BY <1>2, SizeText
<1>4. ParseChunkSize(ch) /\ ~bodyExpected /\ Collects(ch)
  BY Dispatch DEF bodyExpected
<1>5. PartOf(text, chunkSizeStr, r, behind) /\ chunkSizeStr \in String
  BY DEF TypeOK, ContentOK
<1>. HIDE DEF ch, size, text, data, behind
<1>6. CASE text = chunkSizeStr /\ r = behind
  <2>1. r # << >> /\ ch = CR /\ Tail(r) = <<LF>> \o data
    BY <1>2, <1>6, Letters, InFront DEF ch
  <2>2. ~isHexDigit(ch) /\ isCarriageReturn(ch)
    BY <2>1 DEF isHexDigit, isDigit, isCarriageReturn, CR
  <2>3. SizeRead = size
    BY <1>3, <1>6 DEF SizeRead
  <2>4. /\ StartChunk /\ Accept("ParsingChunkSizeLF", ch)
        /\ UNCHANGED <<tokenVars, fieldVars, headers, bodyVars>>
    BY <1>2, <1>3, <1>4, <1>6, <2>2, <2>3 DEF ParseChunkSize
  <2>5. Moved /\ state' = "ParsingChunkSizeLF"
    BY <2>4, AcceptMoves
  <2>6. body' = body /\ chunkSize' = size
    BY <1>4, <2>3, <2>4, <2>5, CollectsIs DEF StartChunk
  <2>7. ReadsChunk(m, i, Tail(r))'
    BY <2>1, <2>5, <2>6 DEF ReadsChunk, size, data
  <2>. QED  BY <2>1, <2>4, <2>5, <2>7, ChunkingGoesOn
<1>7. CASE PartGoesOn(text, chunkSizeStr, r, behind)
  <2>1. /\ r # << >> /\ ch \in Char /\ Len(chunkSizeStr) < Len(text)
        /\ ch = text[Len(chunkSizeStr) + 1]
        /\ PartOf(text, Append(chunkSizeStr, ch), Tail(r), behind)
    BY <1>7 DEF PartGoesOn, ch
  <2>2. isHexDigit(ch)
    <3>1. Len(chunkSizeStr) + 1 \in 1 .. Len(text)
      BY <1>3, <1>5, <2>1 DEF String
    <3>. QED  BY <1>3, <2>1, <3>1
  <2>3. /\ chunkSizeStr' = Append(chunkSizeStr, ch) /\ Accept("ParsingChunkSize", ch)
        /\ UNCHANGED <<tokenVars, headers>>
    BY <1>4, <2>2 DEF ParseChunkSize
  <2>4. Moved /\ state' = "ParsingChunkSize"
    BY <2>3, AcceptMoves
  <2>5. body' = body
    BY <1>4, <2>4, CollectsIs
  <2>6. ReadsChunk(m, i, Tail(r))'
    BY <2>1, <2>3, <2>4, <2>5 DEF ReadsChunk, size, text, data, behind
  <2>. QED  BY <2>1, <2>3, <2>4, <2>6, ChunkingGoesOn
<1>. QED  BY <1>2, <1>5, <1>6, <1>7, PartNext

LEMMA ChunkSizeLFStep ==
  ASSUME TypeOK, BodyCountersExact, NEW m, ProperMessage(m), Chunking(m), NEW r,
         NEW i \in 1 .. Len(Accepted(m)) + 1,
         state = "ParsingChunkSizeLF", body = TextTo(Accepted(m), i - 1),
         r = <<LF>> \o (Data(m, i) \o BehindData(m, i)), chunkSize = Len(Data(m, i)),
         Parse(Head(r)), Collects(Head(r))
  PROVE  MessageGoesOn(m, r)
<1>. DEFINE ch   == Head(r)
            data == Data(m, i) \o BehindData(m, i)
<1>1. m.chunked
  BY DEF Chunking
<1>2. data \in String /\ Data(m, i) \in String /\ BehindData(m, i) \in String /\ Len(Data(m, i)) \in Nat
  BY <1>1, ChunkParts
<1>3. r # << >> /\ ch = LF /\ Tail(r) = data /\ isLineFeed(ch)
  BY <1>2, Letters, InFront, TokenCharacters
<1>4. ParseChunkSizeLF(ch) /\ ~bodyExpected /\ Collects(ch) /\ chunkBytesParsed = 0
  BY Dispatch DEF bodyExpected, BodyCountersExact
<1>5. (i <= Len(Accepted(m)) <=> Len(Data(m, i)) > 0) /\ Len(Accepted(m)) \in Nat
  BY <1>1, DataType
<1>. HIDE DEF ch, data
<1>6. /\ Accept(IF chunkSize > 0 THEN "ParsingChunk" ELSE "ParsingTrailerHeader", ch)
      /\ UNCHANGED contentVars
  BY <1>3, <1>4 DEF ParseChunkSizeLF, Expect
<1>7. Moved /\ state' = IF chunkSize > 0 THEN "ParsingChunk" ELSE "ParsingTrailerHeader"
  BY <1>6, AcceptMoves
<1>8. body' = body /\ UNCHANGED <<tokenVars, headers>> /\ chunkBytesParsed' = 0 /\ chunkSize' = chunkSize
  BY <1>4, <1>6, <1>7, CollectsIs DEF contentVars, chunkVars
<1>9. Accepted(m) \in Seq(String)
  BY AcceptedParts
<1>10. CASE chunkSize > 0
  <2>1. i <= Len(Accepted(m))
    BY <1>5, <1>10
  <2>2. PartOf(Data(m, i), << >>, Tail(r), BehindData(m, i)) /\ Len(<< >>) = 0
    BY <1>2, <1>3, PartNothing DEF data
  <2>3. body = TextTo(Accepted(m), i - 1) \o << >>
    <3>1. i - 1 \in 0 .. Len(Accepted(m))
      BY <1>5, <2>1
    <3>2. TextTo(Accepted(m), i - 1) \in String
      BY <1>9, <3>1, TextType
    <3>. QED  BY <3>2, ConcatEmptySeq DEF String
  <2>4. ReadsChunk(m, i, Tail(r))'
    BY <1>7, <1>8, <1>10, <2>1, <2>2, <2>3 DEF ReadsChunk
  <2>. QED  BY <1>3, <1>7, <1>8, <2>4, ChunkingGoesOn
<1>11. CASE ~(chunkSize > 0)
  <2>1. ~(i <= Len(Accepted(m))) /\ i - 1 = Len(Accepted(m))
    BY <1>5, <1>11
  <2>2. body = Payload(m)
    BY <1>9, <2>1, TextToEnds, ProperParts
  <2>3. Tail(r) = SectionText(m.trailer, 1, << >>)
    <3>1. Data(m, i) = << >> /\ BehindData(m, i) = SectionText(m.trailer, 1, << >>)
      BY <2>1 DEF Data, BehindData
    <3>. QED  BY <1>2, <1>3, <3>1, ConcatEmptySeq DEF data, String
  <2>4. InFields(TRUE, ReadBack(Fields(m)), m.trailer, << >>, Tail(r))'
    BY <1>7, <1>8, <1>11, <2>3 DEF Chunking, InFields, Section
  <2>5. InTrailer(m, Tail(r))'
    BY <1>8, <2>2, <2>4 DEF InTrailer, Chunking, Tokens, TokensAre, tokenVars
  <2>. QED  BY <1>3, <1>7, <2>5 DEF MessageGoesOn, InMessage
<1>. QED  BY <1>10, <1>11
LEMMA ChunkByteStep ==
  ASSUME TypeOK, BodyCountersExact, NEW m, ProperMessage(m), Chunking(m), NEW r,
         NEW i \in 1 .. Len(Accepted(m)), NEW read,
         state = "ParsingChunk", PartOf(Data(m, i), read, r, BehindData(m, i)),
         chunkBytesParsed = Len(read), chunkSize = Len(Data(m, i)),
         body = TextTo(Accepted(m), i - 1) \o read,
         Parse(Head(r)), Collects(Head(r))
  PROVE  MessageGoesOn(m, r)
<1>. DEFINE ch   == Head(r)
            data == Data(m, i)
            more == BehindData(m, i)
            before == TextTo(Accepted(m), i - 1)
<1>1. /\ m.chunked /\ i \in 1 .. Len(Accepted(m)) + 1 /\ i + 1 \in 1 .. Len(Accepted(m)) + 1
      /\ i - 1 \in 0 .. Len(Accepted(m)) /\ i <= Len(Accepted(m))
  BY AcceptedParts DEF Chunking
<1>2. data \in String /\ Len(data) \in UInt /\ Len(data) \in Nat /\ more \in String
  BY <1>1, ChunkParts
<1>3. before \in String
  BY <1>1, AcceptedParts, TextType
<1>4. Collects(ch) /\ ParseChunk(ch) /\ bodyExpected
  BY Dispatch DEF bodyExpected
<1>5. PartOf(data, read, r, more) /\ read \in String /\ Len(read) < Len(data)
  BY DEF PartOf, BodyCountersExact
<1>6. Accepted(m)[i] = data /\ TextTo(Accepted(m), i) = before \o data
  <2>1. Accepted(m)[i] = data
    BY <1>1 DEF Data
  <2>. QED  BY <2>1, AcceptedParts, TextToStep
<1>7. more = CRLF \o ChunkText(m, i + 1)
  BY <1>1, NextChunkText
<1>. HIDE DEF data, more, before
<1>8. PartGoesOn(data, read, r, more)
  <2>1. data # read
    BY <1>2, <1>5
  <2>. QED  BY <1>2, <1>5, <2>1, PartNext
<1>9. r # << >> /\ ch \in Char /\ PartOf(data, Append(read, ch), Tail(r), more)
  BY <1>8 DEF PartGoesOn
<1>. HIDE DEF ch
<1>10. Len(Append(read, ch)) = Len(read) + 1 /\ Append(read, ch) \in String
  BY <1>5, <1>9, Appended
<1>11. /\ chunkBytesParsed' = Len(read) + 1
       /\ Accept(IF chunkBytesParsed' >= chunkSize THEN "ParsingChunkCR" ELSE state, ch)
       /\ UNCHANGED <<tokenVars, headers, chunkSize>>
  <2>1. chunkBytesParsed < chunkSize /\ chunkBytesParsed \in SizeT /\ chunkSize \in UInt
    BY <1>5 DEF BodyCountersExact, TypeOK, ContentOK, data
  <2>. QED  BY <1>4, <2>1, IncrementBelow DEF ParseChunk
<1>12. Moved /\ state' = IF Len(read) + 1 >= Len(data) THEN "ParsingChunkCR" ELSE "ParsingChunk"
  BY <1>11, AcceptMoves DEF data
<1>13. body' = before \o Append(read, ch)
  <2>1. body' = Append(before \o read, ch)
    BY <1>4, <1>12, CollectsIs DEF before
  <2>. QED  BY <1>3, <1>5, <1>9, <2>1, JoinAppend
<1>14. CASE Len(read) + 1 >= Len(data)
  <2>1. data = Append(read, ch) /\ Tail(r) = more
    <3>1. ~PartGoesOn(data, Append(read, ch), Tail(r), more)
      <4>1. ~(Len(Append(read, ch)) < Len(data))
        BY <1>2, <1>10, <1>14
      <4>. QED  BY <4>1 DEF PartGoesOn
    <3>. QED  BY <1>2, <1>9, <3>1, PartNext
  <2>2. body' = TextTo(Accepted(m), i) /\ Tail(r) = CRLF \o ChunkText(m, i + 1)
    BY <1>6, <1>7, <1>13, <2>1
  <2>3. ReadsChunk(m, i, Tail(r))'
    BY <1>1, <1>12, <1>14, <2>2 DEF ReadsChunk
  <2>. QED  BY <1>1, <1>9, <1>11, <1>12, <2>3, ChunkingGoesOn
<1>15. CASE ~(Len(read) + 1 >= Len(data))
  <2>1. chunkBytesParsed' = Len(Append(read, ch)) /\ chunkSize' = Len(data)
    BY <1>10, <1>11 DEF data
  <2>2. ReadsChunk(m, i, Tail(r))'
    BY <1>1, <1>9, <1>12, <1>13, <1>15, <2>1 DEF ReadsChunk, data, more, before
  <2>. QED  BY <1>1, <1>9, <1>11, <1>12, <2>2, ChunkingGoesOn
<1>. QED  BY <1>14, <1>15

LEMMA ChunkEndStep ==
  ASSUME TypeOK, BodyCountersExact, NEW m, ProperMessage(m), Chunking(m), NEW r,
         NEW i \in 1 .. Len(Accepted(m)), body = TextTo(Accepted(m), i),
         \/ state = "ParsingChunkCR" /\ r = CRLF \o ChunkText(m, i + 1)
         \/ state = "ParsingChunkLF" /\ r = <<LF>> \o ChunkText(m, i + 1),
         Parse(Head(r)), Collects(Head(r))
  PROVE  MessageGoesOn(m, r)
<1>. DEFINE ch   == Head(r)
            text == ChunkText(m, i + 1)
<1>1. /\ m.chunked /\ i \in 1 .. Len(Accepted(m)) + 1 /\ i + 1 \in 1 .. Len(Accepted(m)) + 1
      /\ i <= Len(Accepted(m)) /\ (i + 1) - 1 = i
  BY AcceptedParts DEF Chunking
<1>2. text \in String
  BY <1>1, DataType
<1>3. Collects(ch) /\ ~bodyExpected /\ chunkSizeStr = << >>
  BY DEF bodyExpected, BodyCountersExact
<1>4. CASE state = "ParsingChunkCR" /\ r = CRLF \o text
  <2>1. r = <<CR>> \o (<<LF>> \o text) /\ <<LF>> \o text \in String
    <3>. DEFINE x == <<CR>>
                y == <<LF>>
    <3>1. x \in String /\ y \in String /\ CRLF = x \o y
      BY Letters
    <3>. HIDE DEF x, y, text
    <3>2. GroupsThree(x, y, text) /\ y \o text \in String
      BY <1>2, <3>1, RegroupThree, JoinType
    <3>. QED  BY <1>4, <3>1, <3>2, Zenon DEF x, y, GroupsThree
  <2>2. r # << >> /\ ch = CR /\ Tail(r) = <<LF>> \o text /\ isCarriageReturn(ch)
    BY <2>1, Letters, InFront, TokenCharacters
  <2>3. ParseChunkCR(ch)
    BY <1>4, Dispatch
  <2>. HIDE DEF ch, text
  <2>4. Accept("ParsingChunkLF", ch) /\ UNCHANGED contentVars
    BY <2>2, <2>3 DEF ParseChunkCR, Expect
  <2>5. Moved /\ state' = "ParsingChunkLF" /\ UNCHANGED <<tokenVars, headers>>
    BY <2>4, AcceptMoves DEF contentVars
  <2>6. body' = body
    BY <1>3, <2>5, CollectsIs
  <2>7. ReadsChunk(m, i, Tail(r))'
    BY <1>1, <2>2, <2>5, <2>6 DEF ReadsChunk, text
  <2>. QED  BY <1>1, <2>2, <2>5, <2>7, ChunkingGoesOn
<1>5. CASE state = "ParsingChunkLF" /\ r = <<LF>> \o text
  <2>1. r # << >> /\ ch = LF /\ Tail(r) = text /\ isLineFeed(ch)
    BY <1>2, <1>5, Letters, InFront, TokenCharacters
  <2>2. ParseChunkLF(ch)
    BY <1>5, Dispatch
  <2>. DEFINE n == NumberText(Len(Data(m, i + 1)), 16)
              behind == CRLF \o (Data(m, i + 1) \o BehindData(m, i + 1))
  <2>3. text = n \o behind
    BY DEF ChunkText
  <2>. HIDE DEF ch, text
  <2>4. Accept("ParsingChunkSize", ch) /\ UNCHANGED contentVars
    BY <2>1, <2>2 DEF ParseChunkLF, Expect
  <2>5. /\ Moved /\ state' = "ParsingChunkSize" /\ UNCHANGED <<tokenVars, headers>>
        /\ chunkSizeStr' = << >>
    BY <1>3, <2>4, AcceptMoves DEF contentVars, chunkVars
  <2>6. body' = TextTo(Accepted(m), (i + 1) - 1)
    BY <1>1, <1>3, <2>5, CollectsIs
  <2>7. n \in String
    <3>1. Len(Data(m, i + 1)) \in UInt
      BY <1>1, DataType
    <3>. QED  BY <3>1, SizeText
  <2>8. PartOf(n, << >>, Tail(r), behind)
    <3>. HIDE DEF n, behind
    <3>. QED  BY <2>1, <2>3, <2>7, PartNothing
  <2>9. ReadsChunk(m, i + 1, Tail(r))'
    BY <2>5, <2>6, <2>8 DEF ReadsChunk
  <2>. QED  BY <1>1, <2>1, <2>5, <2>9, ChunkingGoesOn
<1>. QED  BY <1>4, <1>5
LEMMA ChunkedBodyStep ==
  ASSUME TypeOK, BodyCountersExact, NEW m, ProperMessage(m), NEW r, InChunkedBody(m, r),
         Parse(Head(r)), Collects(Head(r))
  PROVE  MessageGoesOn(m, r)
<1>1. Chunking(m)
  BY DEF InChunkedBody, Chunking
<1>2. PICK i \in 1 .. Len(Accepted(m)) + 1 : ReadsChunk(m, i, r)
  BY DEF InChunkedBody
<1>3. CASE /\ state = "ParsingChunkSize" /\ body = TextTo(Accepted(m), i - 1)
           /\ PartOf(NumberText(Len(Data(m, i)), 16), chunkSizeStr, r,
                     CRLF \o (Data(m, i) \o BehindData(m, i)))
  BY <1>1, <1>3, ChunkSizeStep
<1>4. CASE /\ state = "ParsingChunkSizeLF" /\ body = TextTo(Accepted(m), i - 1)
           /\ r = <<LF>> \o (Data(m, i) \o BehindData(m, i)) /\ chunkSize = Len(Data(m, i))
  BY <1>1, <1>4, ChunkSizeLFStep
<1>5. CASE /\ state = "ParsingChunk" /\ i <= Len(Accepted(m))
           /\ \E read : /\ PartOf(Data(m, i), read, r, BehindData(m, i))
                        /\ chunkBytesParsed = Len(read) /\ chunkSize = Len(Data(m, i))
                        /\ body = TextTo(Accepted(m), i - 1) \o read
  <2>1. PICK read : /\ PartOf(Data(m, i), read, r, BehindData(m, i))
                    /\ chunkBytesParsed = Len(read) /\ chunkSize = Len(Data(m, i))
                    /\ body = TextTo(Accepted(m), i - 1) \o read
    BY <1>5
  <2>2. i \in 1 .. Len(Accepted(m))
    BY <1>5, AcceptedParts
  <2>. QED  BY <1>1, <1>5, <2>1, <2>2, ChunkByteStep
<1>6. CASE \/ /\ state = "ParsingChunkCR" /\ i <= Len(Accepted(m)) /\ body = TextTo(Accepted(m), i)
              /\ r = CRLF \o ChunkText(m, i + 1)
           \/ /\ state = "ParsingChunkLF" /\ i <= Len(Accepted(m)) /\ body = TextTo(Accepted(m), i)
              /\ r = <<LF>> \o ChunkText(m, i + 1)
  <2>1. i \in 1 .. Len(Accepted(m))
    BY <1>6, AcceptedParts
  <2>. QED  BY <1>1, <1>6, <2>1, ChunkEndStep
<1>. QED  BY <1>2, <1>3, <1>4, <1>5, <1>6 DEF ReadsChunk

LEMMA TrailerStep ==
  ASSUME TypeOK, NEW m, ProperMessage(m), NEW r, InTrailer(m, r), Parse(Head(r)), Collects(Head(r))
  PROVE  MessageGoesOn(m, r)
<1>. DEFINE given == ReadBack(Fields(m))
            hs    == m.trailer
            more  == << >>
            ch    == Head(r)
<1>1. /\ m.chunked /\ Tokens(m) /\ body = Payload(m)
      /\ InFields(TRUE, given, hs, more, r) /\ ProperFields(given, hs, more)
  BY ProperSections DEF InTrailer
<1>2. ~bodyExpected /\ Collects(ch)
  BY <1>1 DEF InFields, Section, ReadsValue, ValueState, bodyExpected
<1>3. CASE state = "ParsingFinalLF"
  <2>1. headers = Filling(given, hs) /\ r = <<LF>> \o more
    BY <1>1, <1>3 DEF InFields, Section, ReadsName, ReadsValue, ValueState
  <2>2. r # << >> /\ ch = LF /\ Tail(r) = << >> /\ isLineFeed(ch)
    BY <2>1, Letters, EmptyTail, TokenCharacters
  <2>3. ParseFinalLF(ch)
    BY <1>3, Dispatch
  <2>. HIDE DEF ch, given, hs
  <2>4. Accept("ParsingMessage", ch) /\ UNCHANGED contentVars
    BY <2>2, <2>3 DEF ParseFinalLF, Expect
  <2>5. Moved /\ state' = "ParsingMessage" /\ UNCHANGED <<tokenVars, headers>>
    BY <2>4, AcceptMoves DEF contentVars
  <2>6. body' = body /\ Tokens(m)' /\ headers' = Filling(given, hs)
    BY <1>1, <1>2, <2>1, <2>5, CollectsIs DEF Tokens, TokensAre, tokenVars
  <2>7. View(m).headers = Filling(given, hs)
    BY <1>1 DEF View, Trailer, given, hs
  <2>8. MessageDone(m, Tail(r))'
    BY <1>1, <2>2, <2>5, <2>6, <2>7 DEF MessageDone
  <2>. QED  BY <2>2, <2>5, <2>8 DEF MessageGoesOn
<1>4. CASE state # "ParsingFinalLF"
  <2>1. state # Section(TRUE, "ParsingFinalLF", "ParsingEndOfHeader")
    BY <1>4 DEF Section
  <2>. HIDE DEF given, hs, more
  <2>2. FieldsGoOn(TRUE, given, hs, more, r)
    BY <1>1, <2>1, FieldsStep
  <2>3. r # << >> /\ Moved /\ UNCHANGED tokenVars /\ InFields(TRUE, given, hs, more, Tail(r))'
    BY <2>2 DEF FieldsGoOn
  <2>4. body' = body
    BY <1>2, <2>3, CollectsIs
  <2>5. InTrailer(m, Tail(r))'
    BY <1>1, <2>3, <2>4 DEF InTrailer, Tokens, TokensAre, tokenVars, given, hs, more
  <2>. QED  BY <2>3, <2>5 DEF MessageGoesOn, InMessage
<1>. QED  BY <1>3, <1>4

\* A call of parse(char) inside a message reads on in it, to its end.
LEMMA MessageStep ==
  ASSUME TypeOK, BodyCountersExact, NEW m, ProperMessage(m), NEW r, InMessage(m, r),
         Parse(Head(r)), Collects(Head(r))
  PROVE  MessageGoesOn(m, r)
<1>1. CASE InStartLine(m, r) /\ body = << >>
  <2>1. r # << >> /\ Moved /\ (InStartLine(m, Tail(r))' \/ HeaderBegins(m, Tail(r))')
    BY <1>1, StartLineStep
  <2>2. ~bodyExpected
    BY <1>1 DEF InStartLine, bodyExpected
  <2>3. body' = << >>
    BY <1>1, <2>1, <2>2, CollectsIs
  <2>4. HeaderBegins(m, Tail(r))' => InHeader(m, Tail(r))'
    BY DEF HeaderBegins, InHeader, InFields, Section
  <2>. QED  BY <2>1, <2>3, <2>4 DEF MessageGoesOn, InMessage
<1>2. CASE InHeader(m, r) /\ body = << >>
  BY <1>2, HeaderStep
<1>. QED  BY <1>1, <1>2, IdentityBodyStep, ChunkedBodyStep, TrailerStep DEF InMessage
-----------------------------------------------------------------------------
(* Where the parser is in a message, and what has been collected of it.    *)

LEMMA PartLeft ==
  ASSUME NEW t, NEW read, NEW r, NEW more \in String, more # << >>, PartOf(t, read, r, more)
  PROVE  r # << >>
BY PartNext DEF PartGoesOn

LEMMA InFieldsReads ==
  ASSUME NEW isTrailer \in BOOLEAN, NEW given, NEW hs, NEW more, ProperFields(given, hs, more),
         NEW r, InFields(isTrailer, given, hs, more, r)
  PROVE  r # << >> /\ state # "ParsingMessage" /\ ~bodyExpected
<1>1. state # "ParsingMessage" /\ ~bodyExpected
  BY DEF InFields, Section, ReadsValue, ValueState, bodyExpected
<1>2. /\ hs \in Seq(Header) /\ more \in String /\ Len(hs) \in Nat
      /\ \A i \in 1 .. Len(hs) : hs[i] \in Header
  BY DEF ProperFields
<1>3. \A i \in 0 .. Len(hs) : SectionText(hs, i + 1, more) # << >>
  BY FieldFollows
<1>4. \A i \in 0 .. Len(hs) : SectionText(hs, i + 1, more) \in String
  <2>. SUFFICES ASSUME NEW i \in 0 .. Len(hs) PROVE SectionText(hs, i + 1, more) \in String
    OBVIOUS
  <2>1. i + 1 \in 1 .. Len(hs) + 1
    BY <1>2
  <2>. QED  BY <1>2, <2>1, SectionType
<1>5. CASE headers = given /\ r = SectionText(hs, 1, more)
  <2>1. 0 \in 0 .. Len(hs) /\ 0 + 1 = 1
    BY <1>2
  <2>2. SectionText(hs, 0 + 1, more) # << >>
    BY <1>3, <2>1
  <2>. QED  BY <1>1, <1>5, <2>1, <2>2
<1>6. ASSUME NEW i \in 1 .. Len(hs), ReadsName(given, hs, i, more, r)
      PROVE  r # << >>
  <2>. DEFINE s == SectionText(hs, i + 1, more)
              b == BehindColon(hs[i].value)
  <2>1. s \in String
    BY <1>2, <1>4
  <2>2. b \in String
    <3>1. hs[i].value \in String
      BY <1>2 DEF Header
    <3>. QED  BY <3>1, BehindColonType
  <2>3. BehindName(hs, i, more) = <<Colon>> \o (b \o s)
    BY DEF BehindName
  <2>. HIDE DEF s, b
  <2>4. b \o s \in String
    BY <2>1, <2>2, JoinType
  <2>5. BehindName(hs, i, more) \in String /\ BehindName(hs, i, more) # << >>
    BY <2>3, <2>4, Letters, InFront
  <2>. QED  BY <1>6, <2>5, PartLeft DEF ReadsName
<1>7. ASSUME NEW i \in 1 .. Len(hs), NEW read, ReadsValue(isTrailer, given, hs, i, more, r, read)
      PROVE  r # << >>
  <2>1. SectionText(hs, i + 1, more) \in String /\ SectionText(hs, i + 1, more) # << >>
    BY <1>2, <1>3, <1>4
  <2>. QED  BY <1>7, <2>1, PartLeft DEF ReadsValue
<1>8. CASE r = <<LF>> \o more
  BY <1>1, <1>2, <1>8, Letters, InFront
<1>. QED  BY <1>1, <1>5, <1>6, <1>7, <1>8 DEF InFields

LEMMA InStartLineReads ==
  ASSUME NEW m, ProperMessage(m), NEW r, InStartLine(m, r)
  PROVE  r # << >> /\ state # "ParsingMessage" /\ ~bodyExpected
<1>1. state # "ParsingMessage" /\ ~bodyExpected
  BY DEF InStartLine, bodyExpected
<1>2. /\ BehindThird(m) \in String /\ BehindSecond(m) \in String /\ BehindFirst(m) \in String
      /\ SectionText(Fields(m), 1, BodyText(m)) \in String
  BY TextTypes
<1>3. BehindSecond(m) # << >>
  <2>1. m.tokens[3] \o BehindThird(m) \in String
    BY <1>2, ProperParts, JoinType
  <2>. QED  BY <2>1, Letters, InFront DEF BehindSecond
<1>4. BehindFirst(m) # << >>
  <2>1. m.tokens[2] \o BehindSecond(m) \in String
    BY <1>2, ProperParts, JoinType
  <2>. QED  BY <2>1, Letters, InFront DEF BehindFirst
<1>5. BehindThird(m) # << >>
  <2>. DEFINE s == SectionText(Fields(m), 1, BodyText(m))
  <2>1. BehindThird(m) = CRLF \o s
    BY DEF BehindThird
  <2>2. CRLF # << >> /\ CRLF \in String
    BY Letters DEF CRLF
  <2>. HIDE DEF s
  <2>. QED  BY <1>2, <2>1, <2>2, PartBegins DEF s
<1>6. m.tokens[2] \o BehindSecond(m) # << >> /\ m.tokens[3] \o BehindThird(m) # << >>
  <2>1. m.tokens[2] \in String /\ m.tokens[2] # << >> /\ m.tokens[3] \in String /\ m.tokens[3] # << >>
    BY ProperParts
  <2>. QED  BY <1>2, <2>1, PartBegins
<1>7. <<LF>> \o SectionText(Fields(m), 1, BodyText(m)) # << >>
  BY <1>2, Letters, InFront
<1>8. \/ \E read : \/ PartOf(m.tokens[1], read, r, BehindFirst(m))
                   \/ PartOf(m.tokens[2], read, r, BehindSecond(m))
                   \/ PartOf(m.tokens[3], read, r, BehindThird(m))
      \/ r \in { m.tokens[2] \o BehindSecond(m), m.tokens[3] \o BehindThird(m),
                 <<LF>> \o SectionText(Fields(m), 1, BodyText(m)) }
  BY DEF InStartLine
<1>. QED  BY <1>1, <1>2, <1>3, <1>4, <1>5, <1>6, <1>7, <1>8, PartLeft

LEMMA InChunksReads ==
  ASSUME NEW m, ProperMessage(m), m.chunked, NEW i \in 1 .. Len(Accepted(m)) + 1, NEW r,
         ReadsChunk(m, i, r)
  PROVE  r # << >> /\ state # "ParsingMessage"
<1>. DEFINE data == Data(m, i) \o BehindData(m, i)
<1>1. state # "ParsingMessage"
  BY DEF ReadsChunk
<1>2. data \in String /\ CRLF \o data \in String
  BY ChunkParts
<1>. HIDE DEF data
<1>3. CRLF \o data # << >> /\ <<LF>> \o data # << >>
  <2>1. CRLF # << >> /\ CRLF \in String
    BY Letters DEF CRLF
  <2>. QED  BY <1>2, <2>1, PartBegins, Letters, InFront
<1>4. i <= Len(Accepted(m)) =>
        /\ <<LF>> \o ChunkText(m, i + 1) # << >> /\ CRLF \o ChunkText(m, i + 1) # << >>
        /\ BehindData(m, i) \in String /\ BehindData(m, i) = CRLF \o ChunkText(m, i + 1)
  <2>. SUFFICES ASSUME i <= Len(Accepted(m))
                PROVE  /\ <<LF>> \o ChunkText(m, i + 1) # << >>
                       /\ CRLF \o ChunkText(m, i + 1) # << >>
                       /\ BehindData(m, i) \in String
                       /\ BehindData(m, i) = CRLF \o ChunkText(m, i + 1)
    OBVIOUS
  <2>1. i \in 1 .. Len(Accepted(m)) /\ i + 1 \in 1 .. Len(Accepted(m)) + 1
    BY AcceptedParts
  <2>2. ChunkText(m, i + 1) \in String /\ BehindData(m, i) = CRLF \o ChunkText(m, i + 1)
    BY <2>1, DataType, NextChunkText
  <2>3. BehindData(m, i) \in String
    BY DataType
  <2>4. CRLF # << >> /\ CRLF \in String
    BY Letters DEF CRLF
  <2>. QED  BY <2>2, <2>3, <2>4, PartBegins, Letters, InFront
<1>5. \/ \E read : PartOf(NumberText(Len(Data(m, i)), 16), read, r, CRLF \o data)
      \/ r = <<LF>> \o data
      \/ /\ i <= Len(Accepted(m))
         /\ \/ \E read : PartOf(Data(m, i), read, r, BehindData(m, i))
            \/ r \in {CRLF \o ChunkText(m, i + 1), <<LF>> \o ChunkText(m, i + 1)}
  BY DEF ReadsChunk, data
<1>6. CASE \E read : PartOf(NumberText(Len(Data(m, i)), 16), read, r, CRLF \o data)
  BY <1>1, <1>2, <1>3, <1>6, PartLeft
<1>7. CASE r = <<LF>> \o data
  BY <1>1, <1>3, <1>7
<1>8. CASE /\ i <= Len(Accepted(m))
           /\ \/ \E read : PartOf(Data(m, i), read, r, BehindData(m, i))
              \/ r \in {CRLF \o ChunkText(m, i + 1), <<LF>> \o ChunkText(m, i + 1)}
  <2>. HIDE DEF data
  <2>. QED  BY <1>1, <1>4, <1>8, PartLeft
<1>. QED  BY <1>5, <1>6, <1>7, <1>8

\* The parser in a message has more to read of it.
LEMMA InMessageReads ==
  ASSUME TypeOK, BodyCountersExact, NEW m, ProperMessage(m), NEW r, InMessage(m, r)
  PROVE  r # << >> /\ state # "ParsingMessage"
<1>1. CASE InStartLine(m, r)
  BY <1>1, InStartLineReads
<1>2. CASE InHeader(m, r)
  BY <1>2, ProperSections, InFieldsReads DEF InHeader
<1>3. CASE InIdentityBody(m, r)
  <2>1. /\ PartOf(Payload(m), body, r, << >>) /\ state = "ParsingIdentityBody"
        /\ identityBodyBytesParsed = Len(body) /\ contentLength = Len(Payload(m))
    BY <1>3 DEF InIdentityBody
  <2>2. Payload(m) # body
    <3>1. Len(body) < Len(Payload(m)) /\ Len(Payload(m)) \in Nat
      BY <2>1, ProperParts, SmallSizes DEF BodyCountersExact
    <3>. QED  BY <3>1
  <2>. QED  BY <2>1, <2>2, Letters, PartNext DEF PartGoesOn
<1>4. CASE InChunkedBody(m, r)
  BY <1>4, InChunksReads DEF InChunkedBody
<1>5. CASE InTrailer(m, r)
  BY <1>5, ProperSections, InFieldsReads DEF InTrailer
<1>. QED  BY <1>1, <1>2, <1>3, <1>4, <1>5 DEF InMessage
PrefixOf(s, t) == s \in String /\ \E rest \in String : t = s \o rest

LEMMA PrefixIs ==
  ASSUME NEW s, NEW t, PrefixOf(s, t)
  PROVE  IsPrefix(s, t)
<1>1. PICK rest \in String : t = s \o rest
  BY DEF PrefixOf
<1>2. s \in Seq(Char) /\ rest \in Seq(Char)
  BY DEF PrefixOf, String
<1>3. /\ t \in Seq(Char) /\ Len(t) = Len(s) + Len(rest) /\ Len(s) \in Nat /\ Len(rest) \in Nat
      /\ \A i \in 1 .. Len(s) : t[i] = s[i]
  <2>1. /\ s \o rest \in Seq(Char) /\ Len(s \o rest) = Len(s) + Len(rest)
        /\ \A i \in 1 .. Len(s) + Len(rest) :
             (s \o rest)[i] = IF i <= Len(s) THEN s[i] ELSE rest[i - Len(s)]
    BY <1>2, ConcatProperties
  <2>2. Len(s) \in Nat /\ Len(rest) \in Nat
    BY <1>2
  <2>3. \A i \in 1 .. Len(s) : i \in 1 .. Len(s) + Len(rest) /\ i <= Len(s)
    BY <2>2
  <2>. QED  BY <1>1, <2>1, <2>2, <2>3
<1>4. SubSeq(t, 1, Len(s)) = s
  <2>1. \A i \in 1 .. Len(s) : t[i] \in Char
    BY <1>2, <1>3
  <2>2. /\ SubSeq(t, 1, Len(s)) \in Seq(Char) /\ Len(SubSeq(t, 1, Len(s))) = Len(s)
        /\ \A i \in 1 .. Len(s) : SubSeq(t, 1, Len(s))[i] = t[i]
    BY <1>3, <2>1, SubSeqProperties
  <2>. QED  BY <1>2, <1>3, <2>2, SeqEqual
<1>5. SubSeq(s, 1, Len(s)) = s
  BY <1>2, SubSeqFull
<1>. QED  BY <1>3, <1>4, <1>5 DEF IsPrefix

LEMMA PrefixLess ==
  ASSUME NEW s \in String, NEW rest \in String, rest # << >>
  PROVE  s \o rest # s
<1>1. Len(s \o rest) = Len(s) + Len(rest) /\ Len(s) \in Nat /\ Len(rest) \in Nat \ {0}
  BY ConcatProperties, EmptySeq DEF String
<1>. QED  BY <1>1

\* The chunks before the i-th, and a part of that one, begin the payload.
LEMMA ChunksBegin ==
  ASSUME NEW m, ProperMessage(m)
  PROVE  /\ \A i \in 1 .. Len(Accepted(m)) + 1 : PrefixOf(TextTo(Accepted(m), i - 1), Payload(m))
         /\ \A i \in 1 .. Len(Accepted(m)) : \A read \in String, rest \in String :
              Accepted(m)[i] = read \o rest /\ rest # << >> =>
                LET collected == TextTo(Accepted(m), i - 1) \o read
                IN  PrefixOf(collected, Payload(m)) /\ collected # Payload(m)
<1>. DEFINE A == Accepted(m)
            p == Payload(m)
<1>1. A \in Seq(String) /\ FlattenSeq(A) = p /\ Len(A) \in Nat
  BY AcceptedParts, ProperParts
<1>. HIDE DEF A, p
<1>2. ASSUME NEW i \in 1 .. Len(A) + 1
      PROVE  /\ TextTo(A, i - 1) \in String /\ TextFrom(A, i) \in String
             /\ p = TextTo(A, i - 1) \o TextFrom(A, i)
  <2>1. i - 1 \in 0 .. Len(A)
    BY <1>1
  <2>. QED  BY <1>1, <2>1, TextType, TextSplit
<1>3. ASSUME NEW i \in 1 .. Len(A), NEW read \in String, NEW rest \in String,
             A[i] = read \o rest, rest # << >>
      PROVE  /\ PrefixOf(TextTo(A, i - 1) \o read, p)
             /\ TextTo(A, i - 1) \o read # p
  <2>. DEFINE before == TextTo(A, i - 1)
              behind == TextFrom(A, i + 1)
              left   == rest \o behind
  <2>1. i \in 1 .. Len(A) + 1 /\ i + 1 \in 1 .. Len(A) + 1
    BY <1>1
  <2>2. before \in String /\ behind \in String /\ p = before \o TextFrom(A, i)
    BY <1>2, <2>1
  <2>3. TextFrom(A, i) = (read \o rest) \o behind
    BY <1>1, <1>3, TextFromStep
  <2>. HIDE DEF before, behind
  <2>4. left \in String /\ left # << >> /\ (read \o rest) \o behind = read \o left
    BY <1>3, <2>2, Regroup, JoinType, PartBegins
  <2>. HIDE DEF left
  <2>5. before \o read \in String /\ (before \o read) \o left = before \o (read \o left)
    <3>1. GroupsThree(before, read, left) /\ before \o read \in String
      BY <1>3, <2>2, <2>4, RegroupThree, JoinType
    <3>. QED  BY <3>1, Zenon DEF GroupsThree
  <2>6. p = (before \o read) \o left
    BY <2>2, <2>3, <2>4, <2>5, Zenon
  <2>. DEFINE collected == before \o read
  <2>7. PrefixOf(collected, p)
    BY <2>4, <2>5, <2>6, Zenon DEF PrefixOf
  <2>8. collected # p
    <3>1. collected \in String /\ p = collected \o left
      BY <2>5, <2>6
    <3>. HIDE DEF collected
    <3>. QED  BY <2>4, <3>1, PrefixLess
  <2>. QED  BY <2>7, <2>8 DEF before
<1>4. \A i \in 1 .. Len(A) + 1 : PrefixOf(TextTo(A, i - 1), p)
  BY <1>2, Zenon DEF PrefixOf
<1>. QED  BY <1>3, <1>4 DEF A, p

\* What has been collected of a message begins its payload, and is all of it
\* only when the parser expects no more.
LEMMA InMessagePrefix ==
  ASSUME TypeOK, BodyCountersExact, NEW m, ProperMessage(m), NEW r,
         InMessage(m, r) \/ MessageDone(m, r)
  PROVE  IsPrefix(body, Payload(m)) /\ (bodyExpected => body # Payload(m))
<1>1. Payload(m) \in String /\ << >> \in String
  BY ProperParts, Letters
<1>2. PrefixOf(<< >>, Payload(m)) /\ PrefixOf(Payload(m), Payload(m))
  <2>1. << >> \o Payload(m) = Payload(m) /\ Payload(m) \o << >> = Payload(m)
    BY <1>1, ConcatEmptySeq DEF String
  <2>. QED  BY <1>1, <2>1, Zenon DEF PrefixOf
<1>3. CASE InStartLine(m, r) /\ body = << >>
  BY <1>2, <1>3, InStartLineReads, PrefixIs
<1>4. CASE InHeader(m, r) /\ body = << >>
  <2>1. ~bodyExpected
    BY <1>4, ProperSections, InFieldsReads DEF InHeader
  <2>. QED  BY <1>2, <1>4, <2>1, PrefixIs
<1>5. CASE InIdentityBody(m, r)
  <2>1. /\ PartOf(Payload(m), body, r, << >>) /\ state = "ParsingIdentityBody"
        /\ identityBodyBytesParsed = Len(body) /\ contentLength = Len(Payload(m))
    BY <1>5 DEF InIdentityBody
  <2>2. Payload(m) # body
    <3>1. Len(body) < Len(Payload(m)) /\ Len(Payload(m)) \in Nat
      BY <2>1, ProperParts, SmallSizes DEF BodyCountersExact
    <3>. QED  BY <3>1
  <2>3. PrefixOf(body, Payload(m))
    BY <2>1, Zenon DEF PartOf, PrefixOf
  <2>. QED  BY <2>2, <2>3, PrefixIs
<1>6. CASE InChunkedBody(m, r)
  <2>1. PICK i \in 1 .. Len(Accepted(m)) + 1 : ReadsChunk(m, i, r)
    BY <1>6 DEF InChunkedBody
  <2>2. CASE state = "ParsingChunk"
    <3>1. PICK read : /\ PartOf(Data(m, i), read, r, BehindData(m, i))
                      /\ chunkBytesParsed = Len(read) /\ chunkSize = Len(Data(m, i))
                      /\ body = TextTo(Accepted(m), i - 1) \o read
      BY <2>1, <2>2 DEF ReadsChunk
    <3>2. i \in 1 .. Len(Accepted(m)) /\ Data(m, i) = Accepted(m)[i]
      BY <2>1, <2>2, AcceptedParts DEF ReadsChunk, Data
    <3>3. PICK rest \in String : Data(m, i) = read \o rest
      BY <3>1 DEF PartOf
    <3>4. read \in String /\ rest # << >>
      <4>1. read \in String /\ Len(read) < Len(read \o rest)
        BY <2>2, <3>1, <3>3 DEF PartOf, BodyCountersExact
      <4>2. read \o << >> = read /\ Len(read) \in Nat
        BY <4>1, ConcatEmptySeq DEF String
      <4>. QED  BY <4>1, <4>2
    <3>5. PrefixOf(body, Payload(m)) /\ body # Payload(m)
      BY <3>1, <3>2, <3>3, <3>4, ChunksBegin
    <3>. QED  BY <3>5, PrefixIs
  <2>3. CASE state # "ParsingChunk"
    <3>1. ~bodyExpected
      BY <2>1, <2>3 DEF ReadsChunk, bodyExpected
    <3>2. body = TextTo(Accepted(m), i - 1) \/ (i <= Len(Accepted(m)) /\ body = TextTo(Accepted(m), i))
      BY <2>1, <2>3 DEF ReadsChunk
    <3>3. PrefixOf(body, Payload(m))
      <4>1. CASE body = TextTo(Accepted(m), i - 1)
        BY <4>1, ChunksBegin
      <4>2. CASE i <= Len(Accepted(m)) /\ body = TextTo(Accepted(m), i)
        <5>1. i + 1 \in 1 .. Len(Accepted(m)) + 1 /\ (i + 1) - 1 = i
          BY <4>2, AcceptedParts
        <5>2. PrefixOf(TextTo(Accepted(m), (i + 1) - 1), Payload(m))
          BY <5>1, ChunksBegin
        <5>. QED  BY <4>2, <5>1, <5>2
      <4>. QED  BY <3>2, <4>1, <4>2
    <3>. QED  BY <3>1, <3>3, PrefixIs
  <2>. QED  BY <2>2, <2>3
<1>7. CASE InTrailer(m, r)
  <2>1. ~bodyExpected /\ body = Payload(m)
    BY <1>7, ProperSections, InFieldsReads DEF InTrailer
  <2>. QED  BY <1>2, <2>1, PrefixIs
<1>8. CASE MessageDone(m, r)
  <2>1. ~bodyExpected /\ body = Payload(m)
    BY <1>8 DEF MessageDone, bodyExpected
  <2>. QED  BY <1>2, <2>1, PrefixIs
<1>. QED  BY <1>3, <1>4, <1>5, <1>6, <1>7, <1>8 DEF InMessage

LEMMA DoneIsTaken ==
  ASSUME NEW m, NEW r, MessageDone(m, r), pos = Len(Text(m))
  PROVE  Taken = View(m)
BY DEF MessageDone, Tokens, TokensAre, Taken, View
-----------------------------------------------------------------------------
(* The stream.  S is what the sender has composed so far: the bytes that   *)
(* are not parsed yet, wherever they are, are the rest of the message the  *)
(* parser is in and the texts of the messages behind it.                   *)

Texts(S) == [i \in DOMAIN S |-> Text(S[i])]

LeftIn(b, p) == SubSeq(b, p + 1, Len(b))

Unparsed == LeftIn(buf, bytesParsed) \o (wire \o FlattenSeq(unsent))

ConnectionOK ==
  /\ buf \in String /\ bytesParsed \in 0 .. Len(buf) /\ wire \in String
  /\ unsent \in Seq(String) /\ \A i \in 1 .. Len(unsent) : unsent[i] # << >>
  /\ complete \in BOOLEAN
  /\ sentMessages \in Seq({View(m) : m \in Outbox})
  /\ receivedMessages \in Seq({View(m) : m \in Outbox})
  /\ Len(receivedMessages) <= Len(sentMessages)

Sending(S) ==
  /\ Len(sentMessages) = IF unsent = << >> THEN Len(S) ELSE Len(S) - 1
  /\ \A i \in 1 .. Len(sentMessages) : sentMessages[i] = View(S[i])
  /\ unsent # << >> => outgoing = View(S[Len(S)])

Idle(S) ==
  /\ ~complete /\ state = "ParsingMessage" /\ body = << >>
  /\ Unparsed = TextFrom(Texts(S), Len(receivedMessages) + 1)

MidMessage(S, r) ==
  LET k == Len(receivedMessages) + 1
  IN  /\ k <= Len(S)
      /\ Unparsed = r \o TextFrom(Texts(S), k + 1)
      /\ pos + Len(r) = Len(Text(S[k]))
      /\ IF complete THEN MessageDone(S[k], r) ELSE InMessage(S[k], r)

Receiving(S) == Idle(S) \/ \E r \in String : MidMessage(S, r)

ParserOK == TypeOK /\ BodyCountersExact /\ NothingThrown

ExchangeInv ==
  ParserOK /\ ConnectionOK /\ \E S \in Seq(Outbox) : Sending(S) /\ Receiving(S)

LEMMA LeftInIs ==
  ASSUME NEW b \in String, NEW p \in 0 .. Len(b)
  PROVE  /\ LeftIn(b, p) \in String
         /\ LeftIn(b, Len(b)) = << >> /\ LeftIn(b, 0) = b
         /\ p < Len(b) => /\ b[p + 1] \in Char /\ p + 1 \in 0 .. Len(b)
                          /\ LeftIn(b, p) = <<b[p + 1]>> \o LeftIn(b, p + 1)
<1>1. b \in Seq(Char) /\ Len(b) \in Nat /\ \A i \in 1 .. Len(b) : b[i] \in Char
  BY DEF String
<1>2. \A i \in p + 1 .. Len(b) : b[i] \in Char
  BY <1>1
<1>3. LeftIn(b, p) \in String
  BY <1>1, <1>2, SubSeqProperties DEF LeftIn, String
<1>4. LeftIn(b, Len(b)) = << >>
  BY <1>1, SubSeqEmpty DEF LeftIn
<1>5. LeftIn(b, 0) = b
  BY <1>1, SubSeqFull DEF LeftIn
<1>6. ASSUME p < Len(b)
      PROVE  /\ b[p + 1] \in Char /\ p + 1 \in 0 .. Len(b)
             /\ LeftIn(b, p) = <<b[p + 1]>> \o LeftIn(b, p + 1)
  <2>1. p + 1 \in 1 .. Len(b) /\ p + 1 \in 0 .. Len(b) /\ p + 1 <= Len(b) /\ b[p + 1] \in Char
    BY <1>1, <1>6
  <2>2. LeftIn(b, p) # << >>
    <3>1. Len(LeftIn(b, p)) = (Len(b) - (p + 1)) + 1
      BY <1>1, <1>2, <2>1, SubSeqProperties DEF LeftIn
    <3>. QED  BY <1>1, <1>6, <3>1
  <2>3. Head(LeftIn(b, p)) = b[p + 1] /\ Tail(LeftIn(b, p)) = LeftIn(b, p + 1)
    <3>1. Len(b) \in p + 1 .. Len(b)
      BY <1>1, <2>1
    <3>2. /\ Head(SubSeq(b, p + 1, Len(b))) = b[p + 1]
          /\ Tail(SubSeq(b, p + 1, Len(b))) = SubSeq(b, (p + 1) + 1, Len(b))
      BY <1>1, <2>1, <3>1, HeadTailOfSubSeq
    <3>. QED  BY <3>2, Zenon DEF LeftIn
  <2>4. LeftIn(b, p) = <<Head(LeftIn(b, p))>> \o Tail(LeftIn(b, p))
    BY <1>3, <2>2, Split
  <2>5. LeftIn(b, p) = <<b[p + 1]>> \o LeftIn(b, p + 1)
    BY <2>3, <2>4, Zenon
  <2>. QED  BY <2>1, <2>5
<1>. QED  BY <1>3, <1>4, <1>5, <1>6

LEMMA OutboxProper == \A m \in Outbox : ProperMessage(m)
BY ExchangeAssumption

LEMMA TextsType ==
  ASSUME NEW S \in Seq(Outbox)
  PROVE  /\ Texts(S) \in Seq(String) /\ Len(Texts(S)) = Len(S) /\ Len(S) \in Nat
         /\ \A i \in 1 .. Len(S) : S[i] \in Outbox /\ Texts(S)[i] = Text(S[i]) /\ Text(S[i]) \in String
<1>1. Len(S) \in Nat /\ DOMAIN S = 1 .. Len(S) /\ \A i \in 1 .. Len(S) : S[i] \in Outbox
  OBVIOUS
<1>2. \A i \in 1 .. Len(S) : Text(S[i]) \in String
  BY <1>1, OutboxProper, TextIs
<1>3. Texts(S) = [i \in 1 .. Len(S) |-> Text(S[i])]
  BY <1>1, Zenon DEF Texts
<1>4. /\ Texts(S) \in Seq(String) /\ Len(Texts(S)) = Len(S)
      /\ \A i \in 1 .. Len(S) : Texts(S)[i] = Text(S[i])
  BY <1>1, <1>2, <1>3
<1>. QED  BY <1>1, <1>2, <1>4

LEMMA TextsAppend ==
  ASSUME NEW S \in Seq(Outbox), NEW m \in Outbox
  PROVE  /\ Append(S, m) \in Seq(Outbox)
         /\ \A i \in 1 .. Len(S) + 1 :
              TextFrom(Texts(Append(S, m)), i) = TextFrom(Texts(S), i) \o Text(m)
<1>. DEFINE T == Append(S, m)
<1>1. /\ T \in Seq(Outbox) /\ Len(T) = Len(S) + 1 /\ Len(S) \in Nat
      /\ T[Len(S) + 1] = m /\ \A i \in 1 .. Len(S) : T[i] = S[i]
  OBVIOUS
<1>2. /\ Texts(S) \in Seq(String) /\ Len(Texts(S)) = Len(S)
      /\ \A i \in 1 .. Len(S) : Texts(S)[i] = Text(S[i])
  BY TextsType
<1>. HIDE DEF T
<1>3. /\ Texts(T) \in Seq(String) /\ Len(Texts(T)) = Len(T)
      /\ \A i \in 1 .. Len(T) : Texts(T)[i] = Text(T[i])
  BY <1>1, TextsType
<1>4. Text(m) \in String
  BY OutboxProper, TextIs
<1>5. Texts(T) = Append(Texts(S), Text(m))
  <2>. DEFINE a == Texts(S)
              b == Texts(T)
              x == Text(m)
  <2>1. Append(a, x) \in Seq(String) /\ Len(Append(a, x)) = Len(S) + 1
        /\ Append(a, x)[Len(S) + 1] = x /\ \A i \in 1 .. Len(S) : Append(a, x)[i] = a[i]
    <3>. HIDE DEF a, x
    <3>. QED  BY <1>2, <1>4 DEF a, x
  <2>2. b[Len(S) + 1] = x /\ \A i \in 1 .. Len(S) : b[i] = a[i]
    <3>1. \A i \in 1 .. Len(S) : i \in 1 .. Len(T)
      BY <1>1
    <3>2. Len(S) + 1 \in 1 .. Len(T)
      BY <1>1
    <3>. QED  BY <1>1, <1>2, <1>3, <3>1, <3>2
  <2>3. b \in Seq(String) /\ Len(b) = Len(S) + 1
    BY <1>1, <1>3
  <2>. HIDE DEF a, b, x
  <2>4. \A i \in 1 .. Len(b) : b[i] = Append(a, x)[i]
    <3>1. \A i \in 1 .. Len(b) : i \in 1 .. Len(S) \/ i = Len(S) + 1
      BY <1>1, <2>3
    <3>. QED  BY <2>1, <2>2, <3>1
  <2>5. b = Append(a, x)
    BY <2>1, <2>3, <2>4, SeqEqual
  <2>. QED  BY <2>5 DEF a, b, x
<1>6. \A i \in 1 .. Len(S) + 1 : TextFrom(Append(Texts(S), Text(m)), i) = TextFrom(Texts(S), i) \o Text(m)
  BY <1>2, <1>4, TextFromAppend
<1>. QED  BY <1>1, <1>5, <1>6 DEF T

LEMMA UnparsedType ==
  ASSUME ConnectionOK
  PROVE  /\ LeftIn(buf, bytesParsed) \in String /\ FlattenSeq(unsent) \in String
         /\ wire \o FlattenSeq(unsent) \in String /\ Unparsed \in String
<1>1. LeftIn(buf, bytesParsed) \in String
  BY LeftInIs DEF ConnectionOK
<1>2. FlattenSeq(unsent) \in String
  BY TextType DEF ConnectionOK
<1>3. wire \o FlattenSeq(unsent) \in String
  BY <1>2, JoinType DEF ConnectionOK
<1>. QED  BY <1>1, <1>2, <1>3, JoinType DEF Unparsed
\* What the parser is in the middle of depends on the parser and the stream only.
LEMMA MessageStays ==
  ASSUME UNCHANGED <<vars, body>>, NEW m, NEW r
  PROVE  /\ InMessage(m, r) => InMessage(m, r)'
         /\ MessageDone(m, r) => MessageDone(m, r)'
<1>1. /\ UNCHANGED <<state, firstToken, secondToken, thirdToken, headerFieldName, headerFieldValue>>
      /\ UNCHANGED <<headers, contentLength, identityBodyBytesParsed>>
      /\ UNCHANGED <<chunkSizeStr, chunkSize, chunkBytesParsed, body>>
  BY DEF vars, parserVars, contentVars, tokenVars, fieldVars, bodyVars, chunkVars
<1>2. Tokens(m) => Tokens(m)'
  BY <1>1 DEF Tokens, TokensAre
<1>3. InStartLine(m, r) => InStartLine(m, r)'
  BY <1>1 DEF InStartLine, TokensAre
<1>4. ASSUME NEW isTrailer, NEW given, NEW hs, NEW more, InFields(isTrailer, given, hs, more, r)
      PROVE  InFields(isTrailer, given, hs, more, r)'
  <2>1. ASSUME NEW i, ReadsName(given, hs, i, more, r)
        PROVE  ReadsName(given, hs, i, more, r)'
    BY <1>1, <2>1 DEF ReadsName
  <2>2. ASSUME NEW i, NEW read, ReadsValue(isTrailer, given, hs, i, more, r, read)
        PROVE  ReadsValue(isTrailer, given, hs, i, more, r, read)'
    BY <1>1, <2>2 DEF ReadsValue
  <2>. QED  BY <1>1, <1>4, <2>1, <2>2 DEF InFields
<1>5. InHeader(m, r) => InHeader(m, r)'
  BY <1>2, <1>4 DEF InHeader
<1>6. InIdentityBody(m, r) => InIdentityBody(m, r)'
  BY <1>1, <1>2 DEF InIdentityBody
<1>7. InChunkedBody(m, r) => InChunkedBody(m, r)'
  <2>1. ASSUME NEW i, ReadsChunk(m, i, r) PROVE ReadsChunk(m, i, r)'
    BY <1>1, <2>1 DEF ReadsChunk
  <2>. QED  BY <1>1, <1>2, <2>1 DEF InChunkedBody
<1>8. InTrailer(m, r) => InTrailer(m, r)'
  BY <1>1, <1>2, <1>4 DEF InTrailer
<1>9. MessageDone(m, r) => MessageDone(m, r)'
  BY <1>1, <1>2 DEF MessageDone
<1>. QED  BY <1>1, <1>3, <1>5, <1>6, <1>7, <1>8, <1>9 DEF InMessage

LEMMA NotDone ==
  ASSUME NEW m, NEW r, InMessage(m, r)'
  PROVE  state' # "ParsingMessage"
BY DEF InMessage, InStartLine, InHeader, InFields, ReadsValue, Section, ValueState, InIdentityBody,
       InChunkedBody, ReadsChunk, InTrailer

\* A step that adds x at the end of what is not parsed yet.
LEMMA ReceivingStays ==
  ASSUME NEW S \in Seq(Outbox), Receiving(S), Len(receivedMessages) \in 0 .. Len(S), ConnectionOK,
         UNCHANGED <<vars, complete, body, receivedMessages>>,
         NEW T \in Seq(Outbox), NEW x \in String, Len(S) <= Len(T),
         \A i \in 1 .. Len(S) : T[i] = S[i],
         \A i \in 1 .. Len(S) + 1 : TextFrom(Texts(T), i) = TextFrom(Texts(S), i) \o x,
         Unparsed' = Unparsed \o x
  PROVE  Receiving(T)'
<1>. DEFINE k == Len(receivedMessages) + 1
<1>1. k \in 1 .. Len(S) + 1 /\ Len(S) \in Nat /\ Len(T) \in Nat /\ k' = k
      /\ Len(receivedMessages) \in Nat
  OBVIOUS
<1>2. /\ Texts(S) \in Seq(String) /\ Len(Texts(S)) = Len(S)
      /\ \A i \in 1 .. Len(Texts(S)) + 1 : TextFrom(Texts(S), i) \in String
  BY TextsType, TextType
<1>3. CASE Idle(S)
  <2>1. Unparsed' = TextFrom(Texts(T), k)
    BY <1>1, <1>3 DEF Idle
  <2>2. ~complete' /\ state' = "ParsingMessage" /\ body' = << >>
    BY <1>3 DEF Idle, vars, parserVars
  <2>3. Idle(T)'
    BY <1>1, <2>1, <2>2 DEF Idle
  <2>. QED  BY <2>3 DEF Receiving
<1>4. ASSUME NEW r \in String, MidMessage(S, r) PROVE Receiving(T)'
  <2>1. /\ k <= Len(S) /\ Unparsed = r \o TextFrom(Texts(S), k + 1)
        /\ pos + Len(r) = Len(Text(S[k]))
        /\ IF complete THEN MessageDone(S[k], r) ELSE InMessage(S[k], r)
    BY <1>4 DEF MidMessage
  <2>2. k <= Len(T) /\ T[k] = S[k] /\ k + 1 \in 1 .. Len(S) + 1 /\ k + 1 \in 1 .. Len(Texts(S)) + 1
    BY <1>1, <1>2, <2>1
  <2>3. Unparsed' = r \o TextFrom(Texts(T), k + 1)
    <3>. DEFINE t == TextFrom(Texts(S), k + 1)
    <3>1. t \in String /\ Unparsed = r \o t /\ TextFrom(Texts(T), k + 1) = t \o x
      BY <1>2, <2>1, <2>2
    <3>. HIDE DEF t
    <3>2. (r \o t) \o x = r \o (t \o x)
      BY <3>1, Regroup
    <3>. QED  BY <3>1, <3>2, Zenon
  <2>4. pos' = pos
    BY DEF vars, parserVars, posVars
  <2>5. IF complete' THEN MessageDone(T[k], r)' ELSE InMessage(T[k], r)'
    <3>1. UNCHANGED <<vars, body>>
      OBVIOUS
    <3>2. /\ InMessage(S[k], r) => InMessage(S[k], r)'
          /\ MessageDone(S[k], r) => MessageDone(S[k], r)'
      <4>. DEFINE m == S[k]
      <4>1. PICK n : n = m /\ n = T[k]
        BY <2>2
      <4>2. (InMessage(n, r) => InMessage(n, r)') /\ (MessageDone(n, r) => MessageDone(n, r)')
        BY <3>1, MessageStays
      <4>. QED  BY <4>1, <4>2
    <3>. QED  BY <2>1, <2>2, <3>2
  <2>6. MidMessage(T, r)'
    BY <1>1, <2>1, <2>2, <2>3, <2>4, <2>5 DEF MidMessage
  <2>. QED  BY <2>6 DEF Receiving
<1>. QED  BY <1>3, <1>4 DEF Receiving
LEMMA ParserStays ==
  ASSUME ParserOK, UNCHANGED vars
  PROVE  ParserOK'
BY DEF ParserOK, TypeOK, ControlOK, ContentOK, LimitsOK, BodyCountersExact, NothingThrown, vars,
       parserVars, posVars, contentVars, tokenVars, fieldVars, bodyVars, chunkVars, limitVars

LEMMA NothingMore ==
  ASSUME NEW s \in String
  PROVE  s \o << >> = s
BY ConcatEmptySeq DEF String

LEMMA ComposeStep ==
  ASSUME ExchangeInv, NEW m \in Outbox, Compose(m)
  PROVE  ExchangeInv'
<1>1. PICK S \in Seq(Outbox) : Sending(S) /\ Receiving(S)
  BY DEF ExchangeInv
<1>2. ParserOK /\ ConnectionOK
  BY DEF ExchangeInv
<1>. DEFINE T == Append(S, m)
            p == Pieces(m)
<1>3. /\ unsent = << >> /\ outgoing' = View(m) /\ unsent' = p
      /\ UNCHANGED <<vars, sentMessages, wire, buf, bytesParsed, complete, body, receivedMessages>>
  BY DEF Compose, receiverVars
<1>4. p \in Seq(String) /\ p # << >> /\ (\A i \in 1 .. Len(p) : p[i] # << >>)
      /\ FlattenSeq(p) = Text(m) /\ Text(m) \in String
  BY OutboxProper, TextIs, Zenon DEF Text
<1>5. /\ T \in Seq(Outbox) /\ Len(T) = Len(S) + 1 /\ T[Len(T)] = m /\ Len(S) \in Nat
      /\ \A i \in 1 .. Len(S) : T[i] = S[i]
  OBVIOUS
<1>6. \A i \in 1 .. Len(S) + 1 : TextFrom(Texts(T), i) = TextFrom(Texts(S), i) \o Text(m)
  BY TextsAppend
<1>. HIDE DEF T, p
<1>7. Len(sentMessages) = Len(S) /\ \A i \in 1 .. Len(S) : sentMessages[i] = View(S[i])
  BY <1>1, <1>3 DEF Sending
<1>8. Sending(T)'
  <2>1. Len(sentMessages') = Len(T) - 1
    BY <1>3, <1>5, <1>7
  <2>2. \A i \in 1 .. Len(sentMessages') : sentMessages'[i] = View(T[i])
    BY <1>3, <1>5, <1>7
  <2>3. outgoing' = View(T[Len(T)])
    BY <1>3, <1>5
  <2>. QED  BY <1>3, <1>4, <2>1, <2>2, <2>3 DEF Sending
<1>9. Unparsed' = Unparsed \o Text(m)
  <2>. DEFINE b == LeftIn(buf, bytesParsed)
  <2>1. b' = b /\ b \in String /\ wire \in String
    BY <1>2, <1>3, UnparsedType DEF ConnectionOK, LeftIn
  <2>2. Unparsed = b \o wire
    <3>1. Unparsed = b \o (wire \o << >>)
      BY <1>3, FlattenNothing DEF Unparsed
    <3>. QED  BY <2>1, <3>1, NothingMore
  <2>3. Unparsed' = b \o (wire \o Text(m))
    BY <1>3, <1>4, <2>1 DEF Unparsed
  <2>. HIDE DEF b
  <2>4. (b \o wire) \o Text(m) = b \o (wire \o Text(m))
    BY <1>4, <2>1, Regroup
  <2>. QED  BY <2>2, <2>3, <2>4, Zenon
<1>10. Receiving(T)'
  <2>1. /\ Len(receivedMessages) \in 0 .. Len(S) /\ Len(S) <= Len(T)
        /\ UNCHANGED <<vars, complete, body, receivedMessages>>
    BY <1>2, <1>3, <1>5, <1>7 DEF ConnectionOK
  <2>. QED  BY <1>1, <1>2, <1>4, <1>5, <1>6, <1>9, <2>1, ReceivingStays
<1>11. ConnectionOK'
  BY <1>2, <1>3, <1>4 DEF ConnectionOK
<1>12. ParserOK'
  BY <1>2, <1>3, ParserStays
<1>. QED  BY <1>5, <1>8, <1>10, <1>11, <1>12 DEF ExchangeInv

\* The bytes move on towards the parser.
LEMMA MovesOn ==
  ASSUME ParserOK, ConnectionOK, ConnectionOK', NEW S \in Seq(Outbox), Sending(S), Receiving(S),
         Sending(S)', Unparsed' = Unparsed, UNCHANGED <<vars, complete, body, receivedMessages>>
  PROVE  ExchangeInv'
<1>1. /\ \A i \in 1 .. Len(S) + 1 :
           TextFrom(Texts(S), i) \o << >> = TextFrom(Texts(S), i)
      /\ Unparsed \o << >> = Unparsed
  <2>1. \A i \in 1 .. Len(S) + 1 : TextFrom(Texts(S), i) \in String
    BY TextsType, TextType
  <2>. QED  BY <2>1, UnparsedType, NothingMore
<1>2. Len(receivedMessages) \in 0 .. Len(S) /\ Len(S) \in Nat
  BY DEF ConnectionOK, Sending
<1>3. Receiving(S)'
  <2>1. PICK x \in String : x = << >>
    BY Letters
  <2>2. /\ Len(S) <= Len(S) /\ Unparsed' = Unparsed \o x /\ \A i \in 1 .. Len(S) : S[i] = S[i]
        /\ \A i \in 1 .. Len(S) + 1 : TextFrom(Texts(S), i) = TextFrom(Texts(S), i) \o x
    BY <1>1, <1>2, <2>1
  <2>. QED  BY <1>2, <2>2, ReceivingStays
<1>4. ParserOK'
  BY ParserStays
<1>. QED  BY <1>3, <1>4 DEF ExchangeInv

LEMMA WriteStep ==
  ASSUME ExchangeInv, Write
  PROVE  ExchangeInv'
<1>1. PICK S \in Seq(Outbox) : Sending(S) /\ Receiving(S)
  BY DEF ExchangeInv
<1>2. ParserOK /\ ConnectionOK
  BY DEF ExchangeInv
<1>3. /\ unsent # << >> /\ wire' = wire \o Head(unsent) /\ unsent' = Tail(unsent)
      /\ sentMessages' = IF Len(unsent) = 1 THEN Append(sentMessages, outgoing) ELSE sentMessages
      /\ UNCHANGED <<vars, outgoing, buf, bytesParsed, complete, body, receivedMessages>>
  BY DEF Write, receiverVars
<1>4. /\ unsent \in Seq(String) /\ wire \in String /\ \A i \in 1 .. Len(unsent) : unsent[i] # << >>
      /\ Len(unsent) \in Nat \ {0} /\ Head(unsent) = unsent[1] /\ Head(unsent) \in String
      /\ Tail(unsent) \in Seq(String) /\ Len(Tail(unsent)) = Len(unsent) - 1
      /\ \A i \in 1 .. Len(unsent) - 1 : Tail(unsent)[i] = unsent[i + 1]
  BY <1>2, <1>3 DEF ConnectionOK
<1>5. /\ Len(S) \in Nat \ {0} /\ outgoing = View(S[Len(S)]) /\ S[Len(S)] \in Outbox
      /\ Len(sentMessages) = Len(S) - 1
      /\ \A i \in 1 .. Len(sentMessages) : sentMessages[i] = View(S[i])
      /\ sentMessages \in Seq({View(m) : m \in Outbox})
  BY <1>1, <1>2, <1>3 DEF Sending, ConnectionOK
<1>6. Tail(unsent) = << >> <=> Len(unsent) = 1
  <2>1. Tail(unsent) = << >> <=> Len(Tail(unsent)) = 0
    BY <1>4, EmptySeq
  <2>. QED  BY <1>4, <2>1
<1>7. Sending(S)' /\ sentMessages' \in Seq({View(m) : m \in Outbox})
      /\ Len(sentMessages) <= Len(sentMessages')
  <2>. DEFINE V == {View(m) : m \in Outbox}
  <2>1. outgoing \in V
    BY <1>5
  <2>. HIDE DEF V
  <2>2. sentMessages \in Seq(V)
    BY <1>5 DEF V
  <2>3. CASE Len(unsent) = 1
    <3>1. unsent' = << >> /\ sentMessages' = Append(sentMessages, outgoing)
      BY <1>3, <1>6, <2>3
    <3>2. /\ sentMessages' \in Seq(V) /\ Len(sentMessages') = Len(S)
          /\ sentMessages'[Len(S)] = outgoing
          /\ \A i \in 1 .. Len(sentMessages) : sentMessages'[i] = sentMessages[i]
      BY <1>5, <2>1, <2>2, <3>1
    <3>3. \A i \in 1 .. Len(sentMessages') : sentMessages'[i] = View(S[i])
      <4>1. \A i \in 1 .. Len(sentMessages') : i \in 1 .. Len(sentMessages) \/ i = Len(S)
        BY <1>5, <3>2
      <4>. QED  BY <1>5, <3>2, <4>1
    <3>. QED  BY <1>5, <3>1, <3>2, <3>3 DEF Sending, V
  <2>4. CASE Len(unsent) # 1
    BY <1>1, <1>3, <1>5, <1>6, <2>4 DEF Sending
  <2>. QED  BY <2>3, <2>4
<1>8. Unparsed' = Unparsed
  <2>. DEFINE b == LeftIn(buf, bytesParsed)
              h == Head(unsent)
              t == FlattenSeq(Tail(unsent))
  <2>1. b' = b /\ h \in String /\ t \in String
    BY <1>3, <1>4, TextType DEF LeftIn
  <2>2. FlattenSeq(unsent) = h \o t
    BY <1>3, <1>4, FlattenFirst
  <2>3. Unparsed = b \o (wire \o (h \o t)) /\ Unparsed' = b \o ((wire \o h) \o t)
    BY <1>3, <2>1, <2>2 DEF Unparsed
  <2>. HIDE DEF b, h, t
  <2>4. (wire \o h) \o t = wire \o (h \o t)
    BY <1>4, <2>1, Regroup
  <2>. QED  BY <2>3, <2>4, Zenon
<1>9. ConnectionOK'
  <2>1. wire' \in String /\ unsent' \in Seq(String)
    BY <1>3, <1>4, JoinType
  <2>2. \A i \in 1 .. Len(unsent') : unsent'[i] # << >>
    <3>1. \A i \in 1 .. Len(unsent) - 1 : i + 1 \in 1 .. Len(unsent)
      BY <1>4
    <3>. QED  BY <1>3, <1>4, <3>1
  <2>3. Len(receivedMessages') <= Len(sentMessages')
    BY <1>2, <1>3, <1>7 DEF ConnectionOK
  <2>. QED  BY <1>2, <1>3, <1>7, <2>1, <2>2, <2>3 DEF ConnectionOK
<1>. QED  BY <1>1, <1>2, <1>3, <1>7, <1>8, <1>9, MovesOn

LEMMA ReceiveStep ==
  ASSUME ExchangeInv, NEW n \in Nat, Receive(n)
  PROVE  ExchangeInv'
<1>1. PICK S \in Seq(Outbox) : Sending(S) /\ Receiving(S)
  BY DEF ExchangeInv
<1>2. ParserOK /\ ConnectionOK
  BY DEF ExchangeInv
<1>3. /\ bytesParsed = Len(buf) /\ n <= Len(wire)
      /\ buf' = SubSeq(wire, 1, n) /\ wire' = SubSeq(wire, n + 1, Len(wire)) /\ bytesParsed' = 0
      /\ UNCHANGED <<vars, outgoing, unsent, sentMessages, complete, body, receivedMessages>>
  BY DEF Receive, senderVars
<1>4. buf' \in String /\ wire' \in String /\ buf' \o wire' = wire
  <2>1. wire \in Seq(Char) /\ Len(wire) \in Nat /\ n \in 0 .. Len(wire)
    BY <1>2, <1>3 DEF ConnectionOK, String
  <2>2. /\ 1 \in 1 .. Len(wire) + 1 /\ n \in 1 - 1 .. Len(wire) /\ Len(wire) \in n .. Len(wire)
        /\ (\A i \in 1 .. n : wire[i] \in Char) /\ \A i \in n + 1 .. Len(wire) : wire[i] \in Char
    BY <2>1
  <2>3. SubSeq(wire, 1, n) \in Seq(Char) /\ SubSeq(wire, n + 1, Len(wire)) \in Seq(Char)
    BY <2>1, <2>2, SubSeqProperties
  <2>4. SubSeq(wire, 1, n) \o SubSeq(wire, n + 1, Len(wire)) = wire
    BY <2>1, <2>2, ConcatAdjacentSubSeq, SubSeqFull
  <2>. QED  BY <1>3, <2>3, <2>4 DEF String
<1>5. Unparsed' = Unparsed
  <2>. DEFINE f == FlattenSeq(unsent)
  <2>1. f \in String /\ f' = f /\ wire \o f \in String
    BY <1>2, <1>3, UnparsedType
  <2>2. Unparsed = wire \o f
    <3>1. LeftIn(buf, bytesParsed) = << >>
      BY <1>2, <1>3, LeftInIs DEF ConnectionOK
    <3>2. << >> \o (wire \o f) = wire \o f
      BY <2>1, ConcatEmptySeq DEF String
    <3>. QED  BY <3>1, <3>2 DEF Unparsed
  <2>3. Unparsed' = buf' \o (wire' \o f)
    <3>1. LeftIn(buf', 0) = buf'
      <4>1. PICK b \in String : b = buf'
        BY <1>4
      <4>2. 0 \in 0 .. Len(b)
        BY <4>1 DEF String
      <4>. QED  BY <4>1, <4>2, LeftInIs
    <3>. QED  BY <1>3, <2>1, <3>1 DEF Unparsed
  <2>4. PICK x, y : x = buf' /\ y = wire' /\ x \in String /\ y \in String
    BY <1>4
  <2>. HIDE DEF f
  <2>5. (x \o y) \o f = x \o (y \o f)
    BY <2>1, <2>4, Regroup
  <2>. QED  BY <1>4, <2>2, <2>3, <2>4, <2>5
<1>6. ConnectionOK'
  <2>1. bytesParsed' \in 0 .. Len(buf')
    BY <1>3, <1>4 DEF String
  <2>. QED  BY <1>2, <1>3, <1>4, <2>1 DEF ConnectionOK
<1>7. Sending(S)'
  BY <1>1, <1>3 DEF Sending
<1>. QED  BY <1>1, <1>2, <1>3, <1>5, <1>6, <1>7, MovesOn
\* The next character, wherever the rest of it is.
LEMMA NextCharacter ==
  ASSUME ConnectionOK, bytesParsed < Len(buf), UNCHANGED <<wire, unsent, buf>>,
         bytesParsed' = bytesParsed + 1
  PROVE  /\ buf[bytesParsed + 1] \in Char /\ Unparsed' \in String
         /\ Unparsed = <<buf[bytesParsed + 1]>> \o Unparsed'
<1>. DEFINE ch == buf[bytesParsed + 1]
            b  == LeftIn(buf, bytesParsed + 1)
            f  == wire \o FlattenSeq(unsent)
<1>1. ch \in Char /\ LeftIn(buf, bytesParsed) = <<ch>> \o b /\ b \in String
  BY LeftInIs DEF ConnectionOK
<1>2. f \in String
  BY UnparsedType
<1>3. Unparsed = (<<ch>> \o b) \o f /\ Unparsed' = b \o f
  BY <1>1 DEF Unparsed, LeftIn
<1>. HIDE DEF b, f
<1>4. (<<ch>> \o b) \o f = <<ch>> \o (b \o f) /\ b \o f \in String
  <2>. DEFINE c == <<ch>>
  <2>1. c \in String
    BY <1>1 DEF String
  <2>. HIDE DEF c
  <2>2. (c \o b) \o f = c \o (b \o f) /\ b \o f \in String
    BY <1>1, <1>2, <2>1, Regroup, JoinType
  <2>. QED  BY <2>2 DEF c
<1>. QED  BY <1>1, <1>3, <1>4

LEMMA SendingStays ==
  ASSUME NEW S, Sending(S), UNCHANGED <<outgoing, unsent, sentMessages>>
  PROVE  Sending(S)'
BY DEF Sending

\* A message goes on, or ends with the call.
LEMMA MessageRead ==
  ASSUME NEW S \in Seq(Outbox), NEW k, k = Len(receivedMessages) + 1, k \in 1 .. Len(S),
         UNCHANGED receivedMessages,
         NEW r \in String, r # << >>, Unparsed' = Tail(r) \o TextFrom(Texts(S), k + 1),
         result' = Returned(state'), complete' = Stops,
         InMessage(S[k], Tail(r))' \/ MessageDone(S[k], Tail(r))',
         pos' + Len(Tail(r)) = Len(Text(S[k]))
  PROVE  Receiving(S)' /\ result'.type # "thrown" /\ complete' \in BOOLEAN
<1>1. PICK s \in String : s = Tail(r)
  BY Split
<1>2. PICK m : m = S[k]
  OBVIOUS
<1>3. complete' = (state' = "ParsingMessage") /\ result'.type # "thrown"
  BY DEF Returned, Stops
<1>4. IF complete' THEN MessageDone(m, s)' ELSE InMessage(m, s)'
  <2>1. InMessage(m, s)' \/ MessageDone(m, s)'
    BY <1>1, <1>2
  <2>2. CASE InMessage(m, s)'
    BY <1>3, <2>2, NotDone
  <2>3. CASE MessageDone(m, s)'
    <3>1. state' = "ParsingMessage"
      BY <2>3 DEF MessageDone
    <3>. QED  BY <1>3, <2>3, <3>1
  <2>. QED  BY <2>1, <2>2, <2>3
<1>5. MidMessage(S, s)'
  <2>1. Len(receivedMessages') + 1 = k /\ k <= Len(S)
    OBVIOUS
  <2>2. Unparsed' = s \o TextFrom(Texts(S), k + 1) /\ pos' + Len(s) = Len(Text(m))
    BY <1>1, <1>2
  <2>. QED  BY <1>2, <1>4, <2>1, <2>2 DEF MidMessage
<1>. QED  BY <1>3, <1>5 DEF Receiving

LEMMA ParseNextStep ==
  ASSUME ExchangeInv, ParseNext
  PROVE  ExchangeInv'
<1>1. PICK S \in Seq(Outbox) : Sending(S) /\ Receiving(S)
  BY DEF ExchangeInv
<1>2. ParserOK /\ ConnectionOK
  BY DEF ExchangeInv
<1>. DEFINE ch == buf[bytesParsed + 1]
            k  == Len(receivedMessages) + 1
<1>3. /\ ~complete /\ bytesParsed < Len(buf) /\ Parse(ch) /\ bytesParsed' = bytesParsed + 1
      /\ complete' = Stops /\ Collects(ch)
      /\ UNCHANGED <<outgoing, unsent, sentMessages, wire, buf, receivedMessages>>
  BY DEF ParseNext, senderVars, Collects
<1>4. ch \in Char /\ Unparsed' \in String /\ Unparsed = <<ch>> \o Unparsed'
  BY <1>2, <1>3, NextCharacter
<1>5. TypeOK' /\ BodyCountersExact'
  BY <1>2, <1>3, <1>4, ParseType, BodyCountersParse DEF ParserOK
<1>. HIDE DEF ch
<1>6. Unparsed # << >> /\ Head(Unparsed) = ch /\ Tail(Unparsed) = Unparsed'
  <2>1. PICK u \in String : u = Unparsed'
    BY <1>4
  <2>. QED  BY <1>4, <2>1, InFront
<1>7. /\ Len(receivedMessages) \in Nat /\ Len(receivedMessages) <= Len(S) /\ Len(S) \in Nat
      /\ k \in 1 .. Len(S) + 1
  BY <1>1, <1>2 DEF ConnectionOK, Sending
<1>8. /\ Texts(S) \in Seq(String) /\ Len(Texts(S)) = Len(S)
      /\ \A i \in 1 .. Len(S) : S[i] \in Outbox /\ Texts(S)[i] = Text(S[i]) /\ Text(S[i]) \in String
      /\ \A i \in 1 .. Len(S) + 1 : TextFrom(Texts(S), i) \in String
  BY TextsType, TextType
<1>9. Receiving(S)' /\ result'.type # "thrown" /\ complete' \in BOOLEAN
  <2>1. ASSUME k <= Len(S), NEW r \in String, r # << >>,
               Unparsed = r \o TextFrom(Texts(S), k + 1)
        PROVE  /\ k \in 1 .. Len(S) /\ ProperMessage(S[k])
               /\ Head(r) = ch /\ Unparsed' = Tail(r) \o TextFrom(Texts(S), k + 1)
               /\ Len(Tail(r)) = Len(r) - 1 /\ Len(r) \in Nat
    <3>. DEFINE t == TextFrom(Texts(S), k + 1)
    <3>1. k \in 1 .. Len(S) /\ k + 1 \in 1 .. Len(S) + 1
      BY <1>7, <2>1
    <3>2. t \in String /\ ProperMessage(S[k])
      BY <1>8, <3>1, OutboxProper
    <3>3. /\ Head(r) \in Char /\ Tail(r) \in String /\ r = <<Head(r)>> \o Tail(r)
          /\ Len(Tail(r)) = Len(r) - 1 /\ Len(r) \in Nat
      BY <2>1, Split
    <3>. HIDE DEF t
    <3>4. r \o t = <<Head(r)>> \o (Tail(r) \o t) /\ Tail(r) \o t \in String
      <4>. DEFINE h == <<Head(r)>>
                  s == Tail(r)
      <4>1. h \in String /\ s \in String
        BY <3>3 DEF String
      <4>. HIDE DEF h, s
      <4>2. (h \o s) \o t = h \o (s \o t) /\ s \o t \in String
        BY <3>2, <4>1, Regroup, JoinType
      <4>. QED  BY <3>3, <4>2, Zenon DEF h, s
    <3>5. Head(Unparsed) = Head(r) /\ Tail(Unparsed) = Tail(r) \o t
      <4>1. Unparsed = <<Head(r)>> \o (Tail(r) \o t)
        BY <2>1, <3>4, Zenon DEF t
      <4>2. PICK x : x = Tail(r) \o t /\ x \in String
        BY <3>4
      <4>3. PICK c : c = Head(r) /\ c \in Char
        BY <3>3
      <4>. QED  BY <4>1, <4>2, <4>3, InFront
    <3>. QED  BY <1>6, <3>1, <3>2, <3>3, <3>5 DEF t
  <2>2. CASE Idle(S)
    <3>1. /\ state = "ParsingMessage" /\ body = << >> /\ Unparsed = TextFrom(Texts(S), k)
      BY <2>2 DEF Idle
    <3>2. k <= Len(S)
      <4>1. CASE k = Len(S) + 1
        <5>1. TextFrom(Texts(S), k) = << >>
          BY <1>8, <4>1, TextFromEnds
        <5>. QED  BY <1>6, <3>1, <5>1
      <4>. QED  BY <1>7, <4>1
    <3>. DEFINE r == Text(S[k])
    <3>3. k \in 1 .. Len(S) /\ k \in 1 .. Len(Texts(S))
      BY <1>7, <1>8, <3>2
    <3>4. r \in String /\ r # << >> /\ ProperMessage(S[k])
      <4>1. S[k] \in Outbox /\ Text(S[k]) \in String
        BY <1>8, <3>3
      <4>2. ProperMessage(S[k])
        BY <4>1, OutboxProper
      <4>3. Text(S[k]) = S[k].tokens[1] \o BehindFirst(S[k])
        BY <4>2, TextIs
      <4>4. S[k].tokens[1] \in String /\ S[k].tokens[1] # << >> /\ BehindFirst(S[k]) \in String
        BY <4>2, ProperParts, TextTypes
      <4>. QED  BY <4>1, <4>2, <4>3, <4>4, PartBegins
    <3>5. Unparsed = r \o TextFrom(Texts(S), k + 1)
      <4>1. TextFrom(Texts(S), k) = Texts(S)[k] \o TextFrom(Texts(S), k + 1)
        BY <1>8, <3>3, TextFromStep
      <4>. QED  BY <1>8, <3>1, <3>3, <4>1
    <3>6. /\ Head(r) = ch /\ Unparsed' = Tail(r) \o TextFrom(Texts(S), k + 1)
          /\ Len(Tail(r)) = Len(r) - 1 /\ Len(r) \in Nat
      BY <2>1, <3>2, <3>4, <3>5
    <3>7. result' = Returned(state') /\ pos' = 1 /\ InStartLine(S[k], Tail(r))'
      <4>1. PICK m : m = S[k]
        OBVIOUS
      <4>2. PICK x : x = r
        OBVIOUS
      <4>3. ProperMessage(m) /\ x = Text(m) /\ Parse(Head(x))
        BY <1>3, <3>4, <3>6, <4>1, <4>2
      <4>4. result' = Returned(state') /\ pos' = 1 /\ InStartLine(m, Tail(x))'
        BY <3>1, <4>3, MessageBegins
      <4>. QED  BY <1>3, <4>1, <4>2, <4>4
    <3>8. body' = << >>
      <4>1. ~bodyExpected
        BY <3>1 DEF bodyExpected
      <4>. QED  BY <1>3, <3>1, <3>7, <4>1 DEF Collects, Returned
    <3>9. InMessage(S[k], Tail(r))'
      BY <3>7, <3>8 DEF InMessage
    <3>10. pos' + Len(Tail(r)) = Len(Text(S[k]))
      BY <3>6, <3>7
    <3>. QED  BY <1>3, <3>3, <3>4, <3>6, <3>7, <3>9, <3>10, MessageRead
  <2>3. ASSUME NEW r \in String, MidMessage(S, r)
        PROVE  Receiving(S)' /\ result'.type # "thrown" /\ complete' \in BOOLEAN
    <3>1. /\ k <= Len(S) /\ Unparsed = r \o TextFrom(Texts(S), k + 1)
          /\ pos + Len(r) = Len(Text(S[k])) /\ InMessage(S[k], r)
      BY <1>3, <2>3 DEF MidMessage
    <3>2. k \in 1 .. Len(S)
      BY <1>7, <3>1
    <3>3. ProperMessage(S[k])
      BY <1>8, <3>2, OutboxProper
    <3>4. r # << >>
      BY <1>2, <3>1, <3>3, InMessageReads DEF ParserOK
    <3>5. /\ Head(r) = ch /\ Unparsed' = Tail(r) \o TextFrom(Texts(S), k + 1)
          /\ Len(Tail(r)) = Len(r) - 1 /\ Len(r) \in Nat
      BY <2>1, <3>1, <3>4
    <3>6. MessageGoesOn(S[k], r)
      <4>1. PICK m : m = S[k]
        OBVIOUS
      <4>2. Parse(Head(r)) /\ Collects(Head(r)) /\ TypeOK /\ BodyCountersExact
        BY <1>2, <1>3, <3>5 DEF ParserOK
      <4>3. MessageGoesOn(m, r)
        BY <3>1, <3>3, <4>1, <4>2, MessageStep
      <4>. QED  BY <4>1, <4>3
    <3>7. /\ result' = Returned(state') /\ pos' = pos + 1
          /\ InMessage(S[k], Tail(r))' \/ MessageDone(S[k], Tail(r))'
      <4>1. PICK m : m = S[k]
        OBVIOUS
      <4>2. MessageGoesOn(m, r)
        BY <3>6, <4>1
      <4>3. Moved /\ (InMessage(m, Tail(r))' \/ MessageDone(m, Tail(r))')
        BY <4>2 DEF MessageGoesOn
      <4>. QED  BY <1>3, <4>1, <4>3 DEF Moved
    <3>8. pos' + Len(Tail(r)) = Len(Text(S[k]))
      <4>1. pos \in Nat
        BY <1>2 DEF ParserOK, TypeOK, ControlOK
      <4>2. pos' = pos + 1 /\ Len(Tail(r)) = Len(r) - 1 /\ Len(r) \in Nat
        BY <3>5, <3>7
      <4>3. PICK a, b : a = Len(r) /\ b = Len(Tail(r))
        OBVIOUS
      <4>4. a \in Nat /\ b = a - 1
        BY <4>2, <4>3, Zenon
      <4>5. pos' + b = pos + a
        <5>1. PICK p, q : p = pos /\ q = pos'
          OBVIOUS
        <5>2. p \in Nat /\ q = p + 1
          BY <4>1, <4>2, <5>1, Zenon
        <5>3. q + b = p + a
          BY <4>4, <5>2
        <5>. QED  BY <5>1, <5>3, Zenon
      <4>. QED  BY <3>1, <4>3, <4>5, Zenon
    <3>. QED  BY <1>3, <3>2, <3>4, <3>5, <3>7, <3>8, MessageRead
  <2>. QED  BY <1>1, <2>2, <2>3 DEF Receiving
<1>10. ParserOK'
  BY <1>5, <1>9 DEF ParserOK, NothingThrown
<1>11. ConnectionOK'
  <2>1. bytesParsed' \in 0 .. Len(buf')
    BY <1>2, <1>3 DEF ConnectionOK, String
  <2>. QED  BY <1>2, <1>3, <1>9, <2>1 DEF ConnectionOK
<1>12. Sending(S)'
  BY <1>1, <1>3, SendingStays
<1>. QED  BY <1>9, <1>10, <1>11, <1>12 DEF ExchangeInv
\* The message that is taken is the next of those that were sent.
LEMMA TakenIsNext ==
  ASSUME ExchangeInv, complete
  PROVE  /\ Len(receivedMessages) < Len(sentMessages)
         /\ Taken = sentMessages[Len(receivedMessages) + 1]
         /\ Taken \in {View(m) : m \in Outbox}
         /\ state = "ParsingMessage"
         /\ \E S \in Seq(Outbox) :
              Sending(S) /\ Unparsed = TextFrom(Texts(S), Len(receivedMessages) + 2)
<1>. DEFINE k == Len(receivedMessages) + 1
<1>1. PICK S \in Seq(Outbox) : Sending(S) /\ Receiving(S)
  BY DEF ExchangeInv
<1>2. ParserOK /\ ConnectionOK
  BY DEF ExchangeInv
<1>3. PICK r \in String : MidMessage(S, r)
  BY <1>1 DEF Receiving, Idle
<1>4. /\ k <= Len(S) /\ Unparsed = r \o TextFrom(Texts(S), k + 1)
      /\ pos + Len(r) = Len(Text(S[k])) /\ MessageDone(S[k], r)
  BY <1>3 DEF MidMessage
<1>5. /\ Texts(S) \in Seq(String) /\ Len(Texts(S)) = Len(S) /\ Len(S) \in Nat
      /\ Len(receivedMessages) \in Nat /\ k \in 1 .. Len(S) /\ k + 1 \in 1 .. Len(S) + 1
      /\ S[k] \in Outbox
  <2>1. Len(receivedMessages) \in Nat
    BY <1>2 DEF ConnectionOK
  <2>2. /\ Texts(S) \in Seq(String) /\ Len(Texts(S)) = Len(S) /\ Len(S) \in Nat
        /\ \A i \in 1 .. Len(S) : S[i] \in Outbox
    BY TextsType
  <2>. QED  BY <1>4, <2>1, <2>2
<1>6. r = << >> /\ state = "ParsingMessage"
  BY <1>4 DEF MessageDone
<1>7. Unparsed = TextFrom(Texts(S), k + 1)
  <2>. DEFINE t == TextFrom(Texts(S), k + 1)
  <2>1. t \in String
    BY <1>5, TextType
  <2>. HIDE DEF t
  <2>2. << >> \o t = t
    BY <2>1, ConcatEmptySeq DEF String
  <2>. QED  BY <1>4, <1>6, <2>2 DEF t
<1>8. Taken = View(S[k])
  <2>1. pos \in Nat /\ Len(r) = 0
    BY <1>2, <1>6 DEF ParserOK, TypeOK, ControlOK
  <2>2. pos = Len(Text(S[k]))
    BY <1>4, <2>1
  <2>. QED  BY <1>4, <2>2, DoneIsTaken
<1>9. k <= Len(sentMessages)
  <2>1. CASE unsent = << >>
    BY <1>1, <1>4, <2>1 DEF Sending
  <2>2. CASE unsent # << >> /\ k < Len(S)
    BY <1>1, <1>5, <2>2 DEF Sending
  <2>3. CASE unsent # << >> /\ k = Len(S)
    <3>1. Unparsed = << >>
      BY <1>5, <1>7, <2>3, TextFromEnds
    <3>2. FlattenSeq(unsent) # << >>
      <4>1. /\ unsent \in Seq(String) /\ unsent[1] # << >> /\ unsent[1] \in String
            /\ Tail(unsent) \in Seq(String)
        BY <1>2, <2>3 DEF ConnectionOK
      <4>2. FlattenSeq(unsent) = unsent[1] \o FlattenSeq(Tail(unsent))
        BY <2>3, <4>1, FlattenFirst
      <4>3. FlattenSeq(Tail(unsent)) \in String
        BY <4>1, TextType
      <4>. QED  BY <4>1, <4>2, <4>3, PartBegins
    <3>. DEFINE a == LeftIn(buf, bytesParsed)
                f == FlattenSeq(unsent)
    <3>3. a \in Seq(Char) /\ f \in Seq(Char) /\ wire \in Seq(Char)
      BY <1>2, UnparsedType DEF ConnectionOK, String
    <3>4. Unparsed = a \o (wire \o f)
      BY DEF Unparsed
    <3>. HIDE DEF a, f
    <3>5. /\ Len(wire \o f) = Len(wire) + Len(f) /\ wire \o f \in Seq(Char)
          /\ Len(wire) \in Nat /\ Len(f) \in Nat /\ Len(a) \in Nat
      BY <3>3, ConcatProperties
    <3>6. Len(a \o (wire \o f)) = Len(a) + (Len(wire) + Len(f))
      <4>1. PICK w \in Seq(Char) : w = wire \o f
        BY <3>5
      <4>2. Len(a \o w) = Len(a) + Len(w)
        BY <3>3, <4>1, ConcatProperties
      <4>. QED  BY <3>5, <4>1, <4>2
    <3>7. Len(f) # 0
      BY <3>2, <3>3, EmptySeq DEF f
    <3>8. Len(Unparsed) = 0
      BY <3>1
    <3>. QED  BY <3>4, <3>5, <3>6, <3>7, <3>8
  <2>. QED  BY <1>5, <2>1, <2>2, <2>3
<1>10. k \in 1 .. Len(sentMessages) /\ sentMessages[k] = View(S[k]) /\ Len(sentMessages) \in Nat
  <2>1. Len(sentMessages) \in Nat
    BY <1>2 DEF ConnectionOK
  <2>. QED  BY <1>1, <1>5, <1>9, <2>1 DEF Sending
<1>11. Len(receivedMessages) < Len(sentMessages) /\ k + 1 = Len(receivedMessages) + 2
  BY <1>5, <1>10
<1>. QED  BY <1>1, <1>5, <1>6, <1>7, <1>8, <1>10, <1>11

LEMMA TakeStep ==
  ASSUME ExchangeInv, Take
  PROVE  ExchangeInv'
<1>1. /\ complete /\ receivedMessages' = Append(receivedMessages, Taken)
      /\ ~complete' /\ complete' \in BOOLEAN /\ body' = << >>
      /\ UNCHANGED <<vars, outgoing, unsent, sentMessages, wire, buf, bytesParsed>>
  BY DEF Take, senderVars
<1>2. ParserOK /\ ConnectionOK
  BY DEF ExchangeInv
<1>3. /\ Len(receivedMessages) < Len(sentMessages) /\ Taken \in {View(m) : m \in Outbox}
      /\ state = "ParsingMessage"
  BY <1>1, TakenIsNext
<1>4. PICK S \in Seq(Outbox) :
        Sending(S) /\ Unparsed = TextFrom(Texts(S), Len(receivedMessages) + 2)
  BY <1>1, TakenIsNext
<1>5. /\ receivedMessages' \in Seq({View(m) : m \in Outbox})
      /\ Len(receivedMessages') = Len(receivedMessages) + 1 /\ Len(receivedMessages) \in Nat
      /\ Len(sentMessages) \in Nat
  <2>. DEFINE V == {View(m) : m \in Outbox}
  <2>1. receivedMessages \in Seq(V) /\ sentMessages \in Seq(V) /\ Taken \in V
    BY <1>2, <1>3 DEF ConnectionOK
  <2>. HIDE DEF V
  <2>2. /\ receivedMessages' \in Seq(V) /\ Len(receivedMessages') = Len(receivedMessages) + 1
        /\ Len(receivedMessages) \in Nat /\ Len(sentMessages) \in Nat
    BY <1>1, <2>1
  <2>. QED  BY <2>2 DEF V
<1>6. ConnectionOK'
  <2>1. Len(receivedMessages') <= Len(sentMessages')
    BY <1>1, <1>3, <1>5
  <2>. QED  BY <1>1, <1>2, <1>5, <2>1 DEF ConnectionOK
<1>7. Idle(S)'
  <2>1. Len(receivedMessages') + 1 = Len(receivedMessages) + 2 /\ state' = "ParsingMessage"
    BY <1>1, <1>3, <1>5 DEF vars, parserVars
  <2>2. Unparsed' = Unparsed
    BY <1>1 DEF Unparsed, LeftIn
  <2>. QED  BY <1>1, <1>4, <2>1, <2>2 DEF Idle
<1>8. Sending(S)'
  BY <1>1, <1>4, SendingStays
<1>9. ParserOK'
  BY <1>1, <1>2, ParserStays
<1>. QED  BY <1>6, <1>7, <1>8, <1>9 DEF ExchangeInv, Receiving

LEMMA ExchangeStart == ASSUME ExchangeInit PROVE ExchangeInv
<1>1. /\ Init /\ unsent = << >> /\ sentMessages = << >> /\ wire = << >>
      /\ buf = << >> /\ bytesParsed = 0 /\ complete = FALSE /\ body = << >>
      /\ receivedMessages = << >>
  BY DEF ExchangeInit
<1>2. ParserOK
  <2>1. TypeOK /\ BodyCountersExact
    BY <1>1, InitType DEF Init, BodyCountersExact
  <2>2. NothingThrown
    BY <1>1 DEF Init, NoResult, NothingThrown
  <2>. QED  BY <2>1, <2>2 DEF ParserOK
<1>3. ConnectionOK
  <2>. DEFINE V == {View(m) : m \in Outbox}
  <2>1. << >> \in String
    BY Letters
  <2>2. << >> \in Seq(String) /\ << >> \in Seq(V) /\ Len(<< >>) = 0 /\ 0 \in 0 .. 0
    OBVIOUS
  <2>3. \A i \in 1 .. Len(<< >>) : << >>[i] # << >>
    BY <2>2
  <2>. HIDE DEF V
  <2>4. /\ buf \in String /\ bytesParsed \in 0 .. Len(buf) /\ wire \in String
        /\ complete \in BOOLEAN
    BY <1>1, <2>1, <2>2
  <2>5. unsent \in Seq(String) /\ \A i \in 1 .. Len(unsent) : unsent[i] # << >>
    BY <1>1, <2>2, <2>3
  <2>6. /\ sentMessages \in Seq(V) /\ receivedMessages \in Seq(V)
        /\ Len(receivedMessages) <= Len(sentMessages)
    BY <1>1, <2>2
  <2>. QED  BY <2>4, <2>5, <2>6 DEF ConnectionOK, V
<1>. DEFINE S == << >>
<1>4. S \in Seq(Outbox) /\ Len(S) = 0
  OBVIOUS
<1>5. Sending(S)
  BY <1>1, <1>4 DEF Sending
<1>6. Idle(S)
  <2>1. Unparsed = << >>
    <3>1. LeftIn(<< >>, 0) = << >>
      <4>1. PICK b \in String : b = << >>
        BY Letters
      <4>2. 0 \in 0 .. Len(b)
        BY <4>1
      <4>. QED  BY <4>1, <4>2, LeftInIs
    <3>2. << >> \o (<< >> \o << >>) = << >>
      OBVIOUS
    <3>. QED  BY <1>1, <3>1, <3>2, FlattenNothing DEF Unparsed
  <2>2. TextFrom(Texts(S), 0 + 1) = << >>
    <3>1. Texts(S) \in Seq(String) /\ Len(Texts(S)) = 0
      BY <1>4, TextsType
    <3>. QED  BY <3>1, TextFromEnds
  <2>3. Len(receivedMessages) = 0
    BY <1>1
  <2>. QED  BY <1>1, <2>1, <2>2, <2>3 DEF Idle, Init
<1>. QED  BY <1>2, <1>3, <1>4, <1>5, <1>6 DEF ExchangeInv, Receiving
LEMMA ExchangeStep == ASSUME ExchangeInv, [ExchangeNext]_exchangeVars PROVE ExchangeInv'
<1>1. ASSUME NEW m \in Outbox, Compose(m) PROVE ExchangeInv'
  BY <1>1, ComposeStep
<1>2. ASSUME Write PROVE ExchangeInv'
  BY <1>2, WriteStep
<1>3. ASSUME NEW n \in 1 .. BufferSize, Receive(n) PROVE ExchangeInv'
  <2>1. n \in Nat
    BY ExchangeAssumption
  <2>. QED  BY <1>3, <2>1, ReceiveStep
<1>4. ASSUME ParseNext PROVE ExchangeInv'
  BY <1>4, ParseNextStep
<1>5. ASSUME Take PROVE ExchangeInv'
  BY <1>5, TakeStep
<1>6. ASSUME UNCHANGED exchangeVars PROVE ExchangeInv'
  <2>1. PICK S \in Seq(Outbox) : Sending(S) /\ Receiving(S)
    BY DEF ExchangeInv
  <2>2. ParserOK /\ ConnectionOK
    BY DEF ExchangeInv
  <2>3. /\ UNCHANGED <<vars, outgoing, unsent, sentMessages, wire, buf, bytesParsed, complete>>
        /\ UNCHANGED <<body, receivedMessages>>
    BY <1>6 DEF exchangeVars, senderVars, receiverVars
  <2>4. ConnectionOK' /\ Sending(S)' /\ Unparsed' = Unparsed
    BY <2>1, <2>2, <2>3, SendingStays DEF ConnectionOK, Unparsed, LeftIn
  <2>. QED  BY <2>1, <2>2, <2>3, <2>4, MovesOn
<1>. QED  BY <1>1, <1>2, <1>3, <1>4, <1>5, <1>6 DEF ExchangeNext

LEMMA ExchangeInvariant == ExchangeSpec => []ExchangeInv
<1>1. ExchangeInit => ExchangeInv
  BY ExchangeStart
<1>2. ExchangeInv /\ [ExchangeNext]_exchangeVars => ExchangeInv'
  BY ExchangeStep
<1>. QED  BY <1>1, <1>2, PTL DEF ExchangeSpec

(* Whatever proper messages are sent and however their bytes are cut into  *)
(* buffers, no call of parse(char) throws.                                 *)
THEOREM NothingThrownCorrect == ExchangeSpec => []NothingThrown
<1>1. ExchangeInv => NothingThrown
  BY DEF ExchangeInv, ParserOK
<1>. QED  BY <1>1, ExchangeInvariant, PTL

LEMMA BodyIsPrefix == ASSUME ExchangeInv PROVE BodyIsPayloadPrefix
<1>. DEFINE k == Len(receivedMessages) + 1
            v == IF k <= Len(sentMessages) THEN sentMessages[k] ELSE outgoing
<1>1. PICK S \in Seq(Outbox) : Sending(S) /\ Receiving(S)
  BY DEF ExchangeInv
<1>2. ParserOK /\ ConnectionOK
  BY DEF ExchangeInv
<1>. SUFFICES ASSUME body # << >>
              PROVE  IsPrefix(body, v.body) /\ (bodyExpected => body # v.body)
  BY DEF BodyIsPayloadPrefix
<1>3. PICK r \in String : MidMessage(S, r)
  BY <1>1 DEF Receiving, Idle
<1>4. k <= Len(S) /\ (MessageDone(S[k], r) \/ InMessage(S[k], r))
  BY <1>3 DEF MidMessage
<1>5. k \in 1 .. Len(S) /\ Len(S) \in Nat /\ S[k] \in Outbox
  <2>1. Len(receivedMessages) \in Nat /\ Len(S) \in Nat
    BY <1>2 DEF ConnectionOK
  <2>. QED  BY <1>4, <2>1
<1>6. v = View(S[k])
  <2>1. CASE k <= Len(sentMessages)
    <3>1. k \in 1 .. Len(sentMessages)
      BY <1>2, <1>5, <2>1 DEF ConnectionOK
    <3>. QED  BY <1>1, <2>1, <3>1 DEF Sending
  <2>2. CASE ~(k <= Len(sentMessages))
    <3>1. unsent # << >> /\ k = Len(S)
      BY <1>1, <1>5, <2>2 DEF Sending
    <3>. QED  BY <1>1, <2>2, <3>1 DEF Sending
  <2>. QED  BY <2>1, <2>2
<1>. HIDE DEF v, k
<1>7. PICK m : m = S[k]
  OBVIOUS
<1>8. IsPrefix(body, Payload(m)) /\ (bodyExpected => body # Payload(m))
  <2>1. ProperMessage(m) /\ (InMessage(m, r) \/ MessageDone(m, r))
    BY <1>4, <1>5, <1>7, OutboxProper
  <2>. QED  BY <1>2, <2>1, InMessagePrefix DEF ParserOK
<1>9. v.body = Payload(m)
  BY <1>6, <1>7 DEF View
<1>. QED  BY <1>8, <1>9

(* What the receiver has collected of a body is always the beginning of    *)
(* the payload that was sent, and all of it only when isBodyChar will not  *)
(* be set any more.                                                        *)
THEOREM BodyPrefixCorrect == ExchangeSpec => []BodyIsPayloadPrefix
<1>1. ExchangeInv => BodyIsPayloadPrefix
  BY BodyIsPrefix
<1>. QED  BY <1>1, ExchangeInvariant, PTL

LEMMA ChannelStep ==
  ASSUME ExchangeInv, [ExchangeNext]_exchangeVars
  PROVE  [Channel!Next]_(Channel!channelVars)
<1>. DEFINE V == {View(m) : m \in Outbox}
<1>1. ASSUME Write PROVE [Channel!Next]_(Channel!channelVars)
  <2>1. PICK S \in Seq(Outbox) : Sending(S)
    BY DEF ExchangeInv
  <2>2. /\ unsent # << >> /\ receivedMessages' = receivedMessages
        /\ sentMessages' = IF Len(unsent) = 1 THEN Append(sentMessages, outgoing) ELSE sentMessages
    BY <1>1 DEF Write, receiverVars
  <2>3. outgoing \in V
    <3>1. outgoing = View(S[Len(S)]) /\ Len(sentMessages) = Len(S) - 1
      BY <2>1, <2>2 DEF Sending
    <3>2. Len(S) \in 1 .. Len(S)
      <4>1. Len(sentMessages) \in Nat
        BY DEF ExchangeInv, ConnectionOK
      <4>. QED  BY <3>1, <4>1
    <3>. QED  BY <3>1, <3>2
  <2>4. CASE Len(unsent) = 1
    <3>1. Channel!Send(outgoing)
      BY <2>2, <2>4 DEF Channel!Send
    <3>. QED  BY <2>3, <3>1 DEF Channel!Next
  <2>5. CASE Len(unsent) # 1
    BY <2>2, <2>5 DEF Channel!channelVars
  <2>. QED  BY <2>4, <2>5
<1>2. ASSUME Take PROVE [Channel!Next]_(Channel!channelVars)
  <2>1. complete /\ receivedMessages' = Append(receivedMessages, Taken) /\ sentMessages' = sentMessages
    BY <1>2 DEF Take, senderVars
  <2>2. /\ Len(receivedMessages) < Len(sentMessages)
        /\ Taken = sentMessages[Len(receivedMessages) + 1]
    BY <2>1, TakenIsNext
  <2>3. Channel!Deliver
    BY <2>1, <2>2 DEF Channel!Deliver
  <2>. QED  BY <2>3 DEF Channel!Next
<1>3. ASSUME UNCHANGED <<sentMessages, receivedMessages>>
      PROVE  [Channel!Next]_(Channel!channelVars)
  BY <1>3 DEF Channel!channelVars
<1>4. ASSUME NEW m \in Outbox, Compose(m) PROVE UNCHANGED <<sentMessages, receivedMessages>>
  BY <1>4 DEF Compose, receiverVars
<1>5. ASSUME NEW n \in 1 .. BufferSize, Receive(n)
      PROVE  UNCHANGED <<sentMessages, receivedMessages>>
  BY <1>5 DEF Receive, senderVars
<1>6. ASSUME ParseNext PROVE UNCHANGED <<sentMessages, receivedMessages>>
  BY <1>6 DEF ParseNext, senderVars
<1>7. ASSUME UNCHANGED exchangeVars PROVE UNCHANGED <<sentMessages, receivedMessages>>
  BY <1>7 DEF exchangeVars, senderVars, receiverVars
<1>. QED  BY <1>1, <1>2, <1>3, <1>4, <1>5, <1>6, <1>7 DEF ExchangeNext

(* A composer and a parser over a connection are a channel: what is taken  *)
(* from the parser is what was sent, message by message, in order, once    *)
(* and as it was sent.  Only that it arrives at all is not proved here.    *)
THEOREM ChannelSafety == ExchangeSpec => Channel!Safety
<1>1. ExchangeInit => Channel!Init
  BY DEF ExchangeInit, Channel!Init
<1>2. ExchangeInv /\ [ExchangeNext]_exchangeVars => [Channel!Next]_(Channel!channelVars)
  BY ChannelStep
<1>. QED  BY <1>1, <1>2, ExchangeInvariant, PTL DEF ExchangeSpec, Channel!Safety
=============================================================================
