--------------------------- MODULE StreamTheorems ----------------------------
(***************************************************************************)
(* What the receivers of this bridge have in common: they fold an operator *)
(* over the symbols of a chunk, and take frames out of a buffer that has   *)
(* grown by one.  Op stands for the operator of the one that cites these   *)
(* theorems.                                                               *)
(***************************************************************************)
EXTENDS PylontechCodec, SequenceTheorems, WellFoundedInduction, TLAPS

CONSTANT Op(_, _)

-----------------------------------------------------------------------------
(* Induction *)

\* The numbers have a least counterexample.
LEMMA Induction ==
    ASSUME NEW P, \A n \in Nat : (\A m \in Nat : m < n => m \in P) => n \in P
    PROVE  \A n \in Nat : n \in P
<1> DEFINE Bad == {n \in Nat : n \notin P}
<1>1. SUFFICES ASSUME Bad # {} PROVE FALSE
  OBVIOUS
<1>2. PICK n \in Bad : \A m \in Bad : <<m, n>> \notin OpToRel(<, Nat)
  BY <1>1, NatLessThanWellFounded, WFMin
<1>3. \A m \in Nat : m < n => m \in P
  BY <1>2 DEF OpToRel
<1>4. QED  BY <1>3

\* A set of sequences that holds every sequence if it holds all shorter ones.
LEMMA LengthInduction ==
    ASSUME NEW T, NEW P,
           \A s \in Seq(T) : (\A r \in Seq(T) : Len(r) < Len(s) => r \in P) => s \in P
    PROVE  \A s \in Seq(T) : s \in P
<1> DEFINE Q == {n \in Nat : \A s \in Seq(T) : Len(s) = n => s \in P}
<1>1. ASSUME NEW n \in Nat, \A m \in Nat : m < n => m \in Q
      PROVE  n \in Q
  <2>1. ASSUME NEW s \in Seq(T), Len(s) = n PROVE s \in P
    <3>1. ASSUME NEW r \in Seq(T), Len(r) < Len(s) PROVE r \in P
      <4>1. Len(r) \in Nat /\ Len(r) \in Q
        BY <1>1, <2>1, <3>1, LenProperties
      <4>2. QED  BY <4>1
    <3>2. QED  BY <3>1
  <2>2. QED  BY <2>1
<1> HIDE DEF Q
<1>2. \A n \in Nat : n \in Q
  BY <1>1, Induction
<1>3. QED  BY <1>2, LenProperties DEF Q

\* A set of sequences that holds every extension of its members by one.
LEMMA AppendInduction ==
    ASSUME NEW T, NEW P, <<>> \in P,
           \A s \in Seq(T), x \in T : s \in P => Append(s, x) \in P
    PROVE  \A s \in Seq(T) : s \in P
<1>1. ASSUME NEW s \in Seq(T), \A r \in Seq(T) : Len(r) < Len(s) => r \in P
      PROVE  s \in P
  <2>1. CASE s # <<>>
    <3>1. PICK r \in Seq(T), x \in T : s = Append(r, x)
      BY <2>1, SequenceEmptyOrAppend
    <3>2. Len(r) < Len(s)
      BY <3>1, AppendProperties, LenProperties
    <3>3. QED  BY <1>1, <3>1, <3>2
  <2>2. QED  BY <2>1
<1>2. QED  BY <1>1, LengthInduction

-----------------------------------------------------------------------------
(* Folds *)

\* The function in the definition of a fold over f[1], ..., f[n].
IsIter(g, base, f, n) ==
    g = [s \in SUBSET (1..n) |->
            IF s = {} THEN base ELSE LET x == Max(s) IN Op(g[s \ {x}], f[x])]

LEMMA LargestIs ==
    ASSUME NEW n \in Nat, NEW s \in SUBSET (1..n), n \in s
    PROVE  Max(s) = n
<1>1. \A y \in s : n >= y
  OBVIOUS
<1>2. Max(s) \in s /\ Max(s) >= n
  BY <1>1, Zenon DEF Max
<1> DEFINE x == Max(s)
<1>3. x \in 1..n /\ x >= n
  BY <1>2
<1> HIDE DEF x
<1>4. x = n
  BY <1>3
<1>5. QED  BY <1>4 DEF x

LEMMA IterExists ==
    ASSUME NEW base, NEW f
    PROVE  \A n \in Nat : \E g : IsIter(g, base, f, n)
<1> DEFINE P == {n \in Nat : \E g : IsIter(g, base, f, n)}
<1>1. ASSUME NEW n \in Nat, \A m \in Nat : m < n => m \in P
      PROVE  n \in P
  <2>1. CASE n = 0
    <3>1. IsIter([s \in SUBSET (1..0) |-> base], base, f, 0)
      <4>1. \A s \in SUBSET (1..0) : s = {}
        OBVIOUS
      <4>2. QED  BY <4>1 DEF IsIter
    <3>2. QED  BY <2>1, <3>1
  <2>2. CASE n # 0
    <3>1. n - 1 \in Nat /\ n - 1 \in P
      BY <1>1, <2>2
    <3>2. PICK g : IsIter(g, base, f, n - 1)
      BY <3>1
    <3> DEFINE h == [s \in SUBSET (1..n) |->
                        IF n \in s THEN Op(g[s \ {n}], f[n]) ELSE g[s]]
    <3>3. ASSUME NEW s \in SUBSET (1..n)
          PROVE  h[s] = IF s = {} THEN base ELSE LET x == Max(s) IN Op(h[s \ {x}], f[x])
      <4>1. CASE n \in s
        <5>1. Max(s) = n /\ s # {}
          BY <4>1, LargestIs
        <5>2. s \ {n} \in SUBSET (1..n) /\ h[s \ {n}] = g[s \ {n}]
          OBVIOUS
        <5>3. h[s] = Op(g[s \ {n}], f[n])
          BY <4>1
        <5> HIDE DEF h
        <5>4. QED  BY <5>1, <5>2, <5>3
      <4>2. CASE n \notin s
        <5>1. s \in SUBSET (1..(n - 1)) /\ h[s] = g[s]
          BY <4>2
        <5>2. g[s] = IF s = {} THEN base ELSE LET x == Max(s) IN Op(g[s \ {x}], f[x])
          BY <3>2, <5>1, Zenon DEF IsIter
        <5>3. \A x : s \ {x} \in SUBSET (1..n) /\ h[s \ {x}] = g[s \ {x}]
          BY <4>2
        <5> HIDE DEF h
        <5>4. QED  BY <5>1, <5>2, <5>3, Zenon
      <4>3. QED  BY <4>1, <4>2
    <3>4. h = [s \in SUBSET (1..n) |-> h[s]]
      OBVIOUS
    <3> HIDE DEF h
    <3>5. IsIter(h, base, f, n)
      BY <3>3, <3>4, Zenon DEF IsIter
    <3>6. QED  BY <3>5
  <2>3. QED  BY <2>1, <2>2
<1> HIDE DEF P
<1>2. \A n \in Nat : n \in P
  BY <1>1, Induction
<1>3. QED  BY <1>2 DEF P

\* It depends on what it is folded over and on nothing else.
Agree(f, e, n) == \A i \in 1..n : f[i] = e[i]

LEMMA IterUnique ==
    ASSUME NEW base, NEW f, NEW e, NEW g, NEW h, NEW k \in Nat, NEW m \in Nat, k <= m,
           IsIter(g, base, f, k), IsIter(h, base, e, m),
           Agree(f, e, k)
    PROVE  g[1..k] = h[1..k]
<1> DEFINE P == {n \in Nat : n <= k => \A s \in SUBSET (1..n) : g[s] = h[s]}
<1>1. ASSUME NEW n \in Nat, \A i \in Nat : i < n => i \in P
      PROVE  n \in P
  <2>1. SUFFICES ASSUME n <= k, NEW s \in SUBSET (1..n) PROVE g[s] = h[s]
    OBVIOUS
  <2>2. s \in SUBSET (1..k) /\ s \in SUBSET (1..m)
    BY <2>1
  <2>3. /\ g[s] = IF s = {} THEN base ELSE LET x == Max(s) IN Op(g[s \ {x}], f[x])
        /\ h[s] = IF s = {} THEN base ELSE LET x == Max(s) IN Op(h[s \ {x}], e[x])
    BY <2>2, Zenon DEF IsIter
  <2>4. CASE s = {}
    BY <2>3, <2>4
  <2>5. CASE s # {} /\ n \in s
    <3>1. Max(s) = n
      BY <2>5, LargestIs
    <3>2. n - 1 \in Nat /\ n - 1 < n /\ n \in 1..k /\ n - 1 <= k
      BY <2>1, <2>5
    <3>3. s \ {n} \in SUBSET (1..(n - 1))
      OBVIOUS
    <3>4. g[s \ {n}] = h[s \ {n}]
      BY <1>1, <3>2, <3>3
    <3>5. f[n] = e[n]
      BY <3>2 DEF Agree
    <3> HIDE DEF P
    <3>6. g[s] = Op(g[s \ {n}], f[n]) /\ h[s] = Op(h[s \ {n}], e[n])
      BY <2>3, <2>5, <3>1
    <3>7. QED  BY <3>4, <3>5, <3>6
  <2>6. CASE s # {} /\ n \notin s
    <3>1. n # 0
      <4>1. PICK x \in s : TRUE
        BY <2>6
      <4>2. x \in 1..n
        OBVIOUS
      <4>3. QED  BY <4>2
    <3>2. n - 1 \in Nat /\ n - 1 < n /\ n - 1 <= k
      BY <2>1, <3>1
    <3>3. s \in SUBSET (1..(n - 1))
      BY <2>6
    <3>4. QED  BY <1>1, <3>2, <3>3
  <2>7. QED  BY <2>4, <2>5, <2>6
<1> HIDE DEF P
<1>2. \A n \in Nat : n \in P
  BY <1>1, Induction
<1>3. k <= k /\ 1..k \in SUBSET (1..k)
  OBVIOUS
<1>4. QED  BY <1>2, <1>3 DEF P

\* A fold is the value of such a function.
LEMMA FoldIter ==
    ASSUME NEW T, NEW s \in Seq(T), NEW base
    PROVE  \E g : IsIter(g, base, s, Len(s)) /\ FoldLeft(Op, base, s) = g[1..Len(s)]
<1> DEFINE g == CHOOSE g : g = [S \in SUBSET (DOMAIN s) |->
                    IF S = {} THEN base ELSE LET x == Max(S) IN Op(g[S \ {x}], s[x])]
<1>1. FoldLeft(Op, base, s) = g[DOMAIN s]
  BY Zenon DEF FoldLeft, MapThenFoldSet
<1>2. Len(s) \in Nat /\ DOMAIN s = 1..Len(s)
  BY LenProperties
<1>3. \E h : IsIter(h, base, s, Len(s))
  BY <1>2, IterExists
<1>4. \E h : h = [S \in SUBSET (DOMAIN s) |->
                    IF S = {} THEN base ELSE LET x == Max(S) IN Op(h[S \ {x}], s[x])]
  BY <1>2, <1>3, Zenon DEF IsIter
<1>5. g = [S \in SUBSET (DOMAIN s) |->
              IF S = {} THEN base ELSE LET x == Max(S) IN Op(g[S \ {x}], s[x])]
  BY <1>4, Zenon
<1> HIDE DEF g
<1>6. IsIter(g, base, s, Len(s))
  BY <1>2, <1>5, Zenon DEF IsIter
<1>7. QED  BY <1>1, <1>2, <1>6

\* A fold takes the symbols one by one.
LEMMA FoldNil ==
    ASSUME NEW base PROVE FoldLeft(Op, base, <<>>) = base
<1>1. PICK g : IsIter(g, base, <<>>, Len(<<>>)) /\ FoldLeft(Op, base, <<>>) = g[1..Len(<<>>)]
  <2>1. <<>> \in Seq({})
    OBVIOUS
  <2>2. QED  BY <2>1, FoldIter, Zenon
<1>2. 1..Len(<<>>) = {}
  OBVIOUS
<1>3. g[{}] = base
  BY <1>1, <1>2, Zenon DEF IsIter
<1>4. QED  BY <1>1, <1>2, <1>3

\* The same with the value of the fold as an operator.
Whole(g, n) == g[1..n]

LEMMA WholeUnique ==
    ASSUME NEW base, NEW f, NEW e, NEW g, NEW h, NEW k \in Nat, NEW m \in Nat, k <= m,
           IsIter(g, base, f, k), IsIter(h, base, e, m),
           Agree(f, e, k)
    PROVE  Whole(g, k) = Whole(h, k)
<1>1. g[1..k] = h[1..k]
  BY IterUnique
<1>2. QED  BY <1>1, Zenon DEF Whole

LEMMA WholeStep ==
    ASSUME NEW base, NEW e, NEW h, NEW n \in Nat, NEW m \in Nat, m = n + 1,
           IsIter(h, base, e, m)
    PROVE  Whole(h, m) = Op(Whole(h, n), e[m])
<1>1. 1..m \in SUBSET (1..m) /\ m \in 1..m /\ 1..m # {}
  OBVIOUS
<1>2. (1..m) \ {m} = 1..n
  OBVIOUS
<1>3. Max(1..m) = m
  BY <1>1, LargestIs
<1>4. h[1..m] = LET y == Max(1..m) IN Op(h[(1..m) \ {y}], e[y])
  BY <1>1, Zenon DEF IsIter
<1>5. h[1..m] = Op(h[(1..m) \ {m}], e[m])
  BY <1>3, <1>4
<1>6. QED  BY <1>2, <1>5, Zenon DEF Whole

\* The last symbol is taken last.
LEMMA FoldAppend ==
    ASSUME NEW T, NEW s \in Seq(T), NEW x \in T, NEW base
    PROVE  FoldLeft(Op, base, Append(s, x)) = Op(FoldLeft(Op, base, s), x)
<1> DEFINE t == Append(s, x)
           n == Len(s)
           m == Len(t)
<1>1. n \in Nat /\ m \in Nat /\ m = n + 1 /\ n <= m
  BY AppendProperties, LenProperties
<1>2. t \in Seq(T) /\ t[m] = x /\ Agree(s, t, n)
  BY AppendProperties, LenProperties DEF Agree
<1>3. PICK g : IsIter(g, base, s, n) /\ FoldLeft(Op, base, s) = Whole(g, n)
  BY FoldIter, Zenon DEF Whole
<1> HIDE DEF t
<1>4. PICK h : IsIter(h, base, t, m) /\ FoldLeft(Op, base, t) = Whole(h, m)
  BY <1>2, FoldIter, Zenon DEF Whole
<1> HIDE DEF n, m
<1>5. Whole(g, n) = Whole(h, n)
  BY <1>1, <1>2, <1>3, <1>4, WholeUnique
<1>6. Whole(h, m) = Op(Whole(h, n), x)
  <2>1. Whole(h, m) = Op(Whole(h, n), t[m])
    BY <1>1, <1>4, WholeStep
  <2>2. QED  BY <1>2, <2>1
<1>7. QED  BY <1>3, <1>4, <1>5, <1>6, Zenon DEF t

\* A property of the accumulator that every symbol keeps.
LEMMA FoldKeeps ==
    ASSUME NEW T, NEW A, NEW base \in A,
           \A a \in A, x \in T : Op(a, x) \in A
    PROVE  \A s \in Seq(T) : FoldLeft(Op, base, s) \in A
<1> DEFINE P == {s \in Seq(T) : FoldLeft(Op, base, s) \in A}
<1>1. <<>> \in P
  BY FoldNil, EmptySeq
<1>2. ASSUME NEW s \in Seq(T), NEW x \in T, s \in P
      PROVE  Append(s, x) \in P
  <2>1. FoldLeft(Op, base, Append(s, x)) = Op(FoldLeft(Op, base, s), x)
    BY FoldAppend
  <2>2. QED  BY <1>2, <2>1, AppendProperties
<1> HIDE DEF P
<1>3. \A s \in Seq(T) : s \in P
  BY <1>1, <1>2, AppendInduction
<1>4. QED  BY <1>3 DEF P

\* A fold over two chunks goes on where the first one ended.
LEMMA FoldCat ==
    ASSUME NEW T, NEW s \in Seq(T), NEW base
    PROVE  \A t \in Seq(T) :
               FoldLeft(Op, base, s \o t) = FoldLeft(Op, FoldLeft(Op, base, s), t)
<1> DEFINE F(c) == FoldLeft(Op, base, s \o c)
           G(c) == FoldLeft(Op, FoldLeft(Op, base, s), c)
           P == {c \in Seq(T) : F(c) = G(c)}
<1>1. <<>> \in P
  <2>1. s \o <<>> = s /\ <<>> \in Seq(T)
    BY ConcatEmptySeq, EmptySeq
  <2>2. G(<<>>) = FoldLeft(Op, base, s)
    BY FoldNil
  <2>3. QED  BY <2>1, <2>2
<1>2. ASSUME NEW c \in Seq(T), NEW x \in T, c \in P
      PROVE  Append(c, x) \in P
  <2>1. s \o Append(c, x) = Append(s \o c, x) /\ s \o c \in Seq(T)
    <3>1. <<x>> \in Seq(T)
      OBVIOUS
    <3>2. s \o (c \o <<x>>) = (s \o c) \o <<x>>
      BY <3>1, ConcatAssociative
    <3>3. s \o c \in Seq(T)
      BY ConcatProperties
    <3>4. Append(c, x) = c \o <<x>> /\ Append(s \o c, x) = (s \o c) \o <<x>>
      BY <3>3, AppendIsConcat
    <3>5. QED  BY <3>2, <3>3, <3>4
  <2>2. FoldLeft(Op, base, Append(s \o c, x)) = Op(FoldLeft(Op, base, s \o c), x)
    BY <2>1, FoldAppend
  <2>3. G(Append(c, x)) = Op(G(c), x)
    BY FoldAppend
  <2>4. Append(c, x) \in Seq(T)
    BY AppendProperties
  <2>5. QED  BY <1>2, <2>1, <2>2, <2>3, <2>4
<1> HIDE DEF P
<1>3. \A c \in Seq(T) : c \in P
  BY <1>1, <1>2, AppendInduction
<1>4. QED  BY <1>3 DEF P

-----------------------------------------------------------------------------
(* What try_parse_pylontech() finds in a buffer *)

LEMMA LeastIs ==
    ASSUME NEW I \in SUBSET Nat, I # {}
    PROVE  Min(I) \in I /\ \A i \in I : Min(I) <= i
<1>1. PICK n \in I : \A m \in I : <<m, n>> \notin OpToRel(<, Nat)
  BY NatLessThanWellFounded, WFMin
<1>2. ASSUME NEW m \in I, ~(n <= m) PROVE FALSE
  <2>1. m \in Nat /\ n \in Nat /\ m < n
    BY <1>2
  <2>2. <<m, n>> \in OpToRel(<, Nat)
    BY <2>1 DEF OpToRel
  <2>3. QED  BY <1>1, <2>2
<1>3. QED  BY <1>1, <1>2, Zenon DEF Min

\* buf[k] is the first x in buf, k = 0 says there is none.
IsFirst(buf, x, k) ==
    \/ k = 0 /\ \A i \in 1..Len(buf) : buf[i] # x
    \/ k \in 1..Len(buf) /\ buf[k] = x /\ \A i \in 1..(k - 1) : buf[i] # x

First(buf, x) == SelectInSeq(buf, LAMBDA s : s = x)

LEMMA FirstIs ==
    ASSUME NEW T, NEW buf \in Seq(T), NEW x
    PROVE  IsFirst(buf, x, First(buf, x))
<1> DEFINE I == {i \in 1..Len(buf) : buf[i] = x}
           k == First(buf, x)
<1>1. k = IF I # {} THEN Min(I) ELSE 0
  BY DEF First, SelectInSeq
<1>2. Len(buf) \in Nat
  BY LenProperties
<1>3. CASE I = {}
  BY <1>1, <1>3 DEF IsFirst
<1>4. CASE I # {}
  <2>1. I \in SUBSET Nat
    BY <1>2
  <2> HIDE DEF I
  <2>2. k \in I /\ \A i \in I : k <= i
    BY <1>1, <1>4, <2>1, LeastIs
  <2> USE DEF I
  <2>3. k \in 1..Len(buf) /\ buf[k] = x
    BY <2>2
  <2> HIDE DEF k
  <2>4. ASSUME NEW i \in 1..(k - 1) PROVE buf[i] # x
    <3>1. i \in 1..Len(buf) /\ ~(k <= i)
      BY <1>2, <2>3
    <3>2. QED  BY <2>2, <3>1 DEF k
  <2>5. QED  BY <2>3, <2>4 DEF IsFirst, k
<1>5. QED  BY <1>3, <1>4

\* No frame starts in the first d symbols.
Junk(buf, d) == d \in 1..Len(buf) /\ \A i \in 1..d : buf[i] # SOI

\* A frame starts at the first symbol and does not end.
IsOpen(buf) == buf[1] = SOI /\ \A i \in 1..Len(buf) : buf[i] # EOI

\* It ends at e.
Closes(buf, e) ==
    /\ e \in 1..Len(buf) /\ buf[1] = SOI /\ buf[e] = EOI
    /\ \A i \in 1..(e - 1) : buf[i] # EOI

Intact(buf, e) == e = 3 /\ buf[2] \in Bodies

LEMMA ParseCases ==
    ASSUME NEW T, NEW buf \in Seq(T), buf # <<>>
    PROVE  LET n == try_parse_pylontech(buf)
           IN  \/ \E d \in 1..Len(buf) : Junk(buf, d) /\ n = -d
               \/ IsOpen(buf) /\ n = IF Len(buf) > kMaxFrameLen THEN -1 ELSE 0
               \/ \E e \in 1..Len(buf) :
                     Closes(buf, e) /\ n = IF Intact(buf, e) THEN e ELSE -e
<1> DEFINE soi == First(buf, SOI)
           eoi == First(buf, EOI)
           n   == try_parse_pylontech(buf)
<1>1. IsFirst(buf, SOI, soi) /\ IsFirst(buf, EOI, eoi)
  BY FirstIs
<1> DEFINE a == -Len(buf)
           b == -(soi - 1)
           c == IF Len(buf) > kMaxFrameLen THEN -1 ELSE 0
           d == IF IsBody(SubSeq(buf, 2, eoi - 1)) THEN eoi ELSE -eoi
<1>2. n = CASE soi = 0 -> a
            [] soi > 1 -> b
            [] soi = 1 /\ eoi = 0 -> c
            [] OTHER -> d
  BY Zenon DEF try_parse_pylontech, First
<1>3. Len(buf) \in Nat /\ Len(buf) >= 1
  BY EmptySeq
<1>8. soi \in Nat /\ (soi = 0 \/ soi = 1 \/ soi > 1)
  BY <1>1, <1>3 DEF IsFirst
<1>9. /\ soi = 0 => ~(soi > 1) /\ soi # 1
      /\ soi > 1 => soi # 0 /\ soi # 1
      /\ soi = 1 => soi # 0 /\ ~(soi > 1)
  BY <1>8
<1> HIDE DEF soi, eoi, n, a, b, c, d
<1>10. /\ soi = 0 => n = a
       /\ soi > 1 => n = b
       /\ soi = 1 /\ eoi = 0 => n = c
       /\ soi = 1 /\ eoi # 0 => n = d
  BY <1>2, <1>9, Zenon
<1>4. CASE soi = 0
  <2>1. n = -Len(buf)
    BY <1>4, <1>10 DEF a
  <2>2. \A i \in 1..Len(buf) : buf[i] # SOI
    BY <1>1, <1>4 DEF IsFirst
  <2>3. Len(buf) \in 1..Len(buf) /\ Junk(buf, Len(buf))
    BY <1>3, <2>2 DEF Junk
  <2>4. QED  BY <2>1, <2>3 DEF n
<1>5. CASE soi > 1
  <2>1. soi \in 1..Len(buf) /\ \A i \in 1..(soi - 1) : buf[i] # SOI
    BY <1>1, <1>3, <1>5 DEF IsFirst
  <2>2. n = -(soi - 1)
    BY <1>5, <1>10 DEF b
  <2>3. soi - 1 \in 1..Len(buf)
    BY <1>3, <1>5, <2>1
  <2>4. Junk(buf, soi - 1)
    BY <2>1, <2>3 DEF Junk
  <2>5. QED  BY <2>2, <2>3, <2>4 DEF n
<1>6. CASE soi = 1 /\ eoi = 0
  <2>1. IsOpen(buf)
    BY <1>1, <1>3, <1>6 DEF IsFirst, IsOpen
  <2>2. n = IF Len(buf) > kMaxFrameLen THEN -1 ELSE 0
    BY <1>6, <1>10 DEF c
  <2>3. QED  BY <2>1, <2>2 DEF n
<1>7. CASE soi = 1 /\ eoi # 0
  <2>1. eoi \in 1..Len(buf) /\ Closes(buf, eoi)
    BY <1>1, <1>3, <1>7 DEF IsFirst, Closes
  <2>2. IsBody(SubSeq(buf, 2, eoi - 1)) <=> Intact(buf, eoi)
    <3>1. \A i \in 2..(eoi - 1) : buf[i] \in T
      BY <1>3, <2>1, ElementOfSeq
    <3>2. /\ Len(SubSeq(buf, 2, eoi - 1)) = IF 2 <= eoi - 1 THEN eoi - 1 - 2 + 1 ELSE 0
          /\ \A i \in 1..(eoi - 1 - 2 + 1) : SubSeq(buf, 2, eoi - 1)[i] = buf[2 + i - 1]
      BY <1>3, <2>1, <3>1, SubSeqProperties
    <3>3. Len(SubSeq(buf, 2, eoi - 1)) = 1 <=> eoi = 3
      BY <1>3, <2>1, <3>2
    <3>4. eoi = 3 => SubSeq(buf, 2, eoi - 1)[1] = buf[2]
      BY <3>2
    <3>5. QED  BY <3>3, <3>4, Zenon DEF IsBody, Intact
  <2>3. n = IF Intact(buf, eoi) THEN eoi ELSE -eoi
    BY <1>7, <1>10, <2>2 DEF d
  <2>4. QED  BY <2>1, <2>3 DEF n
<1>11. QED  BY <1>4, <1>5, <1>6, <1>7, <1>8

-----------------------------------------------------------------------------
(* What process_buffer() and feed() take from it *)

\* The body of TakeFrames: what becomes of buf if f is what becomes of the rest.
TakeStep(f, buf) ==
    LET n == try_parse_pylontech(buf)
    IN  CASE buf = <<>> \/ n = 0 -> [rest |-> buf, bodies |-> <<>>]
          [] n < 0 -> f[SubSeq(buf, 1 - n, Len(buf))]
          [] OTHER -> LET tail == f[SubSeq(buf, n + 1, Len(buf))]
                      IN  [tail EXCEPT !.bodies = <<buf[2]>> \o @]

LEMMA ParseNil == try_parse_pylontech(<<>>) = 0
<1> DEFINE soi == First(<<>>, SOI)
           eoi == First(<<>>, EOI)
           n == try_parse_pylontech(<<>>)
           b == -(soi - 1)
           c == IF Len(<<>>) > kMaxFrameLen THEN -1 ELSE 0
           d == IF IsBody(SubSeq(<<>>, 2, eoi - 1)) THEN eoi ELSE -eoi
<1>1. soi = 0 /\ ~(soi > 1) /\ soi # 1
  BY DEF First, SelectInSeq
<1>2. n = CASE soi = 0 -> -Len(<<>>)
            [] soi > 1 -> b
            [] soi = 1 /\ eoi = 0 -> c
            [] OTHER -> d
  BY Zenon DEF try_parse_pylontech, First
<1> HIDE DEF n, b, c, d
<1>3. n = -Len(<<>>)
  BY <1>1, <1>2, Zenon
<1>4. QED  BY <1>3 DEF n

LEMMA ParseRange ==
    ASSUME NEW T, NEW buf \in Seq(T), buf # <<>>
    PROVE  /\ try_parse_pylontech(buf) \in Int
           /\ try_parse_pylontech(buf) <= Len(buf)
           /\ -try_parse_pylontech(buf) <= Len(buf)
<1> DEFINE n == try_parse_pylontech(buf)
<1>1. Len(buf) \in Nat /\ Len(buf) >= 1
  BY EmptySeq
<1>2. \/ \E d \in 1..Len(buf) : n = -d
      \/ n = IF Len(buf) > kMaxFrameLen THEN -1 ELSE 0
      \/ \E e \in 1..Len(buf) : n = IF Intact(buf, e) THEN e ELSE -e
  BY ParseCases, Zenon
<1> HIDE DEF n
<1>3. QED  BY <1>1, <1>2 DEF n

\* It only asks for shorter buffers.
LEMMA StepLocal ==
    ASSUME NEW T, NEW buf \in Seq(T), NEW f, NEW g,
           \A r \in Seq(T) : Len(r) < Len(buf) => f[r] = g[r]
    PROVE  TakeStep(f, buf) = TakeStep(g, buf)
<1> DEFINE n == try_parse_pylontech(buf)
           a == SubSeq(buf, 1 - n, Len(buf))
           b == SubSeq(buf, n + 1, Len(buf))
<1>1. CASE buf = <<>> \/ n = 0
  <2>1. ~(n < 0)
    BY <1>1, ParseNil
  <2> HIDE DEF n
  <2>2. QED  BY <1>1, <2>1, Zenon DEF TakeStep, n
<1>2. CASE buf # <<>> /\ n < 0
  <2>1. n \in Int /\ -n <= Len(buf) /\ Len(buf) \in Nat
    BY <1>2, ParseRange, LenProperties
  <2> HIDE DEF n
  <2>2. a \in Seq(T) /\ Len(a) < Len(buf)
    <3>1. \A i \in (1 - n)..Len(buf) : buf[i] \in T
      BY <1>2, <2>1, ElementOfSeq
    <3>2. /\ a \in Seq(T)
          /\ Len(a) = IF 1 - n <= Len(buf) THEN Len(buf) - (1 - n) + 1 ELSE 0
      BY <2>1, <3>1, SubSeqProperties
    <3>3. QED  BY <1>2, <2>1, <3>2
  <2>3. f[a] = g[a]
    BY <2>2
  <2>4. ~(buf = <<>> \/ n = 0) /\ n < 0
    BY <1>2, <2>1
  <2>5. QED  BY <2>3, <2>4, Zenon DEF TakeStep, n
<1>3. CASE buf # <<>> /\ ~(n < 0) /\ n # 0
  <2>1. n \in Int /\ n <= Len(buf) /\ Len(buf) \in Nat
    BY <1>3, ParseRange, LenProperties
  <2> HIDE DEF n
  <2>2. b \in Seq(T) /\ Len(b) < Len(buf)
    <3>1. \A i \in (n + 1)..Len(buf) : buf[i] \in T
      BY <1>3, <2>1, ElementOfSeq
    <3>2. /\ b \in Seq(T)
          /\ Len(b) = IF n + 1 <= Len(buf) THEN Len(buf) - (n + 1) + 1 ELSE 0
      BY <2>1, <3>1, SubSeqProperties
    <3>3. QED  BY <1>3, <2>1, <3>2
  <2>3. f[b] = g[b]
    BY <2>2
  <2>4. ~(buf = <<>> \/ n = 0) /\ ~(n < 0)
    BY <1>3
  <2>5. QED  BY <2>3, <2>4, Zenon DEF TakeStep, n
<1>4. QED  BY <1>1, <1>2, <1>3

UpTo(n) == {s \in Seq(Symbols) : Len(s) <= n}

\* The function for the buffers of at most n symbols.
IsTake(f, n) == f = [buf \in UpTo(n) |-> TakeStep(f, buf)]

LEMMA TakeExists ==
    \A n \in Nat : \E f : IsTake(f, n)
<1> DEFINE P == {n \in Nat : \E f : IsTake(f, n)}
<1>1. ASSUME NEW n \in Nat, \A m \in Nat : m < n => m \in P
      PROVE  n \in P
  <2>1. PICK f : n = 0 \/ IsTake(f, n - 1)
    <3>1. CASE n # 0
      <4>1. n - 1 \in Nat /\ n - 1 < n
        BY <3>1
      <4>2. QED  BY <1>1, <4>1
    <3>2. QED  BY <3>1
  <2> DEFINE g == [buf \in UpTo(n) |-> TakeStep(f, buf)]
  <2>2. ASSUME NEW buf \in UpTo(n) PROVE TakeStep(f, buf) = TakeStep(g, buf)
    <3>1. buf \in Seq(Symbols) /\ Len(buf) <= n
      BY DEF UpTo
    <3>2. ASSUME NEW r \in Seq(Symbols), Len(r) < Len(buf) PROVE f[r] = g[r]
      <4>1. Len(r) \in Nat /\ Len(buf) \in Nat
        BY <3>1, LenProperties
      <4>2. n # 0 /\ r \in UpTo(n - 1) /\ r \in UpTo(n)
        BY <3>1, <3>2, <4>1 DEF UpTo
      <4>3. f[r] = TakeStep(f, r)
        BY <2>1, <4>2, Zenon DEF IsTake
      <4>4. QED  BY <4>2, <4>3, Zenon
    <3> HIDE DEF g
    <3>3. QED  BY <3>1, <3>2, StepLocal
  <2>3. g = [buf \in UpTo(n) |-> TakeStep(g, buf)]
    BY <2>2
  <2> HIDE DEF g
  <2>4. IsTake(g, n)
    BY <2>3, Zenon DEF IsTake
  <2>5. QED  BY <2>4
<1> HIDE DEF P
<1>2. \A n \in Nat : n \in P
  BY <1>1, Induction
<1>3. QED  BY <1>2 DEF P

LEMMA TakeUnique ==
    ASSUME NEW n \in Nat, NEW m \in Nat, NEW f, NEW g, IsTake(f, n), IsTake(g, m)
    PROVE  \A r \in Seq(Symbols) : Len(r) <= n /\ Len(r) <= m => f[r] = g[r]
<1> DEFINE P == {r \in Seq(Symbols) : Len(r) <= n /\ Len(r) <= m => f[r] = g[r]}
<1>1. ASSUME NEW s \in Seq(Symbols), \A r \in Seq(Symbols) : Len(r) < Len(s) => r \in P
      PROVE  s \in P
  <2>1. SUFFICES ASSUME Len(s) <= n, Len(s) <= m PROVE f[s] = g[s]
    OBVIOUS
  <2>2. ASSUME NEW r \in Seq(Symbols), Len(r) < Len(s) PROVE f[r] = g[r]
    <3>1. Len(r) \in Nat /\ Len(s) \in Nat
      BY LenProperties
    <3>2. r \in P /\ Len(r) <= n /\ Len(r) <= m
      BY <1>1, <2>1, <2>2, <3>1
    <3>3. QED  BY <3>2
  <2>3. TakeStep(f, s) = TakeStep(g, s)
    BY <2>2, StepLocal
  <2>4. s \in UpTo(n) /\ s \in UpTo(m)
    BY <2>1 DEF UpTo
  <2>5. f[s] = TakeStep(f, s) /\ g[s] = TakeStep(g, s)
    BY <2>4, Zenon DEF IsTake
  <2>6. QED  BY <2>3, <2>5
<1> HIDE DEF P
<1>2. \A r \in Seq(Symbols) : r \in P
  BY <1>1, LengthInduction
<1>3. QED  BY <1>2 DEF P

\* TakeFrames is the function its definition asks for.
LEMMA TakeEquation ==
    \A buf \in Seq(Symbols) : TakeFrames[buf] = TakeStep(TakeFrames, buf)
<1> DEFINE Upto(n) == CHOOSE f : IsTake(f, n)
           h == [buf \in Seq(Symbols) |-> Upto(Len(buf))[buf]]
<1>1. ASSUME NEW n \in Nat PROVE IsTake(Upto(n), n)
  BY TakeExists, Zenon
<1> HIDE DEF Upto
<1>2. ASSUME NEW buf \in Seq(Symbols) PROVE h[buf] = TakeStep(h, buf)
  <2> DEFINE f == Upto(Len(buf))
  <2>1. Len(buf) \in Nat
    BY LenProperties
  <2>2. IsTake(f, Len(buf)) /\ h[buf] = f[buf]
    BY <1>1, <2>1
  <2>3. f[buf] = TakeStep(f, buf)
    <3>1. buf \in UpTo(Len(buf))
      BY <2>1 DEF UpTo
    <3> HIDE DEF f
    <3>2. QED  BY <2>2, <3>1, Zenon DEF IsTake
  <2>4. ASSUME NEW r \in Seq(Symbols), Len(r) < Len(buf) PROVE f[r] = h[r]
    <3>1. Len(r) \in Nat /\ Len(r) <= Len(r) /\ Len(r) <= Len(buf)
      BY <2>1, <2>4, LenProperties
    <3>2. IsTake(Upto(Len(r)), Len(r)) /\ h[r] = Upto(Len(r))[r]
      BY <1>1, <3>1
    <3> HIDE DEF f, h
    <3>3. f[r] = Upto(Len(r))[r]
      BY <2>1, <2>2, <3>1, <3>2, TakeUnique
    <3>4. QED  BY <3>2, <3>3
  <2> HIDE DEF f, h
  <2>5. TakeStep(f, buf) = TakeStep(h, buf)
    BY <2>4, StepLocal
  <2>6. QED  BY <2>2, <2>3, <2>5
<1>3. h = [buf \in Seq(Symbols) |-> h[buf]]
  OBVIOUS
<1> HIDE DEF h
<1>4. h = [buf \in Seq(Symbols) |-> TakeStep(h, buf)]
  BY <1>2, <1>3
<1>5. TakeFrames = CHOOSE f : f = [buf \in Seq(Symbols) |-> TakeStep(f, buf)]
  BY Zenon DEF TakeFrames, TakeStep
<1>6. TakeFrames = [buf \in Seq(Symbols) |-> TakeStep(TakeFrames, buf)]
  BY <1>4, <1>5, Zenon
<1>7. QED  BY <1>6, Zenon

\* What is left of buf after its first d symbols.
Rest(buf, d) == SubSeq(buf, d + 1, Len(buf))

LEMMA RestIs ==
    ASSUME NEW T, NEW buf \in Seq(T), NEW d \in 1..Len(buf)
    PROVE  /\ Rest(buf, d) \in Seq(T)
           /\ Len(Rest(buf, d)) = Len(buf) - d
           /\ \A i \in 1..(Len(buf) - d) : Rest(buf, d)[i] = buf[i + d]
<1>1. Len(buf) \in Nat
  BY LenProperties
<1>2. \A i \in (d + 1)..Len(buf) : buf[i] \in T
  BY <1>1, ElementOfSeq
<1>3. /\ Rest(buf, d) \in Seq(T)
      /\ Len(Rest(buf, d)) = IF d + 1 <= Len(buf) THEN Len(buf) - (d + 1) + 1 ELSE 0
      /\ \A i \in 1..(Len(buf) - (d + 1) + 1) : Rest(buf, d)[i] = buf[(d + 1) + i - 1]
  BY <1>1, <1>2, SubSeqProperties DEF Rest
<1>4. Len(Rest(buf, d)) = Len(buf) - d
  BY <1>1, <1>3
<1>5. ASSUME NEW i \in 1..(Len(buf) - d) PROVE Rest(buf, d)[i] = buf[i + d]
  <2>1. i \in 1..(Len(buf) - (d + 1) + 1) /\ (d + 1) + i - 1 = i + d
    BY <1>1
  <2>2. QED  BY <1>3, <2>1
<1>6. QED  BY <1>3, <1>4, <1>5

LEMMA TakeNil == TakeFrames[<<>>] = [rest |-> <<>>, bodies |-> <<>>]
<1>1. <<>> \in Seq(Symbols)
  OBVIOUS
<1>2. TakeFrames[<<>>] = TakeStep(TakeFrames, <<>>)
  BY <1>1, TakeEquation
<1>3. ~(try_parse_pylontech(<<>>) < 0)
  BY ParseNil
<1>4. QED  BY <1>2, <1>3, Zenon DEF TakeStep

\* What process_buffer() does with a buffer: it drops what precedes a frame, waits
\* for the end of one, gives up on one that is too long, and drops or hands on a
\* closed one.
THEOREM TakeCases ==
    ASSUME NEW buf \in Seq(Symbols), buf # <<>>
    PROVE  \/ \E d \in 1..Len(buf) : Junk(buf, d) /\ TakeFrames[buf] = TakeFrames[Rest(buf, d)]
           \/ /\ IsOpen(buf) /\ ~(Len(buf) > kMaxFrameLen)
              /\ TakeFrames[buf] = [rest |-> buf, bodies |-> <<>>]
           \/ /\ IsOpen(buf) /\ Len(buf) > kMaxFrameLen
              /\ TakeFrames[buf] = TakeFrames[Rest(buf, 1)]
           \/ \E e \in 1..Len(buf) :
                 /\ Closes(buf, e) /\ ~Intact(buf, e)
                 /\ TakeFrames[buf] = TakeFrames[Rest(buf, e)]
           \/ \E e \in 1..Len(buf) :
                 /\ Closes(buf, e) /\ Intact(buf, e)
                 /\ TakeFrames[buf] = [TakeFrames[Rest(buf, e)] EXCEPT !.bodies = <<buf[2]>> \o @]
<1> DEFINE n == try_parse_pylontech(buf)
<1>1. TakeFrames[buf] = TakeStep(TakeFrames, buf)
  BY TakeEquation
<1>2. Len(buf) \in Nat /\ Len(buf) >= 1
  BY EmptySeq
<1>3. ASSUME NEW d \in 1..Len(buf), n = -d
      PROVE  TakeFrames[buf] = TakeFrames[Rest(buf, d)]
  <2>1. n < 0 /\ n # 0 /\ 1 - n = d + 1
    BY <1>2, <1>3
  <2> HIDE DEF n
  <2>2. TakeStep(TakeFrames, buf) = TakeFrames[SubSeq(buf, 1 - n, Len(buf))]
    BY <2>1, Zenon DEF TakeStep, n
  <2>3. QED  BY <1>1, <2>1, <2>2 DEF Rest
<1>4. ASSUME NEW e \in 1..Len(buf), n = e
      PROVE  TakeFrames[buf] = [TakeFrames[Rest(buf, e)] EXCEPT !.bodies = <<buf[2]>> \o @]
  <2>1. ~(n < 0) /\ n # 0
    BY <1>2, <1>4
  <2> DEFINE tail == TakeFrames[SubSeq(buf, n + 1, Len(buf))]
  <2> HIDE DEF n
  <2>2. TakeStep(TakeFrames, buf) = [tail EXCEPT !.bodies = <<buf[2]>> \o @]
    BY <2>1, Zenon DEF TakeStep, n
  <2>3. tail = TakeFrames[Rest(buf, e)]
    BY <1>4 DEF Rest
  <2> HIDE DEF tail
  <2>4. QED  BY <1>1, <2>2, <2>3, Zenon
<1>5. CASE \E d \in 1..Len(buf) : Junk(buf, d) /\ n = -d
  BY <1>3, <1>5, Zenon
<1>6. CASE IsOpen(buf) /\ n = IF Len(buf) > kMaxFrameLen THEN -1 ELSE 0
  <2>1. CASE Len(buf) > kMaxFrameLen
    <3>1. n = -1 /\ 1 \in 1..Len(buf)
      BY <1>2, <1>6, <2>1
    <3>2. TakeFrames[buf] = TakeFrames[Rest(buf, 1)]
      BY <1>3, <3>1
    <3>3. QED  BY <1>6, <2>1, <3>2
  <2>2. CASE ~(Len(buf) > kMaxFrameLen)
    <3>1. n = 0 /\ ~(n < 0)
      BY <1>6, <2>2
    <3> HIDE DEF n
    <3>2. TakeStep(TakeFrames, buf) = [rest |-> buf, bodies |-> <<>>]
      BY <3>1, Zenon DEF TakeStep, n
    <3>3. QED  BY <1>1, <1>6, <2>2, <3>2
  <2>3. QED  BY <2>1, <2>2
<1>7. CASE \E e \in 1..Len(buf) : Closes(buf, e) /\ n = IF Intact(buf, e) THEN e ELSE -e
  <2>1. PICK e \in 1..Len(buf) : Closes(buf, e) /\ n = IF Intact(buf, e) THEN e ELSE -e
    BY <1>7
  <2>2. CASE Intact(buf, e)
    <3>1. n = e
      BY <2>1, <2>2
    <3> HIDE DEF n
    <3>2. TakeFrames[buf] = [TakeFrames[Rest(buf, e)] EXCEPT !.bodies = <<buf[2]>> \o @]
      BY <1>4, <3>1
    <3>3. QED  BY <2>1, <2>2, <3>2, Zenon
  <2>3. CASE ~Intact(buf, e)
    <3>1. n = -e
      BY <2>1, <2>3
    <3> HIDE DEF n
    <3>2. TakeFrames[buf] = TakeFrames[Rest(buf, e)]
      BY <1>3, <3>1
    <3>3. QED  BY <2>1, <2>3, <3>2, Zenon
  <2>4. QED  BY <2>2, <2>3
<1>8. QED  BY <1>5, <1>6, <1>7, ParseCases

\* What comes out of process_buffer(): an unfinished frame within the limit, and
\* bodies that went in.
THEOREM TakeType ==
    ASSUME NEW S \in SUBSET Symbols, kMaxFrameLen \in Nat
    PROVE  \A buf \in Seq(S) :
               LET taken == TakeFrames[buf]
               IN  /\ taken \in [rest : Seq(S), bodies : Seq(S \cap Bodies)]
                   /\ taken.rest # <<>> =>
                          IsOpen(taken.rest) /\ Len(taken.rest) <= kMaxFrameLen
<1> DEFINE Good(t) == /\ t \in [rest : Seq(S), bodies : Seq(S \cap Bodies)]
                      /\ t.rest # <<>> => IsOpen(t.rest) /\ Len(t.rest) <= kMaxFrameLen
           P == {buf \in Seq(S) : Good(TakeFrames[buf])}
<1>1. ASSUME NEW buf \in Seq(S), \A r \in Seq(S) : Len(r) < Len(buf) => r \in P
      PROVE  buf \in P
  <2>1. CASE buf = <<>>
    <3>1. TakeFrames[buf] = [rest |-> <<>>, bodies |-> <<>>]
      BY <2>1, TakeNil
    <3>2. <<>> \in Seq(S) /\ <<>> \in Seq(S \cap Bodies)
      OBVIOUS
    <3>3. Good([rest |-> <<>>, bodies |-> <<>>])
      BY <3>2
    <3> HIDE DEF Good
    <3>4. QED  BY <3>1, <3>3
  <2>2. CASE buf # <<>>
    <3>1. buf \in Seq(Symbols) /\ Len(buf) \in Nat
      BY LenProperties, SeqMonotonic
    <3>2. ASSUME NEW d \in 1..Len(buf) PROVE Good(TakeFrames[Rest(buf, d)])
      <4>1. Rest(buf, d) \in Seq(S) /\ Len(Rest(buf, d)) < Len(buf)
        BY <3>1, RestIs
      <4>2. QED  BY <1>1, <4>1
    <3>3. CASE IsOpen(buf) /\ ~(Len(buf) > kMaxFrameLen)
                 /\ TakeFrames[buf] = [rest |-> buf, bodies |-> <<>>]
      <4>1. <<>> \in Seq(S \cap Bodies) /\ Len(buf) <= kMaxFrameLen
        BY <3>1, <3>3
      <4>2. Good([rest |-> buf, bodies |-> <<>>])
        BY <3>3, <4>1
      <4> HIDE DEF Good
      <4>3. QED  BY <3>3, <4>2
    <3>4. ASSUME NEW e \in 1..Len(buf), Closes(buf, e), Intact(buf, e),
                 TakeFrames[buf] = [TakeFrames[Rest(buf, e)] EXCEPT !.bodies = <<buf[2]>> \o @]
          PROVE  Good(TakeFrames[buf])
      <4> DEFINE t == TakeFrames[Rest(buf, e)]
      <4>1. Good(t)
        BY <3>2
      <4>2. buf[2] \in S \cap Bodies
        <5>1. 2 \in 1..Len(buf)
          BY <3>1, <3>4 DEF Closes, Intact
        <5>2. QED  BY <5>1, <3>4, ElementOfSeq DEF Intact
      <4> HIDE DEF t
      <4>3. <<buf[2]>> \in Seq(S \cap Bodies)
        BY <4>2
      <4>4. <<buf[2]>> \o t.bodies \in Seq(S \cap Bodies)
        BY <4>1, <4>3, ConcatProperties
      <4>5. TakeFrames[buf] = [t EXCEPT !.bodies = <<buf[2]>> \o @]
        BY <3>4 DEF t
      <4>6. QED  BY <4>1, <4>4, <4>5
    <3>5. Good(TakeFrames[buf])
      <4> HIDE DEF Good
      <4>1. 1 \in 1..Len(buf)
        BY <2>2, EmptySeq
      <4>2. QED  BY <2>2, <3>1, <3>2, <3>3, <3>4, <4>1, TakeCases
    <3>6. QED  BY <3>5
  <2>3. QED  BY <2>1, <2>2
<1> HIDE DEF P
<1>2. \A buf \in Seq(S) : buf \in P
  BY <1>1, LengthInduction
<1>3. QED  BY <1>2 DEF P
=============================================================================
