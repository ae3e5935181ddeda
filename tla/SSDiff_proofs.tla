---------------------------- MODULE SSDiff_proofs ----------------------------
(***************************************************************************)
(* Proofs about the diff, for every sequence of file pairs, whatever their *)
(* number and length, and for every context: side by side no line is lost, *)
(* moved or put next to a line that it did not replace; the numbers that   *)
(* are printed are those of the lines; and the statistic counts what the   *)
(* diff then shows.                                                        *)
(***************************************************************************)
EXTENDS SSDiff, FiniteSetTheorems, SequenceTheorems, WellFoundedInduction, TLAPS

-----------------------------------------------------------------------------
(* Numbers *)

\* A set of numbers with 0 and the successor of each of its members has them all.
LEMMA SetInduction ==
    ASSUME NEW S \in SUBSET Nat, 0 \in S, \A n \in S : n + 1 \in S
    PROVE  S = Nat
<1> SUFFICES ASSUME Nat \ S # {} PROVE FALSE
  OBVIOUS
<1> DEFINE R == OpToRel(<, Nat)
<1>1. PICK x \in Nat \ S : \A y \in Nat \ S : ~ (<<y, x>> \in R)
  <2>1. IsWellFoundedOn(R, Nat)
    BY NatLessThanWellFounded
  <2> HIDE DEF R
  <2> QED BY <2>1, WFMin
<1>2. \A y \in Nat \ S : ~ (y < x)
  <2>1. \A y \in Nat : y < x => <<y, x>> \in R
    BY DEF R, OpToRel
  <2> QED BY <1>1, <2>1
<1>3. x # 0 /\ x - 1 \in Nat
  OBVIOUS
<1>4. x - 1 \in S
  BY <1>2, <1>3
<1> QED BY <1>3, <1>4

-----------------------------------------------------------------------------
(* FlattenSeq *)

\* f[i] is what the first i sequences of q make
Joins(q, f) == f = [i \in 1 .. Len(q) |-> IF i = 1 THEN q[i] ELSE f[i - 1] \o q[i]]

\* A sequence may be added to those that are joined.
LEMMA JoinsExtend ==
    ASSUME NEW S, NEW q \in Seq(Seq(S)), NEW b \in Seq(S), NEW f, Joins(q, f)
    PROVE  \E g : Joins(Append(q, b), g)
<1> DEFINE n == Len(q)
           p == Append(q, b)
           g == [i \in 1 .. n + 1 |->
                    IF i <= n THEN f[i] ELSE IF n = 0 THEN b ELSE f[n] \o b]
<1>1. n \in Nat /\ Len(p) = n + 1 /\ p[n + 1] = b /\ \A i \in 1 .. n : p[i] = q[i]
  OBVIOUS
<1>2. \A i \in 1 .. n : f[i] = IF i = 1 THEN q[i] ELSE f[i - 1] \o q[i]
  BY DEF Joins
<1> HIDE DEF n, p
<1>3. ASSUME NEW i \in 1 .. n + 1
      PROVE  g[i] = IF i = 1 THEN p[i] ELSE g[i - 1] \o p[i]
  <2>1. CASE i <= n
    BY <2>1, <1>1, <1>2, <1>3
  <2>2. CASE i = n + 1
    BY <2>2, <1>1, <1>2, <1>3
  <2> QED
    BY <2>1, <2>2, <1>1, <1>3
<1>4. g = [i \in 1 .. n + 1 |-> IF i = 1 THEN p[i] ELSE g[i - 1] \o p[i]]
  BY <1>3
<1> HIDE DEF g
<1> QED
  BY <1>1, <1>4 DEF Joins, p

\* Any number of sequences can be joined.
LEMMA JoinsExist ==
    ASSUME NEW S, NEW q \in Seq(Seq(S)) PROVE \E f : Joins(q, f)
<1> DEFINE P == {n \in Nat : \A r \in Seq(Seq(S)) : Len(r) = n => \E f : Joins(r, f)}
<1>1. 0 \in P
  <2> SUFFICES ASSUME NEW r \in Seq(Seq(S)), Len(r) = 0 PROVE \E f : Joins(r, f)
    OBVIOUS
  <2> DEFINE f == [i \in {} |-> 0]
  <2>1. f = [i \in 1 .. Len(r) |-> IF i = 1 THEN r[i] ELSE f[i - 1] \o r[i]]
    OBVIOUS
  <2> QED
    BY <2>1 DEF Joins
<1>2. ASSUME NEW n \in P PROVE n + 1 \in P
  <2> SUFFICES ASSUME NEW r \in Seq(Seq(S)), Len(r) = n + 1 PROVE \E f : Joins(r, f)
    OBVIOUS
  <2> DEFINE q0 == SubSeq(r, 1, n)
  <2>1. q0 \in Seq(Seq(S)) /\ Len(q0) = n /\ r[n + 1] \in Seq(S)
    OBVIOUS
  <2>2. r = Append(q0, r[n + 1])
    OBVIOUS
  <2> HIDE DEF q0
  <2>3. PICK f : Joins(q0, f)
    BY <2>1, <1>2
  <2> QED
    BY <2>1, <2>2, <2>3, JoinsExtend
<1> HIDE DEF P
<1>3. P = Nat
  BY <1>1, <1>2, SetInduction, P \subseteq Nat DEF P
<1> QED
  BY <1>3 DEF P

\* Two such functions agree as far as their sequences do
LEMMA JoinsAgree ==
    ASSUME NEW S, NEW q \in Seq(Seq(S)), NEW r \in Seq(Seq(S)), NEW f, NEW g,
           Joins(q, f), Joins(r, g), Len(q) <= Len(r),
           \A i \in 1 .. Len(q) : q[i] = r[i]
    PROVE  \A i \in 1 .. Len(q) : f[i] = g[i] /\ f[i] \in Seq(S)
<1> DEFINE P == {n \in Nat : n \in 1 .. Len(q) => f[n] = g[n] /\ f[n] \in Seq(S)}
<1>1. /\ \A i \in 1 .. Len(q) : f[i] = IF i = 1 THEN q[i] ELSE f[i - 1] \o q[i]
      /\ \A i \in 1 .. Len(r) : g[i] = IF i = 1 THEN r[i] ELSE g[i - 1] \o r[i]
  BY DEF Joins
<1>2. 0 \in P
  OBVIOUS
<1>3. ASSUME NEW n \in P PROVE n + 1 \in P
  <2> SUFFICES ASSUME n + 1 \in 1 .. Len(q)
               PROVE  f[n + 1] = g[n + 1] /\ f[n + 1] \in Seq(S)
    OBVIOUS
  <2>1. q[n + 1] = r[n + 1] /\ q[n + 1] \in Seq(S) /\ n + 1 \in 1 .. Len(r)
    OBVIOUS
  <2>2. CASE n = 0
    BY <2>1, <2>2, <1>1
  <2>3. CASE n # 0
    <3>1. n \in 1 .. Len(q)
      BY <2>3
    <3>2. f[n] = g[n] /\ f[n] \in Seq(S)
      BY <3>1, <1>3
    <3>3. f[n + 1] = f[n] \o q[n + 1] /\ g[n + 1] = g[n] \o r[n + 1]
      <4>1. n + 1 # 1 /\ (n + 1) - 1 = n
        BY <2>3
      <4>2. f[n + 1] = IF n + 1 = 1 THEN q[n + 1] ELSE f[(n + 1) - 1] \o q[n + 1]
        BY <1>1
      <4>3. g[n + 1] = IF n + 1 = 1 THEN r[n + 1] ELSE g[(n + 1) - 1] \o r[n + 1]
        BY <1>1, <2>1
      <4> QED
        BY <4>1, <4>2, <4>3
    <3> QED
      BY <3>2, <3>3, <2>1
  <2> QED
    BY <2>2, <2>3
<1> HIDE DEF P
<1>4. P = Nat
  BY <1>2, <1>3, SetInduction, P \subseteq Nat DEF P
<1>5. \A i \in 1 .. Len(q) : i \in P
  BY <1>4
<1> QED
  BY <1>5 DEF P

\* Nothing makes nothing.
LEMMA FlattenEmpty == FlattenSeq(<<>>) = <<>>
  BY DEF FlattenSeq

\* FlattenSeq is what all of its sequences make.
LEMMA FlattenIs ==
    ASSUME NEW S, NEW q \in Seq(Seq(S)), q # <<>>
    PROVE  \E f : Joins(q, f) /\ FlattenSeq(q) = f[Len(q)]
<1> DEFINE h == CHOOSE f : f = [i \in 1 .. Len(q) |->
                                   IF i = 1 THEN q[i] ELSE f[i - 1] \o q[i]]
<1>1. Joins(q, h)
  BY JoinsExist DEF Joins
<1>2. FlattenSeq(q) = h[Len(q)]
  BY Len(q) # 0 DEF FlattenSeq
<1> QED
  BY <1>1, <1>2

\* The last sequence comes last.
LEMMA FlattenAppend ==
    ASSUME NEW S, NEW q \in Seq(Seq(S)), NEW b \in Seq(S)
    PROVE  /\ FlattenSeq(q) \in Seq(S)
           /\ FlattenSeq(Append(q, b)) = FlattenSeq(q) \o b
<1> DEFINE p == Append(q, b)
<1>1. p \in Seq(Seq(S)) /\ p # <<>> /\ Len(p) = Len(q) + 1 /\ Len(q) \in Nat
      /\ p[Len(p)] = b /\ \A i \in 1 .. Len(q) : q[i] = p[i]
  <2>1. p \in Seq(Seq(S)) /\ Len(p) = Len(q) + 1 /\ p[Len(q) + 1] = b
    BY AppendProperties
  <2>2. \A i \in 1 .. Len(q) : q[i] = p[i]
    BY AppendProperties
  <2>3. Len(q) \in Nat
    BY LenProperties
  <2> HIDE DEF p
  <2>4. p # <<>>
    BY <2>1, <2>3, EmptySeq
  <2> QED
    BY <2>1, <2>2, <2>3, <2>4
<1> HIDE DEF p
<1>2. PICK g : Joins(p, g) /\ FlattenSeq(p) = g[Len(p)]
  BY <1>1, FlattenIs
<1>3. \A i \in 1 .. Len(p) : g[i] = IF i = 1 THEN p[i] ELSE g[i - 1] \o p[i]
  BY <1>2 DEF Joins
<1>4. CASE q = <<>>
  <2>1. FlattenSeq(p) = b
    BY <1>1, <1>2, <1>3, <1>4
  <2>2. FlattenSeq(q) = <<>> /\ <<>> \in Seq(S) /\ <<>> \o b = b
    BY <1>4, FlattenEmpty, ConcatEmptySeq, EmptySeq
  <2> QED
    BY <2>1, <2>2 DEF p
<1>5. CASE q # <<>>
  <2>1. PICK f : Joins(q, f) /\ FlattenSeq(q) = f[Len(q)]
    BY <1>5, FlattenIs
  <2>2. Len(q) \in 1 .. Len(q)
    BY <1>5, <1>1
  <2>3. f[Len(q)] = g[Len(q)] /\ f[Len(q)] \in Seq(S)
    <3>1. Len(q) <= Len(p)
      BY <1>1
    <3>2. \A i \in 1 .. Len(q) : f[i] = g[i] /\ f[i] \in Seq(S)
      BY <2>1, <3>1, <1>1, <1>2, JoinsAgree
    <3> QED
      BY <3>2, <2>2
  <2>4. g[Len(p)] = g[Len(q)] \o b
    <3>1. Len(p) \in 1 .. Len(p) /\ Len(p) # 1 /\ Len(p) - 1 = Len(q)
      BY <2>2, <1>1
    <3>2. g[Len(p)] = IF Len(p) = 1 THEN p[Len(p)] ELSE g[Len(p) - 1] \o p[Len(p)]
      BY <3>1, <1>3
    <3> QED
      BY <3>1, <3>2, <1>1
  <2> QED
    BY <2>1, <2>3, <2>4, <1>2 DEF p
<1> QED
  BY <1>4, <1>5

\* Sequences may be joined in any grouping.
LEMMA Associative == \A S : \A x, y, z \in Seq(S) : (x \o y) \o z = x \o (y \o z)
  BY ConcatAssociative

\* What two parts make is what each makes, one after the other.
LEMMA FlattenConcat ==
    ASSUME NEW S, NEW q \in Seq(Seq(S)), NEW r \in Seq(Seq(S))
    PROVE  FlattenSeq(q \o r) = FlattenSeq(q) \o FlattenSeq(r)
<1> DEFINE P == {n \in Nat : \A u \in Seq(Seq(S)) :
                     Len(u) = n => FlattenSeq(q \o u) = FlattenSeq(q) \o FlattenSeq(u)}
<1>0. /\ \A x, y, z \in Seq(S) : (x \o y) \o z = x \o (y \o z)
      /\ \A x, y, z \in Seq(Seq(S)) : (x \o y) \o z = x \o (y \o z)
      /\ \A x, y \in Seq(Seq(S)) : x \o y \in Seq(Seq(S))
  <2>1. \A x, y, z \in Seq(S) : (x \o y) \o z = x \o (y \o z)
    BY Associative
  <2>2. \A x, y, z \in Seq(Seq(S)) : (x \o y) \o z = x \o (y \o z)
    <3> DEFINE T == Seq(S)
    <3> HIDE DEF T
    <3>1. \A x, y, z \in Seq(T) : (x \o y) \o z = x \o (y \o z)
      BY Associative
    <3> QED
      BY <3>1 DEF T
  <2>3. \A x, y \in Seq(Seq(S)) : x \o y \in Seq(Seq(S))
    BY ConcatProperties
  <2> QED
    BY <2>1, <2>2, <2>3
<1>1. 0 \in P
  <2> SUFFICES ASSUME NEW u \in Seq(Seq(S)), Len(u) = 0
               PROVE  FlattenSeq(q \o u) = FlattenSeq(q) \o FlattenSeq(u)
    OBVIOUS
  <2>1. u = <<>>
    BY EmptySeq
  <2>2. q \o u = q /\ FlattenSeq(u) = <<>> /\ FlattenSeq(q) \in Seq(S)
    BY <2>1, ConcatEmptySeq, FlattenEmpty, FlattenAppend, EmptySeq
  <2>3. FlattenSeq(q) \o <<>> = FlattenSeq(q)
    BY <2>2, ConcatEmptySeq
  <2> QED
    BY <2>2, <2>3
<1>2. ASSUME NEW n \in P PROVE n + 1 \in P
  <2> SUFFICES ASSUME NEW u \in Seq(Seq(S)), Len(u) = n + 1
               PROVE  FlattenSeq(q \o u) = FlattenSeq(q) \o FlattenSeq(u)
    OBVIOUS
  <2>1. PICK v \in Seq(Seq(S)), b \in Seq(S) : u = Append(v, b)
    <3>1. u # <<>>
      BY EmptySeq
    <3> QED
      BY <3>1, SequenceEmptyOrAppend
  <2>2. Len(v) = n
    BY <2>1, AppendProperties, LenProperties
  <2>3. FlattenSeq(q \o v) = FlattenSeq(q) \o FlattenSeq(v)
    BY <1>2, <2>2
  <2> HIDE DEF P
  <2>4. q \o u = Append(q \o v, b) /\ q \o v \in Seq(Seq(S))
    <3>1. Append(v, b) = v \o <<b>> /\ Append(q \o v, b) = (q \o v) \o <<b>>
      BY AppendIsConcat, ConcatProperties
    <3>2. <<b>> \in Seq(Seq(S))
      OBVIOUS
    <3>3. q \o u = q \o (v \o <<b>>)
      BY <3>1, <2>1
    <3>4. q \o (v \o <<b>>) = (q \o v) \o <<b>>
      BY <3>2, <1>0
    <3> QED
      BY <3>1, <3>3, <3>4, <1>0
  <2>5. /\ FlattenSeq(q \o u) = FlattenSeq(q \o v) \o b
        /\ FlattenSeq(u) = FlattenSeq(v) \o b
        /\ FlattenSeq(q) \in Seq(S) /\ FlattenSeq(v) \in Seq(S)
    BY <2>4, <2>1, FlattenAppend
  <2> QED
    <3>1. (FlattenSeq(q) \o FlattenSeq(v)) \o b = FlattenSeq(q) \o (FlattenSeq(v) \o b)
      <4> DEFINE x == FlattenSeq(q)
                 y == FlattenSeq(v)
      <4>1. x \in Seq(S) /\ y \in Seq(S)
        BY <2>5
      <4> HIDE DEF x, y
      <4>2. (x \o y) \o b = x \o (y \o b)
        BY <4>1, ConcatAssociative, SMTT(60)
      <4> QED
        BY <4>2 DEF x, y
    <3> QED
      BY <3>1, <2>3, <2>5
<1> HIDE DEF P
<1>3. P = Nat
  BY <1>1, <1>2, SetInduction, P \subseteq Nat DEF P
<1>4. Len(r) \in P
  BY <1>3, LenProperties
<1> QED
  BY <1>4 DEF P

\* The first cells are full and the others empty: what is flattened are the full ones
LEMMA FlattenCells ==
    ASSUME NEW S, NEW a \in Seq(S), NEW m \in Nat, Len(a) <= m
    PROVE  FlattenSeq([i \in 1 .. m |-> IF i <= Len(a) THEN <<a[i]>> ELSE <<>>]) = a
<1> DEFINE Q(n) == [i \in 1 .. n |-> IF i <= Len(a) THEN <<a[i]>> ELSE <<>>]
           U(n) == IF n <= Len(a) THEN SubSeq(a, 1, n) ELSE a
           P == {i \in Nat : Q(i) \in Seq(Seq(S)) /\ FlattenSeq(Q(i)) = U(i)}
<1>1. 0 \in P
  <2>1. Q(0) = <<>> /\ U(0) = <<>>
    OBVIOUS
  <2> QED
    BY <2>1, FlattenEmpty, EmptySeq
<1>2. ASSUME NEW n \in P PROVE n + 1 \in P
  <2> DEFINE b == IF n + 1 <= Len(a) THEN <<a[n + 1]>> ELSE <<>>
  <2>0. n \in Nat /\ Q(n) \in Seq(Seq(S)) /\ FlattenSeq(Q(n)) = U(n)
    BY <1>2
  <2>1. b \in Seq(S)
    OBVIOUS
  <2>2. Q(n + 1) = Append(Q(n), b)
    OBVIOUS
  <2> HIDE DEF Q
  <2>3. U(n + 1) = U(n) \o b
    <3>0. Len(a) \in Nat /\ SubSeq(a, 1, Len(a)) = a /\ a \o <<>> = a
      BY LenProperties, SubSeqFull, ConcatEmptySeq
    <3>5. Len(a) \in Nat
      BY LenProperties
    <3> HIDE DEF P
    <3>1. CASE n + 1 <= Len(a)
      <4>1. SubSeq(a, 1, n + 1) = SubSeq(a, 1, n) \o <<a[n + 1]>>
        BY <3>1, <2>0
      <4>2. n <= Len(a)
        BY <3>1, <2>0, <3>0
      <4> QED
        BY <4>1, <4>2, <3>1
    <3>2. CASE n = Len(a)
      <4>1. U(n + 1) = a /\ b = <<>> /\ U(n) = SubSeq(a, 1, Len(a))
        BY <3>2, <2>0, <3>5
      <4> QED
        BY <4>1, <3>0
    <3>3. CASE n > Len(a)
      <4>1. U(n + 1) = a /\ b = <<>> /\ U(n) = a
        BY <3>3, <2>0, <3>5
      <4> QED
        BY <4>1, <3>0
    <3>4. n + 1 <= Len(a) \/ n = Len(a) \/ n > Len(a)
      BY <3>5, <2>0
    <3> QED
      BY <3>1, <3>2, <3>3, <3>4
  <2> HIDE DEF Q, U, b
  <2>4. Q(n + 1) \in Seq(Seq(S)) /\ FlattenSeq(Q(n + 1)) = FlattenSeq(Q(n)) \o b
    <3>1. Append(Q(n), b) \in Seq(Seq(S))
      BY <2>0, <2>1, AppendProperties
    <3>2. FlattenSeq(Append(Q(n), b)) = FlattenSeq(Q(n)) \o b
      BY <2>0, <2>1, FlattenAppend
    <3> QED
      BY <3>1, <3>2, <2>2
  <2>6. n + 1 \in Nat
    BY <2>0
  <2>5. FlattenSeq(Q(n + 1)) = U(n + 1)
    BY <2>0, <2>3, <2>4, Zenon
  <2> QED
    BY <2>4, <2>5, <2>6, Zenon
<1> HIDE DEF P
<1>3. P = Nat
  BY <1>1, <1>2, SetInduction, P \subseteq Nat DEF P
<1>4. m \in P
  BY <1>3
<1>5. FlattenSeq(Q(m)) = U(m)
  BY <1>4 DEF P
<1>6. U(m) = a
  BY SubSeqFull
<1> HIDE DEF U
<1> QED
  BY <1>5, <1>6

-----------------------------------------------------------------------------
(* Records *)

LineT == [t : {"=", "-", "+"}, n : Nat \ {0}]
HunkT == [t : {"@"}, n : {0}, old : Nat, oldCount : Nat, new : Nat, newCount : Nat]
AnyLine == LineT \cup HunkT
QueueT == [n : Nat \ {0}, no : Int]
Classes == {"@", "=", "-", "+", "hunk", "ctx", "del", "add", "changed"}
RowT == [file : Nat, class : Classes, old : Nat, oldno : Int, new : Nat, newno : Int]

\* Only the header of a hunk has no text.
LEMMA AnyLineFacts ==
    ASSUME NEW l \in AnyLine
    PROVE  /\ l.n \in Nat
           /\ l.t \in {"@", "=", "-", "+"}
           /\ l.t = "@" => l.n = 0 /\ l \in HunkT
           /\ l.t # "@" => l.n # 0 /\ l \in LineT
  BY DEF AnyLine, LineT, HunkT

-----------------------------------------------------------------------------
(* What rows and lines show, one by one *)

\* c says what each element shows
FlatMap(c, s) == FlattenSeq([i \in DOMAIN s |-> c[s[i]]])

\* A sequence of values of a function
LEMMA MapType ==
    ASSUME NEW T, NEW U, NEW c \in [T -> U], NEW s \in Seq(T)
    PROVE  [i \in DOMAIN s |-> c[s[i]]] \in Seq(U)
<1>1. /\ Len(s) \in Nat /\ DOMAIN s = 1 .. Len(s)
      /\ \A i \in DOMAIN s : c[s[i]] \in U
  BY LenProperties
<1>2. [i \in 1 .. Len(s) |-> c[s[i]]] \in Seq(U)
  BY <1>1
<1> QED
  BY <1>1, <1>2

\* A sequence that is made of what a function makes of the members of another
LEMMA FlatMapType ==
    ASSUME NEW T, NEW c \in [T -> Seq(Nat)], NEW s \in Seq(T)
    PROVE  FlatMap(c, s) \in Seq(Nat)
<1> DEFINE m == [i \in DOMAIN s |-> c[s[i]]]
<1>1. m \in Seq(Seq(Nat)) /\ FlatMap(c, s) = FlattenSeq(m)
  BY MapType DEF FlatMap
<1>2. <<>> \in Seq(Nat)
  BY EmptySeq
<1> HIDE DEF m
<1> QED
  BY <1>1, <1>2, FlattenAppend

\* Part by part
LEMMA FlatMapConcat ==
    ASSUME NEW T, NEW c \in [T -> Seq(Nat)], NEW s \in Seq(T), NEW u \in Seq(T)
    PROVE  FlatMap(c, s \o u) = FlatMap(c, s) \o FlatMap(c, u)
<1> DEFINE m(x) == [i \in DOMAIN x |-> c[x[i]]]
<1>1. /\ s \o u \in Seq(T)
      /\ Len(s) \in Nat /\ DOMAIN s = 1 .. Len(s)
      /\ Len(u) \in Nat /\ DOMAIN u = 1 .. Len(u)
      /\ DOMAIN (s \o u) = 1 .. Len(s) + Len(u)
      /\ \A i \in 1 .. Len(s) + Len(u) :
            (s \o u)[i] = IF i <= Len(s) THEN s[i] ELSE u[i - Len(s)]
  BY ConcatProperties, LenProperties
<1>2. m(s) \in Seq(Seq(Nat)) /\ m(u) \in Seq(Seq(Nat)) /\ m(s \o u) \in Seq(Seq(Nat))
  BY <1>1, MapType
<1>3. /\ Len(m(s)) = Len(s) /\ Len(m(u)) = Len(u) /\ Len(m(s \o u)) = Len(s) + Len(u)
      /\ \A i \in 1 .. Len(s) : m(s)[i] = c[s[i]]
      /\ \A i \in 1 .. Len(u) : m(u)[i] = c[u[i]]
      /\ \A i \in 1 .. Len(s) + Len(u) : m(s \o u)[i] = c[(s \o u)[i]]
  BY <1>1
<1> DEFINE ms == m(s)
           mu == m(u)
           mb == m(s \o u)
<1> HIDE DEF m
<1>4. /\ ms \in Seq(Seq(Nat)) /\ mu \in Seq(Seq(Nat)) /\ mb \in Seq(Seq(Nat))
      /\ Len(ms) = Len(s) /\ Len(mu) = Len(u) /\ Len(mb) = Len(s) + Len(u)
      /\ \A i \in 1 .. Len(s) : ms[i] = c[s[i]]
      /\ \A i \in 1 .. Len(u) : mu[i] = c[u[i]]
      /\ \A i \in 1 .. Len(s) + Len(u) : mb[i] = c[(s \o u)[i]]
  BY <1>2, <1>3
<1> HIDE DEF ms, mu, mb
<1>5. /\ ms \o mu \in Seq(Seq(Nat)) /\ Len(ms \o mu) = Len(s) + Len(u)
      /\ \A i \in 1 .. Len(s) + Len(u) :
            (ms \o mu)[i] = IF i <= Len(s) THEN ms[i] ELSE mu[i - Len(s)]
  <2>1. /\ ms \o mu \in Seq(Seq(Nat)) /\ Len(ms \o mu) = Len(ms) + Len(mu)
        /\ \A i \in 1 .. Len(ms) + Len(mu) :
              (ms \o mu)[i] = IF i <= Len(ms) THEN ms[i] ELSE mu[i - Len(ms)]
    <3>1. ms \in Seq(Seq(Nat)) /\ mu \in Seq(Seq(Nat))
      BY <1>4
    <3> QED
      BY <3>1, ConcatProperties
  <2> QED
    BY <2>1, <1>4
<1>6. ASSUME NEW i \in 1 .. Len(s) + Len(u)
      PROVE  mb[i] = (ms \o mu)[i]
  <2>1. CASE i <= Len(s)
    <3>1. i \in 1 .. Len(s)
      BY <2>1, <1>1
    <3>2. mb[i] = c[s[i]]
      BY <2>1, <1>1, <1>4
    <3> QED
      BY <3>1, <3>2, <2>1, <1>4, <1>5
  <2>2. CASE ~ (i <= Len(s))
    <3>1. i - Len(s) \in 1 .. Len(u)
      BY <2>2, <1>1
    <3>2. mb[i] = c[u[i - Len(s)]]
      BY <2>2, <1>1, <1>4
    <3>3. (ms \o mu)[i] = mu[i - Len(s)]
      BY <2>2, <1>5
    <3> QED
      BY <3>1, <3>2, <3>3, <1>4
  <2> QED
    BY <2>1, <2>2
<1>7. mb = ms \o mu
  BY <1>4, <1>5, <1>6, SeqEqual
<1>8. FlattenSeq(mb) = FlattenSeq(ms) \o FlattenSeq(mu)
  BY <1>4, <1>7, FlattenConcat
<1> QED
  BY <1>8 DEF FlatMap, m, ms, mu, mb

\* A single member
LEMMA FlatMapOne ==
    ASSUME NEW T, NEW c \in [T -> Seq(Nat)], NEW e \in T
    PROVE  FlatMap(c, <<e>>) = c[e]
<1> DEFINE b == c[e]
<1>1. [i \in DOMAIN <<e>> |-> c[<<e>>[i]]] = Append(<<>>, b)
  OBVIOUS
<1>2. b \in Seq(Nat) /\ <<>> \in Seq(Seq(Nat))
  BY EmptySeq
<1> HIDE DEF b
<1>3. FlattenSeq(Append(<<>>, b)) = FlattenSeq(<<>>) \o b
  BY <1>2, FlattenAppend
<1>4. FlattenSeq(<<>>) \o b = b
  BY <1>2, FlattenEmpty, ConcatEmptySeq
<1> QED
  BY <1>1, <1>3, <1>4 DEF FlatMap, b

\* The first elements show one value each and the others nothing
LEMMA FlatMapValues ==
    ASSUME NEW T, NEW c \in [T -> Seq(Nat)], NEW s \in Seq(T), NEW a \in Seq(Nat),
           Len(a) <= Len(s),
           \A i \in 1 .. Len(s) : c[s[i]] = IF i <= Len(a) THEN <<a[i]>> ELSE <<>>
    PROVE  FlatMap(c, s) = a
<1>1. Len(s) \in Nat /\ DOMAIN s = 1 .. Len(s)
  BY LenProperties
<1>2. [i \in DOMAIN s |-> c[s[i]]]
         = [i \in 1 .. Len(s) |-> IF i <= Len(a) THEN <<a[i]>> ELSE <<>>]
  BY <1>1
<1> QED
  BY <1>1, <1>2, FlattenCells DEF FlatMap

OldCell == [k \in Nat |-> [r \in RowT |->
    IF r.file = k /\ (r.class = "hunk" \/ r.old # 0) THEN <<r.old>> ELSE <<>>]]
NewCell == [k \in Nat |-> [r \in RowT |->
    IF r.file = k /\ (r.class = "hunk" \/ r.new # 0) THEN <<r.new>> ELSE <<>>]]
LineCell(t) == [l \in AnyLine |-> IF l.t # t THEN <<l.n>> ELSE <<>>]

\* A row, or a line, makes a sequence of at most one text.
LEMMA CellTypes ==
    /\ \A k \in Nat : OldCell[k] \in [RowT -> Seq(Nat)] /\ NewCell[k] \in [RowT -> Seq(Nat)]
    /\ \A t : LineCell(t) \in [AnyLine -> Seq(Nat)]
<1>1. /\ \A k \in Nat : OldCell[k] \in [RowT -> Seq(Nat)]
      /\ \A k \in Nat : NewCell[k] \in [RowT -> Seq(Nat)]
  BY DEF OldCell, NewCell, RowT
<1>2. \A t : LineCell(t) \in [AnyLine -> Seq(Nat)]
  BY AnyLineFacts DEF LineCell
<1> QED
  BY <1>1, <1>2

\* The cells of a column and the texts of lines are made that way.
LEMMA CellsAre ==
    /\ \A rs \in Seq(RowT), k \in Nat : OldCells(rs, k) = FlatMap(OldCell[k], rs)
    /\ \A rs \in Seq(RowT), k \in Nat : NewCells(rs, k) = FlatMap(NewCell[k], rs)
    /\ \A t : \A s \in Seq(AnyLine) : TextsBut(s, t) = FlatMap(LineCell(t), s)
<1>1. ASSUME NEW rs \in Seq(RowT), NEW k \in Nat
      PROVE  OldCells(rs, k) = FlatMap(OldCell[k], rs)
  <2>1. \A i \in DOMAIN rs : rs[i] \in RowT
    OBVIOUS
  <2>2. \A r \in RowT : OldCell[k][r] =
            IF r.file = k /\ (r.class = "hunk" \/ r.old # 0) THEN <<r.old>> ELSE <<>>
    BY DEF OldCell
  <2>3. [i \in DOMAIN rs |->
            IF rs[i].file = k /\ (rs[i].class = "hunk" \/ rs[i].old # 0)
            THEN <<rs[i].old>> ELSE <<>>] = [i \in DOMAIN rs |-> OldCell[k][rs[i]]]
    BY <2>1, <2>2
  <2> QED
    BY <2>3 DEF OldCells, FlatMap
<1>2. ASSUME NEW rs \in Seq(RowT), NEW k \in Nat
      PROVE  NewCells(rs, k) = FlatMap(NewCell[k], rs)
  <2>1. \A i \in DOMAIN rs : rs[i] \in RowT
    OBVIOUS
  <2>2. \A r \in RowT : NewCell[k][r] =
            IF r.file = k /\ (r.class = "hunk" \/ r.new # 0) THEN <<r.new>> ELSE <<>>
    BY DEF NewCell
  <2>3. [i \in DOMAIN rs |->
            IF rs[i].file = k /\ (rs[i].class = "hunk" \/ rs[i].new # 0)
            THEN <<rs[i].new>> ELSE <<>>] = [i \in DOMAIN rs |-> NewCell[k][rs[i]]]
    BY <2>1, <2>2
  <2> QED
    BY <2>3 DEF NewCells, FlatMap
<1>3. ASSUME NEW s \in Seq(AnyLine), NEW t
      PROVE  TextsBut(s, t) = FlatMap(LineCell(t), s)
  <2>1. \A i \in DOMAIN s : s[i] \in AnyLine
    OBVIOUS
  <2>2. [j \in DOMAIN s |-> IF s[j].t # t THEN <<s[j].n>> ELSE <<>>]
           = [i \in DOMAIN s |-> LineCell(t)[s[i]]]
    BY <2>1 DEF LineCell
  <2> QED
    BY <2>2 DEF TextsBut, FlatMap
<1> QED
  BY <1>1, <1>2, <1>3

-----------------------------------------------------------------------------
(* The hunks of a script *)

Script == Seq({"=", "-", "+"})

\* A line's number counts the lines of its file up to it.
LEMMA NumberStep ==
    ASSUME NEW s, NEW T, NEW i \in Nat
    PROVE  /\ NumberIn(s, 0, T) = 0
           /\ NumberIn(s, i, T) \in Nat
           /\ s[i + 1] \in T => NumberIn(s, i + 1, T) = NumberIn(s, i, T) + 1
           /\ s[i + 1] \notin T => NumberIn(s, i + 1, T) = NumberIn(s, i, T)
<1> DEFINE C(k) == {j \in 1 .. k : s[j] \in T}
<1>1. C(0) = {} /\ i + 1 \notin C(i)
  OBVIOUS
<1>2. /\ s[i + 1] \in T => C(i + 1) = C(i) \cup {i + 1}
      /\ s[i + 1] \notin T => C(i + 1) = C(i)
  OBVIOUS
<1>3. IsFiniteSet(C(i))
  <2>1. IsFiniteSet(1 .. i) /\ C(i) \subseteq 1 .. i
    BY FS_Interval
  <2> HIDE DEF C
  <2> QED
    BY <2>1, FS_Subset
<1> HIDE DEF C
<1>4. Cardinality(C(i)) \in Nat /\ Cardinality(C(0)) = 0
  BY <1>1, <1>3, FS_CardinalityType, FS_EmptySet
<1>5. Cardinality(C(i) \cup {i + 1}) = Cardinality(C(i)) + 1
  BY <1>1, <1>3, FS_AddElement
<1>6. \A k : NumberIn(s, k, T) = Cardinality(C(k))
  BY DEF NumberIn, C
<1> QED
  BY <1>2, <1>4, <1>5, <1>6

\* Every change is shown, and where a hunk ends before the file does, it ends in a
\* common line
LEMMA ShownFacts ==
    ASSUME NEW s \in Script, NEW n \in Nat \ {0}
    PROVE  /\ InHunk(s, n) \subseteq 1 .. Len(s)
           /\ \A i \in 1 .. Len(s) : s[i] # "=" => i \in InHunk(s, n)
           /\ \A i \in InHunk(s, n) :
                 i + 1 \in 1 .. Len(s) /\ i + 1 \notin InHunk(s, n) => s[i] = "="
<1>1. DOMAIN s = 1 .. Len(s) /\ Len(s) \in Nat
  BY DEF Script
<1>2. InHunk(s, n) \subseteq 1 .. Len(s)
  BY <1>1 DEF InHunk
<1>3. ASSUME NEW i \in 1 .. Len(s), s[i] # "=" PROVE i \in InHunk(s, n)
  <2>1. {k \in Between(i, i) : s[k] = "="} = {}
    BY <1>3 DEF Between
  <2>2. Cardinality({k \in Between(i, i) : s[k] = "="}) <= n
    BY <2>1, FS_EmptySet
  <2> QED
    BY <2>2, <1>1, <1>3 DEF InHunk
<1>4. ASSUME NEW i \in 1 .. Len(s), i + 1 \in 1 .. Len(s), s[i] # "="
      PROVE  i + 1 \in InHunk(s, n)
  <2> DEFINE K == {k \in Between(i + 1, i) : s[k] = "="}
  <2>1. K \subseteq {i + 1}
    BY <1>4 DEF Between
  <2> HIDE DEF K
  <2>2. IsFiniteSet({i + 1}) /\ Cardinality({i + 1}) = 1
    BY FS_Singleton
  <2>3. Cardinality(K) <= 1 /\ IsFiniteSet(K)
    BY <2>1, <2>2, FS_Subset
  <2>5. Cardinality(K) \in Nat
    BY <2>3, FS_CardinalityType
  <2>4. Cardinality(K) <= n
    BY <2>3, <2>5
  <2> QED
    BY <2>4, <1>1, <1>4 DEF InHunk, K
<1> QED
  BY <1>2, <1>3, <1>4

\* The last line of the hunk that line i is in
LEMMA HunkEnds ==
    ASSUME NEW s \in Script, NEW n \in Nat \ {0}, NEW i \in InHunk(s, n)
    PROVE  \E j \in InHunk(s, n) :
              j >= i /\ i .. j \subseteq InHunk(s, n) /\ j + 1 \notin InHunk(s, n)
<1> DEFINE I == InHunk(s, n)
           A == {m \in Nat : m > i /\ m \notin I}
           R == OpToRel(<, Nat)
<1>1. I \subseteq 1 .. Len(s) /\ Len(s) \in Nat
  BY ShownFacts DEF Script
<1> HIDE DEF I
<1>2. i \in Nat /\ i \in I
  BY <1>1 DEF I
<1>3. A # {} /\ A \subseteq Nat
  <2>1. Len(s) + 1 \in A
    BY <1>1, <1>2
  <2> QED
    BY <2>1
<1> HIDE DEF A
<1>4. PICK m \in A : \A x \in A : ~ (<<x, m>> \in R)
  <2>1. IsWellFoundedOn(R, Nat)
    BY NatLessThanWellFounded
  <2> HIDE DEF R
  <2> QED BY <1>3, <2>1, WFMin
<1>5. \A x \in A : ~ (x < m)
  <2>1. \A x \in Nat : x < m => <<x, m>> \in R
    BY <1>3 DEF OpToRel
  <2> HIDE DEF R
  <2> QED BY <1>3, <1>4, <2>1
<1>6. m \in Nat /\ m > i /\ m \notin I
  BY DEF A
<1>7. \A x \in i .. m - 1 : x \in I
  <2> TAKE x \in i .. m - 1
  <2>1. x \in Nat /\ x < m
    BY <1>2, <1>6
  <2>2. x \notin A
    BY <2>1, <1>5
  <2> QED
    BY <2>1, <2>2, <1>2 DEF A
<1>8. m - 1 \in I /\ m - 1 >= i /\ (m - 1) + 1 \notin I
  BY <1>2, <1>6, <1>7
<1> QED
  BY <1>7, <1>8 DEF I

\* What the header of a hunk says of the hunk that begins at line i
LEMMA HunkFacts ==
    ASSUME NEW s \in Script, NEW n \in Nat \ {0}, NEW i \in InHunk(s, n),
           NEW h, h = Hunk(s, InHunk(s, n), i)
    PROVE  /\ h \in HunkT
           /\ \A x \in Nat : x >= i /\ i .. x \subseteq InHunk(s, n) =>
                 /\ s[x] # "+" =>
                       /\ h.old = OldNo(s, i - 1) + 1
                       /\ h.oldCount = 1 => OldNo(s, x - 1) = OldNo(s, i - 1)
                 /\ s[x] # "-" =>
                       /\ h.new = NewNo(s, i - 1) + 1
                       /\ h.newCount = 1 => NewNo(s, x - 1) = NewNo(s, i - 1)
<1> DEFINE I == InHunk(s, n)
           end == CHOOSE j \in I : j >= i /\ i .. j \subseteq I /\ j + 1 \notin I
           olds == {j \in i .. end : s[j] # "+"}
           news == {j \in i .. end : s[j] # "-"}
<1>1. /\ end \in I /\ end >= i /\ end + 1 \notin I
      /\ I \subseteq 1 .. Len(s) /\ Len(s) \in Nat /\ i \in I
  <2>1. \E j \in I : j >= i /\ i .. j \subseteq I /\ j + 1 \notin I
    BY HunkEnds
  <2>2. I \subseteq 1 .. Len(s) /\ Len(s) \in Nat /\ i \in I
    BY ShownFacts DEF Script
  <2> HIDE DEF I
  <2> QED
    BY <2>1, <2>2
<1>2. h = [t |-> "@", n |-> 0,
           old |-> OldNo(s, i - 1) + (IF olds = {} THEN 0 ELSE 1),
           oldCount |-> Cardinality(olds),
           new |-> NewNo(s, i - 1) + (IF news = {} THEN 0 ELSE 1),
           newCount |-> Cardinality(news)]
  BY DEF Hunk
<1> HIDE DEF I, end
<1>3. i \in Nat \ {0} /\ end \in Nat
  BY <1>1
<1>4. /\ IsFiniteSet(olds) /\ Cardinality(olds) \in Nat
      /\ IsFiniteSet(news) /\ Cardinality(news) \in Nat
  <2>1. IsFiniteSet(i .. end)
    BY <1>3, FS_Interval
  <2> QED
    BY <2>1, FS_Subset, FS_CardinalityType
<1>5. OldNo(s, i - 1) \in Nat /\ NewNo(s, i - 1) \in Nat
  <2>1. i - 1 \in Nat
    BY <1>3
  <2> QED
    BY <2>1, NumberStep DEF OldNo, NewNo
<1>6. h \in HunkT
  <2> HIDE DEF olds, news
  <2> QED
    BY <1>2, <1>4, <1>5 DEF HunkT
<1>7. ASSUME NEW x \in Nat, x >= i, i .. x \subseteq I
      PROVE  x \in i .. end
  <2>1. CASE x > end
    <3>1. end + 1 \in i .. x
      BY <2>1, <1>1, <1>3, <1>7
    <3> QED
      BY <3>1, <1>1, <1>7
  <2> QED
    BY <2>1, <1>3, <1>7
<1>8. ASSUME NEW x \in i .. end, s[x] # "+"
      PROVE  /\ h.old = OldNo(s, i - 1) + 1
             /\ h.oldCount = 1 => OldNo(s, x - 1) = OldNo(s, i - 1)
  <2>1. x \in olds
    BY <1>8
  <2>2. h.old = OldNo(s, i - 1) + 1 /\ h.oldCount = Cardinality(olds)
    <3>1. olds # {}
      BY <2>1
    <3> HIDE DEF olds, news
    <3> QED
      BY <1>2, <3>1
  <2>3. ASSUME Cardinality(olds) = 1 PROVE OldNo(s, x - 1) = OldNo(s, i - 1)
    <3>1. olds = {x}
      <4> HIDE DEF olds
      <4>1. PICK y : olds = {y}
        BY <2>3, <1>4, FS_Singleton
      <4> QED
        BY <4>1, <2>1
    <3>2. \A j \in i .. x - 1 : s[j] \notin {"=", "-"}
      <4> TAKE j \in i .. x - 1
      <4>1. j \in i .. end /\ j # x
        BY <1>3
      <4> QED
        BY <4>1, <3>1
    <3>3. {j \in 1 .. x - 1 : s[j] \in {"=", "-"}} = {j \in 1 .. i - 1 : s[j] \in {"=", "-"}}
      BY <3>2, <1>3
    <3> QED
      BY <3>3 DEF OldNo, NumberIn
  <2> QED
    BY <2>2, <2>3
<1>9. ASSUME NEW x \in i .. end, s[x] # "-"
      PROVE  /\ h.new = NewNo(s, i - 1) + 1
             /\ h.newCount = 1 => NewNo(s, x - 1) = NewNo(s, i - 1)
  <2>1. x \in news
    BY <1>9
  <2>2. h.new = NewNo(s, i - 1) + 1 /\ h.newCount = Cardinality(news)
    <3>1. news # {}
      BY <2>1
    <3> HIDE DEF olds, news
    <3> QED
      BY <1>2, <3>1
  <2>3. ASSUME Cardinality(news) = 1 PROVE NewNo(s, x - 1) = NewNo(s, i - 1)
    <3>1. news = {x}
      <4> HIDE DEF news
      <4>1. PICK y : news = {y}
        BY <2>3, <1>4, FS_Singleton
      <4> QED
        BY <4>1, <2>1
    <3>2. \A j \in i .. x - 1 : s[j] \notin {"=", "+"}
      <4> TAKE j \in i .. x - 1
      <4>1. j \in i .. end /\ j # x
        BY <1>3
      <4> QED
        BY <4>1, <3>1
    <3>3. {j \in 1 .. x - 1 : s[j] \in {"=", "+"}} = {j \in 1 .. i - 1 : s[j] \in {"=", "+"}}
      BY <3>2, <1>3
    <3> QED
      BY <3>3 DEF NewNo, NumberIn
  <2> QED
    BY <2>2, <2>3
<1> QED
  BY <1>6, <1>7, <1>8, <1>9 DEF I

-----------------------------------------------------------------------------
(* The lines that xdiff hands over *)

\* A line has the kind that the script gives it.
Truthful(s, L) ==
    \A j \in 1 .. Len(L) : L[j].t # "@" => L[j].n \in 1 .. Len(s) /\ L[j].t = s[L[j].n]

\* Lines that follow each other do so in the script.
Consecutive(L) ==
    \A j \in 1 .. Len(L) - 1 : L[j].t # "@" /\ L[j + 1].t # "@" => L[j + 1].n = L[j].n + 1

Ascending(L) ==
    \A i, j \in 1 .. Len(L) : i < j /\ L[i].t # "@" /\ L[j].t # "@" => L[i].n < L[j].n

\* A hunk is followed by another one only after a common line.
Parted(L) ==
    \A j \in 1 .. Len(L) - 1 : L[j + 1].t = "@" => L[j].t = "="

\* Hunk headers stand where hunks begin.
Headed(s, n, L) ==
    /\ L # <<>> => L[1].t = "@"
    /\ \A j \in 1 .. Len(L) : L[j].t = "@" =>
          /\ j < Len(L) /\ L[j + 1].t # "@"
          /\ L[j] = Hunk(s, InHunk(s, n), L[j + 1].n)

\* The lines that are shown of the first m of the script, and no others
Exactly(s, n, m, L) ==
    /\ \A j \in 1 .. Len(L) : L[j].t # "@" => L[j].n \in InHunk(s, n) /\ L[j].n <= m
    /\ \A i \in InHunk(s, n) : i <= m => \E j \in 1 .. Len(L) : L[j].t # "@" /\ L[j].n = i

EndsIn(s, n, m, L) ==
    L # <<>> =>
        /\ L[Len(L)].t # "@"
        /\ \A i \in InHunk(s, n) : i <= m => i <= L[Len(L)].n

Laid(s, n, m, L) ==
    /\ L \in Seq(AnyLine)
    /\ Truthful(s, L)
    /\ Consecutive(L)
    /\ Ascending(L)
    /\ Parted(L)
    /\ Headed(s, n, L)
    /\ Exactly(s, n, m, L)
    /\ EndsIn(s, n, m, L)

LineAt(s, i) == [t |-> s[i], n |-> i]

\* What line i of the script adds
Block(s, n, i) ==
    IF i \notin InHunk(s, n) THEN <<>>
    ELSE (IF i - 1 \in InHunk(s, n) THEN <<>> ELSE <<Hunk(s, InHunk(s, n), i)>>)
             \o <<LineAt(s, i)>>

\* A line that is in no hunk leaves the output as it is.
LEMMA LaidSkips ==
    ASSUME NEW s \in Script, NEW n \in Nat \ {0}, NEW m \in Nat, NEW L,
           Laid(s, n, m, L), m + 1 \notin InHunk(s, n)
    PROVE  Laid(s, n, m + 1, L)
<1>1. InHunk(s, n) \subseteq Nat
  BY ShownFacts DEF Script
<1>2. \A i \in InHunk(s, n) : i <= m + 1 => i <= m
  BY <1>1
<1>3. \A j \in 1 .. Len(L) : L[j].n \in Nat
  BY AnyLineFacts DEF Laid
<1>4. Exactly(s, n, m + 1, L)
  <2>1. \A j \in 1 .. Len(L) : L[j].t # "@" => L[j].n \in InHunk(s, n) /\ L[j].n <= m + 1
    BY <1>3 DEF Laid, Exactly
  <2> QED
    BY <1>2, <2>1 DEF Laid, Exactly
<1>5. EndsIn(s, n, m + 1, L)
  BY <1>2 DEF Laid, EndsIn
<1> QED
  BY <1>4, <1>5 DEF Laid

\* A line in the midst of a hunk
LEMMA LaidLine ==
    ASSUME NEW s \in Script, NEW n \in Nat \ {0}, NEW m \in Nat, NEW L,
           Laid(s, n, m, L), m + 1 \in InHunk(s, n), m \in InHunk(s, n)
    PROVE  Laid(s, n, m + 1, L \o <<LineAt(s, m + 1)>>)
<1> DEFINE l == LineAt(s, m + 1)
           G == L \o <<l>>
           I == InHunk(s, n)
<1>1. I \subseteq 1 .. Len(s) /\ Len(s) \in Nat /\ m + 1 \in 1 .. Len(s)
  BY ShownFacts DEF Script
<1>2. l.t = s[m + 1] /\ l.n = m + 1 /\ l.t # "@" /\ l \in AnyLine
  <2>1. s[m + 1] \in {"=", "-", "+"}
    BY <1>1 DEF Script
  <2> QED
    BY <2>1 DEF LineAt, AnyLine, LineT
<1> HIDE DEF l, I
<1>3. L \in Seq(AnyLine) /\ Len(L) \in Nat
  BY DEF Laid
<1>4. /\ G \in Seq(AnyLine) /\ Len(G) = Len(L) + 1 /\ G[Len(L) + 1] = l
      /\ \A j \in 1 .. Len(L) : G[j] = L[j]
  BY <1>2, <1>3
<1> HIDE DEF G
<1>5. /\ L # <<>> /\ 1 <= Len(L) /\ L[Len(L)].t # "@" /\ L[Len(L)].n = m
  <2>1. PICK j \in 1 .. Len(L) : L[j].t # "@" /\ L[j].n = m
    BY DEF Laid, Exactly
  <2>2. L # <<>> /\ 1 <= Len(L)
    BY <2>1, <1>3
  <2>3. L[Len(L)].t # "@" /\ m <= L[Len(L)].n
    BY <2>2 DEF Laid, EndsIn
  <2>4. L[Len(L)].n <= m
    BY <2>2, <2>3, <1>3 DEF Laid, Exactly
  <2>5. L[Len(L)].n \in Nat
    BY <2>2, <1>3, AnyLineFacts
  <2> QED
    BY <2>2, <2>3, <2>4, <2>5
<1>6. \A j \in 1 .. Len(L) : L[j].n \in Nat /\ (L[j].t # "@" => L[j].n \in I /\ L[j].n <= m)
  BY <1>3, AnyLineFacts DEF Laid, Exactly, I
<1>7. \A j \in 1 .. Len(G) : j \in 1 .. Len(L) \/ j = Len(L) + 1
  BY <1>3, <1>4
<1>8. Truthful(s, G)
  BY <1>1, <1>2, <1>4, <1>7 DEF Laid, Truthful
<1>9. Consecutive(G)
  <2> SUFFICES ASSUME NEW j \in 1 .. Len(G) - 1, G[j].t # "@", G[j + 1].t # "@"
               PROVE  G[j + 1].n = G[j].n + 1
    BY DEF Consecutive
  <2>1. CASE j = Len(L)
    BY <2>1, <1>2, <1>4, <1>5
  <2>2. CASE j # Len(L)
    <3>1. j \in 1 .. Len(L) - 1 /\ j \in 1 .. Len(L) /\ j + 1 \in 1 .. Len(L)
      BY <2>2, <1>3, <1>4
    <3> QED
      BY <3>1, <1>4 DEF Laid, Consecutive
  <2> QED
    BY <2>1, <2>2
<1>10. Ascending(G)
  <2> SUFFICES ASSUME NEW i \in 1 .. Len(G), NEW j \in 1 .. Len(G), i < j,
                      G[i].t # "@", G[j].t # "@"
               PROVE  G[i].n < G[j].n
    BY DEF Ascending
  <2>1. i \in 1 .. Len(L)
    BY <1>3, <1>4
  <2>2. CASE j = Len(L) + 1
    BY <2>1, <2>2, <1>2, <1>4, <1>6
  <2>3. CASE j \in 1 .. Len(L)
    BY <2>1, <2>3, <1>4 DEF Laid, Ascending
  <2> QED
    BY <2>2, <2>3, <1>7
<1>11. Parted(G)
  <2> SUFFICES ASSUME NEW j \in 1 .. Len(G) - 1, G[j + 1].t = "@"
               PROVE  G[j].t = "="
    BY DEF Parted
  <2>1. j \in 1 .. Len(L) - 1 /\ j \in 1 .. Len(L) /\ j + 1 \in 1 .. Len(L)
    BY <1>2, <1>3, <1>4
  <2> QED
    BY <2>1, <1>4 DEF Laid, Parted
<1>12. Headed(s, n, G)
  <2>1. G[1].t = "@"
    BY <1>3, <1>4, <1>5 DEF Laid, Headed
  <2>2. ASSUME NEW j \in 1 .. Len(G), G[j].t = "@"
        PROVE  /\ j < Len(G) /\ G[j + 1].t # "@"
               /\ G[j] = Hunk(s, InHunk(s, n), G[j + 1].n)
    <3>1. j \in 1 .. Len(L) /\ L[j].t = "@"
      BY <2>2, <1>2, <1>4, <1>7
    <3>2. j < Len(L) /\ L[j + 1].t # "@" /\ L[j] = Hunk(s, InHunk(s, n), L[j + 1].n)
      BY <3>1 DEF Laid, Headed
    <3>3. j + 1 \in 1 .. Len(L) /\ j < Len(G)
      BY <3>1, <3>2, <1>3, <1>4
    <3> QED
      BY <3>1, <3>2, <3>3, <1>4
  <2> QED
    BY <2>1, <2>2 DEF Headed
<1>13. Exactly(s, n, m + 1, G)
  <2>1. \A j \in 1 .. Len(G) : G[j].t # "@" => G[j].n \in I /\ G[j].n <= m + 1
    BY <1>2, <1>4, <1>6, <1>7 DEF I
  <2>2. ASSUME NEW i \in I, i <= m + 1
        PROVE  \E j \in 1 .. Len(G) : G[j].t # "@" /\ G[j].n = i
    <3>1. CASE i = m + 1
      <4>1. Len(L) + 1 \in 1 .. Len(G)
        BY <1>3, <1>4
      <4> QED
        BY <4>1, <3>1, <1>2, <1>4
    <3>2. CASE i <= m
      <4>1. PICK j \in 1 .. Len(L) : L[j].t # "@" /\ L[j].n = i
        BY <3>2 DEF Laid, Exactly, I
      <4>2. j \in 1 .. Len(G)
        BY <1>3, <1>4
      <4> QED
        BY <4>1, <4>2, <1>4
    <3> QED
      BY <3>1, <3>2, <2>2, <1>1
  <2> QED
    BY <2>1, <2>2 DEF Exactly, I
<1>14. EndsIn(s, n, m + 1, G)
  BY <1>2, <1>4 DEF EndsIn
<1> QED
  BY <1>4, <1>8, <1>9, <1>10, <1>11, <1>12, <1>13, <1>14 DEF Laid, G, l

\* The first line of a hunk, after its header
LEMMA LaidHunk ==
    ASSUME NEW s \in Script, NEW n \in Nat \ {0}, NEW m \in Nat, NEW L,
           Laid(s, n, m, L), m + 1 \in InHunk(s, n), m \notin InHunk(s, n)
    PROVE  Laid(s, n, m + 1,
                L \o <<Hunk(s, InHunk(s, n), m + 1), LineAt(s, m + 1)>>)
<1> DEFINE l == LineAt(s, m + 1)
           h == Hunk(s, InHunk(s, n), m + 1)
           G == L \o <<h, l>>
           I == InHunk(s, n)
<1>1. I \subseteq 1 .. Len(s) /\ Len(s) \in Nat /\ m + 1 \in 1 .. Len(s)
  BY ShownFacts DEF Script
<1>2. l.t = s[m + 1] /\ l.n = m + 1 /\ l.t # "@" /\ l \in AnyLine
  <2>1. s[m + 1] \in {"=", "-", "+"}
    BY <1>1 DEF Script
  <2> QED
    BY <2>1 DEF LineAt, AnyLine, LineT
<1>3. h.t = "@" /\ h \in AnyLine
  <2>1. h \in HunkT
    BY HunkFacts
  <2> HIDE DEF h
  <2> QED
    BY <2>1 DEF AnyLine, HunkT
<1>0. h = Hunk(s, InHunk(s, n), l.n)
  BY <1>2
<1> HIDE DEF l, I, h
<1>4. L \in Seq(AnyLine) /\ Len(L) \in Nat
  BY DEF Laid
<1>5. /\ G \in Seq(AnyLine) /\ Len(G) = Len(L) + 2
      /\ G[Len(L) + 1] = h /\ G[Len(L) + 2] = l
      /\ \A j \in 1 .. Len(L) : G[j] = L[j]
  BY <1>2, <1>3, <1>4
<1> HIDE DEF G
<1>6. \A j \in 1 .. Len(L) : L[j].n \in Nat /\ (L[j].t # "@" => L[j].n \in I /\ L[j].n <= m)
  BY <1>4, AnyLineFacts DEF Laid, Exactly, I
<1>7. \A j \in 1 .. Len(G) : j \in 1 .. Len(L) \/ j = Len(L) + 1 \/ j = Len(L) + 2
  BY <1>4, <1>5
<1>8. Truthful(s, G)
  BY <1>1, <1>2, <1>3, <1>5, <1>7 DEF Laid, Truthful
<1>9. Consecutive(G)
  <2> SUFFICES ASSUME NEW j \in 1 .. Len(G) - 1, G[j].t # "@", G[j + 1].t # "@"
               PROVE  G[j + 1].n = G[j].n + 1
    BY DEF Consecutive
  <2>1. j # Len(L) /\ j # Len(L) + 1
    BY <1>3, <1>4, <1>5
  <2>2. j \in 1 .. Len(L) - 1 /\ j \in 1 .. Len(L) /\ j + 1 \in 1 .. Len(L)
    BY <2>1, <1>4, <1>5
  <2> QED
    BY <2>2, <1>5 DEF Laid, Consecutive
<1>10. Ascending(G)
  <2> SUFFICES ASSUME NEW i \in 1 .. Len(G), NEW j \in 1 .. Len(G), i < j,
                      G[i].t # "@", G[j].t # "@"
               PROVE  G[i].n < G[j].n
    BY DEF Ascending
  <2>1. i \in 1 .. Len(L)
    BY <1>3, <1>4, <1>5, <1>7
  <2>2. CASE j = Len(L) + 2
    BY <2>1, <2>2, <1>2, <1>5, <1>6
  <2>3. CASE j \in 1 .. Len(L)
    BY <2>1, <2>3, <1>5 DEF Laid, Ascending
  <2> QED
    BY <2>2, <2>3, <1>3, <1>5, <1>7
\* The line before the header is the last one that was shown, and the next was not
<1>11. L # <<>> => L[Len(L)].t = "="
  <2> SUFFICES ASSUME L # <<>> PROVE L[Len(L)].t = "="
    OBVIOUS
  <2>1. Len(L) \in 1 .. Len(L) /\ L[Len(L)].t # "@"
    BY <1>4 DEF Laid, EndsIn
  <2> DEFINE x == L[Len(L)].n
  <2>2. x \in I /\ x <= m /\ x \in Nat /\ L[Len(L)].t = s[x]
    BY <2>1, <1>6 DEF Laid, Truthful
  <2>3. \A i \in I : i <= m => i <= x
    BY DEF Laid, EndsIn, I
  <2> HIDE DEF x
  <2>4. x # m
    BY <2>2 DEF I
  <2>5. x + 1 <= m /\ x + 1 \in 1 .. Len(s) /\ x + 1 \notin I
    BY <2>2, <2>3, <2>4, <1>1
  <2> QED
    BY <2>2, <2>5, ShownFacts DEF I
<1>12. Parted(G)
  <2> SUFFICES ASSUME NEW j \in 1 .. Len(G) - 1, G[j + 1].t = "@"
               PROVE  G[j].t = "="
    BY DEF Parted
  <2>1. CASE j = Len(L)
    <3>1. L # <<>> /\ j \in 1 .. Len(L)
      BY <2>1, <1>4
    <3> QED
      BY <3>1, <2>1, <1>5, <1>11
  <2>2. CASE j # Len(L)
    <3>1. j # Len(L) + 1
      BY <1>2, <1>4, <1>5
    <3>2. j \in 1 .. Len(L) - 1 /\ j \in 1 .. Len(L) /\ j + 1 \in 1 .. Len(L)
      BY <2>2, <3>1, <1>4, <1>5
    <3> QED
      BY <3>2, <1>5 DEF Laid, Parted
  <2> QED
    BY <2>1, <2>2
<1>13. Headed(s, n, G)
  <2>1. G[1].t = "@"
    <3>1. CASE L = <<>>
      BY <3>1, <1>3, <1>5
    <3>2. CASE L # <<>>
      <4>1. 1 \in 1 .. Len(L)
        BY <3>2, <1>4
      <4> QED
        BY <4>1, <3>2, <1>5 DEF Laid, Headed
    <3> QED
      BY <3>1, <3>2
  <2>2. ASSUME NEW j \in 1 .. Len(G), G[j].t = "@"
        PROVE  /\ j < Len(G) /\ G[j + 1].t # "@"
               /\ G[j] = Hunk(s, InHunk(s, n), G[j + 1].n)
    <3>1. CASE j = Len(L) + 1
      <4>1. j < Len(G) /\ j + 1 = Len(L) + 2
        BY <3>1, <1>4, <1>5
      <4> QED
        BY <4>1, <3>1, <1>0, <1>2, <1>5
    <3>2. CASE j \in 1 .. Len(L)
      <4>1. L[j].t = "@"
        BY <3>2, <2>2, <1>5
      <4>2. j < Len(L) /\ L[j + 1].t # "@" /\ L[j] = Hunk(s, InHunk(s, n), L[j + 1].n)
        BY <4>1, <3>2 DEF Laid, Headed
      <4>3. j + 1 \in 1 .. Len(L) /\ j < Len(G)
        BY <4>2, <3>2, <1>4, <1>5
      <4> QED
        BY <3>2, <4>2, <4>3, <1>5
    <3> QED
      BY <3>1, <3>2, <2>2, <1>2, <1>5, <1>7
  <2> QED
    BY <2>1, <2>2 DEF Headed
<1>14. Exactly(s, n, m + 1, G)
  <2>1. \A j \in 1 .. Len(G) : G[j].t # "@" => G[j].n \in I /\ G[j].n <= m + 1
    BY <1>2, <1>3, <1>5, <1>6, <1>7 DEF I
  <2>2. ASSUME NEW i \in I, i <= m + 1
        PROVE  \E j \in 1 .. Len(G) : G[j].t # "@" /\ G[j].n = i
    <3>1. CASE i = m + 1
      <4>1. Len(L) + 2 \in 1 .. Len(G)
        BY <1>4, <1>5
      <4> QED
        BY <4>1, <3>1, <1>2, <1>5
    <3>2. CASE i <= m
      <4>1. PICK j \in 1 .. Len(L) : L[j].t # "@" /\ L[j].n = i
        BY <3>2 DEF Laid, Exactly, I
      <4>2. j \in 1 .. Len(G)
        BY <1>4, <1>5
      <4> QED
        BY <4>1, <4>2, <1>5
    <3> QED
      BY <3>1, <3>2, <2>2, <1>1
  <2> QED
    BY <2>1, <2>2 DEF Exactly, I
<1>15. EndsIn(s, n, m + 1, G)
  BY <1>2, <1>5 DEF EndsIn
<1> QED
  BY <1>5, <1>8, <1>9, <1>10, <1>12, <1>13, <1>14, <1>15 DEF Laid, G, l, h

\* Two sequences of one
LEMMA TwoOnes == ASSUME NEW a, NEW b PROVE <<a>> \o <<b>> = <<a, b>>
<1> DEFINE S == {a, b}
<1>1. <<a>> \in Seq(S) /\ <<b>> \in Seq(S) /\ <<a, b>> \in Seq(S)
  OBVIOUS
<1>2. /\ Len(<<a>> \o <<b>>) = 2 /\ <<a>> \o <<b>> \in Seq(S)
      /\ (<<a>> \o <<b>>)[1] = a /\ (<<a>> \o <<b>>)[2] = b
  BY <1>1
<1> DEFINE x == <<a>> \o <<b>>
           y == <<a, b>>
<1>3. /\ x \in Seq(S) /\ y \in Seq(S) /\ Len(x) = 2 /\ Len(y) = 2
      /\ x[1] = y[1] /\ x[2] = y[2]
  BY <1>1, <1>2
<1> HIDE DEF x, y, S
<1>4. x = y
  BY <1>3, SeqEqual
<1> QED
  BY <1>4 DEF x, y

\* Everything about the lines of a text
LEMMA XdlDiffLaid ==
    ASSUME NEW s \in Script, NEW n \in Nat \ {0}
    PROVE  Laid(s, n, Len(s), XdlDiff(s, n))
<1> DEFINE B == [i \in DOMAIN s |-> Block(s, n, i)]
           U(m) == FlattenSeq(SubSeq(B, 1, m))
           P == {m \in Nat : m <= Len(s) => Laid(s, n, m, U(m))}
<1>1. Len(s) \in Nat /\ DOMAIN s = 1 .. Len(s) /\ InHunk(s, n) \subseteq 1 .. Len(s)
  BY ShownFacts DEF Script
<1>2. XdlDiff(s, n) = FlattenSeq(B)
  BY DEF XdlDiff, Block, LineAt
<1>3. ASSUME NEW i \in 1 .. Len(s) PROVE Block(s, n, i) \in Seq(AnyLine)
  <2>1. LineAt(s, i) \in AnyLine
    <3>1. s[i] \in {"=", "-", "+"}
      BY <1>1 DEF Script
    <3> QED
      BY <3>1 DEF LineAt, AnyLine, LineT
  <2>2. i \in InHunk(s, n) => Hunk(s, InHunk(s, n), i) \in AnyLine
    BY HunkFacts DEF AnyLine
  <2> QED
    BY <2>1, <2>2 DEF Block
<1>4. /\ B \in Seq(Seq(AnyLine)) /\ Len(B) = Len(s)
      /\ \A i \in 1 .. Len(s) : B[i] = Block(s, n, i)
  <2>1. B = [i \in 1 .. Len(s) |-> Block(s, n, i)]
    BY <1>1
  <2>2. B \in [1 .. Len(s) -> Seq(AnyLine)]
    BY <2>1, <1>3
  <2> QED
    BY <2>1, <2>2, <1>1
<1> HIDE DEF B
<1>5. ASSUME NEW m \in Nat, m + 1 <= Len(s)
      PROVE  U(m + 1) = U(m) \o Block(s, n, m + 1)
  <2>1. /\ SubSeq(B, 1, m + 1) = Append(SubSeq(B, 1, m), B[m + 1])
        /\ SubSeq(B, 1, m) \in Seq(Seq(AnyLine))
        /\ B[m + 1] \in Seq(AnyLine) /\ B[m + 1] = Block(s, n, m + 1)
    BY <1>1, <1>4, <1>5
  <2> QED
    BY <2>1, FlattenAppend
<1>6. 0 \in P
  <2>1. U(0) = <<>>
    <3>1. SubSeq(B, 1, 0) = <<>>
      OBVIOUS
    <3> QED
      BY <3>1, FlattenEmpty
  <2>2. Laid(s, n, 0, <<>>)
    BY <1>1 DEF Laid, Truthful, Consecutive, Ascending, Parted, Headed, Exactly, EndsIn
  <2> HIDE DEF U
  <2> QED
    BY <2>1, <2>2
<1> HIDE DEF U
<1>7. ASSUME NEW m \in P PROVE m + 1 \in P
  <2> SUFFICES ASSUME m + 1 <= Len(s) PROVE Laid(s, n, m + 1, U(m + 1))
    OBVIOUS
  <2>1. m \in Nat /\ Laid(s, n, m, U(m)) /\ m + 1 \in 1 .. Len(s)
    BY <1>1
  <2>2. U(m + 1) = U(m) \o Block(s, n, m + 1)
    BY <2>1, <1>5
  <2>3. U(m) \in Seq(AnyLine)
    BY <2>1 DEF Laid
  <2>4. CASE m + 1 \notin InHunk(s, n)
    <3>1. U(m + 1) = U(m)
      BY <2>2, <2>3, <2>4, ConcatEmptySeq DEF Block
    <3> QED
      BY <3>1, <2>1, <2>4, LaidSkips
  <2>5. CASE m + 1 \in InHunk(s, n) /\ m \in InHunk(s, n)
    <3>1. Block(s, n, m + 1) = <<LineAt(s, m + 1)>>
      <4>1. (m + 1) - 1 = m
        BY <2>1
      <4> QED
        BY <4>1, <2>5 DEF Block
    <3> QED
      BY <3>1, <2>1, <2>2, <2>5, LaidLine
  <2>6. CASE m + 1 \in InHunk(s, n) /\ m \notin InHunk(s, n)
    <3>1. Block(s, n, m + 1) = <<Hunk(s, InHunk(s, n), m + 1), LineAt(s, m + 1)>>
      <4>1. (m + 1) - 1 = m
        BY <2>1
      <4>2. \A a, b : <<a>> \o <<b>> = <<a, b>>
        BY TwoOnes
      <4> QED
        BY <4>1, <4>2, <2>6 DEF Block
    <3> QED
      BY <3>1, <2>1, <2>2, <2>6, LaidHunk
  <2> QED
    BY <2>4, <2>5, <2>6
<1> HIDE DEF P
<1>8. P = Nat
  BY <1>6, <1>7, SetInduction, P \subseteq Nat DEF P
<1>9. Laid(s, n, Len(s), U(Len(s)))
  BY <1>1, <1>8 DEF P
<1>10. SubSeq(B, 1, Len(s)) = B
  BY <1>4, SubSeqFull
<1> QED
  BY <1>2, <1>9, <1>10 DEF U

\* The changes are counted, whatever is shown around them
LEMMA CountsChanges ==
    ASSUME NEW s \in Script, NEW n \in Nat \ {0}, NEW t \in {"-", "+"}
    PROVE  /\ Count(XdlDiff(s, n), t) \in Nat
           /\ Count(XdlDiff(s, n), t) = Cardinality({i \in 1 .. Len(s) : s[i] = t})
<1> DEFINE L == XdlDiff(s, n)
           X == {j \in DOMAIN L : L[j].t = t}
           Y == {i \in 1 .. Len(s) : s[i] = t}
           f == [j \in X |-> L[j].n]
<1>1. Laid(s, n, Len(s), L)
  BY XdlDiffLaid
<1> HIDE DEF L
<1>2. L \in Seq(AnyLine) /\ Len(L) \in Nat /\ DOMAIN L = 1 .. Len(L) /\ Len(s) \in Nat
  BY <1>1 DEF Laid, Script
<1>3. f \in [X -> Y]
  <2> SUFFICES ASSUME NEW j \in X PROVE L[j].n \in Y
    OBVIOUS
  <2> QED
    BY <1>1, <1>2 DEF Laid, Truthful
<1>4. \A i, j \in X : f[i] = f[j] => i = j
  <2> SUFFICES ASSUME NEW i \in X, NEW j \in X, i < j PROVE L[i].n # L[j].n
    <3>1. \A i, j \in X : i < j => L[i].n # L[j].n
      OBVIOUS
    <3>2. \A i, j \in X : i # j => i < j \/ j < i
      BY <1>2
    <3> QED
      BY <3>1, <3>2
  <2>1. L[i].n < L[j].n
    BY <1>1, <1>2 DEF Laid, Ascending
  <2>2. L[i].n \in Nat /\ L[j].n \in Nat
    BY <1>2, AnyLineFacts
  <2> QED
    BY <2>1, <2>2
<1>5. \A i \in Y : \E j \in X : f[j] = i
  <2> SUFFICES ASSUME NEW i \in Y PROVE \E j \in X : L[j].n = i
    OBVIOUS
  <2>1. i \in InHunk(s, n) /\ i <= Len(s)
    BY <1>2, ShownFacts
  <2>2. PICK j \in 1 .. Len(L) : L[j].t # "@" /\ L[j].n = i
    BY <2>1, <1>1 DEF Laid, Exactly
  <2>3. L[j].t = s[i]
    BY <2>2, <1>1 DEF Laid, Truthful
  <2> QED
    BY <2>2, <2>3, <1>2
<1>6. IsFiniteSet(X)
  <2>1. IsFiniteSet(1 .. Len(L)) /\ X \subseteq 1 .. Len(L)
    BY <1>2, FS_Interval
  <2> HIDE DEF X
  <2> QED
    BY <2>1, FS_Subset
<1> HIDE DEF f
<1>7. f \in Bijection(X, Y)
  BY <1>3, <1>4, <1>5 DEF Bijection, Injection, Surjection, IsInjective
<1>8. ExistsBijection(X, Y)
  BY <1>7 DEF ExistsBijection
<1> HIDE DEF X, Y
<1>9. Cardinality(X) = Cardinality(Y) /\ Cardinality(X) \in Nat
  BY <1>6, <1>8, FS_Bijection, FS_CardinalityType
<1> QED
  BY <1>9 DEF Count, X, Y, L

-----------------------------------------------------------------------------
(* The lines of a file pair *)

Good(s, L) ==
    /\ L \in Seq(AnyLine)
    /\ Truthful(s, L)
    /\ Consecutive(L)
    /\ Ascending(L)
    /\ Parted(L)

\* The common lines around a change
Around == IF context > 0 THEN context ELSE DefaultContext

\* Every pair has a script, and that of a submodule has one or two lines.
LEMMA PairFacts ==
    ASSUME NEW p \in Pair
    PROVE  /\ p.kind \in {"text", "binary", "unmerged", "gitlink"}
           /\ p.script \in Script /\ p.inside \in BOOLEAN
           /\ p.kind = "gitlink" => p.script \in {<<"-">>, <<"+">>, <<"-", "+">>}
<1>1. CASE p \in [kind : {"text", "binary", "unmerged"},
                  script : Seq({"=", "-", "+"}), inside : BOOLEAN]
  BY <1>1 DEF Script
<1>2. CASE p \in [kind : {"gitlink"}, script : {<<"-">>, <<"+">>, <<"-", "+">>},
                  inside : BOOLEAN]
  <2>1. /\ p.kind = "gitlink" /\ p.inside \in BOOLEAN
        /\ p.script \in {<<"-">>, <<"+">>, <<"-", "+">>}
    BY <1>2
  <2>2. <<"-">> \in Script /\ <<"+">> \in Script /\ <<"-", "+">> \in Script
    BY DEF Script
  <2> QED
    BY <2>1, <2>2
<1> QED
  BY <1>1, <1>2 DEF Pair

\* What xdiff makes of two files is laid out.
LEMMA TextLines ==
    ASSUME NEW p \in Pair, p.kind = "text", context \in Int
    PROVE  /\ Around \in Nat \ {0}
           /\ LinesOf(p) = XdlDiff(p.script, Around)
           /\ Laid(p.script, Around, Len(p.script), LinesOf(p))
<1>1. Around \in Nat \ {0}
  BY ContextAssumption DEF Around
<1>2. LinesOf(p) = XdlDiff(p.script, Around)
  BY DEF LinesOf, DiffFiles, Around
<1> QED
  BY <1>1, <1>2, PairFacts, XdlDiffLaid

\* At most one line for each id of a submodule
LEMMA GitlinkLines ==
    ASSUME NEW p \in Pair, p.kind = "gitlink"
    PROVE  /\ LinesOf(p) \in Seq(AnyLine) /\ Len(LinesOf(p)) = Len(p.script)
           /\ Len(p.script) \in 1 .. 2
           /\ \A j \in 1 .. Len(p.script) :
                 /\ LinesOf(p)[j].t = p.script[j] /\ LinesOf(p)[j].n = j
                 /\ p.script[j] \in {"-", "+"}
<1> DEFINE s == p.script
<1>1. LinesOf(p) = [i \in DOMAIN s |-> [t |-> s[i], n |-> i]]
  BY DEF LinesOf
<1>2. /\ Len(s) \in 1 .. 2 /\ DOMAIN s = 1 .. Len(s)
      /\ \A i \in 1 .. Len(s) : s[i] \in {"-", "+"}
  <2>1. s \in {<<"-">>, <<"+">>, <<"-", "+">>}
    BY PairFacts
  <2> HIDE DEF s
  <2> QED
    BY <2>1
<1> HIDE DEF s
<1>3. \A i \in 1 .. Len(s) : [t |-> s[i], n |-> i] \in AnyLine
  BY <1>2 DEF AnyLine, LineT
<1>4. LinesOf(p) \in Seq(AnyLine) /\ Len(LinesOf(p)) = Len(s)
  BY <1>1, <1>2, <1>3
<1> QED
  BY <1>1, <1>2, <1>4 DEF s

\* So are the lines of every pair, those of a submodule without a header.
LEMMA LinesGood ==
    ASSUME NEW p \in Pair, context \in Int
    PROVE  Good(p.script, LinesOf(p))
<1>1. CASE p.kind = "text"
  BY <1>1, TextLines DEF Laid, Good
<1>2. CASE p.kind = "gitlink"
  BY <1>2, GitlinkLines DEF Good, Truthful, Consecutive, Ascending, Parted
<1>3. CASE p.kind \notin {"text", "gitlink"}
  <2>1. LinesOf(p) = <<>>
    BY <1>3 DEF LinesOf, DiffFiles
  <2> QED
    BY <2>1 DEF Good, Truthful, Consecutive, Ascending, Parted
<1> QED
  BY <1>1, <1>2, <1>3

\* A row of an added line has no old side, and the other way round
LEMMA ReceivedNext ==
    ASSUME NEW L \in Seq(AnyLine), NEW d \in Nat, d + 1 \in 1 .. Len(L), NEW t
    PROVE  /\ TextsBut(SubSeq(L, 1, d), t) \in Seq(Nat)
           /\ L[d + 1].t # t => TextsBut(SubSeq(L, 1, d + 1), t)
                                   = TextsBut(SubSeq(L, 1, d), t) \o <<L[d + 1].n>>
           /\ L[d + 1].t = t => TextsBut(SubSeq(L, 1, d + 1), t)
                                   = TextsBut(SubSeq(L, 1, d), t)
<1> DEFINE a == SubSeq(L, 1, d)
           c == LineCell(t)
           e == L[d + 1]
<1>1. a \in Seq(AnyLine) /\ e \in AnyLine /\ SubSeq(L, 1, d + 1) = a \o <<e>>
      /\ <<e>> \in Seq(AnyLine)
  OBVIOUS
<1>2. c \in [AnyLine -> Seq(Nat)]
  BY CellTypes
<1>3. c[e] = IF e.t # t THEN <<e.n>> ELSE <<>>
  BY <1>1 DEF LineCell
<1> HIDE DEF a, c, e
<1>4. FlatMap(c, a) \in Seq(Nat) /\ FlatMap(c, a \o <<e>>) = FlatMap(c, a) \o c[e]
  <2>1. FlatMap(c, a \o <<e>>) = FlatMap(c, a) \o FlatMap(c, <<e>>)
    BY <1>1, <1>2, FlatMapConcat
  <2>2. FlatMap(c, <<e>>) = c[e]
    BY <1>1, <1>2, FlatMapOne
  <2>3. FlatMap(c, a) \in Seq(Nat)
    BY <1>1, <1>2, FlatMapType
  <2> QED
    BY <2>1, <2>2, <2>3
<1>5. TextsBut(a, t) = FlatMap(c, a) /\ TextsBut(a \o <<e>>, t) = FlatMap(c, a \o <<e>>)
  <2>1. a \o <<e>> \in Seq(AnyLine)
    BY <1>1, ConcatProperties
  <2> QED
    BY <2>1, <1>1, CellsAre DEF c
<1>6. FlatMap(c, a) \o <<>> = FlatMap(c, a)
  BY <1>4, ConcatEmptySeq
<1> QED
  BY <1>1, <1>3, <1>4, <1>5, <1>6 DEF a, e

-----------------------------------------------------------------------------
(* The invariant that the others need *)

DiffTypeOK ==
    /\ pairs \in Diffs /\ context \in Int /\ comma \in BOOLEAN
    /\ difftype \in {"unified", "ssdiff", "statonly"}
    /\ diff_pc \in {"stat", "pairs", "lines", "done"}
    /\ at \in Nat \ {0}
    /\ todo \in Seq(AnyLine)
    /\ current_old_line \in Int /\ current_new_line \in Int
    /\ deferred_old \in Seq(QueueT) /\ deferred_new \in Seq(QueueT)
    /\ items \in Seq([file : Nat, added : Nat, removed : Nat])
    /\ rows \in Seq(RowT)

\* The lines of the current pair, and how many of them have been handed over
Mine == LinesOf(pairs[at])
Done == Len(Mine) - Len(todo)

\* What is still to come are the last lines of the current pair, and no line waits
\* between two pairs.
InPhase ==
    /\ diff_pc # "done" => at <= Len(pairs) + 1
    /\ diff_pc = "stat" => rows = <<>>
    /\ diff_pc # "lines" => deferred_old = <<>> /\ deferred_new = <<>>
    /\ diff_pc = "lines" =>
          /\ at <= Len(pairs) /\ Shown(pairs[at])
          /\ Done \in 0 .. Len(Mine)
          /\ todo = SubSeq(Mine, Done + 1, Len(Mine))
    /\ diff_pc = "done" /\ difftype # "statonly" => at = Len(pairs) + 1
    /\ difftype # "ssdiff" => deferred_old = <<>> /\ deferred_new = <<>>

\* The rows are about the pairs so far.
RowsFrom ==
    \A i \in 1 .. Len(rows) :
        /\ rows[i].file \in 1 .. Len(pairs) /\ Shown(pairs[rows[i].file])
        /\ rows[i].file <= at
        /\ rows[i].file = at => diff_pc = "lines"

\* No common line came after a line that waits, and no hunk began.
MayWait ==
    {n \in Nat : /\ Done >= 1 /\ Mine[Done].t \in {"-", "+"}
                /\ n <= Mine[Done].n
                /\ \A x \in n .. Mine[Done].n : pairs[at].script[x] # "="}

SinceCommon ==
    /\ \A i \in 1 .. Len(deferred_old) : deferred_old[i].n \in MayWait
    /\ \A i \in 1 .. Len(deferred_new) : deferred_new[i].n \in MayWait

DiffInv ==
    /\ DiffTypeOK
    /\ InPhase
    /\ RowsFrom
    /\ diff_pc = "lines" => SinceCommon

\* The pairs that are looked at, and their lines
LEMMA CurrentPair ==
    ASSUME DiffTypeOK
    PROVE  /\ pairs \in Seq(Pair) /\ Len(pairs) \in Nat /\ DOMAIN pairs = 1 .. Len(pairs)
           /\ \A k \in 1 .. Len(pairs) :
                 /\ pairs[k] \in Pair
                 /\ Good(pairs[k].script, LinesOf(pairs[k]))
<1>1. pairs \in Seq(Pair)
  BY DiffsAssumption DEF DiffTypeOK
<1>2. Len(pairs) \in Nat /\ DOMAIN pairs = 1 .. Len(pairs)
      /\ \A k \in 1 .. Len(pairs) : pairs[k] \in Pair
  BY <1>1
<1>3. context \in Int
  BY DEF DiffTypeOK
<1> QED
  BY <1>1, <1>2, <1>3, LinesGood

\* A step that leaves the input alone leaves the lines of every pair alone.
LEMMA InputStays ==
    ASSUME UNCHANGED input
    PROVE  /\ pairs' = pairs /\ context' = context /\ difftype' = difftype /\ comma' = comma
           /\ \A k : LinesOf(pairs[k])' = LinesOf(pairs[k])
           /\ \A k : Shown(pairs[k])' = Shown(pairs[k])
  BY DEF input, LinesOf, DiffFiles, Shown

\* One line is handed over
LEMMA NextLineFacts ==
    ASSUME DiffInv, NEW t, NextLine(t), UNCHANGED <<input, diff_pc, at>>
    PROVE  /\ diff_pc = "lines" /\ at \in 1 .. Len(pairs) /\ Shown(pairs[at])
           /\ Good(pairs[at].script, Mine) /\ pairs[at] \in Pair
           /\ Done \in Nat /\ Done + 1 \in 1 .. Len(Mine)
           /\ Head(todo) = Mine[Done + 1] /\ Head(todo) \in AnyLine /\ Head(todo).t = t
           /\ Mine' = Mine /\ Done' = Done + 1
           /\ todo' = SubSeq(Mine, Done + 2, Len(Mine)) /\ todo' \in Seq(AnyLine)
           /\ \A k : k # at => Received(k)' = Received(k)
           /\ Received(at) = SubSeq(Mine, 1, Done)
           /\ Received(at)' = SubSeq(Mine, 1, Done + 1)
<1> DEFINE L == Mine
<1>1. diff_pc = "lines" /\ todo # <<>> /\ Head(todo).t = t /\ todo' = Tail(todo)
  BY DEF NextLine
<1>2. /\ at \in 1 .. Len(pairs) /\ Shown(pairs[at]) /\ at' = at /\ diff_pc' = diff_pc
      /\ Done \in 0 .. Len(L) /\ todo = SubSeq(L, Done + 1, Len(L))
      /\ Good(pairs[at].script, L) /\ pairs[at] \in Pair /\ L \in Seq(AnyLine)
  <2>1. at \in 1 .. Len(pairs)
    BY <1>1, CurrentPair DEF DiffInv, InPhase, DiffTypeOK
  <2> QED
    BY <2>1, <1>1, CurrentPair DEF DiffInv, InPhase, Mine, Good
<1>3. Mine' = L
  BY <1>2, InputStays DEF Mine
<1>4. Done = Len(L) - Len(todo) /\ Done' = Len(L) - Len(todo')
  BY <1>3 DEF Done
<1> HIDE DEF L
<1>5. Len(L) \in Nat /\ Done \in Nat /\ Done + 1 \in 1 .. Len(L)
      /\ Head(todo) = L[Done + 1] /\ Head(todo) \in AnyLine
  <2>1. Len(L) \in Nat /\ Done \in Nat
    BY <1>2
  <2>2. Done # Len(L)
    BY <1>1, <1>2, <2>1
  <2> QED
    BY <1>1, <1>2, <2>1, <2>2
<1>6. todo' = SubSeq(L, Done + 2, Len(L)) /\ todo' \in Seq(AnyLine)
      /\ Len(todo') = Len(todo) - 1
  BY <1>1, <1>2, <1>5
<1>7. Done' = Done + 1
  <2>1. Len(todo) \in Nat /\ Len(L) \in Nat
    BY <1>2, <1>5
  <2>2. Len(L) - (Len(todo) - 1) = (Len(L) - Len(todo)) + 1
    BY <2>1
  <2>3. Done' = Len(L) - (Len(todo) - 1)
    BY <1>4, <1>6, Zenon
  <2> QED
    BY <1>4, <2>2, <2>3, Zenon
<1>8. \A k : k # at => Received(k)' = Received(k)
  BY <1>2, InputStays DEF Received
<1>9. Received(at) = SubSeq(L, 1, Done)
  BY <1>1, <1>2, <1>4 DEF Received, L, Mine
<1>10. Received(at)' = SubSeq(L, 1, Done + 1)
  BY <1>1, <1>2, <1>4, <1>7, InputStays DEF Received, L, Mine
<1> QED
  BY <1>1, <1>2, <1>3, <1>5, <1>6, <1>7, <1>8, <1>9, <1>10 DEF L

\* The rows of the lines that waited
LEMMA DeferredFacts ==
    ASSUME DiffTypeOK
    PROVE  /\ Deferred \in Seq(RowT)
           /\ Len(deferred_old) <= Len(Deferred) /\ Len(deferred_new) <= Len(Deferred)
           /\ deferred_old = <<>> /\ deferred_new = <<>> => Deferred = <<>>
           /\ \A i \in 1 .. Len(Deferred) :
                 /\ Deferred[i].file = at
                 /\ Deferred[i].class # "hunk"
                 /\ deferred_old # <<>> /\ deferred_new # <<>> =>
                       Deferred[i].class = "changed"
                 /\ IF i <= Len(deferred_old)
                    THEN /\ Deferred[i].old = deferred_old[i].n
                         /\ Deferred[i].oldno = deferred_old[i].no
                    ELSE Deferred[i].old = 0 /\ Deferred[i].oldno = -1
                 /\ IF i <= Len(deferred_new)
                    THEN /\ Deferred[i].new = deferred_new[i].n
                         /\ Deferred[i].newno = deferred_new[i].no
                    ELSE Deferred[i].new = 0 /\ Deferred[i].newno = -1
<1> DEFINE longest == IF Len(deferred_old) > Len(deferred_new)
                      THEN Len(deferred_old) ELSE Len(deferred_new)
           class == IF deferred_new = <<>> THEN "del"
                    ELSE IF deferred_old = <<>> THEN "add" ELSE "changed"
           Cell(q, i) == IF i <= Len(q) THEN q[i] ELSE [n |-> 0, no |-> -1]
           D == Deferred
<1>1. D = [i \in 1 .. longest |->
              [file |-> at, class |-> class,
               old |-> Cell(deferred_old, i).n, oldno |-> Cell(deferred_old, i).no,
               new |-> Cell(deferred_new, i).n, newno |-> Cell(deferred_new, i).no]]
  BY DEF Deferred, Row
<1> HIDE DEF D
<1>2. /\ deferred_old \in Seq(QueueT) /\ deferred_new \in Seq(QueueT) /\ at \in Nat
      /\ Len(deferred_old) \in Nat /\ Len(deferred_new) \in Nat
  BY DEF DiffTypeOK
<1>3. longest \in Nat /\ Len(deferred_old) <= longest /\ Len(deferred_new) <= longest
  BY <1>2
<1>4. ASSUME NEW q \in Seq(QueueT), NEW i \in Nat \ {0}
      PROVE  /\ Cell(q, i).n \in Nat /\ Cell(q, i).no \in Int
             /\ i <= Len(q) => Cell(q, i).n = q[i].n /\ Cell(q, i).no = q[i].no
             /\ ~(i <= Len(q)) => Cell(q, i).n = 0 /\ Cell(q, i).no = -1
  <2>1. CASE i <= Len(q)
    <3>1. q[i] \in QueueT
      BY <2>1
    <3> QED
      BY <2>1, <3>1 DEF QueueT
  <2>2. CASE ~(i <= Len(q))
    BY <2>2
  <2> QED
    BY <2>1, <2>2
<1>5. class \in Classes /\ class # "hunk"
      /\ (deferred_old # <<>> /\ deferred_new # <<>> => class = "changed")
  <2>1. class \in {"del", "add", "changed"}
    OBVIOUS
  <2>2. deferred_old # <<>> /\ deferred_new # <<>> => class = "changed"
    OBVIOUS
  <2> HIDE DEF class
  <2> QED
    BY <2>1, <2>2 DEF Classes
<1>6. deferred_old = <<>> /\ deferred_new = <<>> => longest = 0
  OBVIOUS
<1> HIDE DEF longest, class, Cell
<1>7. \A i \in 1 .. longest : D[i] \in RowT
  <2> SUFFICES ASSUME NEW i \in 1 .. longest PROVE D[i] \in RowT
    OBVIOUS
  <2>1. i \in Nat \ {0}
    BY <1>3
  <2> QED
    BY <2>1, <1>1, <1>2, <1>4, <1>5 DEF RowT
<1>8. D \in Seq(RowT) /\ Len(D) = longest
  <2>1. D \in [1 .. longest -> RowT]
    BY <1>1, <1>7
  <2> QED
    BY <2>1, <1>3
<1>9. ASSUME NEW i \in 1 .. longest
      PROVE  /\ D[i].file = at
             /\ D[i].class # "hunk"
             /\ deferred_old # <<>> /\ deferred_new # <<>> => D[i].class = "changed"
             /\ IF i <= Len(deferred_old)
                THEN D[i].old = deferred_old[i].n /\ D[i].oldno = deferred_old[i].no
                ELSE D[i].old = 0 /\ D[i].oldno = -1
             /\ IF i <= Len(deferred_new)
                THEN D[i].new = deferred_new[i].n /\ D[i].newno = deferred_new[i].no
                ELSE D[i].new = 0 /\ D[i].newno = -1
  <2>1. i \in Nat \ {0}
    BY <1>3
  <2>2. /\ D[i].file = at /\ D[i].class = class
        /\ D[i].old = Cell(deferred_old, i).n /\ D[i].oldno = Cell(deferred_old, i).no
        /\ D[i].new = Cell(deferred_new, i).n /\ D[i].newno = Cell(deferred_new, i).no
    BY <1>1
  <2> QED
    BY <2>1, <2>2, <1>2, <1>4, <1>5
<1>10. deferred_old = <<>> /\ deferred_new = <<>> => D = <<>>
  BY <1>6, <1>8
<1> QED
  BY <1>3, <1>8, <1>9, <1>10 DEF D

-----------------------------------------------------------------------------
(* The rows that a step prints *)

\* Rows that are printed come after the earlier ones.
LEMMA RowsAfter ==
    ASSUME NEW rs \in Seq(RowT), NEW more \in Seq(RowT)
    PROVE  /\ rs \o more \in Seq(RowT) /\ Len(rs) \in Nat
           /\ \A i \in 1 .. Len(rs \o more) :
                 \/ i \in 1 .. Len(rs) /\ (rs \o more)[i] = rs[i]
                 \/ \E j \in 1 .. Len(more) : (rs \o more)[i] = more[j]
           /\ \A i \in 1 .. Len(rs) :
                 i \in 1 .. Len(rs \o more) /\ (rs \o more)[i] = rs[i]
           /\ \A j \in 1 .. Len(more) :
                 \E i \in 1 .. Len(rs \o more) : (rs \o more)[i] = more[j]
<1>1. /\ rs \o more \in Seq(RowT) /\ Len(rs) \in Nat /\ Len(more) \in Nat
      /\ Len(rs \o more) = Len(rs) + Len(more)
      /\ \A i \in 1 .. Len(rs) + Len(more) : (rs \o more)[i] =
            IF i <= Len(rs) THEN rs[i] ELSE more[i - Len(rs)]
  BY ConcatProperties, LenProperties
<1> DEFINE w == rs \o more
<1> HIDE DEF w
<1>2. ASSUME NEW i \in 1 .. Len(w)
      PROVE  \/ i \in 1 .. Len(rs) /\ w[i] = rs[i]
             \/ \E j \in 1 .. Len(more) : w[i] = more[j]
  <2>1. CASE i <= Len(rs)
    BY <2>1, <1>1 DEF w
  <2>2. CASE ~(i <= Len(rs))
    <3>1. i - Len(rs) \in 1 .. Len(more) /\ w[i] = more[i - Len(rs)]
      BY <2>2, <1>1 DEF w
    <3> QED
      BY <3>1
  <2> QED
    BY <2>1, <2>2
<1>3. \A i \in 1 .. Len(rs) : i \in 1 .. Len(w) /\ w[i] = rs[i]
  BY <1>1 DEF w
<1>4. ASSUME NEW j \in 1 .. Len(more) PROVE \E i \in 1 .. Len(w) : w[i] = more[j]
  <2>1. /\ j + Len(rs) \in 1 .. Len(w) /\ ~(j + Len(rs) <= Len(rs))
        /\ (j + Len(rs)) - Len(rs) = j
    BY <1>1 DEF w
  <2>2. w[j + Len(rs)] = more[j]
    BY <2>1, <1>1 DEF w
  <2> QED
    BY <2>1, <2>2
<1> QED
  BY <1>1, <1>2, <1>3, <1>4 DEF w

\* A row that is printed in the current state
NewRow(r) ==
    \/ /\ difftype = "unified" /\ r.file = at /\ r.new = 0
       /\ \E t \in {"@", "=", "-", "+"} : NextLine(t) /\ r.old = Head(todo).n
    \/ difftype = "ssdiff" /\ NextLine("@") /\ r = Row("hunk", 0, 0, 0, 0)
    \/ /\ difftype = "ssdiff" /\ NextLine("=")
       /\ r = Row("ctx", Head(todo).n, current_old_line, Head(todo).n, current_new_line)
    \/ difftype = "ssdiff" /\ \E j \in 1 .. Len(Deferred) : r = Deferred[j]

\* Every step only adds rows, each of them one of the kinds above.
LEMMA NewRows ==
    ASSUME DiffInv, DiffNext
    PROVE  \E more \in Seq(RowT) :
              /\ rows' = rows \o more
              /\ \A j \in 1 .. Len(more) : diff_pc = "lines" /\ NewRow(more[j])
<1>1. /\ rows \in Seq(RowT) /\ at \in Nat
      /\ current_old_line \in Int /\ current_new_line \in Int
  BY DEF DiffInv, DiffTypeOK
<1>2. ASSUME rows' = rows
      PROVE  \E more \in Seq(RowT) :
                /\ rows' = rows \o more
                /\ \A j \in 1 .. Len(more) : diff_pc = "lines" /\ NewRow(more[j])
  <2> DEFINE e == <<>>
  <2>1. e \in Seq(RowT) /\ rows \o e = rows /\ 1 .. Len(e) = {}
    BY <1>1, ConcatEmptySeq
  <2> HIDE DEF e
  <2> QED
    BY <1>2, <2>1
<1>3. ASSUME NEW r \in RowT, rows' = Append(rows, r), NewRow(r), diff_pc = "lines"
      PROVE  \E more \in Seq(RowT) :
                /\ rows' = rows \o more
                /\ \A j \in 1 .. Len(more) : diff_pc = "lines" /\ NewRow(more[j])
  <2> DEFINE e == <<r>>
  <2>1. e \in Seq(RowT) /\ rows \o e = Append(rows, r) /\ \A j \in 1 .. Len(e) : e[j] = r
    BY <1>1
  <2> HIDE DEF e
  <2> QED
    BY <1>3, <2>1
<1>4. CASE Inspect \/ StatDone \/ BeginPair \/ SsDeleted \/ SsAdded \/ Finish
  BY <1>2, <1>4 DEF Inspect, StatDone, BeginPair, SsDeleted, SsAdded, Finish
<1>5. CASE UnifiedLine
  <2>1. PICK t \in {"@", "=", "-", "+"} :
            /\ NextLine(t) /\ difftype = "unified"
            /\ rows' = Append(rows, Row(t, Head(todo).n, 0, 0, 0))
            /\ UNCHANGED <<input, diff_pc, at>>
    BY <1>5 DEF UnifiedLine
  <2> DEFINE r == Row(t, Head(todo).n, 0, 0, 0)
  <2>2. Head(todo) \in AnyLine /\ diff_pc = "lines"
    BY <2>1, NextLineFacts
  <2>3. r \in RowT /\ r.file = at /\ r.new = 0 /\ r.old = Head(todo).n
    BY <2>2, <1>1, AnyLineFacts DEF Row, RowT, Classes
  <2> HIDE DEF r
  <2>4. NewRow(r)
    BY <2>1, <2>3 DEF NewRow
  <2> QED
    BY <1>3, <2>1, <2>2, <2>3, <2>4 DEF r
<1>6. CASE SsHunk
  <2> DEFINE r == Row("hunk", 0, 0, 0, 0)
  <2>1. NextLine("@") /\ difftype = "ssdiff" /\ rows' = Append(rows, r)
        /\ diff_pc = "lines"
    BY <1>6 DEF SsHunk, NextLine
  <2>2. r \in RowT
    BY <1>1 DEF Row, RowT, Classes
  <2> HIDE DEF r
  <2>3. NewRow(r)
    BY <2>1 DEF NewRow, r
  <2> QED
    BY <1>3, <2>1, <2>2, <2>3
<1>7. CASE SsContext
  <2> DEFINE r == Row("ctx", Head(todo).n, current_old_line, Head(todo).n,
                      current_new_line)
             D == Deferred
  <2>1. NextLine("=") /\ difftype = "ssdiff" /\ rows' = (rows \o D) \o <<r>>
        /\ diff_pc = "lines" /\ UNCHANGED <<input, diff_pc, at>>
    BY <1>7 DEF SsContext, NextLine
  <2>2. Head(todo).n \in Nat
    BY <2>1, NextLineFacts, AnyLineFacts
  <2>3. r \in RowT
    BY <2>2, <1>1 DEF Row, RowT, Classes
  <2>4. D \in Seq(RowT)
    BY DeferredFacts DEF DiffInv
  <2>5. NewRow(r) /\ \A j \in 1 .. Len(D) : NewRow(D[j])
    BY <2>1 DEF NewRow
  <2> HIDE DEF r, D
  <2>6. <<r>> \in Seq(RowT) /\ Len(<<r>>) = 1 /\ <<r>>[1] = r
    BY <2>3
  <2>7. D \o <<r>> \in Seq(RowT) /\ (rows \o D) \o <<r>> = rows \o (D \o <<r>>)
    BY <2>4, <2>6, <1>1, Associative, ConcatProperties
  <2>8. \A j \in 1 .. Len(D \o <<r>>) :
            \/ \E i \in 1 .. Len(D) : (D \o <<r>>)[j] = D[i]
            \/ (D \o <<r>>)[j] = r
    BY <2>4, <2>6, RowsAfter
  <2>9. \A j \in 1 .. Len(D \o <<r>>) : NewRow((D \o <<r>>)[j])
    BY <2>5, <2>8
  <2> QED
    BY <2>1, <2>7, <2>9
<1>8. CASE EndPair
  <2> DEFINE D == Deferred
  <2>1. rows' = rows \o D /\ diff_pc = "lines"
    BY <1>8 DEF EndPair
  <2>2. D \in Seq(RowT) /\ D # <<>> => difftype = "ssdiff"
    BY DeferredFacts DEF DiffInv, InPhase
  <2>3. D \in Seq(RowT)
    BY DeferredFacts DEF DiffInv
  <2>4. \A j \in 1 .. Len(D) : difftype = "ssdiff"
    <3> HIDE DEF D
    <3> QED BY <2>2, <2>3
  <2>5. \A j \in 1 .. Len(D) : NewRow(D[j])
    BY <2>4 DEF NewRow
  <2> HIDE DEF D
  <2> QED
    BY <2>1, <2>3, <2>5
<1> QED
  BY <1>4, <1>5, <1>6, <1>7, <1>8 DEF DiffNext

-----------------------------------------------------------------------------
(* The invariant holds *)

ItemT == [file : Nat, added : Nat, removed : Nat]

\* What the statistic has of a pair
LEMMA InspectFacts ==
    ASSUME DiffInv, Inspect
    PROVE  /\ diff_pc = "stat" /\ at \in 1 .. Len(pairs)
           /\ ~Shown(pairs[at]) => items' = items
           /\ Shown(pairs[at]) =>
                 \E e \in ItemT :
                    /\ items' = Append(items, e) /\ e.file = at
                    /\ LET s == pairs[at].script
                       IN  pairs[at].kind = "text" =>
                              /\ e.added = Cardinality({i \in 1 .. Len(s) : s[i] = "+"})
                              /\ e.removed = Cardinality({i \in 1 .. Len(s) : s[i] = "-"})
<1>1. diff_pc = "stat" /\ at \in 1 .. Len(pairs) /\ pairs[at] \in Pair
  BY CurrentPair DEF Inspect, DiffInv, DiffTypeOK
<1> DEFINE s == IF pairs[at].kind = "text" THEN pairs[at].script ELSE <<>>
           e == [file |-> at,
                 added |-> Count(XdlDiff(s, DefaultContext), "+"),
                 removed |-> Count(XdlDiff(s, DefaultContext), "-")]
<1>2. IF ~Shown(pairs[at]) THEN items' = items ELSE items' = Append(items, e)
  BY DEF Inspect
<1>3. s \in Script
  <2>1. <<>> \in Script
    BY DEF Script
  <2> QED
    BY <1>1, <2>1, PairFacts
<1>4. pairs[at].kind = "text" => s = pairs[at].script
  OBVIOUS
<1> HIDE DEF s
<1>5. /\ Count(XdlDiff(s, DefaultContext), "+") \in Nat
      /\ Count(XdlDiff(s, DefaultContext), "-") \in Nat
      /\ Count(XdlDiff(s, DefaultContext), "+")
            = Cardinality({i \in 1 .. Len(s) : s[i] = "+"})
      /\ Count(XdlDiff(s, DefaultContext), "-")
            = Cardinality({i \in 1 .. Len(s) : s[i] = "-"})
  BY <1>3, ContextAssumption, CountsChanges
<1>6. e \in ItemT /\ e.file = at
  BY <1>1, <1>5 DEF ItemT
<1>7. e.added = Count(XdlDiff(s, DefaultContext), "+")
      /\ e.removed = Count(XdlDiff(s, DefaultContext), "-")
  OBVIOUS
<1> HIDE DEF e
<1> QED
  BY <1>1, <1>2, <1>4, <1>5, <1>6, <1>7

\* line_from_hunk takes a number of the header or none.
LEMMA HunkNumbers ==
    ASSUME NEW l \in HunkT, comma \in BOOLEAN
    PROVE  /\ LineFromHunk(l, "old") = IF comma \/ l.newCount # 1 \/ l.oldCount # 1
                                       THEN l.old ELSE 0
           /\ LineFromHunk(l, "new") = IF comma \/ l.newCount # 1 THEN l.new ELSE 0
           /\ LineFromHunk(l, "old") \in Nat /\ LineFromHunk(l, "new") \in Nat
<1>1. l["old"] = l.old /\ l["new"] = l.new /\ l.old \in Nat /\ l.new \in Nat
  BY DEF HunkT
<1> QED
  BY <1>1 DEF LineFromHunk

\* The steps keep to the types.
LEMMA StepType == DiffInv /\ DiffNext => DiffTypeOK'
<1> SUFFICES ASSUME DiffInv, DiffNext PROVE DiffTypeOK'
  OBVIOUS
<1>1. DiffTypeOK /\ InPhase
  BY DEF DiffInv
<1>2. rows' \in Seq(RowT)
  <2>1. PICK more \in Seq(RowT) : rows' = rows \o more
    BY NewRows
  <2> QED
    BY <2>1, <1>1, ConcatProperties DEF DiffTypeOK
<1>3. UNCHANGED input
  BY DEF DiffNext, Inspect, StatDone, BeginPair, UnifiedLine,
                SsHunk, SsContext, SsDeleted, SsAdded, EndPair, Finish
<1>4. /\ pairs' \in Diffs /\ context' \in Int /\ comma' \in BOOLEAN
      /\ difftype' \in {"unified", "ssdiff", "statonly"}
  BY <1>1, <1>3, InputStays DEF DiffTypeOK
<1>5. CASE Inspect
  <2>1. items \in Seq(ItemT)
    BY <1>1 DEF DiffTypeOK, ItemT
  <2>2. items' = items \/ \E e \in ItemT : items' = Append(items, e)
    BY <1>5, InspectFacts
  <2>3. items' \in Seq(ItemT)
    BY <2>1, <2>2
  <2> QED
    BY <1>1, <1>2, <1>4, <1>5, <2>3 DEF Inspect, DiffTypeOK, ItemT, queues
<1>6. CASE StatDone
  BY <1>1, <1>2, <1>4, <1>6 DEF StatDone, DiffTypeOK, queues
<1>7. CASE BeginPair
  <2>1. LinesOf(pairs[at]) \in Seq(AnyLine)
    BY <1>1, <1>7, CurrentPair DEF BeginPair, Good, DiffTypeOK
  <2> QED
    BY <1>1, <1>2, <1>4, <1>7, <2>1 DEF BeginPair, DiffTypeOK, queues
<1>8. CASE UnifiedLine
  <2>1. PICK t : NextLine(t) /\ UNCHANGED <<input, diff_pc, at>>
    BY <1>8 DEF UnifiedLine
  <2>2. todo' \in Seq(AnyLine)
    BY <2>1, NextLineFacts
  <2> QED
    BY <1>1, <1>2, <1>4, <1>8, <2>2 DEF UnifiedLine, DiffTypeOK, queues
<1>9. CASE SsHunk
  <2>1. NextLine("@") /\ UNCHANGED <<input, diff_pc, at>>
    BY <1>9 DEF SsHunk
  <2>2. todo' \in Seq(AnyLine) /\ Head(todo) \in HunkT
    BY <2>1, NextLineFacts, AnyLineFacts
  <2>3. LineFromHunk(Head(todo), "old") \in Int /\ LineFromHunk(Head(todo), "new") \in Int
    BY <1>1, <2>2, HunkNumbers DEF DiffTypeOK
  <2> QED
    BY <1>1, <1>2, <1>4, <1>9, <2>2, <2>3 DEF SsHunk, DiffTypeOK, queues
<1>10. CASE SsContext
  <2>1. NextLine("=") /\ UNCHANGED <<input, diff_pc, at>>
    BY <1>10 DEF SsContext
  <2>2. todo' \in Seq(AnyLine) /\ <<>> \in Seq(QueueT)
    BY <2>1, NextLineFacts
  <2> QED
    BY <1>1, <1>2, <1>4, <1>10, <2>2 DEF SsContext, DiffTypeOK, queues
<1>11. CASE SsDeleted
  <2>1. NextLine("-") /\ UNCHANGED <<input, diff_pc, at>>
    BY <1>11 DEF SsDeleted
  <2>2. todo' \in Seq(AnyLine) /\ Head(todo).n \in Nat \ {0}
    <3>1. todo' \in Seq(AnyLine) /\ Head(todo) \in AnyLine /\ Head(todo).t # "@"
      BY <2>1, NextLineFacts
    <3> QED
      BY <3>1, AnyLineFacts
  <2>3. deferred_old' \in Seq(QueueT)
    <3> DEFINE e == [n |-> Head(todo).n, no |-> current_old_line]
    <3>1. e \in QueueT
      BY <1>1, <2>2 DEF QueueT, DiffTypeOK
    <3>2. deferred_old' = Append(deferred_old, e) /\ deferred_old \in Seq(QueueT)
      BY <1>1, <1>11 DEF SsDeleted, DiffTypeOK
    <3> HIDE DEF e
    <3> QED BY <3>1, <3>2
  <2> QED
    BY <1>1, <1>2, <1>4, <1>11, <2>2, <2>3 DEF SsDeleted, DiffTypeOK
<1>12. CASE SsAdded
  <2>1. NextLine("+") /\ UNCHANGED <<input, diff_pc, at>>
    BY <1>12 DEF SsAdded
  <2>2. todo' \in Seq(AnyLine) /\ Head(todo).n \in Nat \ {0}
    <3>1. todo' \in Seq(AnyLine) /\ Head(todo) \in AnyLine /\ Head(todo).t # "@"
      BY <2>1, NextLineFacts
    <3> QED
      BY <3>1, AnyLineFacts
  <2>3. deferred_new' \in Seq(QueueT)
    <3> DEFINE e == [n |-> Head(todo).n, no |-> current_new_line]
    <3>1. e \in QueueT
      BY <1>1, <2>2 DEF QueueT, DiffTypeOK
    <3>2. deferred_new' = Append(deferred_new, e) /\ deferred_new \in Seq(QueueT)
      BY <1>1, <1>12 DEF SsAdded, DiffTypeOK
    <3> HIDE DEF e
    <3> QED BY <3>1, <3>2
  <2> QED
    BY <1>1, <1>2, <1>4, <1>12, <2>2, <2>3 DEF SsAdded, DiffTypeOK
<1>13. CASE EndPair
  BY <1>1, <1>2, <1>4, <1>13 DEF EndPair, DiffTypeOK
<1>14. CASE Finish
  BY <1>1, <1>2, <1>4, <1>14 DEF Finish, DiffTypeOK, queues
<1> QED
  BY <1>5, <1>6, <1>7, <1>8, <1>9, <1>10, <1>11, <1>12, <1>13, <1>14 DEF DiffNext

\* Rows are about pairs that are shown, up to the current one.
LEMMA StepFrom == DiffInv /\ DiffNext => RowsFrom'
<1> SUFFICES ASSUME DiffInv, DiffNext PROVE RowsFrom'
  OBVIOUS
<1>1. PICK more \in Seq(RowT) :
          /\ rows' = rows \o more
          /\ \A j \in 1 .. Len(more) : diff_pc = "lines" /\ NewRow(more[j])
  BY NewRows
<1>2. /\ UNCHANGED input /\ at' \in Nat /\ at \in Nat
      /\ diff_pc # "stat" => at <= at'
      /\ diff_pc = "lines" /\ at' = at => diff_pc' = "lines"
      /\ diff_pc # "lines" => rows' = rows
      /\ diff_pc = "stat" => rows = <<>>
  <2>1. at \in Nat /\ (diff_pc = "stat" => rows = <<>>)
    BY DEF DiffInv, DiffTypeOK, InPhase
  <2>2. CASE Inspect \/ StatDone
    BY <2>1, <2>2 DEF Inspect, StatDone
  <2>3. CASE BeginPair \/ EndPair \/ Finish
    BY <2>1, <2>3 DEF BeginPair, EndPair, Finish
  <2>4. CASE UnifiedLine \/ SsHunk \/ SsContext \/ SsDeleted \/ SsAdded
    <3>1. UNCHANGED <<input, diff_pc, at>> /\ diff_pc = "lines"
      BY <2>4 DEF UnifiedLine, SsHunk, SsContext, SsDeleted, SsAdded, NextLine
    <3> QED
      BY <2>1, <3>1
  <2> QED
    BY <2>2, <2>3, <2>4 DEF DiffNext
<1>3. ASSUME NEW r, NewRow(r), diff_pc = "lines"
      PROVE  r.file = at /\ at \in 1 .. Len(pairs) /\ Shown(pairs[at])
  <2>1. at \in 1 .. Len(pairs) /\ Shown(pairs[at])
    BY <1>3, CurrentPair DEF DiffInv, InPhase, DiffTypeOK
  <2> QED
    BY <1>3, <2>1, DeferredFacts DEF NewRow, Row, DiffInv
<1>4. rows \in Seq(RowT) /\ RowsFrom
  BY DEF DiffInv, DiffTypeOK
<1>5. CASE diff_pc = "stat"
  <2>1. rows' = <<>>
    BY <1>2, <1>5
  <2> QED
    BY <2>1 DEF RowsFrom
<1>6. CASE diff_pc # "stat"
  <2> SUFFICES ASSUME NEW i \in 1 .. Len(rows')
               PROVE  /\ rows'[i].file \in 1 .. Len(pairs) /\ Shown(pairs[rows'[i].file])
                      /\ rows'[i].file <= at'
                      /\ rows'[i].file = at' => diff_pc' = "lines"
    BY <1>2, InputStays DEF RowsFrom
  <2>1. CASE i \in 1 .. Len(rows) /\ rows'[i] = rows[i]
    <3>1. /\ rows[i].file \in 1 .. Len(pairs) /\ Shown(pairs[rows[i].file])
          /\ rows[i].file <= at
          /\ rows[i].file = at => diff_pc = "lines"
      BY <2>1, <1>4 DEF RowsFrom
    <3>2. rows[i].file \in Nat
      BY <3>1
    <3> QED
      BY <3>1, <3>2, <2>1, <1>2, <1>6
  <2>2. ASSUME NEW j \in 1 .. Len(more), rows'[i] = more[j]
        PROVE  /\ rows'[i].file \in 1 .. Len(pairs) /\ Shown(pairs[rows'[i].file])
               /\ rows'[i].file <= at'
               /\ rows'[i].file = at' => diff_pc' = "lines"
    BY <2>2, <1>1, <1>2, <1>3, <1>6
  <2> QED
    BY <1>1, <1>4, <2>1, <2>2, RowsAfter
<1> QED
  BY <1>5, <1>6

\* A file begins: none of its lines has come.
LEMMA BeginFacts ==
    ASSUME DiffInv, BeginPair, Shown(pairs[at])
    PROVE  /\ at' = at /\ diff_pc' = "lines" /\ Mine' = Mine /\ Done' = 0
           /\ Done' \in 0 .. Len(Mine') /\ todo' = SubSeq(Mine', Done' + 1, Len(Mine'))
           /\ current_old_line' = -1 /\ current_new_line' = -1
<1> DEFINE L == LinesOf(pairs[at])
<1>1. /\ at \in 1 .. Len(pairs) /\ at' = at /\ diff_pc' = "lines" /\ todo' = L
      /\ UNCHANGED input /\ current_old_line' = -1 /\ current_new_line' = -1
  BY CurrentPair DEF BeginPair, DiffInv, DiffTypeOK
<1>2. Mine' = L /\ Mine = L
  BY <1>1, InputStays DEF Mine
<1>3. L \in Seq(AnyLine)
  BY <1>1, CurrentPair DEF Good, DiffInv
<1> HIDE DEF L
<1>4. Len(L) \in Nat /\ SubSeq(L, 1, Len(L)) = L
  BY <1>3, SubSeqFull
<1>5. Done' = 0
  BY <1>1, <1>2, <1>4 DEF Done
<1> QED
  BY <1>1, <1>2, <1>4, <1>5

\* The lines that are left are the end of those of the current pair.
LEMMA StepPhase == DiffInv /\ DiffNext => InPhase'
<1> SUFFICES ASSUME DiffInv, DiffNext PROVE InPhase'
  OBVIOUS
<1>1. InPhase /\ at \in Nat \ {0} /\ pairs \in Seq(Pair) /\ Len(pairs) \in Nat
  BY CurrentPair DEF DiffInv, DiffTypeOK
<1>2. ASSUME NEW t, NextLine(t), UNCHANGED <<input, diff_pc, at>>,
             difftype # "ssdiff" => deferred_old' = <<>> /\ deferred_new' = <<>>
      PROVE  InPhase'
  <2>1. /\ diff_pc = "lines" /\ at <= Len(pairs) /\ Shown(pairs[at])
        /\ Done + 1 \in 1 .. Len(Mine) /\ Done \in Nat
        /\ Mine' = Mine /\ Done' = Done + 1 /\ todo' = SubSeq(Mine, Done + 2, Len(Mine))
    BY <1>2, NextLineFacts
  <2>2. Done' \in 0 .. Len(Mine') /\ Done' + 1 = Done + 2
    BY <2>1
  <2>3. todo' = SubSeq(Mine', Done' + 1, Len(Mine'))
    BY <2>1, <2>2
  <2>4. diff_pc' = "lines" /\ at' <= Len(pairs') /\ Shown(pairs[at])' /\ difftype' = difftype
    BY <1>2, <2>1, InputStays DEF Shown
  <2> QED
    BY <1>2, <2>1, <2>2, <2>3, <2>4, <1>1 DEF InPhase
<1>3. CASE Inspect
  BY <1>1, <1>3, InputStays DEF Inspect, InPhase, queues
<1>4. CASE StatDone
  BY <1>1, <1>4, InputStays DEF StatDone, InPhase, queues
<1>5. CASE BeginPair
  <2>1. /\ UNCHANGED input /\ UNCHANGED queues /\ diff_pc = "pairs" /\ at <= Len(pairs)
        /\ rows' = rows /\ deferred_old = <<>> /\ deferred_new = <<>>
    BY <1>1, <1>5 DEF BeginPair, InPhase
  <2>2. CASE Shown(pairs[at])
    <3>1. /\ at' = at /\ diff_pc' = "lines" /\ Done' = 0
          /\ Done' \in 0 .. Len(Mine') /\ todo' = SubSeq(Mine', Done' + 1, Len(Mine'))
      BY <1>5, <2>2, BeginFacts
    <3>7. at' <= Len(pairs') + 1 /\ at' <= Len(pairs') /\ Shown(pairs[at])'
      BY <1>1, <2>1, <2>2, <3>1, InputStays DEF Shown
    <3> QED
      BY <2>1, <3>1, <3>7 DEF InPhase, queues
  <2>3. CASE ~Shown(pairs[at])
    BY <1>1, <1>5, <2>1, <2>3, InputStays DEF BeginPair, InPhase, queues
  <2> QED
    BY <2>2, <2>3
<1>6. CASE UnifiedLine
  <2>1. PICK t : NextLine(t)
    BY <1>6 DEF UnifiedLine
  <2> QED
    BY <1>1, <1>2, <1>6, <2>1 DEF UnifiedLine, InPhase, queues
<1>7. CASE SsHunk
  BY <1>2, <1>7 DEF SsHunk
<1>8. CASE SsContext
  BY <1>2, <1>8 DEF SsContext
<1>9. CASE SsDeleted
  BY <1>2, <1>9 DEF SsDeleted
<1>10. CASE SsAdded
  BY <1>2, <1>10 DEF SsAdded
<1>11. CASE EndPair
  BY <1>1, <1>11, InputStays DEF EndPair, InPhase
<1>12. CASE Finish
  BY <1>1, <1>12, InputStays DEF Finish, InPhase, queues
<1> QED
  BY <1>3, <1>4, <1>5, <1>6, <1>7, <1>8, <1>9, <1>10, <1>11, <1>12 DEF DiffNext

\* A line that waits may wait on when another change comes.
LEMMA SinceNext ==
    ASSUME DiffInv, NEW t \in {"-", "+"}, NextLine(t), UNCHANGED <<input, diff_pc, at>>,
           NEW n \in Nat, n \in MayWait \/ n = Head(todo).n
    PROVE  n \in MayWait'
<1> DEFINE L == Mine
           s == pairs[at].script
           d == Done
<1>1. /\ d \in Nat /\ d + 1 \in 1 .. Len(L) /\ L[d + 1] = Head(todo) /\ L[d + 1].t = t
      /\ Mine' = L /\ Done' = d + 1 /\ L[d + 1] \in AnyLine /\ Good(s, L)
      /\ at' = at /\ pairs' = pairs
  BY NextLineFacts, InputStays
<1>2. n \in MayWait => /\ d >= 1 /\ L[d].t \in {"-", "+"} /\ n <= L[d].n
                  /\ \A x \in n .. L[d].n : s[x] # "="
  BY DEF MayWait
<1> HIDE DEF L, d
<1>3. L[d + 1].n \in Nat /\ s[L[d + 1].n] # "="
  <2>1. L[d + 1].t # "@" /\ L[d + 1].t # "=" /\ Truthful(s, L)
    BY <1>1 DEF Good
  <2> QED
    BY <2>1, <1>1, AnyLineFacts DEF Truthful
<1>4. CASE n = L[d + 1].n
  <2>1. \A x \in n .. L[d + 1].n : s[x] # "="
    <3>1. \A x \in n .. L[d + 1].n : x = n
      BY <1>4
    <3> QED
      BY <1>3, <1>4, <3>1
  <2>2. d + 1 >= 1 /\ n <= L[d + 1].n
    BY <1>1, <1>4
  <2> QED
    BY <1>1, <2>1, <2>2 DEF MayWait
<1>5. CASE n \in MayWait
  <2>1. d >= 1 /\ d \in 1 .. Len(L) /\ d \in 1 .. Len(L) - 1 /\ L \in Seq(AnyLine)
    BY <1>1, <1>2, <1>5 DEF Good
  <2>2. L[d + 1].n = L[d].n + 1
    BY <1>1, <1>2, <1>5, <2>1 DEF Good, Consecutive
  <2>3. L[d].n \in Nat
    BY <2>1, AnyLineFacts
  <2>4. n <= L[d + 1].n /\ d + 1 >= 1
    BY <1>2, <1>5, <2>1, <2>2, <2>3
  <2>5. \A x \in n .. L[d + 1].n : x \in n .. L[d].n \/ x = L[d + 1].n
    BY <2>2, <2>3
  <2>6. \A x \in n .. L[d + 1].n : s[x] # "="
    BY <2>5, <1>2, <1>3, <1>5
  <2> QED
    BY <1>1, <2>4, <2>6 DEF MayWait
<1> QED
  BY <1>1, <1>4, <1>5

\* When a hunk begins, no line waits.
LEMMA HunkFindsEmpty ==
    ASSUME DiffInv, NextLine("@"), UNCHANGED <<input, diff_pc, at>>
    PROVE  deferred_old = <<>> /\ deferred_new = <<>>
<1> SUFFICES ASSUME NEW q \in Seq(QueueT), q # <<>>,
                    \A i \in 1 .. Len(q) : q[i].n \in MayWait
             PROVE  FALSE
  BY NextLineFacts DEF DiffInv, DiffTypeOK, SinceCommon
<1>1. 1 \in 1 .. Len(q)
  OBVIOUS
<1>2. Done >= 1 /\ Mine[Done].t \in {"-", "+"}
  BY <1>1 DEF MayWait
<1>3. Done \in 1 .. Len(Mine) - 1 /\ Mine[Done + 1].t = "@" /\ Parted(Mine)
  <2>1. Mine \in Seq(AnyLine) /\ Done \in Nat /\ Done + 1 \in 1 .. Len(Mine)
        /\ Mine[Done + 1].t = "@" /\ Parted(Mine)
    BY NextLineFacts DEF Good
  <2> QED
    BY <1>2, <2>1
<1> QED
  BY <1>2, <1>3 DEF Parted

\* Nothing waits past a common line.
LEMMA StepSince ==
    DiffInv /\ DiffNext =>
        (diff_pc = "lines" => SinceCommon)'
<1> SUFFICES ASSUME DiffInv, DiffNext, diff_pc' = "lines"
             PROVE  SinceCommon'
  OBVIOUS
<1>1. deferred_old \in Seq(QueueT) /\ deferred_new \in Seq(QueueT) /\ InPhase
  BY DEF DiffInv, DiffTypeOK
<1>2. ASSUME deferred_old' = <<>>, deferred_new' = <<>>
      PROVE  SinceCommon'
  BY <1>2 DEF SinceCommon
<1>3. ASSUME NEW t \in {"-", "+"}, NextLine(t), UNCHANGED <<input, diff_pc, at>>,
             NEW q \in Seq(QueueT), \A i \in 1 .. Len(q) : q[i].n \in MayWait, NEW r,
             \/ r = q
             \/ \E e \in QueueT : e.n = Head(todo).n /\ r = Append(q, e)
      PROVE  \A i \in 1 .. Len(r) : r[i].n \in MayWait'
  <2>1. ASSUME NEW n \in Nat, n \in MayWait \/ n = Head(todo).n
        PROVE  n \in MayWait'
    BY <1>3, <2>1, SinceNext
  <2>2. \A i \in 1 .. Len(r) : r[i].n \in Nat /\ (r[i].n \in MayWait \/ r[i].n = Head(todo).n)
    <3>1. \A i \in 1 .. Len(q) : q[i].n \in Nat /\ q[i].n \in MayWait
      <4>1. \A i \in 1 .. Len(q) : q[i] \in QueueT
        OBVIOUS
      <4> QED
        BY <4>1, <1>3 DEF QueueT
    <3>2. CASE r = q
      BY <3>1, <3>2
    <3>3. ASSUME NEW e \in QueueT, e.n = Head(todo).n, r = Append(q, e)
          PROVE \A i \in 1 .. Len(r) :
                    r[i].n \in Nat /\ (r[i].n \in MayWait \/ r[i].n = Head(todo).n)
      <4>1. e.n \in Nat
        BY DEF QueueT
      <4>2. \A i \in 1 .. Len(r) : (i \in 1 .. Len(q) /\ r[i] = q[i]) \/ r[i] = e
        BY <3>3
      <4> QED
        BY <4>1, <4>2, <3>1, <3>3
    <3> QED
      BY <1>3, <3>2, <3>3
  <2> QED
    BY <2>1, <2>2
<1>4. CASE Inspect \/ StatDone \/ EndPair \/ Finish
  BY <1>4 DEF Inspect, StatDone, EndPair, Finish, DiffInv, DiffTypeOK
<1>5. CASE BeginPair
  BY <1>1, <1>2, <1>5 DEF BeginPair, InPhase, queues
<1>6. CASE UnifiedLine
  BY <1>1, <1>2, <1>6 DEF UnifiedLine, InPhase, queues
<1>7. CASE SsHunk
  BY <1>2, <1>7, HunkFindsEmpty DEF SsHunk, queues
<1>8. CASE SsContext
  BY <1>2, <1>8 DEF SsContext
<1>9. CASE SsDeleted
  <2> DEFINE e == [n |-> Head(todo).n, no |-> current_old_line]
  <2>1. /\ NextLine("-") /\ UNCHANGED <<input, diff_pc, at>>
        /\ deferred_old' = Append(deferred_old, e) /\ deferred_new' = deferred_new
    BY <1>9 DEF SsDeleted
  <2>2. Head(todo) \in AnyLine /\ Head(todo).t # "@"
        /\ SinceCommon
    BY <2>1, NextLineFacts DEF DiffInv
  <2>3. e \in QueueT /\ e.n = Head(todo).n
    BY <2>2, AnyLineFacts DEF QueueT, DiffInv, DiffTypeOK
  <2> HIDE DEF e
  <2>4. \A i \in 1 .. Len(deferred_old') : deferred_old'[i].n \in MayWait'
    BY <1>1, <1>3, <2>1, <2>2, <2>3 DEF SinceCommon
  <2>5. \A i \in 1 .. Len(deferred_new') : deferred_new'[i].n \in MayWait'
    BY <1>1, <1>3, <2>1, <2>2, <2>3 DEF SinceCommon
  <2> QED
    BY <2>4, <2>5 DEF SinceCommon
<1>10. CASE SsAdded
  <2> DEFINE e == [n |-> Head(todo).n, no |-> current_new_line]
  <2>1. /\ NextLine("+") /\ UNCHANGED <<input, diff_pc, at>>
        /\ deferred_new' = Append(deferred_new, e) /\ deferred_old' = deferred_old
    BY <1>10 DEF SsAdded
  <2>2. Head(todo) \in AnyLine /\ Head(todo).t # "@"
        /\ SinceCommon
    BY <2>1, NextLineFacts DEF DiffInv
  <2>3. e \in QueueT /\ e.n = Head(todo).n
    BY <2>2, AnyLineFacts DEF QueueT, DiffInv, DiffTypeOK
  <2> HIDE DEF e
  <2>4. \A i \in 1 .. Len(deferred_old') : deferred_old'[i].n \in MayWait'
    BY <1>1, <1>3, <2>1, <2>2, <2>3 DEF SinceCommon
  <2>5. \A i \in 1 .. Len(deferred_new') : deferred_new'[i].n \in MayWait'
    BY <1>1, <1>3, <2>1, <2>2, <2>3 DEF SinceCommon
  <2> QED
    BY <2>4, <2>5 DEF SinceCommon
<1> QED
  BY <1>4, <1>5, <1>6, <1>7, <1>8, <1>9, <1>10 DEF DiffNext

\* What all steps keep
LEMMA DiffInvHolds == DiffSpec => []DiffInv
<1>1. DiffInit => DiffInv
  <2> SUFFICES ASSUME DiffInit PROVE DiffInv
    OBVIOUS
  <2>1. DiffTypeOK
    BY ContextAssumption DEF DiffInit, DiffTypeOK
  <2>2. Len(pairs) \in Nat
    BY <2>1, CurrentPair
  <2> QED
    BY <2>1, <2>2 DEF DiffInit, DiffInv, InPhase, RowsFrom
<1>2. DiffInv /\ [DiffNext]_diffvars => DiffInv'
  <2>1. DiffInv /\ DiffNext => DiffInv'
    BY StepType, StepPhase, StepFrom, StepSince DEF DiffInv
  <2>2. DiffInv /\ UNCHANGED diffvars => DiffInv'
    <3> SUFFICES ASSUME DiffInv, UNCHANGED diffvars PROVE DiffInv'
      OBVIOUS
    <3>1. /\ pairs' = pairs /\ context' = context /\ difftype' = difftype /\ comma' = comma
          /\ diff_pc' = diff_pc /\ at' = at /\ todo' = todo
          /\ current_old_line' = current_old_line /\ current_new_line' = current_new_line
          /\ deferred_old' = deferred_old /\ deferred_new' = deferred_new
          /\ items' = items /\ rows' = rows
      BY DEF diffvars
    <3>2. Mine' = Mine /\ Done' = Done
      BY <3>1 DEF Mine, Done, LinesOf, DiffFiles
    <3>3. DiffTypeOK'
      BY <3>1 DEF DiffInv, DiffTypeOK
    <3>4. InPhase'
      BY <3>1, <3>2 DEF DiffInv, InPhase, Shown
    <3>5. RowsFrom'
      BY <3>1 DEF DiffInv, RowsFrom, Shown
    <3>6. (diff_pc = "lines" => SinceCommon)'
      BY <3>1, <3>2 DEF DiffInv, SinceCommon, MayWait
    <3> QED
      BY <3>3, <3>4, <3>5, <3>6 DEF DiffInv
  <2> QED
    BY <2>1, <2>2
<1> QED
  BY <1>1, <1>2, PTL DEF DiffSpec

-----------------------------------------------------------------------------
(* Rows of two lines *)

\* No step changes what is compared.
LEMMA InputFixed == DiffNext => UNCHANGED input
  BY DEF DiffNext, Inspect, StatDone, BeginPair, UnifiedLine,
                SsHunk, SsContext, SsDeleted, SsAdded, EndPair, Finish

\* A row that is printed side by side shows a common line twice, or lines between
\* which no common line is.
LEMMA NewRowAligned ==
    ASSUME DiffInv, diff_pc = "lines", NEW r, NewRow(r)
    PROVE  /\ r.file = at
           /\ r.old # 0 /\ r.new # 0 /\ r.old # r.new =>
                 /\ r.class = "changed"
                 /\ \A j \in Between(r.old, r.new) : pairs[at].script[j] # "="
<1>1. DiffTypeOK /\ SinceCommon
  BY DEF DiffInv
<1>2. r.file = at
  BY <1>1, DeferredFacts DEF NewRow, Row
<1>3. CASE difftype # "ssdiff" \/ (NextLine("@") /\ r = Row("hunk", 0, 0, 0, 0))
  BY <1>2, <1>3 DEF NewRow, Row
<1>4. CASE r = Row("ctx", Head(todo).n, current_old_line, Head(todo).n, current_new_line)
  BY <1>2, <1>4 DEF Row
<1>5. ASSUME NEW i \in 1 .. Len(Deferred), r = Deferred[i],
             r.old # 0, r.new # 0, r.old # r.new
      PROVE  /\ r.class = "changed"
             /\ \A j \in Between(r.old, r.new) : pairs[at].script[j] # "="
  <2>1. /\ IF i <= Len(deferred_old) THEN r.old = deferred_old[i].n ELSE r.old = 0
        /\ IF i <= Len(deferred_new) THEN r.new = deferred_new[i].n ELSE r.new = 0
        /\ deferred_old # <<>> /\ deferred_new # <<>> => r.class = "changed"
    BY <1>1, <1>5, DeferredFacts
  <2>2. i \in Nat \ {0} /\ Len(deferred_old) \in Nat /\ Len(deferred_new) \in Nat
    <3>1. Len(Deferred) \in Nat
      BY <1>1, DeferredFacts
    <3> QED
      BY <1>1, <3>1 DEF DiffTypeOK
  <2>3. i \in 1 .. Len(deferred_old) /\ i \in 1 .. Len(deferred_new)
    BY <2>1, <2>2, <1>5
  <2>4. r.old \in MayWait /\ r.new \in MayWait
    BY <2>1, <2>3, <1>1, <2>2 DEF SinceCommon
  <2>5. deferred_old # <<>> /\ deferred_new # <<>>
    <3>1. Len(deferred_old) # 0 /\ Len(deferred_new) # 0
      BY <2>2, <2>3
    <3> QED
      BY <3>1
  <2> DEFINE n == Mine[Done].n
  <2>6. /\ r.old \in Nat /\ r.new \in Nat /\ r.old <= n /\ r.new <= n
        /\ \A x \in r.old .. n : pairs[at].script[x] # "="
        /\ \A x \in r.new .. n : pairs[at].script[x] # "="
    BY <2>4 DEF MayWait
  <2>7. n \in Int
    <3>1. at \in 1 .. Len(pairs) /\ Done \in Nat /\ Done >= 1 /\ Done \in 1 .. Len(Mine)
      BY <2>4, CurrentPair DEF MayWait, DiffInv, InPhase, DiffTypeOK
    <3>2. Mine \in Seq(AnyLine)
      BY <3>1, CurrentPair DEF DiffInv, Mine, Good
    <3>3. Mine[Done] \in AnyLine
      BY <3>1, <3>2
    <3> QED
      BY <3>3, AnyLineFacts
  <2> HIDE DEF n
  <2>8. \A j \in Between(r.old, r.new) : j \in r.old .. n \/ j \in r.new .. n
    BY <2>6, <2>7 DEF Between
  <2> QED
    BY <2>1, <2>5, <2>6, <2>8
<1> QED
  BY <1>2, <1>3, <1>4, <1>5 DEF NewRow

\* Every step keeps the rows aligned.
LEMMA StepAligned ==
    DiffInv /\ PairsAligned /\ [DiffNext]_diffvars => PairsAligned'
<1>1. ASSUME DiffInv, PairsAligned, DiffNext PROVE PairsAligned'
  <2>1. PICK more \in Seq(RowT) :
            /\ rows' = rows \o more
            /\ \A j \in 1 .. Len(more) : diff_pc = "lines" /\ NewRow(more[j])
    BY <1>1, NewRows
  <2>2. pairs' = pairs
    BY <1>1, InputFixed, InputStays
  <2>3. rows \in Seq(RowT) /\ DOMAIN rows = 1 .. Len(rows)
    BY <1>1 DEF DiffInv, DiffTypeOK
  <2>4. rows' \in Seq(RowT) /\ DOMAIN rows' = 1 .. Len(rows')
    BY <2>1, <2>3, ConcatProperties
  <2> SUFFICES ASSUME NEW i \in 1 .. Len(rows'),
                      rows'[i].old # 0, rows'[i].new # 0, rows'[i].old # rows'[i].new
               PROVE  /\ rows'[i].class = "changed"
                      /\ \A j \in Between(rows'[i].old, rows'[i].new) :
                            pairs[rows'[i].file].script[j] # "="
    BY <2>2, <2>4 DEF PairsAligned
  <2>5. CASE i \in 1 .. Len(rows) /\ rows'[i] = rows[i]
    BY <1>1, <2>3, <2>5 DEF PairsAligned
  <2>6. ASSUME NEW j \in 1 .. Len(more), rows'[i] = more[j]
        PROVE  /\ rows'[i].class = "changed"
               /\ \A x \in Between(rows'[i].old, rows'[i].new) :
                     pairs[rows'[i].file].script[x] # "="
    BY <1>1, <2>1, <2>6, NewRowAligned
  <2>7. \/ i \in 1 .. Len(rows) /\ rows'[i] = rows[i]
        \/ \E j \in 1 .. Len(more) : rows'[i] = more[j]
    BY <2>1, <2>3, RowsAfter
  <2> QED
    BY <2>5, <2>6, <2>7
<1>2. PairsAligned /\ UNCHANGED diffvars => PairsAligned'
  BY DEF PairsAligned, diffvars
<1> QED
  BY <1>1, <1>2

\* Whatever the scripts, the context and the mode: lines stand in one row only when
\* they are one line of both files or when one has replaced the other.
THEOREM RowsAlign == DiffSpec => []PairsAligned
<1>1. DiffInit => PairsAligned
  BY DEF DiffInit, PairsAligned
<1> QED
  BY <1>1, StepAligned, DiffInvHolds, PTL DEF DiffSpec

-----------------------------------------------------------------------------
(* Numbers *)

\* What a pair, a line and the number printed at it have to do with each other
OldNumbers ==
    {x \in Nat \X Nat \X Int :
        /\ x[3] >= 1 => x[3] = OldNo(pairs[x[1]].script, x[2])
        /\ x[2] # 0 /\ x[3] < 1 =>
              \/ pairs[x[1]].kind = "gitlink"
              \/ ~comma /\ \E h \in HunksOf(pairs[x[1]], x[2]) : h.oldCount = 1}
NewNumbers ==
    {x \in Nat \X Nat \X Int :
        /\ x[3] >= 1 => x[3] = NewNo(pairs[x[1]].script, x[2])
        /\ x[2] # 0 /\ x[3] < 1 =>
              \/ pairs[x[1]].kind = "gitlink"
              \/ ~comma /\ \E h \in HunksOf(pairs[x[1]], x[2]) : h.newCount = 1}

\* What a true number is depends on the input alone.
LEMMA NumbersStay ==
    ASSUME UNCHANGED input
    PROVE  OldNumbers' = OldNumbers /\ NewNumbers' = NewNumbers
<1>1. pairs' = pairs /\ comma' = comma /\ context' = context
  BY DEF input
<1> QED
  BY <1>1 DEF OldNumbers, NewNumbers, HunksOf, LinesOf, DiffFiles

\* Line j of the current pair is the header of the hunk that is being handed over.
HeaderAt(j) ==
    /\ j \in 1 .. Done /\ Mine[j].t = "@"
    /\ \A m \in j + 1 .. Done : Mine[m].t # "@"

\* The place of the first line of that hunk, and of the last one that came
FirstLine(j) == Mine[j + 1].n
LastLine(j) == IF Done = j THEN FirstLine(j) - 1 ELSE Mine[Done].n

\* The counters are as far from the numbers in the header as lines have come.
Counted(j) ==
    LET s == pairs[at].script
    IN  /\ FirstLine(j) .. LastLine(j) \subseteq InHunk(s, Around)
        /\ FirstLine(j) <= LastLine(j) + 1
        /\ current_old_line = LineFromHunk(Mine[j], "old")
                                  + (OldNo(s, LastLine(j)) - OldNo(s, FirstLine(j) - 1))
        /\ current_new_line = LineFromHunk(Mine[j], "new")
                                  + (NewNo(s, LastLine(j)) - NewNo(s, FirstLine(j) - 1))

Counting ==
    difftype = "ssdiff" /\ diff_pc = "lines" =>
        /\ pairs[at].kind = "gitlink" =>
              current_old_line <= Done - 1 /\ current_new_line <= Done - 1
        /\ pairs[at].kind = "text" /\ Done >= 1 =>
              \E j \in 1 .. Done : HeaderAt(j) /\ Counted(j)

\* Where a line stands that is handed over
LEMMA InsideHunk ==
    ASSUME DiffInv, pairs[at].kind = "text", NEW t \in {"=", "-", "+"}, NextLine(t),
           UNCHANGED <<input, diff_pc, at>>, NEW j, HeaderAt(j), Counted(j)
    PROVE  LET s == pairs[at].script
           IN  /\ j \in Nat /\ j < Done + 1 /\ j \in 1 .. Len(Mine)
               /\ LastLine(j) \in Nat /\ FirstLine(j) \in Nat \ {0}
               /\ FirstLine(j) <= LastLine(j) + 1
               /\ Mine[Done + 1].n = LastLine(j) + 1 /\ s[LastLine(j) + 1] = t
               /\ FirstLine(j) .. LastLine(j) + 1 \subseteq InHunk(s, Around)
               /\ FirstLine(j) \in InHunk(s, Around)
               /\ Mine[j] = Hunk(s, InHunk(s, Around), FirstLine(j))
<1> DEFINE s == pairs[at].script
           L == Mine
           d == Done
           I == InHunk(s, Around)
<1>1. /\ d \in Nat /\ d + 1 \in 1 .. Len(L) /\ L[d + 1].t = t /\ L[d + 1] \in AnyLine
      /\ pairs[at] \in Pair /\ s \in Script
  BY NextLineFacts, PairFacts
<1>2. Laid(s, Around, Len(s), L) /\ Around \in Nat \ {0}
  BY <1>1, TextLines DEF Mine, DiffInv, DiffTypeOK
<1>3. L \in Seq(AnyLine) /\ Len(L) \in Nat
  BY <1>2 DEF Laid
<1>4. j \in 1 .. d /\ L[j].t = "@" /\ \A m \in j + 1 .. d : L[m].t # "@"
  BY DEF HeaderAt
<1>5. FirstLine(j) = L[j + 1].n /\ LastLine(j) = IF d = j THEN FirstLine(j) - 1 ELSE L[d].n
  BY DEF FirstLine, LastLine
<1>6. FirstLine(j) .. LastLine(j) \subseteq I /\ FirstLine(j) <= LastLine(j) + 1
  BY DEF Counted
<1>7. \A x \in I : x \in Nat \ {0}
  <2>1. I \subseteq 1 .. Len(s) /\ Len(s) \in Nat
    BY <1>1, <1>2, ShownFacts DEF Script
  <2> HIDE DEF I
  <2> QED
    BY <2>1
<1> HIDE DEF s, L, d, I
<1>8. j \in Nat /\ j < d + 1 /\ j \in 1 .. Len(L) /\ j + 1 \in 1 .. Len(L)
  BY <1>1, <1>3, <1>4
<1>9. L[j + 1].t # "@" /\ L[j] = Hunk(s, InHunk(s, Around), L[j + 1].n)
  BY <1>2, <1>4, <1>8 DEF Laid, Headed
<1>10. FirstLine(j) \in I /\ FirstLine(j) \in Nat \ {0}
  <2>1. L[j + 1].n \in I
    BY <1>2, <1>8, <1>9 DEF Laid, Exactly, I
  <2> QED
    BY <2>1, <1>5, <1>7
<1>11. L[d + 1].t # "@" /\ L[d + 1].n \in I /\ L[d + 1].t = s[L[d + 1].n]
  <2>1. L[d + 1].t # "@"
    BY <1>1
  <2> QED
    BY <2>1, <1>1, <1>2 DEF Laid, Exactly, Truthful, I
<1>12. L[d + 1].n = LastLine(j) + 1
  <2>1. CASE d = j
    BY <2>1, <1>5, <1>10
  <2>2. CASE d # j
    <3>1. d \in j + 1 .. d /\ d \in 1 .. Len(L) - 1
      BY <2>2, <1>1, <1>3, <1>4
    <3>2. L[d].t # "@"
      BY <3>1, <1>4
    <3>3. L[d + 1].n = L[d].n + 1
      BY <3>1, <3>2, <1>2, <1>11 DEF Laid, Consecutive
    <3> QED
      BY <3>3, <2>2, <1>5
  <2> QED
    BY <2>1, <2>2
<1>13. LastLine(j) \in Nat
  <2>1. L[d + 1].n \in Nat /\ L[d + 1].n >= 1
    BY <1>7, <1>11
  <2>2. LastLine(j) \in Int
    <3>1. CASE d = j
      BY <3>1, <1>5, <1>10
    <3>2. CASE d # j
      <4>1. d \in 1 .. Len(L)
        BY <1>1, <1>4
      <4>2. L[d].n \in Nat
        BY <4>1, <1>3, AnyLineFacts
      <4> QED
        BY <4>2, <3>2, <1>5
    <3> QED
      BY <3>1, <3>2
  <2> QED
    BY <2>1, <2>2, <1>12
<1>14. FirstLine(j) .. LastLine(j) + 1 \subseteq I
  <2>1. \A x \in FirstLine(j) .. LastLine(j) + 1 :
            x \in FirstLine(j) .. LastLine(j) \/ x = LastLine(j) + 1
    BY <1>10, <1>13
  <2> QED
    BY <2>1, <1>6, <1>11, <1>12
<1>15. s[LastLine(j) + 1] = t
  BY <1>1, <1>11, <1>12
<1> QED
  BY <1>5, <1>6, <1>8, <1>9, <1>10, <1>12, <1>13, <1>14, <1>15 DEF s, L, d, I

\* The number that a line gets
LEMMA LineNumbers ==
    ASSUME DiffInv, Counting, difftype = "ssdiff", NEW t \in {"=", "-", "+"}, NextLine(t),
           UNCHANGED <<input, diff_pc, at>>
    PROVE  /\ t # "+" => <<at, Head(todo).n, current_old_line>> \in OldNumbers
           /\ t # "-" => <<at, Head(todo).n, current_new_line>> \in NewNumbers
<1> DEFINE s == pairs[at].script
           n == Head(todo).n
<1>1. /\ diff_pc = "lines" /\ at \in Nat /\ pairs[at] \in Pair /\ Done \in Nat
      /\ Done + 1 \in 1 .. Len(Mine) /\ Head(todo) = Mine[Done + 1]
      /\ n \in Nat /\ n # 0 /\ Mine[Done + 1].t = t
      /\ current_old_line \in Int /\ current_new_line \in Int /\ comma \in BOOLEAN
      /\ context \in Int
  <2>1. /\ diff_pc = "lines" /\ pairs[at] \in Pair /\ Done \in Nat
        /\ Done + 1 \in 1 .. Len(Mine) /\ Head(todo) = Mine[Done + 1]
        /\ Head(todo) \in AnyLine /\ Head(todo).t = t
    BY NextLineFacts
  <2>2. n \in Nat /\ n # 0
    BY <2>1, AnyLineFacts
  <2> QED
    BY <2>1, <2>2 DEF DiffInv, DiffTypeOK
<1>2. /\ <<at, n, current_old_line>> \in OldNumbers <=>
            /\ current_old_line >= 1 => current_old_line = OldNo(s, n)
            /\ current_old_line < 1 =>
                  \/ pairs[at].kind = "gitlink"
                  \/ ~comma /\ \E h \in HunksOf(pairs[at], n) : h.oldCount = 1
      /\ <<at, n, current_new_line>> \in NewNumbers <=>
            /\ current_new_line >= 1 => current_new_line = NewNo(s, n)
            /\ current_new_line < 1 =>
                  \/ pairs[at].kind = "gitlink"
                  \/ ~comma /\ \E h \in HunksOf(pairs[at], n) : h.newCount = 1
  BY <1>1 DEF OldNumbers, NewNumbers
<1> HIDE DEF n
<1>3. CASE pairs[at].kind = "gitlink"
  <2>1. Len(Mine) \in 1 .. 2
    BY <1>1, <1>3, GitlinkLines DEF Mine
  <2>2. Done - 1 < 1
    BY <1>1, <2>1
  <2>3. current_old_line <= Done - 1 /\ current_new_line <= Done - 1
    BY <1>1, <1>3 DEF Counting
  <2>4. current_old_line < 1 /\ ~(current_old_line >= 1)
        /\ current_new_line < 1 /\ ~(current_new_line >= 1)
    BY <1>1, <2>2, <2>3
  <2> QED
    BY <2>4, <1>2, <1>3 DEF n
<1>4. CASE pairs[at].kind = "text"
  <2>1. Laid(s, Around, Len(s), Mine) /\ Around \in Nat \ {0} /\ s \in Script
        /\ Mine = LinesOf(pairs[at])
    BY <1>1, <1>4, TextLines, PairFacts DEF Mine
  <2>2. Done >= 1
    <3>1. Mine # <<>>
      BY <1>1
    <3>2. Mine[1].t = "@"
      BY <2>1, <3>1 DEF Laid, Headed
    <3>3. Done # 0
      BY <3>2, <1>1
    <3> QED
      BY <3>3, <1>1
  <2>3. PICK j : HeaderAt(j) /\ Counted(j)
    BY <2>2, <1>1, <1>4 DEF Counting
  <2> DEFINE first == FirstLine(j)
             last == LastLine(j)
             h == Mine[j]
             I == InHunk(s, Around)
  <2>4. /\ j \in Nat /\ j < Done + 1 /\ j \in 1 .. Len(Mine)
        /\ last \in Nat /\ first \in Nat \ {0} /\ first <= last + 1
        /\ Mine[Done + 1].n = last + 1 /\ s[last + 1] = t
        /\ first .. last + 1 \subseteq I /\ first \in I /\ h = Hunk(s, I, first)
    BY <2>3, <1>4, InsideHunk
  <2>5. /\ current_old_line = LineFromHunk(h, "old") + (OldNo(s, last) - OldNo(s, first - 1))
        /\ current_new_line = LineFromHunk(h, "new") + (NewNo(s, last) - NewNo(s, first - 1))
    BY <2>3 DEF Counted
  <2>6. n = last + 1
    BY <2>4, <1>1 DEF n
  <2>7. h \in HunksOf(pairs[at], n)
    <3>1. h.t = "@" /\ \A m \in j + 1 .. Done + 1 : Mine[m].t # "@"
      <4>1. h.t = "@" /\ \A m \in j + 1 .. Done : Mine[m].t # "@"
        BY <2>3 DEF HeaderAt
      <4>2. \A m \in j + 1 .. Done + 1 : m \in j + 1 .. Done \/ m = Done + 1
        BY <1>1, <2>4
      <4> QED
        BY <4>1, <4>2, <1>1
    <3>2. Done + 1 > j /\ Done + 1 \in DOMAIN Mine /\ Mine[Done + 1].n = n
          /\ j \in DOMAIN Mine
      <4>1. DOMAIN Mine = 1 .. Len(Mine)
        BY <2>1 DEF Laid
      <4> QED
        BY <4>1, <1>1, <2>4 DEF n
    <3> QED
      BY <3>1, <3>2, <2>1 DEF HunksOf
  <2> HIDE DEF first, last, h, I
  <2>8. /\ h \in HunkT
        /\ s[last + 1] # "+" =>
              /\ h.old = OldNo(s, first - 1) + 1
              /\ h.oldCount = 1 => OldNo(s, last) = OldNo(s, first - 1)
        /\ s[last + 1] # "-" =>
              /\ h.new = NewNo(s, first - 1) + 1
              /\ h.newCount = 1 => NewNo(s, last) = NewNo(s, first - 1)
    <3>1. last + 1 \in Nat /\ last + 1 >= first /\ (last + 1) - 1 = last
      BY <2>4
    <3>2. /\ h \in HunkT
          /\ \A x \in Nat : x >= first /\ first .. x \subseteq I =>
                /\ s[x] # "+" =>
                      /\ h.old = OldNo(s, first - 1) + 1
                      /\ h.oldCount = 1 => OldNo(s, x - 1) = OldNo(s, first - 1)
                /\ s[x] # "-" =>
                      /\ h.new = NewNo(s, first - 1) + 1
                      /\ h.newCount = 1 => NewNo(s, x - 1) = NewNo(s, first - 1)
      <4>1. first \in InHunk(s, Around) /\ h = Hunk(s, InHunk(s, Around), first)
        BY <2>4 DEF I
      <4> HIDE DEF s
      <4> QED
        BY <4>1, <2>1, HunkFacts DEF I
    <3> HIDE DEF s
    <3> QED
      BY <3>1, <3>2, <2>4
  <2>9. /\ LineFromHunk(h, "old") = IF comma \/ h.newCount # 1 \/ h.oldCount # 1
                                    THEN h.old ELSE 0
        /\ LineFromHunk(h, "new") = IF comma \/ h.newCount # 1 THEN h.new ELSE 0
    BY <1>1, <2>8, HunkNumbers
  <2>10. /\ OldNo(s, last) \in Nat /\ OldNo(s, first - 1) \in Nat
         /\ NewNo(s, last) \in Nat /\ NewNo(s, first - 1) \in Nat
         /\ t # "+" => OldNo(s, last + 1) = OldNo(s, last) + 1
         /\ t # "-" => NewNo(s, last + 1) = NewNo(s, last) + 1
    <3>1. first - 1 \in Nat
      BY <2>4
    <3>2. \A T : NumberIn(s, last, T) \in Nat /\ NumberIn(s, first - 1, T) \in Nat
      BY <2>4, <3>1, NumberStep
    <3>3. t # "+" => NumberIn(s, last + 1, {"=", "-"}) = NumberIn(s, last, {"=", "-"}) + 1
      BY <2>4, NumberStep
    <3>4. t # "-" => NumberIn(s, last + 1, {"=", "+"}) = NumberIn(s, last, {"=", "+"}) + 1
      BY <2>4, NumberStep
    <3> QED
      BY <3>2, <3>3, <3>4 DEF OldNo, NewNo
  <2>11. ASSUME t # "+" PROVE <<at, n, current_old_line>> \in OldNumbers
    <3>1. CASE comma \/ h.newCount # 1 \/ h.oldCount # 1
      <4>1. current_old_line = OldNo(s, last + 1) /\ current_old_line >= 1
        BY <2>4, <2>5, <2>8, <2>9, <2>10, <2>11, <3>1
      <4> QED
        BY <4>1, <1>1, <1>2, <2>6
    <3>2. CASE ~(comma \/ h.newCount # 1 \/ h.oldCount # 1)
      <4>1. current_old_line = 0
        BY <2>4, <2>5, <2>8, <2>9, <2>10, <2>11, <3>2
      <4> QED
        BY <4>1, <1>2, <2>7, <3>2
    <3> QED
      BY <3>1, <3>2
  <2>12. ASSUME t # "-" PROVE <<at, n, current_new_line>> \in NewNumbers
    <3>1. CASE comma \/ h.newCount # 1
      <4>1. current_new_line = NewNo(s, last + 1) /\ current_new_line >= 1
        BY <2>4, <2>5, <2>8, <2>9, <2>10, <2>12, <3>1
      <4> QED
        BY <4>1, <1>1, <1>2, <2>6
    <3>2. CASE ~(comma \/ h.newCount # 1)
      <4>1. current_new_line = 0
        BY <2>4, <2>5, <2>8, <2>9, <2>10, <2>12, <3>2
      <4> QED
        BY <4>1, <1>2, <2>7, <3>2
    <3> QED
      BY <3>1, <3>2
  <2> QED
    BY <2>11, <2>12 DEF n
<1>5. CASE pairs[at].kind \notin {"gitlink", "text"}
  <2>1. Mine = <<>>
    BY <1>5 DEF Mine, LinesOf, DiffFiles
  <2> QED
    BY <2>1, <1>1
<1> QED
  BY <1>3, <1>4, <1>5

\* A line is counted.
LEMMA CountingNext ==
    ASSUME DiffInv, Counting, difftype = "ssdiff", NEW t \in {"=", "-", "+"}, NextLine(t),
           UNCHANGED <<input, diff_pc, at>>,
           current_old_line' = current_old_line + (IF t = "+" THEN 0 ELSE 1),
           current_new_line' = current_new_line + (IF t = "-" THEN 0 ELSE 1)
    PROVE  Counting'
<1> DEFINE s == pairs[at].script
<1>1. /\ diff_pc = "lines" /\ Done \in Nat /\ Done + 1 \in 1 .. Len(Mine)
      /\ pairs[at] \in Pair
      /\ Mine' = Mine /\ Done' = Done + 1 /\ Mine[Done + 1].t = t
      /\ pairs' = pairs /\ at' = at /\ context' = context /\ comma' = comma
      /\ current_old_line \in Int /\ current_new_line \in Int /\ context \in Int
      /\ comma \in BOOLEAN
  BY NextLineFacts, InputStays DEF DiffInv, DiffTypeOK
<1>2. CASE pairs[at].kind = "gitlink"
  <2>1. current_old_line' <= Done' - 1 /\ current_new_line' <= Done' - 1
    BY <1>1, <1>2 DEF Counting
  <2> QED
    BY <2>1, <1>1, <1>2 DEF Counting
<1>3. CASE pairs[at].kind = "text"
  <2>1. Laid(s, Around, Len(s), Mine) /\ s \in Script
    BY <1>1, <1>3, TextLines, PairFacts DEF Mine
  <2>2. Done >= 1
    <3>1. Mine # <<>>
      BY <1>1
    <3>2. Mine[1].t = "@"
      BY <2>1, <3>1 DEF Laid, Headed
    <3>3. Done # 0
      BY <3>2, <1>1
    <3> QED
      BY <3>3, <1>1
  <2>3. PICK j \in 1 .. Done : HeaderAt(j) /\ Counted(j)
    BY <2>2, <1>1, <1>3 DEF Counting
  <2> DEFINE first == FirstLine(j)
             last == LastLine(j)
             h == Mine[j]
             I == InHunk(s, Around)
  <2>4. /\ j < Done + 1 /\ j \in 1 .. Len(Mine)
        /\ last \in Nat /\ first \in Nat \ {0} /\ first <= last + 1
        /\ Mine[Done + 1].n = last + 1 /\ s[last + 1] = t
        /\ first .. last + 1 \subseteq I /\ h = Hunk(s, I, first) /\ first \in I
    BY <2>3, <1>3, InsideHunk
  <2>5. /\ current_old_line = LineFromHunk(h, "old") + (OldNo(s, last) - OldNo(s, first - 1))
        /\ current_new_line = LineFromHunk(h, "new") + (NewNo(s, last) - NewNo(s, first - 1))
    BY <2>3 DEF Counted
  <2>6. FirstLine(j)' = first /\ LastLine(j)' = last + 1
    <3>1. Done' # j /\ Mine'[Done'].n = last + 1
      BY <1>1, <2>4
    <3> QED
      BY <3>1, <1>1 DEF FirstLine, LastLine
  <2>7. HeaderAt(j)'
    <3>1. h.t = "@" /\ \A m \in j + 1 .. Done : Mine[m].t # "@"
      BY <2>3 DEF HeaderAt
    <3>2. \A m \in j + 1 .. Done + 1 : m \in j + 1 .. Done \/ m = Done + 1
      BY <1>1
    <3>3. j \in 1 .. Done + 1 /\ \A m \in j + 1 .. Done + 1 : Mine[m].t # "@"
      BY <3>1, <3>2, <1>1
    <3> QED
      BY <3>1, <3>3, <1>1 DEF HeaderAt
  <2>8. LineFromHunk(h, "old") \in Nat /\ LineFromHunk(h, "new") \in Nat
    <3>1. h \in HunkT
      <4>1. Mine \in Seq(AnyLine) /\ h.t = "@"
        BY <2>1, <2>3 DEF Laid, HeaderAt
      <4> QED
        BY <4>1, <2>4, AnyLineFacts
    <3> QED
      BY <1>1, <3>1, HunkNumbers
  <2> HIDE DEF first, last, h, I
  <2>9. /\ OldNo(s, last) \in Nat /\ OldNo(s, first - 1) \in Nat
        /\ NewNo(s, last) \in Nat /\ NewNo(s, first - 1) \in Nat
        /\ OldNo(s, last + 1) = OldNo(s, last) + (IF t = "+" THEN 0 ELSE 1)
        /\ NewNo(s, last + 1) = NewNo(s, last) + (IF t = "-" THEN 0 ELSE 1)
    <3>1. first - 1 \in Nat
      BY <2>4
    <3>2. \A T : NumberIn(s, last, T) \in Nat /\ NumberIn(s, first - 1, T) \in Nat
      BY <2>4, <3>1, NumberStep
    <3>3. /\ t # "+" => NumberIn(s, last + 1, {"=", "-"}) = NumberIn(s, last, {"=", "-"}) + 1
          /\ t = "+" => NumberIn(s, last + 1, {"=", "-"}) = NumberIn(s, last, {"=", "-"})
      BY <2>4, NumberStep
    <3>4. /\ t # "-" => NumberIn(s, last + 1, {"=", "+"}) = NumberIn(s, last, {"=", "+"}) + 1
          /\ t = "-" => NumberIn(s, last + 1, {"=", "+"}) = NumberIn(s, last, {"=", "+"})
      BY <2>4, NumberStep
    <3>5. \A T : NumberIn(s, last, T) + 0 = NumberIn(s, last, T)
      BY <3>2
    <3> QED
      BY <3>2, <3>3, <3>4, <3>5 DEF OldNo, NewNo
  <2>10. /\ current_old_line' = LineFromHunk(h, "old")
                                   + (OldNo(s, last + 1) - OldNo(s, first - 1))
         /\ current_new_line' = LineFromHunk(h, "new")
                                   + (NewNo(s, last + 1) - NewNo(s, first - 1))
    BY <2>5, <2>8, <2>9
  <2>11. Counted(j)'
    <3>1. Mine[j]' = h /\ pairs[at]' = pairs[at] /\ Around' = Around
          /\ first <= (last + 1) + 1
      BY <1>1, <2>4 DEF h, Around
    <3>2. LineFromHunk(h, "old")' = LineFromHunk(h, "old")
          /\ LineFromHunk(h, "new")' = LineFromHunk(h, "new")
      BY <1>1 DEF LineFromHunk, h
    <3> QED
      BY <3>1, <3>2, <2>4, <2>6, <2>10, <1>1 DEF Counted, I, h, LineFromHunk
  <2>12. j \in 1 .. Done' /\ Done' >= 1
    BY <1>1, <2>2
  <2> QED
    BY <2>7, <2>11, <2>12, <1>1, <1>3 DEF Counting
<1>4. CASE pairs[at].kind \notin {"gitlink", "text"}
  BY <1>1, <1>4 DEF Counting
<1> QED
  BY <1>2, <1>3, <1>4

\* The counters stay where the lines are.
LEMMA StepCounting == DiffInv /\ Counting /\ DiffNext => Counting'
<1> SUFFICES ASSUME DiffInv, Counting, DiffNext PROVE Counting'
  OBVIOUS
<1>1. CASE diff_pc' # "lines" \/ difftype # "ssdiff"
  BY <1>1, InputFixed, InputStays DEF Counting
<1>2. CASE Inspect \/ StatDone \/ EndPair \/ Finish
  <2>1. diff_pc' # "lines"
    BY <1>2 DEF Inspect, StatDone, EndPair, Finish
  <2> QED
    BY <2>1, <1>1
<1>3. CASE BeginPair
  <2>1. CASE Shown(pairs[at])
    <3>1. Done' = 0 /\ current_old_line' = -1 /\ current_new_line' = -1
      BY <1>3, <2>1, BeginFacts
    <3> QED
      BY <3>1 DEF Counting
  <2>2. CASE ~Shown(pairs[at])
    <3>1. diff_pc' # "lines"
      BY <1>3, <2>2 DEF BeginPair
    <3> QED
      BY <3>1, <1>1
  <2> QED
    BY <2>1, <2>2
<1>4. CASE UnifiedLine
  BY <1>1, <1>4 DEF UnifiedLine
<1>5. CASE SsHunk
  <2> DEFINE s == pairs[at].script
  <2>1. /\ difftype = "ssdiff" /\ NextLine("@") /\ UNCHANGED <<input, diff_pc, at>>
        /\ current_old_line' = LineFromHunk(Head(todo), "old")
        /\ current_new_line' = LineFromHunk(Head(todo), "new")
    BY <1>5 DEF SsHunk
  <2>0. PICK d : d = Done + 1
    OBVIOUS
  <2>2. /\ diff_pc = "lines" /\ d \in Nat /\ d \in 1 .. Len(Mine) /\ pairs[at] \in Pair
        /\ Head(todo) = Mine[d] /\ Head(todo).t = "@" /\ Mine' = Mine /\ Done' = d
        /\ Head(todo) \in AnyLine
        /\ pairs' = pairs /\ at' = at /\ context' = context /\ comma' = comma
        /\ context \in Int /\ comma \in BOOLEAN
    BY <2>0, <2>1, NextLineFacts, InputStays DEF DiffInv, DiffTypeOK
  <2>3. CASE pairs[at].kind = "gitlink"
    <3>1. Mine[d].t \in {"-", "+"}
      BY <2>2, <2>3, GitlinkLines DEF Mine
    <3> QED
      BY <3>1, <2>2
  <2>4. CASE pairs[at].kind = "text"
    <3>1. Laid(s, Around, Len(s), Mine) /\ s \in Script /\ Around \in Nat \ {0}
      BY <2>2, <2>4, TextLines, PairFacts DEF Mine
    <3>2. Mine[d + 1].t # "@" /\ d + 1 \in 1 .. Len(Mine)
      BY <3>1, <2>2 DEF Laid, Headed
    <3>3. Mine[d + 1].n \in Nat \ {0}
      <4>1. Mine[d + 1] \in AnyLine
        BY <3>1, <3>2 DEF Laid
      <4> QED
        BY <4>1, <3>2, AnyLineFacts
    <3>8. PICK first : first = Mine[d + 1].n
      OBVIOUS
    <3>4. FirstLine(d)' = first /\ LastLine(d)' = first - 1
      BY <2>2, <3>8 DEF FirstLine, LastLine
    <3>5. HeaderAt(d)'
      <4>1. d \in 1 .. d /\ d + 1 .. d = {}
        BY <2>2
      <4> QED
        BY <4>1, <2>2 DEF HeaderAt
    <3>6. Counted(d)'
      <4>1. first \in Nat \ {0} /\ first - 1 \in Nat
        BY <3>3, <3>8
      <4>2. OldNo(s, first - 1) \in Nat /\ NewNo(s, first - 1) \in Nat
        BY <4>1, NumberStep DEF OldNo, NewNo
      <4>3. LineFromHunk(Mine[d], "old") \in Nat /\ LineFromHunk(Mine[d], "new") \in Nat
        <5>1. Mine[d] \in HunkT
          BY <2>2, AnyLineFacts
        <5> QED
          BY <5>1, <2>2, HunkNumbers
      <4>4. /\ current_old_line' = LineFromHunk(Mine[d], "old")
                                      + (OldNo(s, first - 1) - OldNo(s, first - 1))
            /\ current_new_line' = LineFromHunk(Mine[d], "new")
                                      + (NewNo(s, first - 1) - NewNo(s, first - 1))
        BY <2>1, <2>2, <4>2, <4>3
      <4>5. first .. first - 1 = {} /\ first <= (first - 1) + 1
        BY <4>1
      <4>6. Mine[d]' = Mine[d] /\ pairs[at]' = pairs[at]
        BY <2>2
      <4>7. LineFromHunk(Mine[d], "old")' = LineFromHunk(Mine[d], "old")
            /\ LineFromHunk(Mine[d], "new")' = LineFromHunk(Mine[d], "new")
        BY <2>2 DEF LineFromHunk
      <4> QED
        BY <3>4, <4>4, <4>5, <4>6, <4>7 DEF Counted
    <3>7. d \in 1 .. Done'
      BY <2>2
    <3> QED
      BY <3>5, <3>6, <3>7, <2>2, <2>4 DEF Counting
  <2>5. CASE pairs[at].kind \notin {"gitlink", "text"}
    BY <2>2, <2>5 DEF Counting
  <2> QED
    BY <2>3, <2>4, <2>5
<1>6. CASE SsContext
  <2>1. /\ difftype = "ssdiff" /\ NextLine("=") /\ UNCHANGED <<input, diff_pc, at>>
        /\ current_old_line' = current_old_line + 1
        /\ current_new_line' = current_new_line + 1
    BY <1>6 DEF SsContext
  <2> QED
    BY <2>1, CountingNext
<1>7. CASE SsDeleted
  <2>1. /\ difftype = "ssdiff" /\ NextLine("-") /\ UNCHANGED <<input, diff_pc, at>>
        /\ current_old_line' = current_old_line + 1
        /\ current_new_line' = current_new_line + 0
    BY <1>7 DEF SsDeleted, DiffInv, DiffTypeOK
  <2> QED
    BY <2>1, CountingNext
<1>8. CASE SsAdded
  <2>1. /\ difftype = "ssdiff" /\ NextLine("+") /\ UNCHANGED <<input, diff_pc, at>>
        /\ current_old_line' = current_old_line + 0
        /\ current_new_line' = current_new_line + 1
    BY <1>8 DEF SsAdded, DiffInv, DiffTypeOK
  <2> QED
    BY <2>1, CountingNext
<1> QED
  BY <1>2, <1>3, <1>4, <1>5, <1>6, <1>7, <1>8 DEF DiffNext

\* The numbers that are printed, and those of the lines that wait
RowsNumbered ==
    difftype = "ssdiff" =>
        \A i \in 1 .. Len(rows) :
            /\ <<rows[i].file, rows[i].old, rows[i].oldno>> \in OldNumbers
            /\ <<rows[i].file, rows[i].new, rows[i].newno>> \in NewNumbers
QueuesNumbered ==
    difftype = "ssdiff" =>
        /\ \A i \in 1 .. Len(deferred_old) :
              <<at, deferred_old[i].n, deferred_old[i].no>> \in OldNumbers
        /\ \A i \in 1 .. Len(deferred_new) :
              <<at, deferred_new[i].n, deferred_new[i].no>> \in NewNumbers

\* An empty cell has no number.
LEMMA EmptyCell ==
    ASSUME NEW k \in Nat, NEW no \in {0, -1}
    PROVE  <<k, 0, no>> \in OldNumbers /\ <<k, 0, no>> \in NewNumbers
<1>1. no \in Int /\ ~(no >= 1)
  OBVIOUS
<1> QED
  BY <1>1 DEF OldNumbers, NewNumbers

\* The numbers that are printed are true.
LEMMA StepRowsNumbered ==
    DiffInv /\ Counting /\ QueuesNumbered /\ RowsNumbered /\ DiffNext => RowsNumbered'
<1> SUFFICES ASSUME DiffInv, Counting, QueuesNumbered, RowsNumbered, DiffNext,
                    difftype' = "ssdiff",
                    NEW i \in 1 .. Len(rows')
             PROVE  /\ <<rows'[i].file, rows'[i].old, rows'[i].oldno>> \in OldNumbers'
                    /\ <<rows'[i].file, rows'[i].new, rows'[i].newno>> \in NewNumbers'
  BY DEF RowsNumbered
<1>1. /\ difftype = "ssdiff" /\ OldNumbers' = OldNumbers /\ NewNumbers' = NewNumbers
      /\ UNCHANGED input
  BY InputFixed, InputStays, NumbersStay
<1>2. PICK more \in Seq(RowT) :
          /\ rows' = rows \o more
          /\ \A j \in 1 .. Len(more) : diff_pc = "lines" /\ NewRow(more[j])
  BY NewRows
<1>3. rows \in Seq(RowT) /\ at \in Nat
  BY DEF DiffInv, DiffTypeOK
<1>4. CASE i \in 1 .. Len(rows) /\ rows'[i] = rows[i]
  BY <1>1, <1>4 DEF RowsNumbered
<1>5. ASSUME NEW r, NewRow(r), diff_pc = "lines"
      PROVE  /\ <<r.file, r.old, r.oldno>> \in OldNumbers
             /\ <<r.file, r.new, r.newno>> \in NewNumbers
  <2>1. CASE NextLine("@") /\ r = Row("hunk", 0, 0, 0, 0)
    <3>1. r.file = at /\ r.old = 0 /\ r.oldno = 0 /\ r.new = 0 /\ r.newno = 0
      BY <2>1 DEF Row
    <3> QED
      BY <3>1, <1>3, EmptyCell
  <2>2. CASE /\ NextLine("=")
             /\ r = Row("ctx", Head(todo).n, current_old_line, Head(todo).n, current_new_line)
    <3>1. UNCHANGED <<input, diff_pc, at>>
      <4>1. todo # <<>> /\ Head(todo).t = "=" /\ todo' = Tail(todo) /\ diff_pc = "lines"
        BY <2>2 DEF NextLine
      <4>2. todo' # todo
        <5>1. todo \in Seq(AnyLine)
          BY DEF DiffInv, DiffTypeOK
        <5>2. Len(todo') = Len(todo) - 1 /\ Len(todo) \in Nat
          BY <4>1, <5>1
        <5> QED
          BY <5>2
      <4>3. SsContext
        BY <1>1, <4>1, <4>2 DEF DiffNext, Inspect, StatDone, BeginPair, UnifiedLine,
                SsHunk, SsContext, SsDeleted, SsAdded, EndPair, Finish, NextLine
      <4> QED
        BY <4>3 DEF SsContext
    <3>2. /\ <<at, Head(todo).n, current_old_line>> \in OldNumbers
          /\ <<at, Head(todo).n, current_new_line>> \in NewNumbers
      BY <1>1, <2>2, <3>1, LineNumbers
    <3>3. /\ r.file = at /\ r.old = Head(todo).n /\ r.oldno = current_old_line
          /\ r.new = Head(todo).n /\ r.newno = current_new_line
      BY <2>2 DEF Row
    <3> QED
      BY <3>2, <3>3
  <2>3. ASSUME NEW j \in 1 .. Len(Deferred), r = Deferred[j]
        PROVE  /\ <<r.file, r.old, r.oldno>> \in OldNumbers
               /\ <<r.file, r.new, r.newno>> \in NewNumbers
    <3>1. /\ r.file = at
          /\ IF j <= Len(deferred_old)
             THEN r.old = deferred_old[j].n /\ r.oldno = deferred_old[j].no
             ELSE r.old = 0 /\ r.oldno = -1
          /\ IF j <= Len(deferred_new)
             THEN r.new = deferred_new[j].n /\ r.newno = deferred_new[j].no
             ELSE r.new = 0 /\ r.newno = -1
      BY <2>3, DeferredFacts DEF DiffInv
    <3>2. j \in Nat \ {0} /\ Len(deferred_old) \in Nat /\ Len(deferred_new) \in Nat
      <4>1. Len(Deferred) \in Nat
        BY DeferredFacts DEF DiffInv
      <4> QED
        BY <4>1 DEF DiffInv, DiffTypeOK
    <3>3. <<r.file, r.old, r.oldno>> \in OldNumbers
      <4>1. CASE j <= Len(deferred_old)
        <5>1. j \in 1 .. Len(deferred_old)
          BY <4>1, <3>2
        <5> QED
          BY <5>1, <4>1, <3>1, <1>1 DEF QueuesNumbered
      <4>2. CASE ~(j <= Len(deferred_old))
        BY <4>2, <3>1, <1>3, EmptyCell
      <4> QED
        BY <4>1, <4>2
    <3>4. <<r.file, r.new, r.newno>> \in NewNumbers
      <4>1. CASE j <= Len(deferred_new)
        <5>1. j \in 1 .. Len(deferred_new)
          BY <4>1, <3>2
        <5> QED
          BY <5>1, <4>1, <3>1, <1>1 DEF QueuesNumbered
      <4>2. CASE ~(j <= Len(deferred_new))
        BY <4>2, <3>1, <1>3, EmptyCell
      <4> QED
        BY <4>1, <4>2
    <3> QED
      BY <3>3, <3>4
  <2> QED
    BY <1>1, <1>5, <2>1, <2>2, <2>3 DEF NewRow
<1>6. \/ i \in 1 .. Len(rows) /\ rows'[i] = rows[i]
      \/ \E j \in 1 .. Len(more) : rows'[i] = more[j]
  BY <1>2, <1>3, RowsAfter
<1>7. ASSUME NEW j \in 1 .. Len(more), rows'[i] = more[j]
      PROVE  /\ <<rows'[i].file, rows'[i].old, rows'[i].oldno>> \in OldNumbers'
             /\ <<rows'[i].file, rows'[i].new, rows'[i].newno>> \in NewNumbers'
  <2>1. diff_pc = "lines" /\ NewRow(more[j])
    BY <1>2
  <2>2. /\ <<more[j].file, more[j].old, more[j].oldno>> \in OldNumbers
        /\ <<more[j].file, more[j].new, more[j].newno>> \in NewNumbers
    BY <1>5, <2>1
  <2> QED
    BY <1>1, <1>7, <2>2
<1> QED
  BY <1>4, <1>6, <1>7

\* So are those that wait.
LEMMA StepQueuesNumbered ==
    DiffInv /\ Counting /\ QueuesNumbered /\ DiffNext => QueuesNumbered'
<1> SUFFICES ASSUME DiffInv, Counting, QueuesNumbered, DiffNext, difftype' = "ssdiff"
             PROVE  QueuesNumbered'
  BY DEF QueuesNumbered
<1>1. /\ difftype = "ssdiff" /\ OldNumbers' = OldNumbers /\ NewNumbers' = NewNumbers
  BY InputFixed, InputStays, NumbersStay
<1>2. /\ deferred_old \in Seq(QueueT) /\ deferred_new \in Seq(QueueT)
      /\ \A i \in 1 .. Len(deferred_old) :
            <<at, deferred_old[i].n, deferred_old[i].no>> \in OldNumbers
      /\ \A i \in 1 .. Len(deferred_new) :
            <<at, deferred_new[i].n, deferred_new[i].no>> \in NewNumbers
  BY <1>1 DEF QueuesNumbered, DiffInv, DiffTypeOK
<1>3. ASSUME deferred_old' = <<>>, deferred_new' = <<>> PROVE QueuesNumbered'
  <2>1. Len(deferred_old') = 0 /\ Len(deferred_new') = 0
    BY <1>3
  <2> QED
    BY <2>1 DEF QueuesNumbered
<1>4. ASSUME deferred_old' = deferred_old, deferred_new' = deferred_new, at' = at
      PROVE  QueuesNumbered'
  BY <1>1, <1>2, <1>4 DEF QueuesNumbered
<1>5. CASE Inspect \/ StatDone \/ BeginPair \/ Finish
  <2>1. deferred_old' = <<>> /\ deferred_new' = <<>>
    BY <1>5 DEF Inspect, StatDone, BeginPair, Finish, queues, DiffInv, InPhase
  <2> QED
    BY <1>3, <2>1
<1>6. CASE UnifiedLine \/ SsHunk
  BY <1>4, <1>6 DEF UnifiedLine, SsHunk, queues
<1>7. CASE SsContext \/ EndPair
  BY <1>3, <1>7 DEF SsContext, EndPair
<1>8. CASE SsDeleted
  <2> DEFINE e == [n |-> Head(todo).n, no |-> current_old_line]
  <2>1. /\ NextLine("-") /\ UNCHANGED <<input, diff_pc, at>>
        /\ deferred_old' = Append(deferred_old, e) /\ deferred_new' = deferred_new
    BY <1>8 DEF SsDeleted
  <2>2. <<at, e.n, e.no>> \in OldNumbers
    <3>1. <<at, Head(todo).n, current_old_line>> \in OldNumbers
      BY <1>1, <2>1, LineNumbers
    <3> QED
      BY <3>1
  <2> HIDE DEF e
  <2>3. \A i \in 1 .. Len(deferred_old') :
            \/ i \in 1 .. Len(deferred_old) /\ deferred_old'[i] = deferred_old[i]
            \/ deferred_old'[i] = e
    BY <2>1, <1>2
  <2>4. \A i \in 1 .. Len(deferred_old') :
            <<at, deferred_old'[i].n, deferred_old'[i].no>> \in OldNumbers
    BY <2>2, <2>3, <1>2
  <2> QED
    BY <1>1, <1>2, <2>1, <2>4 DEF QueuesNumbered
<1>9. CASE SsAdded
  <2> DEFINE e == [n |-> Head(todo).n, no |-> current_new_line]
  <2>1. /\ NextLine("+") /\ UNCHANGED <<input, diff_pc, at>>
        /\ deferred_new' = Append(deferred_new, e) /\ deferred_old' = deferred_old
    BY <1>9 DEF SsAdded
  <2>2. <<at, e.n, e.no>> \in NewNumbers
    <3>1. <<at, Head(todo).n, current_new_line>> \in NewNumbers
      BY <1>1, <2>1, LineNumbers
    <3> QED
      BY <3>1
  <2> HIDE DEF e
  <2>3. \A i \in 1 .. Len(deferred_new') :
            \/ i \in 1 .. Len(deferred_new) /\ deferred_new'[i] = deferred_new[i]
            \/ deferred_new'[i] = e
    BY <2>1, <1>2
  <2>4. \A i \in 1 .. Len(deferred_new') :
            <<at, deferred_new'[i].n, deferred_new'[i].no>> \in NewNumbers
    BY <2>2, <2>3, <1>2
  <2> QED
    BY <1>1, <1>2, <2>1, <2>4 DEF QueuesNumbered
<1> QED
  BY <1>5, <1>6, <1>7, <1>8, <1>9 DEF DiffNext

\* The number beside a line is the line's own in its file, in every diff: it is
\* missing only for a submodule and where the hunk header says nothing of it.
THEOREM NumbersAreTrue == DiffSpec => []NumbersTrue
<1> DEFINE Inv == Counting /\ QueuesNumbered /\ RowsNumbered
<1>1. DiffInit => Inv
  BY DEF DiffInit, Counting, QueuesNumbered, RowsNumbered
<1>2. DiffInv /\ Inv /\ [DiffNext]_diffvars => Inv'
  <2>1. DiffInv /\ Inv /\ DiffNext => Inv'
    BY StepCounting, StepQueuesNumbered, StepRowsNumbered
  <2>2. ASSUME Inv, UNCHANGED diffvars PROVE Inv'
    <3>1. /\ UNCHANGED input /\ difftype' = difftype /\ diff_pc' = diff_pc /\ at' = at
          /\ deferred_old' = deferred_old /\ deferred_new' = deferred_new /\ rows' = rows
          /\ pairs' = pairs /\ context' = context /\ comma' = comma /\ todo' = todo
          /\ current_old_line' = current_old_line /\ current_new_line' = current_new_line
      BY <2>2 DEF diffvars, input
    <3>2. Mine' = Mine /\ Done' = Done /\ Around' = Around
      BY <3>1 DEF Mine, Done, LinesOf, DiffFiles, Around
    <3>3. Counting'
      BY <2>2, <3>1, <3>2 DEF Counting, HeaderAt, Counted, FirstLine, LastLine, LineFromHunk
    <3>4. OldNumbers' = OldNumbers /\ NewNumbers' = NewNumbers
      BY <3>1, NumbersStay
    <3>5. QueuesNumbered' /\ RowsNumbered'
      BY <2>2, <3>1, <3>4 DEF QueuesNumbered, RowsNumbered
    <3> QED
      BY <3>3, <3>5
  <2> QED
    BY <2>1, <2>2
<1>3. DiffInv /\ Inv => NumbersTrue
  <2> SUFFICES ASSUME DiffInv, RowsNumbered, difftype = "ssdiff", NEW i \in DOMAIN rows
               PROVE  LET r == rows[i]
                          p == pairs[r.file]
                      IN  /\ r.oldno >= 1 => r.oldno = OldNo(p.script, r.old)
                          /\ r.newno >= 1 => r.newno = NewNo(p.script, r.new)
                          /\ r.old # 0 /\ r.oldno < 1 =>
                                \/ p.kind = "gitlink"
                                \/ ~comma /\ \E h \in HunksOf(p, r.old) : h.oldCount = 1
                          /\ r.new # 0 /\ r.newno < 1 =>
                                \/ p.kind = "gitlink"
                                \/ ~comma /\ \E h \in HunksOf(p, r.new) : h.newCount = 1
    BY DEF NumbersTrue
  <2>1. i \in 1 .. Len(rows)
    BY DEF DiffInv, DiffTypeOK
  <2>2. /\ <<rows[i].file, rows[i].old, rows[i].oldno>> \in OldNumbers
        /\ <<rows[i].file, rows[i].new, rows[i].newno>> \in NewNumbers
    BY <2>1 DEF RowsNumbered
  <2> QED
    BY <2>2 DEF OldNumbers, NewNumbers
<1> QED
  BY <1>1, <1>2, <1>3, DiffInvHolds, PTL DEF DiffSpec

-----------------------------------------------------------------------------
(* No line is lost *)

\* More rows add their cells.
LEMMA CellsAppend ==
    ASSUME NEW rs \in Seq(RowT), NEW u \in Seq(RowT), NEW k \in Nat
    PROVE  /\ OldCells(rs, k) \in Seq(Nat) /\ NewCells(rs, k) \in Seq(Nat)
           /\ OldCells(rs \o u, k) = OldCells(rs, k) \o OldCells(u, k)
           /\ NewCells(rs \o u, k) = NewCells(rs, k) \o NewCells(u, k)
<1>1. rs \o u \in Seq(RowT)
  BY ConcatProperties
<1>2. /\ OldCells(rs, k) = FlatMap(OldCell[k], rs) /\ NewCells(rs, k) = FlatMap(NewCell[k], rs)
      /\ OldCells(u, k) = FlatMap(OldCell[k], u) /\ NewCells(u, k) = FlatMap(NewCell[k], u)
      /\ OldCells(rs \o u, k) = FlatMap(OldCell[k], rs \o u)
      /\ NewCells(rs \o u, k) = FlatMap(NewCell[k], rs \o u)
  BY <1>1, CellsAre
<1> DEFINE a == OldCell[k]
           b == NewCell[k]
<1>3. a \in [RowT -> Seq(Nat)] /\ b \in [RowT -> Seq(Nat)]
  BY CellTypes
<1> HIDE DEF a, b
<1>4. /\ FlatMap(a, rs) \in Seq(Nat) /\ FlatMap(b, rs) \in Seq(Nat)
      /\ FlatMap(a, rs \o u) = FlatMap(a, rs) \o FlatMap(a, u)
      /\ FlatMap(b, rs \o u) = FlatMap(b, rs) \o FlatMap(b, u)
  BY <1>3, FlatMapType, FlatMapConcat
<1> QED
  BY <1>2, <1>4 DEF a, b

\* The cells of one row
LEMMA CellsOne ==
    ASSUME NEW r \in RowT, NEW k \in Nat
    PROVE  /\ OldCells(<<r>>, k) = IF r.file = k /\ (r.class = "hunk" \/ r.old # 0)
                                   THEN <<r.old>> ELSE <<>>
           /\ NewCells(<<r>>, k) = IF r.file = k /\ (r.class = "hunk" \/ r.new # 0)
                                   THEN <<r.new>> ELSE <<>>
<1>1. OldCells(<<r>>, k) = FlatMap(OldCell[k], <<r>>)
      /\ NewCells(<<r>>, k) = FlatMap(NewCell[k], <<r>>)
  <2>1. <<r>> \in Seq(RowT)
    OBVIOUS
  <2> QED
    BY <2>1, CellsAre
<1>2. OldCell[k] \in [RowT -> Seq(Nat)] /\ NewCell[k] \in [RowT -> Seq(Nat)]
  BY CellTypes
<1>3. FlatMap(OldCell[k], <<r>>) = OldCell[k][r] /\ FlatMap(NewCell[k], <<r>>) = NewCell[k][r]
  BY <1>2, FlatMapOne
<1>4. /\ OldCell[k][r] = IF r.file = k /\ (r.class = "hunk" \/ r.old # 0)
                         THEN <<r.old>> ELSE <<>>
      /\ NewCell[k][r] = IF r.file = k /\ (r.class = "hunk" \/ r.new # 0)
                         THEN <<r.new>> ELSE <<>>
  BY DEF OldCell, NewCell
<1> QED
  BY <1>1, <1>3, <1>4

\* FlatMapValues, for rows
LEMMA RowValues ==
    ASSUME NEW c \in [RowT -> Seq(Nat)], NEW s \in Seq(RowT), NEW a \in Seq(Nat),
           Len(a) <= Len(s),
           \A i \in 1 .. Len(s) : c[s[i]] = IF i <= Len(a) THEN <<a[i]>> ELSE <<>>
    PROVE  FlatMap(c, s) = a
<1> DEFINE T == RowT
<1>1. c \in [T -> Seq(Nat)] /\ s \in Seq(T)
  OBVIOUS
<1> HIDE DEF T
<1> QED
  BY <1>1, FlatMapValues

\* Rows about another pair show nothing of this one.
LEMMA CellsNone ==
    ASSUME NEW u \in Seq(RowT), NEW k \in Nat, \A i \in 1 .. Len(u) : u[i].file # k
    PROVE  OldCells(u, k) = <<>> /\ NewCells(u, k) = <<>>
<1> DEFINE a == <<>>
<1>1. a \in Seq(Nat) /\ Len(a) = 0
  OBVIOUS
<1>2. Len(u) \in Nat /\ \A i \in 1 .. Len(u) : u[i] \in RowT
  OBVIOUS
<1>3. \A i \in 1 .. Len(u) : OldCell[k][u[i]] = a /\ NewCell[k][u[i]] = a
  BY <1>2 DEF OldCell, NewCell
<1>4. OldCell[k] \in [RowT -> Seq(Nat)] /\ NewCell[k] \in [RowT -> Seq(Nat)]
  BY CellTypes
<1>5. \A i \in 1 .. Len(u) : ~(i <= Len(a))
  BY <1>1
<1> HIDE DEF a
<1>6. /\ \A i \in 1 .. Len(u) : OldCell[k][u[i]] = IF i <= Len(a) THEN <<a[i]>> ELSE a
      /\ \A i \in 1 .. Len(u) : NewCell[k][u[i]] = IF i <= Len(a) THEN <<a[i]>> ELSE a
      /\ Len(a) <= Len(u)
  BY <1>1, <1>2, <1>3, <1>5
<1> DEFINE c == OldCell[k]
           d == NewCell[k]
<1>9. /\ \A i \in 1 .. Len(u) : c[u[i]] = IF i <= Len(a) THEN <<a[i]>> ELSE <<>>
      /\ \A i \in 1 .. Len(u) : d[u[i]] = IF i <= Len(a) THEN <<a[i]>> ELSE <<>>
      /\ c \in [RowT -> Seq(Nat)] /\ d \in [RowT -> Seq(Nat)]
  BY <1>4, <1>5, <1>6 DEF a
<1> HIDE DEF c, d
<1>7. FlatMap(c, u) = a
  BY <1>1, <1>6, <1>9, RowValues
<1>8. FlatMap(d, u) = a
  BY <1>1, <1>6, <1>9, RowValues
<1> QED
  BY <1>7, <1>8, CellsAre DEF a, c, d

\* The texts of what waits, in its order
LEMMA TextsFacts ==
    ASSUME NEW q \in Seq(QueueT), NEW e \in QueueT
    PROVE  /\ Texts(<<>>) = <<>>
           /\ Texts(q) \in Seq(Nat) /\ Len(Texts(q)) = Len(q)
           /\ \A i \in 1 .. Len(q) : Texts(q)[i] = q[i].n
           /\ Texts(Append(q, e)) = Texts(q) \o <<e.n>>
<1>1. /\ Len(q) \in Nat /\ DOMAIN q = 1 .. Len(q)
      /\ \A i \in 1 .. Len(q) : q[i].n \in Nat
  <2>1. \A i \in 1 .. Len(q) : q[i] \in QueueT
    OBVIOUS
  <2> QED
    BY <2>1 DEF QueueT
<1>2. Texts(<<>>) = <<>>
  BY DEF Texts
<1>3. Texts(q) = [i \in 1 .. Len(q) |-> q[i].n]
  BY <1>1 DEF Texts
<1>4. /\ Texts(q) \in Seq(Nat) /\ Len(Texts(q)) = Len(q)
      /\ \A i \in 1 .. Len(q) : Texts(q)[i] = q[i].n
  BY <1>1, <1>3
<1>5. e.n \in Nat
  BY DEF QueueT
<1> DEFINE w == Append(q, e)
           v == e.n
<1>6. /\ w \in Seq(QueueT) /\ Len(w) = Len(q) + 1
      /\ \A i \in 1 .. Len(q) : w[i] = q[i]
      /\ w[Len(q) + 1] = e
  OBVIOUS
<1>7. Texts(w) = [i \in 1 .. Len(q) + 1 |-> w[i].n]
  <2>1. DOMAIN w = 1 .. Len(q) + 1
    BY <1>6
  <2> QED
    BY <2>1 DEF Texts
<1> HIDE DEF w
<1>8. /\ Texts(w) \in Seq(Nat) /\ Len(Texts(w)) = Len(q) + 1
      /\ \A i \in 1 .. Len(q) : Texts(w)[i] = Texts(q)[i]
      /\ Texts(w)[Len(q) + 1] = v
  <2>1. \A i \in 1 .. Len(q) + 1 : w[i].n = IF i <= Len(q) THEN Texts(q)[i] ELSE v
    BY <1>1, <1>4, <1>6
  <2>2. \A i \in 1 .. Len(q) + 1 : w[i].n \in Nat
    BY <2>1, <1>1, <1>4, <1>5
  <2>3. Len(q) + 1 \in Nat
    BY <1>1
  <2> QED
    BY <1>1, <1>7, <2>1, <2>2, <2>3
<1> DEFINE x == Texts(w)
           y == Texts(q)
<1>9. /\ x \in Seq(Nat) /\ Len(x) = Len(y) + 1 /\ y \in Seq(Nat) /\ v \in Nat
      /\ \A i \in 1 .. Len(y) : x[i] = y[i]
      /\ x[Len(y) + 1] = v
  BY <1>4, <1>5, <1>8
<1> HIDE DEF x, y, v
<1>10. x = y \o <<v>>
  <2> DEFINE z == y \o <<v>>
  <2>1. /\ z \in Seq(Nat) /\ Len(z) = Len(y) + 1 /\ Len(y) \in Nat
        /\ \A i \in 1 .. Len(y) : z[i] = y[i]
        /\ z[Len(y) + 1] = v
    BY <1>9
  <2> HIDE DEF z
  <2>2. \A i \in 1 .. Len(y) + 1 : x[i] = z[i]
    <3>1. \A i \in 1 .. Len(y) + 1 : i \in 1 .. Len(y) \/ i = Len(y) + 1
      BY <2>1
    <3> QED
      BY <1>9, <2>1, <3>1
  <2>3. x = z
    BY <1>9, <2>1, <2>2, SeqEqual
  <2> QED
    BY <2>3 DEF z
<1> QED
  BY <1>2, <1>4, <1>10 DEF w, x, y, v

\* What waited is shown.
LEMMA DeferredCells ==
    ASSUME DiffTypeOK, NEW k \in Nat
    PROVE  /\ OldCells(Deferred, k) = IF k = at THEN Texts(deferred_old) ELSE <<>>
           /\ NewCells(Deferred, k) = IF k = at THEN Texts(deferred_new) ELSE <<>>
<1> DEFINE D == Deferred
<1>1. D \in Seq(RowT)
  BY DeferredFacts
<1>2. CASE k # at
  <2>1. \A i \in 1 .. Len(D) : D[i].file # k
    BY <1>2, DeferredFacts
  <2> QED
    BY <1>1, <1>2, <2>1, CellsNone
<1>3. CASE k = at
  <2>1. /\ deferred_old \in Seq(QueueT) /\ deferred_new \in Seq(QueueT)
        /\ \A i \in 1 .. Len(deferred_old) : deferred_old[i].n # 0
        /\ \A i \in 1 .. Len(deferred_new) : deferred_new[i].n # 0
    <3>1. deferred_old \in Seq(QueueT) /\ deferred_new \in Seq(QueueT)
      BY DEF DiffTypeOK
    <3>2. /\ \A i \in 1 .. Len(deferred_old) : deferred_old[i] \in QueueT
          /\ \A i \in 1 .. Len(deferred_new) : deferred_new[i] \in QueueT
      BY <3>1
    <3> QED
      BY <3>1, <3>2 DEF QueueT
  <2> DEFINE a == Texts(deferred_old)
             b == Texts(deferred_new)
  <2>2. /\ a \in Seq(Nat) /\ Len(a) = Len(deferred_old)
        /\ \A i \in 1 .. Len(a) : a[i] = deferred_old[i].n
        /\ b \in Seq(Nat) /\ Len(b) = Len(deferred_new)
        /\ \A i \in 1 .. Len(b) : b[i] = deferred_new[i].n
    <3>1. [n |-> 1, no |-> 0] \in QueueT
      BY DEF QueueT
    <3> QED
      BY <2>1, <3>1, TextsFacts
  <2> HIDE DEF a, b
  <2>3. Len(a) \in Nat /\ Len(b) \in Nat /\ Len(D) \in Nat
        /\ Len(a) <= Len(D) /\ Len(b) <= Len(D)
    BY <1>1, <2>2, DeferredFacts
  <2>4. ASSUME NEW i \in 1 .. Len(D)
        PROVE  /\ OldCell[k][D[i]] = IF i <= Len(a) THEN <<a[i]>> ELSE <<>>
               /\ NewCell[k][D[i]] = IF i <= Len(b) THEN <<b[i]>> ELSE <<>>
    <3> DEFINE r == D[i]
    <3>1. /\ r.file = k /\ r.class # "hunk" /\ r \in RowT
          /\ IF i <= Len(a) THEN r.old = deferred_old[i].n ELSE r.old = 0
          /\ IF i <= Len(b) THEN r.new = deferred_new[i].n ELSE r.new = 0
      BY <1>1, <1>3, <2>2, DeferredFacts
    <3> HIDE DEF r
    <3>2. /\ OldCell[k][r] = IF r.old # 0 THEN <<r.old>> ELSE <<>>
          /\ NewCell[k][r] = IF r.new # 0 THEN <<r.new>> ELSE <<>>
      BY <3>1 DEF OldCell, NewCell
    <3>3. IF i <= Len(a) THEN r.old = a[i] /\ r.old # 0 ELSE r.old = 0
      <4>1. i <= Len(a) => i \in 1 .. Len(a)
        BY <2>3
      <4> QED
        BY <4>1, <3>1, <2>1, <2>2
    <3>4. IF i <= Len(b) THEN r.new = b[i] /\ r.new # 0 ELSE r.new = 0
      <4>1. i <= Len(b) => i \in 1 .. Len(b)
        BY <2>3
      <4> QED
        BY <4>1, <3>1, <2>1, <2>2
    <3> QED
      BY <3>2, <3>3, <3>4 DEF r
  <2>5. OldCell[k] \in [RowT -> Seq(Nat)] /\ NewCell[k] \in [RowT -> Seq(Nat)]
    BY CellTypes
  <2> DEFINE c == OldCell[k]
             d == NewCell[k]
  <2>8. /\ \A i \in 1 .. Len(D) : c[D[i]] = IF i <= Len(a) THEN <<a[i]>> ELSE <<>>
        /\ \A i \in 1 .. Len(D) : d[D[i]] = IF i <= Len(b) THEN <<b[i]>> ELSE <<>>
    BY <2>4
  <2> HIDE DEF D, c, d
  <2>6. FlatMap(c, D) = a
    <3>1. c \in [RowT -> Seq(Nat)]
      BY <2>5 DEF c
    <3> QED
      BY <3>1, <1>1, <2>2, <2>3, <2>8, RowValues
  <2>7. FlatMap(d, D) = b
    <3>1. d \in [RowT -> Seq(Nat)]
      BY <2>5 DEF d
    <3> QED
      BY <3>1, <1>1, <2>2, <2>3, <2>8, RowValues
  <2> QED
    BY <1>1, <1>3, <2>6, <2>7, CellsAre DEF a, b, c, d, D
<1> QED
  BY <1>2, <1>3

\* What a side shows of pair k, in rows and in the queue
OldShown(k) == OldCells(rows, k) \o (IF k = at THEN Texts(deferred_old) ELSE <<>>)
NewShown(k) == NewCells(rows, k) \o (IF k = at THEN Texts(deferred_new) ELSE <<>>)

\* Sequences of texts may be joined in any grouping.
TextSeq == Seq(Nat)
Cat(x, y) == x \o y

LEMMA Joined ==
    \A x, y, z \in TextSeq : /\ Cat(Cat(x, y), z) = Cat(x, Cat(y, z))
                            /\ Cat(x, y) \in TextSeq /\ Cat(x, <<>>) = x
<1> SUFFICES ASSUME NEW x \in TextSeq, NEW y \in TextSeq, NEW z \in TextSeq
             PROVE  /\ Cat(Cat(x, y), z) = Cat(x, Cat(y, z))
                    /\ Cat(x, y) \in TextSeq /\ Cat(x, <<>>) = x
  OBVIOUS
<1> DEFINE S == Nat
<1>1. x \in Seq(S) /\ y \in Seq(S) /\ z \in Seq(S)
  BY DEF TextSeq
<1> HIDE DEF S
<1>2. (x \o y) \o z = x \o (y \o z)
  BY <1>1, Associative
<1>3. x \o y \in Seq(S)
  BY <1>1, ConcatProperties
<1>4. x \o <<>> = x
  BY <1>1, ConcatEmptySeq
<1> QED
  BY <1>2, <1>3, <1>4 DEF Cat, TextSeq, S

\* Between two pairs nothing changes.
LEMMA QuietStep ==
    ASSUME DiffInv, Inspect \/ StatDone \/ BeginPair \/ Finish, NEW k \in 1 .. Len(pairs)
    PROVE  /\ OldShown(k)' = OldShown(k) /\ NewShown(k)' = NewShown(k)
           /\ Received(k)' = Received(k)
<1>1. /\ UNCHANGED input /\ rows' = rows
      /\ deferred_old = <<>> /\ deferred_new = <<>>
      /\ deferred_old' = <<>> /\ deferred_new' = <<>>
  <2>1. diff_pc # "lines" /\ UNCHANGED <<input, rows, queues>>
    BY DEF Inspect, StatDone, BeginPair, Finish
  <2> QED
    BY <2>1 DEF queues, DiffInv, InPhase
<1>2. Texts(<<>>) = <<>>
  BY DEF Texts
<1>3. OldShown(k)' = OldShown(k) /\ NewShown(k)' = NewShown(k)
  BY <1>1, <1>2 DEF OldShown, NewShown
<1>4. /\ at \in Nat /\ k \in Nat /\ pairs[k] \in Pair
      /\ LinesOf(pairs[k]) \in Seq(AnyLine)
      /\ LinesOf(pairs[k])' = LinesOf(pairs[k]) /\ Shown(pairs[k])' = Shown(pairs[k])
  BY <1>1, CurrentPair, InputStays DEF DiffInv, DiffTypeOK, Good
<1>5. Received(k)' = Received(k)
  <2>1. CASE Inspect \/ StatDone
    <3>1. Received(k) = <<>>
      BY <2>1 DEF Inspect, StatDone, Received
    <3>2. diff_pc' = "stat" \/ (at' = 1 /\ diff_pc' # "lines")
      BY <2>1 DEF Inspect, StatDone
    <3>3. Received(k)' = <<>>
      <4>1. CASE diff_pc' = "stat"
        BY <4>1 DEF Received
      <4>2. CASE at' = 1 /\ diff_pc' # "lines"
        <5>1. ~(k < at')
          BY <4>2, <1>4
        <5> QED
          BY <4>2, <5>1 DEF Received
      <4> QED
        BY <3>2, <4>1, <4>2
    <3> QED
      BY <3>1, <3>3
  <2>2. CASE BeginPair /\ Shown(pairs[at])
    <3>1. diff_pc = "pairs" /\ diff_pc' = "lines" /\ at' = at
      BY <2>2 DEF BeginPair
    <3>2. CASE k # at
      BY <3>1, <3>2, <1>4 DEF Received
    <3>3. CASE k = at
      <4>1. Received(k) = <<>>
        BY <3>1, <3>3 DEF Received
      <4> DEFINE L == LinesOf(pairs[k])
      <4>2. todo' = L
        BY <2>2, <3>3 DEF BeginPair
      <4>3. Received(k)' = SubSeq(L, 1, Len(L) - Len(todo'))
        BY <3>1, <3>3, <2>2, <1>4 DEF Received
      <4> HIDE DEF L
      <4>4. Len(L) \in Nat
        BY <1>4 DEF L
      <4>5. SubSeq(L, 1, Len(L) - Len(todo')) = <<>>
        BY <4>2, <4>4
      <4> QED
        BY <4>1, <4>3, <4>5
    <3> QED
      BY <3>2, <3>3
  <2>3. CASE BeginPair /\ ~Shown(pairs[at])
    <3>1. diff_pc = "pairs" /\ diff_pc' = "pairs" /\ at' = at + 1
      BY <2>3 DEF BeginPair
    <3>2. CASE k = at
      BY <3>1, <3>2, <2>3, <1>4 DEF Received
    <3>3. CASE k # at
      <4>1. k < at' <=> k < at
        BY <3>1, <3>3, <1>4
      <4>2. k < at => k # at'
        BY <3>1, <1>4
      <4> QED
        BY <3>1, <3>3, <4>1, <4>2, <1>4 DEF Received
    <3> QED
      BY <3>2, <3>3
  <2>4. CASE Finish
    <3>1. k < at /\ at' = at /\ diff_pc # "stat" /\ diff_pc' # "stat"
      <4>1. at > Len(pairs) /\ at' = at /\ diff_pc # "stat" /\ diff_pc' # "stat"
        BY <2>4 DEF Finish
      <4>2. Len(pairs) \in Nat
        BY CurrentPair DEF DiffInv
      <4> QED
        BY <4>1, <4>2, <1>4
    <3>2. k # at
      BY <3>1, <1>4
    <3> QED
      BY <3>1, <3>2, <1>4 DEF Received
  <2> QED
    BY <2>1, <2>2, <2>3, <2>4
<1> QED
  BY <1>3, <1>5

\* A line shows in its own pair only.
LEMMA OthersKeep ==
    ASSUME DiffInv, DiffNext, diff_pc = "lines", NEW k \in 1 .. Len(pairs), k # at
    PROVE  OldCells(rows, k)' = OldCells(rows, k) /\ NewCells(rows, k)' = NewCells(rows, k)
<1>1. PICK more \in Seq(RowT) :
          rows' = rows \o more /\ \A j \in 1 .. Len(more) : NewRow(more[j])
  BY NewRows
<1>2. \A r : NewRow(r) => r.file = at
  BY DeferredFacts DEF NewRow, Row, DiffInv
<1>3. \A j \in 1 .. Len(more) : more[j].file # k
  BY <1>1, <1>2
<1>4. rows \in Seq(RowT) /\ k \in Nat
  BY CurrentPair DEF DiffInv, DiffTypeOK
<1>5. OldCells(more, k) = <<>> /\ NewCells(more, k) = <<>>
  BY <1>3, <1>4, CellsNone
<1>6. /\ OldCells(rows, k) \in Seq(Nat) /\ NewCells(rows, k) \in Seq(Nat)
      /\ OldCells(rows \o more, k) = OldCells(rows, k) \o OldCells(more, k)
      /\ NewCells(rows \o more, k) = NewCells(rows, k) \o NewCells(more, k)
  BY <1>4, CellsAppend
<1> DEFINE x == OldCells(rows, k)
           y == NewCells(rows, k)
<1>7. x \in Seq(Nat) /\ y \in Seq(Nat)
  BY <1>6
<1> HIDE DEF x, y
<1>8. x \o <<>> = x /\ y \o <<>> = y
  BY <1>7, ConcatEmptySeq
<1>9. OldCells(rows \o more, k) = x /\ NewCells(rows \o more, k) = y
  BY <1>5, <1>6, <1>8 DEF x, y
<1>10. OldCells(rows', k) = x /\ NewCells(rows', k) = y
  BY <1>1, <1>9
<1>11. OldCells(rows, k)' = OldCells(rows', k) /\ NewCells(rows, k)' = NewCells(rows', k)
  BY DEF OldCells, NewCells
<1> QED
  BY <1>10, <1>11 DEF x, y

\* What a line adds to each side of its pair
LEMMA LineShows ==
    ASSUME DiffInv, DiffNext, difftype = "ssdiff", NEW t \in {"@", "=", "-", "+"},
           NextLine(t), NEW k, k = at
    PROVE  /\ UNCHANGED <<input, diff_pc, at>>
           /\ OldShown(k)' = IF t = "+" THEN OldShown(k) ELSE OldShown(k) \o <<Head(todo).n>>
           /\ NewShown(k)' = IF t = "-" THEN NewShown(k) ELSE NewShown(k) \o <<Head(todo).n>>
<1> DEFINE n == Head(todo).n
           A == OldCells(rows, k)
           B == NewCells(rows, k)
           V == Texts(deferred_old)
           W == Texts(deferred_new)
<1>1. /\ rows \in Seq(RowT) /\ at \in Nat /\ deferred_old \in Seq(QueueT)
      /\ deferred_new \in Seq(QueueT) /\ todo \in Seq(AnyLine) /\ DiffTypeOK
      /\ current_old_line \in Int /\ current_new_line \in Int
  BY DEF DiffInv, DiffTypeOK
<1>2. /\ todo # <<>> /\ Head(todo).t = t /\ todo' = Tail(todo) /\ diff_pc = "lines"
      /\ Head(todo) \in AnyLine /\ todo' # todo
  <2>1. todo # <<>> /\ Head(todo).t = t /\ todo' = Tail(todo) /\ diff_pc = "lines"
    BY DEF NextLine
  <2>2. Len(todo') = Len(todo) - 1 /\ Len(todo) \in Nat
    BY <1>1, <2>1
  <2>3. Head(todo) \in AnyLine
    BY <1>1, <2>1
  <2>4. todo' # todo
    <3>1. Len(todo') # Len(todo)
      BY <2>2
    <3> QED
      BY <3>1, Zenon
  <2> QED
    BY <2>1, <2>3, <2>4, Zenon
<1>3. n \in Nat /\ (t # "@" => n # 0) /\ (t = "@" => n = 0)
  BY <1>2, AnyLineFacts
<1>4. A \in Seq(Nat) /\ B \in Seq(Nat)
  BY <1>1, CellsAppend
<1>5. /\ V \in Seq(Nat) /\ W \in Seq(Nat) /\ Texts(<<>>) = <<>>
      /\ \A e \in QueueT : /\ Texts(Append(deferred_old, e)) = V \o <<e.n>>
                           /\ Texts(Append(deferred_new, e)) = W \o <<e.n>>
  <2>1. [n |-> 1, no |-> 0] \in QueueT
    BY DEF QueueT
  <2> QED
    BY <1>1, <2>1, TextsFacts
<1>6. OldShown(k) = A \o V /\ NewShown(k) = B \o W
  BY DEF OldShown, NewShown
<1>7. at' = at => /\ OldShown(k)' = OldCells(rows', k) \o Texts(deferred_old')
                  /\ NewShown(k)' = NewCells(rows', k) \o Texts(deferred_new')
  BY DEF OldShown, NewShown, OldCells, NewCells, Texts
<1>8. \/ SsHunk /\ t = "@"
      \/ SsContext /\ t = "="
      \/ SsDeleted /\ t = "-"
      \/ SsAdded /\ t = "+"
  <2>1. ~Inspect /\ ~StatDone /\ ~BeginPair /\ ~EndPair /\ ~Finish
    BY <1>2 DEF Inspect, StatDone, BeginPair, EndPair, Finish
  <2>2. ~UnifiedLine
    BY DEF UnifiedLine
  <2>3. SsHunk \/ SsContext \/ SsDeleted \/ SsAdded
    BY <2>1, <2>2 DEF DiffNext
  <2>4. /\ SsHunk => NextLine("@")
        /\ SsContext => NextLine("=")
        /\ SsDeleted => NextLine("-")
        /\ SsAdded => NextLine("+")
    BY DEF SsHunk, SsContext, SsDeleted, SsAdded
  <2>5. \A u : NextLine(u) => u = t
    BY <1>2 DEF NextLine
  <2> QED
    BY <2>3, <2>4, <2>5
<1>9. UNCHANGED <<input, diff_pc, at>>
  BY <1>8 DEF SsHunk, SsContext, SsDeleted, SsAdded
<1>10. Deferred \in Seq(RowT) /\ OldCells(Deferred, k) = V /\ NewCells(Deferred, k) = W
  BY <1>1, DeferredFacts, DeferredCells
<1>11. <<n>> \in Seq(Nat) /\ <<>> \in Seq(Nat)
  BY <1>3
<1>20. k \in Nat
  BY <1>1
<1> DEFINE y == <<n>>
<1>21. y \in Seq(Nat)
  BY <1>11
<1> HIDE DEF n, A, B, V, W, y
<1>12. /\ A \in TextSeq /\ B \in TextSeq /\ V \in TextSeq /\ W \in TextSeq
       /\ y \in TextSeq
  BY <1>4, <1>5, <1>21 DEF TextSeq
<1>22. /\ (A \o V) \o y = A \o (V \o y) /\ (B \o W) \o y = B \o (W \o y)
       /\ A \o <<>> = A /\ B \o <<>> = B
       /\ (A \o y) \o <<>> = A \o y /\ (B \o y) \o <<>> = B \o y
       /\ ((A \o V) \o y) \o <<>> = (A \o V) \o y
       /\ ((B \o W) \o y) \o <<>> = (B \o W) \o y
  <2>1. /\ Cat(A, V) \in TextSeq /\ Cat(B, W) \in TextSeq
        /\ Cat(A, y) \in TextSeq /\ Cat(B, y) \in TextSeq
        /\ Cat(Cat(A, V), y) = Cat(A, Cat(V, y))
        /\ Cat(Cat(B, W), y) = Cat(B, Cat(W, y))
        /\ Cat(A, <<>>) = A /\ Cat(B, <<>>) = B
    BY <1>12, Joined
  <2>2. /\ Cat(Cat(A, y), <<>>) = Cat(A, y) /\ Cat(Cat(B, y), <<>>) = Cat(B, y)
        /\ Cat(Cat(Cat(A, V), y), <<>>) = Cat(Cat(A, V), y)
        /\ Cat(Cat(Cat(B, W), y), <<>>) = Cat(Cat(B, W), y)
    BY <1>12, <2>1, Joined
  <2> QED
    BY <2>1, <2>2 DEF Cat
<1>13. CASE SsHunk /\ t = "@"
  <2>1. V = <<>> /\ W = <<>> /\ Texts(deferred_old') = <<>> /\ Texts(deferred_new') = <<>>
    <3>1. deferred_old = <<>> /\ deferred_new = <<>>
      BY <1>9, <1>13, HunkFindsEmpty
    <3>2. deferred_old' = deferred_old /\ deferred_new' = deferred_new
      BY <1>13 DEF SsHunk, queues
    <3> QED
      BY <3>1, <3>2, <1>5 DEF V, W
  <2> DEFINE r == Row("hunk", 0, 0, 0, 0)
  <2>2. r \in RowT /\ r.file = k /\ r.class = "hunk" /\ r.old = 0 /\ r.new = 0
    BY <1>1 DEF Row, RowT, Classes
  <2>3. rows' = Append(rows, r)
    BY <1>13 DEF SsHunk
  <2> HIDE DEF r
  <2>4. rows' = rows \o <<r>> /\ <<r>> \in Seq(RowT)
    BY <2>2, <2>3, <1>1
  <2>5. OldCells(<<r>>, k) = y /\ NewCells(<<r>>, k) = y
    <3>1. n = 0
      BY <1>3, <1>13 DEF n
    <3> QED
      BY <2>2, <3>1, <1>20, CellsOne DEF y
  <2>6. OldCells(rows', k) = A \o y /\ NewCells(rows', k) = B \o y
    <3> DEFINE u == <<r>>
    <3>1. /\ u \in Seq(RowT) /\ rows' = rows \o u
          /\ OldCells(u, k) = y /\ NewCells(u, k) = y
      BY <2>4, <2>5
    <3> HIDE DEF u
    <3>2. /\ OldCells(rows \o u, k) = OldCells(rows, k) \o OldCells(u, k)
          /\ NewCells(rows \o u, k) = NewCells(rows, k) \o NewCells(u, k)
      BY <3>1, <1>1, <1>20, CellsAppend
    <3> QED
      BY <3>1, <3>2 DEF A, B
  <2>7. OldShown(k)' = OldShown(k) \o y /\ NewShown(k)' = NewShown(k) \o y
    BY <1>6, <1>7, <1>9, <1>22, <2>1, <2>6
  <2> QED
    BY <1>9, <1>13, <2>7 DEF y, n
<1>14. CASE SsContext /\ t = "="
  <2>1. Texts(deferred_old') = <<>> /\ Texts(deferred_new') = <<>>
    BY <1>5, <1>14 DEF SsContext
  <2> DEFINE r == Row("ctx", n, current_old_line, n, current_new_line)
  <2>2. r \in RowT /\ r.file = k /\ r.old = n /\ r.new = n /\ n # 0
    <3>1. n \in Nat /\ n # 0
      BY <1>3, <1>14 DEF n
    <3> QED
      BY <3>1, <1>1 DEF Row, RowT, Classes
  <2>3. rows' = (rows \o Deferred) \o <<r>>
    BY <1>14 DEF SsContext, n
  <2> HIDE DEF r
  <2>4. <<r>> \in Seq(RowT) /\ rows \o Deferred \in Seq(RowT)
    BY <2>2, <1>1, <1>10, ConcatProperties
  <2>5. OldCells(<<r>>, k) = y /\ NewCells(<<r>>, k) = y
    BY <2>2, <1>20, CellsOne DEF y
  <2>6. /\ OldCells(rows \o Deferred, k) = A \o V
        /\ NewCells(rows \o Deferred, k) = B \o W
    BY <1>1, <1>10, <1>20, CellsAppend DEF A, B
  <2>7. OldCells(rows', k) = (A \o V) \o y /\ NewCells(rows', k) = (B \o W) \o y
    <3> DEFINE u == <<r>>
               v == rows \o Deferred
    <3>1. /\ u \in Seq(RowT) /\ v \in Seq(RowT) /\ rows' = v \o u
          /\ OldCells(u, k) = y /\ NewCells(u, k) = y
          /\ OldCells(v, k) = A \o V /\ NewCells(v, k) = B \o W
      BY <2>3, <2>4, <2>5, <2>6
    <3> HIDE DEF u, v
    <3>2. /\ OldCells(v \o u, k) = OldCells(v, k) \o OldCells(u, k)
          /\ NewCells(v \o u, k) = NewCells(v, k) \o NewCells(u, k)
      BY <3>1, <1>20, CellsAppend
    <3> QED
      BY <3>1, <3>2
  <2>8. OldShown(k)' = OldShown(k) \o y /\ NewShown(k)' = NewShown(k) \o y
    BY <1>6, <1>7, <1>9, <1>22, <2>1, <2>7
  <2> QED
    BY <1>9, <1>14, <2>8 DEF y, n
<1>15. CASE SsDeleted /\ t = "-"
  <2> DEFINE e == [n |-> Head(todo).n, no |-> current_old_line]
  <2>1. /\ rows' = rows /\ deferred_new' = deferred_new
        /\ deferred_old' = Append(deferred_old, e)
    BY <1>15 DEF SsDeleted
  <2>2. e \in QueueT /\ e.n = n
    BY <1>1, <1>3, <1>15 DEF QueueT, n
  <2> HIDE DEF e
  <2>3. Texts(deferred_old') = V \o y /\ Texts(deferred_new') = W
    BY <2>1, <2>2, <1>5 DEF y, W
  <2>4. OldCells(rows', k) = A /\ NewCells(rows', k) = B
    BY <2>1 DEF A, B
  <2>5. OldShown(k)' = OldShown(k) \o y /\ NewShown(k)' = NewShown(k)
    BY <1>6, <1>7, <1>9, <1>22, <2>3, <2>4
  <2> QED
    BY <1>9, <1>15, <2>5 DEF y, n
<1>16. CASE SsAdded /\ t = "+"
  <2> DEFINE e == [n |-> Head(todo).n, no |-> current_new_line]
  <2>1. /\ rows' = rows /\ deferred_old' = deferred_old
        /\ deferred_new' = Append(deferred_new, e)
    BY <1>16 DEF SsAdded
  <2>2. e \in QueueT /\ e.n = n
    BY <1>1, <1>3, <1>16 DEF QueueT, n
  <2> HIDE DEF e
  <2>3. Texts(deferred_new') = W \o y /\ Texts(deferred_old') = V
    BY <2>1, <2>2, <1>5 DEF y, V
  <2>4. OldCells(rows', k) = A /\ NewCells(rows', k) = B
    BY <2>1 DEF A, B
  <2>5. OldShown(k)' = OldShown(k) /\ NewShown(k)' = NewShown(k) \o y
    BY <1>6, <1>7, <1>9, <1>22, <2>3, <2>4
  <2> QED
    BY <1>9, <1>16, <2>5 DEF y, n
<1> QED
  BY <1>8, <1>13, <1>14, <1>15, <1>16

\* A side shows what came of its file.
Balanced(k) ==
    /\ OldShown(k) = TextsBut(Received(k), "+")
    /\ NewShown(k) = TextsBut(Received(k), "-")

\* Nothing is lost if both sides of every pair show what came of it.
LEMMA LostMeans ==
    ASSUME DOMAIN pairs = 1 .. Len(pairs)
    PROVE  NothingLost <=> (difftype = "ssdiff" => \A k \in 1 .. Len(pairs) : Balanced(k))
  BY DEF NothingLost, Balanced, OldShown, NewShown

\* A line goes to its sides, and the other pairs stay as they are.
LEMMA LineBalanced ==
    ASSUME DiffInv, DiffNext, difftype = "ssdiff", NEW t \in {"@", "=", "-", "+"},
           NextLine(t), NEW k \in 1 .. Len(pairs), Balanced(k)
    PROVE  Balanced(k)'
<1>1. PICK c : c = at
  OBVIOUS
<1>2. /\ UNCHANGED <<input, diff_pc, at>>
      /\ OldShown(c)' = IF t = "+" THEN OldShown(c) ELSE OldShown(c) \o <<Head(todo).n>>
      /\ NewShown(c)' = IF t = "-" THEN NewShown(c) ELSE NewShown(c) \o <<Head(todo).n>>
  BY <1>1, LineShows
<1>3. /\ diff_pc = "lines" /\ Mine \in Seq(AnyLine) /\ Done \in Nat
      /\ Done + 1 \in 1 .. Len(Mine) /\ Head(todo) = Mine[Done + 1] /\ Head(todo).t = t
      /\ \A j : j # at => Received(j)' = Received(j)
      /\ Received(at) = SubSeq(Mine, 1, Done)
      /\ Received(at)' = SubSeq(Mine, 1, Done + 1)
  BY <1>2, NextLineFacts DEF Good
<1>4. CASE k # c
  <2>1. Received(k)' = Received(k)
    BY <1>1, <1>3, <1>4
  <2>2. OldCells(rows, k)' = OldCells(rows, k) /\ NewCells(rows, k)' = NewCells(rows, k)
    BY <1>1, <1>3, <1>4, OthersKeep
  <2>3. k # at /\ k # at'
    BY <1>1, <1>2, <1>4
  <2>4. OldShown(k)' = OldShown(k) /\ NewShown(k)' = NewShown(k)
    BY <2>2, <2>3 DEF OldShown, NewShown
  <2> QED
    BY <2>1, <2>4 DEF Balanced
<1>5. CASE k = c
  <2>1. Received(c) = SubSeq(Mine, 1, Done) /\ Received(c)' = SubSeq(Mine, 1, Done + 1)
    <3>1. at' = c
      BY <1>1, <1>2
    <3>2. Received(c)' = Received(at)'
      BY <3>1 DEF Received
    <3> QED
      BY <1>1, <1>3, <3>2
  <2> DEFINE L == Mine
             d == Done
             n == Mine[Done + 1].n
             R(i, u) == TextsBut(SubSeq(L, 1, i), u)
  <2>2. /\ t # "+" => R(d + 1, "+") = R(d, "+") \o <<n>>
        /\ t = "+" => R(d + 1, "+") = R(d, "+")
        /\ t # "-" => R(d + 1, "-") = R(d, "-") \o <<n>>
        /\ t = "-" => R(d + 1, "-") = R(d, "-")
    <3>1. L \in Seq(AnyLine) /\ d \in Nat /\ d + 1 \in 1 .. Len(L) /\ L[d + 1].t = t
      BY <1>3
    <3> HIDE DEF L, d
    <3> QED
      BY <3>1, ReceivedNext DEF L, d
  <2>3. OldShown(c) = R(d, "+") /\ NewShown(c) = R(d, "-")
    BY <1>5, <2>1 DEF Balanced
  <2>4. Head(todo).n = n
    BY <1>3
  <2>5. /\ TextsBut(Received(c), "+")' = R(d + 1, "+")
        /\ TextsBut(Received(c), "-")' = R(d + 1, "-")
    BY <2>1 DEF TextsBut
  <2> HIDE DEF L, d, n, R
  <2>6. OldShown(c)' = R(d + 1, "+") /\ NewShown(c)' = R(d + 1, "-")
    BY <1>2, <2>2, <2>3, <2>4
  <2> QED
    BY <1>5, <2>5, <2>6 DEF Balanced
<1> QED
  BY <1>4, <1>5

\* When a pair ends, all its lines have come.
LEMMA EndReceived ==
    ASSUME DiffInv, EndPair, NEW k \in 1 .. Len(pairs)
    PROVE  Received(k)' = Received(k)
<1>1. /\ at \in Nat /\ k \in Nat /\ at' = at + 1 /\ UNCHANGED input
      /\ diff_pc = "lines" /\ diff_pc' = "pairs" /\ todo = <<>>
      /\ LinesOf(pairs[k])' = LinesOf(pairs[k]) /\ Shown(pairs[k])' = Shown(pairs[k])
  <2>1. /\ at' = at + 1 /\ UNCHANGED input
        /\ diff_pc = "lines" /\ diff_pc' = "pairs" /\ todo = <<>>
    BY DEF EndPair
  <2>2. LinesOf(pairs[k])' = LinesOf(pairs[k]) /\ Shown(pairs[k])' = Shown(pairs[k])
    BY <2>1, InputStays
  <2> QED
    BY <2>1, <2>2, CurrentPair DEF DiffInv, DiffTypeOK
<1>2. CASE k = at
  <2>1. k < at' /\ k # at' /\ Len(todo) = 0
    BY <1>1, <1>2
  <2> DEFINE L == LinesOf(pairs[k])
  <2>2. Received(k) = IF Shown(pairs[k]) THEN SubSeq(L, 1, Len(L) - Len(todo)) ELSE <<>>
    BY <1>1, <1>2 DEF Received
  <2>3. Received(k)' = IF Shown(pairs[k]) THEN SubSeq(L, 1, Len(L) - 0) ELSE <<>>
    BY <1>1, <2>1 DEF Received
  <2> QED
    BY <2>1, <2>2, <2>3
<1>3. CASE k # at
  <2>1. k < at' <=> k < at
    BY <1>1, <1>3
  <2>2. k < at => k # at'
    BY <1>1
  <2> QED
    BY <1>1, <1>3, <2>1, <2>2 DEF Received
<1> QED
  BY <1>2, <1>3

\* At the end of a pair what waits is printed.
LEMMA EndBalanced ==
    ASSUME DiffInv, EndPair, NEW k \in 1 .. Len(pairs), Balanced(k)
    PROVE  Balanced(k)'
<1>1. /\ DiffTypeOK /\ at \in Nat /\ at' = at + 1 /\ UNCHANGED input
      /\ diff_pc = "lines" /\ diff_pc' = "pairs" /\ todo = <<>> /\ rows \in Seq(RowT)
      /\ deferred_old' = <<>> /\ deferred_new' = <<>> /\ rows' = rows \o Deferred
      /\ k \in Nat /\ LinesOf(pairs[k])' = LinesOf(pairs[k])
      /\ Shown(pairs[k])' = Shown(pairs[k]) /\ LinesOf(pairs[k]) \in Seq(AnyLine)
  <2>1. /\ at' = at + 1 /\ UNCHANGED input
        /\ diff_pc = "lines" /\ diff_pc' = "pairs" /\ todo = <<>>
        /\ deferred_old' = <<>> /\ deferred_new' = <<>> /\ rows' = rows \o Deferred
    BY DEF EndPair
  <2>2. LinesOf(pairs[k])' = LinesOf(pairs[k]) /\ Shown(pairs[k])' = Shown(pairs[k])
    BY <2>1, InputStays
  <2>3. DiffTypeOK /\ at \in Nat /\ rows \in Seq(RowT)
    BY DEF DiffInv, DiffTypeOK
  <2>4. k \in Nat /\ LinesOf(pairs[k]) \in Seq(AnyLine)
    BY <2>3, CurrentPair DEF Good
  <2> QED
    BY <2>1, <2>2, <2>3, <2>4
<1> DEFINE A == OldCells(rows, k)
           B == NewCells(rows, k)
           V == IF k = at THEN Texts(deferred_old) ELSE <<>>
           W == IF k = at THEN Texts(deferred_new) ELSE <<>>
           e == <<>>
<1>2. /\ A \in Seq(Nat) /\ B \in Seq(Nat)
      /\ OldCells(rows', k) = A \o V /\ NewCells(rows', k) = B \o W
  <2> DEFINE D == Deferred
  <2>1. D \in Seq(RowT) /\ OldCells(D, k) = V /\ NewCells(D, k) = W
    BY <1>1, DeferredFacts, DeferredCells
  <2> HIDE DEF D, V, W
  <2>2. /\ A \in Seq(Nat) /\ B \in Seq(Nat)
        /\ OldCells(rows \o D, k) = A \o OldCells(D, k)
        /\ NewCells(rows \o D, k) = B \o NewCells(D, k)
    BY <1>1, <2>1, CellsAppend
  <2> QED
    BY <1>1, <2>1, <2>2 DEF D
<1>3. V \in Seq(Nat) /\ W \in Seq(Nat)
  <2>1. [n |-> 1, no |-> 0] \in QueueT
    BY DEF QueueT
  <2>2. Texts(deferred_old) \in Seq(Nat) /\ Texts(deferred_new) \in Seq(Nat)
    BY <1>1, <2>1, TextsFacts DEF DiffTypeOK
  <2>3. <<>> \in Seq(Nat)
    OBVIOUS
  <2> QED
    BY <2>2, <2>3
<1>4. OldShown(k)' = OldCells(rows', k) \o e /\ NewShown(k)' = NewCells(rows', k) \o e
  <2>1. Texts(deferred_old') = e /\ Texts(deferred_new') = e
    BY <1>1 DEF Texts
  <2> QED
    BY <2>1 DEF OldShown, NewShown, OldCells, NewCells, Texts
<1>5. OldShown(k) = A \o V /\ NewShown(k) = B \o W
  BY DEF OldShown, NewShown
<1> HIDE DEF A, B, V, W
<1>6. OldShown(k)' = OldShown(k) /\ NewShown(k)' = NewShown(k)
  <2>1. Cat(A, V) \in TextSeq /\ Cat(B, W) \in TextSeq
    BY <1>2, <1>3, Joined DEF TextSeq
  <2>2. (A \o V) \o <<>> = A \o V /\ (B \o W) \o <<>> = B \o W
    BY <2>1, Joined DEF Cat
  <2> QED
    BY <1>2, <1>4, <1>5, <2>2
<1>7. Received(k)' = Received(k)
  BY EndReceived
<1> QED
  BY <1>6, <1>7 DEF Balanced

\* Every line of every file, and every header, is on its side of the diff in the order
\* of the file, or waits behind what is there, in all diffs of any length.
THEOREM NoLineLost == DiffSpec => []NothingLost
<1>1. DiffInit => NothingLost
  <2> SUFFICES ASSUME DiffInit PROVE NothingLost
    OBVIOUS
  <2>1. /\ \A k : OldCells(<<>>, k) = <<>> /\ NewCells(<<>>, k) = <<>>
        /\ \A t : TextsBut(<<>>, t) = <<>>
    <3>1. [i \in DOMAIN <<>> |-> <<>>] = <<>>
      OBVIOUS
    <3> QED
      BY <3>1, FlattenEmpty DEF OldCells, NewCells, TextsBut
  <2>2. \A k : Received(k) = <<>>
    BY DEF DiffInit, Received
  <2>3. Texts(<<>>) = <<>>
    BY DEF Texts
  <2>4. <<>> \o <<>> = <<>>
    <3>1. <<>> \in Seq(Nat)
      OBVIOUS
    <3> QED
      BY <3>1, ConcatEmptySeq
  <2>5. rows = <<>> /\ deferred_old = <<>> /\ deferred_new = <<>>
    BY DEF DiffInit
  <2> QED
    BY <2>1, <2>2, <2>3, <2>4, <2>5 DEF NothingLost
<1>2. DiffInv /\ NothingLost /\ [DiffNext]_diffvars => NothingLost'
  <2>1. ASSUME DiffInv, NothingLost, DiffNext PROVE NothingLost'
    <3>1. DOMAIN pairs = 1 .. Len(pairs) /\ pairs' = pairs /\ difftype' = difftype
      BY <2>1, CurrentPair, InputFixed, InputStays DEF DiffInv
    <3>2. NothingLost' <=> (difftype' = "ssdiff" => \A k \in 1 .. Len(pairs') : Balanced(k)')
      BY <3>1 DEF NothingLost, Balanced, OldShown, NewShown
    <3>3. ASSUME difftype = "ssdiff", NEW k \in 1 .. Len(pairs) PROVE Balanced(k)'
      <4>1. Balanced(k)
        BY <2>1, <3>1, <3>3, LostMeans
      <4>2. CASE Inspect \/ StatDone \/ BeginPair \/ Finish
        <5>1. /\ OldShown(k)' = OldShown(k) /\ NewShown(k)' = NewShown(k)
              /\ Received(k)' = Received(k)
          BY <2>1, <4>2, QuietStep
        <5> QED
          BY <4>1, <5>1 DEF Balanced
      <4>3. CASE UnifiedLine \/ SsHunk \/ SsContext \/ SsDeleted \/ SsAdded
        <5>1. PICK t \in {"@", "=", "-", "+"} : NextLine(t)
          BY <4>3 DEF UnifiedLine, SsHunk, SsContext, SsDeleted, SsAdded
        <5> QED
          BY <2>1, <3>3, <4>1, <5>1, LineBalanced
      <4>4. CASE EndPair
        BY <2>1, <4>1, <4>4, EndBalanced
      <4> QED
        BY <2>1, <4>2, <4>3, <4>4 DEF DiffNext
    <3> QED
      BY <3>1, <3>2, <3>3
  <2>2. ASSUME NothingLost, UNCHANGED diffvars PROVE NothingLost'
    <3>1. /\ pairs' = pairs /\ context' = context /\ difftype' = difftype /\ comma' = comma
          /\ diff_pc' = diff_pc /\ at' = at /\ todo' = todo /\ rows' = rows
          /\ deferred_old' = deferred_old /\ deferred_new' = deferred_new
      BY <2>2 DEF diffvars
    <3>2. \A k : Received(k)' = Received(k)
      BY <3>1 DEF Received, LinesOf, DiffFiles, Shown
    <3>3. \A k : /\ OldCells(rows, k)' = OldCells(rows, k)
                 /\ NewCells(rows, k)' = NewCells(rows, k)
                 /\ TextsBut(Received(k), "+")' = TextsBut(Received(k), "+")
                 /\ TextsBut(Received(k), "-")' = TextsBut(Received(k), "-")
      BY <3>1, <3>2 DEF OldCells, NewCells, TextsBut
    <3>4. /\ Texts(deferred_old)' = Texts(deferred_old)
          /\ Texts(deferred_new)' = Texts(deferred_new)
      BY <3>1 DEF Texts
    <3> QED
      BY <2>2, <3>1, <3>3, <3>4 DEF NothingLost
  <2> QED
    BY <2>1, <2>2
<1> QED
  BY <1>1, <1>2, DiffInvHolds, PTL DEF DiffSpec

-----------------------------------------------------------------------------
(* The statistic and the diff *)

\* The lines that are in a row, by their pair, and those of the current pair that wait
Seen == {x \in Nat \X Nat : \E m \in 1 .. Len(rows) :
            rows[m].file = x[1] /\ x[2] \in {rows[m].old, rows[m].new}}
Waits == {n \in Nat : /\ diff_pc = "lines"
                      /\ \/ \E m \in 1 .. Len(deferred_old) : deferred_old[m].n = n
                         \/ \E m \in 1 .. Len(deferred_new) : deferred_new[m].n = n}

\* What came of a pair can be seen or waits.
AllKept ==
    \A k \in 1 .. Len(pairs) : \A j \in 1 .. Len(Received(k)) :
        Received(k)[j].t # "@" => \/ <<k, Received(k)[j].n>> \in Seen
                                  \/ k = at /\ Received(k)[j].n \in Waits

\* What can be seen stays.
LEMMA SeenGrows ==
    ASSUME DiffInv, DiffNext
    PROVE  Seen \subseteq Seen'
<1>1. PICK more \in Seq(RowT) : rows' = rows \o more
  BY NewRows
<1>2. rows \in Seq(RowT)
  BY DEF DiffInv, DiffTypeOK
<1>3. \A i \in 1 .. Len(rows) : i \in 1 .. Len(rows') /\ rows'[i] = rows[i]
  BY <1>1, <1>2, RowsAfter
<1> QED
  BY <1>3 DEF Seen

\* A row that a step prints can be seen.
LEMMA SeenMore ==
    ASSUME DiffInv, NEW more \in Seq(RowT), rows' = rows \o more,
           NEW j \in 1 .. Len(more), NEW n \in Nat, n \in {more[j].old, more[j].new}
    PROVE  <<more[j].file, n>> \in Seen'
<1>1. rows \in Seq(RowT) /\ more[j].file \in Nat
  <2>1. more[j] \in RowT
    OBVIOUS
  <2> QED
    BY <2>1 DEF RowT, DiffInv, DiffTypeOK
<1>2. \A x \in 1 .. Len(more) : \E i \in 1 .. Len(rows \o more) : (rows \o more)[i] = more[x]
  BY <1>1, RowsAfter
<1>3. PICK i \in 1 .. Len(rows \o more) : (rows \o more)[i] = more[j]
  BY <1>2
<1>4. i \in 1 .. Len(rows') /\ rows'[i] = more[j]
  BY <1>3
<1> QED
  BY <1>1, <1>4 DEF Seen

\* What waits is in the rows that are printed for it.
LEMMA WaitsShown ==
    ASSUME DiffInv, NEW n \in Waits
    PROVE  \E j \in 1 .. Len(Deferred) :
              Deferred[j].file = at /\ n \in {Deferred[j].old, Deferred[j].new}
<1> DEFINE D == Deferred
<1>1. /\ deferred_old \in Seq(QueueT) /\ deferred_new \in Seq(QueueT) /\ D \in Seq(RowT)
      /\ Len(deferred_old) <= Len(D) /\ Len(deferred_new) <= Len(D)
      /\ \A i \in 1 .. Len(D) :
            /\ D[i].file = at
            /\ i <= Len(deferred_old) => D[i].old = deferred_old[i].n
            /\ i <= Len(deferred_new) => D[i].new = deferred_new[i].n
  BY DeferredFacts DEF DiffInv, DiffTypeOK
<1> HIDE DEF D
<1>2. Len(D) \in Nat /\ Len(deferred_old) \in Nat /\ Len(deferred_new) \in Nat
  BY <1>1
<1>3. ASSUME NEW m \in 1 .. Len(deferred_old), deferred_old[m].n = n
      PROVE  m \in 1 .. Len(D) /\ D[m].file = at /\ n = D[m].old
  BY <1>1, <1>2, <1>3
<1>4. ASSUME NEW m \in 1 .. Len(deferred_new), deferred_new[m].n = n
      PROVE  m \in 1 .. Len(D) /\ D[m].file = at /\ n = D[m].new
  BY <1>1, <1>2, <1>4
<1> QED
  BY <1>3, <1>4 DEF Waits, D

\* A line that comes is shown or waits, as those before it are shown or wait on.
LEMMA LineKept ==
    ASSUME DiffInv, DiffNext, NEW t \in {"@", "=", "-", "+"}, NextLine(t)
    PROVE  /\ UNCHANGED <<input, diff_pc, at>>
           /\ \A n \in Waits : <<at, n>> \in Seen' \/ n \in Waits'
           /\ t # "@" => <<at, Head(todo).n>> \in Seen' \/ Head(todo).n \in Waits'
<1>1. /\ rows \in Seq(RowT) /\ at \in Nat /\ deferred_old \in Seq(QueueT)
      /\ deferred_new \in Seq(QueueT) /\ todo \in Seq(AnyLine) /\ DiffTypeOK /\ InPhase
      /\ current_old_line \in Int /\ current_new_line \in Int
  BY DEF DiffInv, DiffTypeOK
<1>2. /\ Head(todo).t = t /\ diff_pc = "lines" /\ Head(todo).n \in Nat /\ todo # <<>>
  <2>1. todo # <<>> /\ Head(todo).t = t /\ diff_pc = "lines"
    BY DEF NextLine
  <2>2. Head(todo) \in AnyLine
    BY <1>1, <2>1
  <2> QED
    BY <2>1, <2>2, AnyLineFacts
<1>3. UnifiedLine \/ SsHunk \/ SsContext \/ SsDeleted \/ SsAdded
  BY <1>2 DEF DiffNext, Inspect, StatDone, BeginPair, EndPair, Finish
<1>4. UNCHANGED <<input, diff_pc, at>>
  BY <1>3 DEF UnifiedLine, SsHunk, SsContext, SsDeleted, SsAdded
<1>5. /\ SsHunk => t = "@"
      /\ SsContext => t = "="
      /\ SsDeleted => t = "-"
      /\ SsAdded => t = "+"
  BY <1>2 DEF SsHunk, SsContext, SsDeleted, SsAdded, NextLine
<1>6. CASE UnifiedLine
  <2>1. PICK u \in {"@", "=", "-", "+"} :
            difftype = "unified" /\ rows' = Append(rows, Row(u, Head(todo).n, 0, 0, 0))
    BY <1>6 DEF UnifiedLine
  <2> DEFINE r == Row(u, Head(todo).n, 0, 0, 0)
             more == <<r>>
  <2>2. r \in RowT /\ r.file = at /\ r.old = Head(todo).n
    BY <1>1, <1>2 DEF Row, RowT, Classes
  <2>3. rows' = Append(rows, r)
    BY <2>1
  <2> HIDE DEF r
  <2>4. more \in Seq(RowT) /\ rows' = rows \o more /\ 1 \in 1 .. Len(more) /\ more[1] = r
    BY <1>1, <2>2, <2>3
  <2> HIDE DEF more
  <2>5. <<at, Head(todo).n>> \in Seen'
    BY <1>2, <2>2, <2>4, SeenMore
  <2>6. Waits = {}
    <3>1. deferred_old = <<>> /\ deferred_new = <<>>
      BY <1>1, <2>1 DEF InPhase
    <3>2. Len(deferred_old) = 0 /\ Len(deferred_new) = 0
      BY <3>1
    <3> QED
      BY <3>2 DEF Waits
  <2> QED
    BY <1>4, <2>5, <2>6
<1>7. CASE SsHunk
  <2>1. deferred_old' = deferred_old /\ deferred_new' = deferred_new /\ diff_pc' = diff_pc
    BY <1>7 DEF SsHunk, queues
  <2>2. Waits' = Waits
    BY <2>1 DEF Waits
  <2> QED
    BY <1>4, <1>5, <1>7, <2>2
<1>8. CASE SsContext
  <2> DEFINE r == Row("ctx", Head(todo).n, current_old_line, Head(todo).n,
                      current_new_line)
             one == <<r>>
             D == Deferred
  <2>1. rows' = (rows \o D) \o one
    BY <1>8 DEF SsContext
  <2>2. r \in RowT /\ r.file = at /\ r.old = Head(todo).n
    BY <1>1, <1>2 DEF Row, RowT, Classes
  <2>3. one \in Seq(RowT) /\ 1 \in 1 .. Len(one) /\ one[1] = r
    <3> HIDE DEF r
    <3> QED
      BY <2>2
  <2>4. D \in Seq(RowT)
    BY <1>1, DeferredFacts
  <2>5. \A n \in Waits : \E j \in 1 .. Len(D) : D[j].file = at /\ n \in {D[j].old, D[j].new}
    BY WaitsShown
  <2> DEFINE more == D \o one
  <2> HIDE DEF r, one, D
  <2>6. more \in Seq(RowT) /\ (rows \o D) \o one = rows \o more
    <3>1. more \in Seq(RowT)
      BY <2>3, <2>4, RowsAfter
    <3> DEFINE S == RowT
    <3>2. rows \in Seq(S) /\ D \in Seq(S) /\ one \in Seq(S)
      BY <1>1, <2>3, <2>4
    <3> HIDE DEF S
    <3>3. (rows \o D) \o one = rows \o (D \o one)
      BY <3>2, Associative
    <3> QED
      BY <3>1, <3>3
  <2>7. /\ \A i \in 1 .. Len(D) : i \in 1 .. Len(more) /\ more[i] = D[i]
        /\ \E i \in 1 .. Len(more) : more[i] = r
    <3>1. \A i \in 1 .. Len(D) : i \in 1 .. Len(more) /\ more[i] = D[i]
      BY <2>3, <2>4, RowsAfter
    <3>2. \A j \in 1 .. Len(one) : \E i \in 1 .. Len(more) : more[i] = one[j]
      BY <2>3, <2>4, RowsAfter
    <3> HIDE DEF more
    <3> QED
      BY <2>3, <3>1, <3>2
  <2> HIDE DEF more
  <2>8. rows' = rows \o more
    BY <2>1, <2>6
  <2>9. <<at, Head(todo).n>> \in Seen'
    <3>1. PICK i \in 1 .. Len(more) : more[i] = r
      BY <2>7
    <3> QED
      BY <3>1, <1>2, <2>2, <2>6, <2>8, SeenMore
  <2>10. ASSUME NEW n \in Waits PROVE <<at, n>> \in Seen'
    <3>1. PICK j \in 1 .. Len(D) : D[j].file = at /\ n \in {D[j].old, D[j].new}
      BY <2>5, <2>10
    <3>2. j \in 1 .. Len(more) /\ more[j] = D[j]
      BY <2>7, <3>1
    <3>3. n \in Nat
      BY <2>10 DEF Waits
    <3>4. <<more[j].file, n>> \in Seen'
      BY <3>1, <3>2, <3>3, <2>6, <2>8, SeenMore
    <3> QED
      BY <3>1, <3>2, <3>4
  <2> QED
    BY <1>4, <2>9, <2>10
<1>9. CASE SsDeleted
  <2> DEFINE e == [n |-> Head(todo).n, no |-> current_old_line]
  <2>1. /\ deferred_old' = Append(deferred_old, e) /\ deferred_new' = deferred_new
        /\ diff_pc' = "lines" /\ e.n = Head(todo).n
    BY <1>2, <1>9 DEF SsDeleted
  <2> HIDE DEF e
  <2>2. /\ \A m \in 1 .. Len(deferred_old) :
              m \in 1 .. Len(deferred_old') /\ deferred_old'[m] = deferred_old[m]
        /\ \E m \in 1 .. Len(deferred_old') : deferred_old'[m] = e
    <3>1. Len(deferred_old') = Len(deferred_old) + 1 /\ Len(deferred_old) \in Nat
          /\ deferred_old'[Len(deferred_old) + 1] = e
      BY <1>1, <2>1
    <3>2. Len(deferred_old) + 1 \in 1 .. Len(deferred_old')
      BY <3>1
    <3>3. \A m \in 1 .. Len(deferred_old) :
              m \in 1 .. Len(deferred_old') /\ deferred_old'[m] = deferred_old[m]
      BY <1>1, <2>1
    <3> QED
      BY <3>1, <3>2, <3>3
  <2>3. Head(todo).n \in Waits' /\ \A n \in Waits : n \in Waits'
    BY <1>2, <2>1, <2>2 DEF Waits
  <2> QED
    BY <1>4, <2>3
<1>10. CASE SsAdded
  <2> DEFINE e == [n |-> Head(todo).n, no |-> current_new_line]
  <2>1. /\ deferred_new' = Append(deferred_new, e) /\ deferred_old' = deferred_old
        /\ diff_pc' = "lines" /\ e.n = Head(todo).n
    BY <1>2, <1>10 DEF SsAdded
  <2> HIDE DEF e
  <2>2. /\ \A m \in 1 .. Len(deferred_new) :
              m \in 1 .. Len(deferred_new') /\ deferred_new'[m] = deferred_new[m]
        /\ \E m \in 1 .. Len(deferred_new') : deferred_new'[m] = e
    <3>1. Len(deferred_new') = Len(deferred_new) + 1 /\ Len(deferred_new) \in Nat
          /\ deferred_new'[Len(deferred_new) + 1] = e
      BY <1>1, <2>1
    <3>2. Len(deferred_new) + 1 \in 1 .. Len(deferred_new')
      BY <3>1
    <3>3. \A m \in 1 .. Len(deferred_new) :
              m \in 1 .. Len(deferred_new') /\ deferred_new'[m] = deferred_new[m]
      BY <1>1, <2>1
    <3> QED
      BY <3>1, <3>2, <3>3
  <2>3. Head(todo).n \in Waits' /\ \A n \in Waits : n \in Waits'
    BY <1>2, <2>1, <2>2 DEF Waits
  <2> QED
    BY <1>4, <2>3
<1> QED
  BY <1>3, <1>6, <1>7, <1>8, <1>9, <1>10

\* Every step keeps each line shown or waiting.
LEMMA StepKept == DiffInv /\ AllKept /\ DiffNext => AllKept'
<1> SUFFICES ASSUME DiffInv, AllKept, DiffNext PROVE AllKept'
  OBVIOUS
<1>1. pairs' = pairs /\ at \in Nat
  BY InputFixed, InputStays DEF DiffInv, DiffTypeOK
<1> SUFFICES ASSUME NEW k \in 1 .. Len(pairs), NEW j \in 1 .. Len(Received(k)'),
                    Received(k)'[j].t # "@"
             PROVE  \/ <<k, Received(k)'[j].n>> \in Seen'
                    \/ k = at' /\ Received(k)'[j].n \in Waits'
  BY <1>1 DEF AllKept
<1> DEFINE l == Received(k)'[j]
<1>2. Seen \subseteq Seen'
  BY SeenGrows
<1>3. ASSUME Received(k)' = Received(k)
      PROVE  <<k, l.n>> \in Seen' \/ (k = at /\ l.n \in Waits)
  BY <1>2, <1>3 DEF AllKept
<1>4. CASE Inspect \/ StatDone \/ BeginPair \/ Finish
  <2>1. Received(k)' = Received(k)
    BY <1>4, QuietStep
  <2>2. Waits = {}
    <3>1. diff_pc # "lines"
      BY <1>4 DEF Inspect, StatDone, BeginPair, Finish
    <3> QED
      BY <3>1 DEF Waits
  <2> QED
    BY <1>3, <2>1, <2>2
<1>5. CASE UnifiedLine \/ SsHunk \/ SsContext \/ SsDeleted \/ SsAdded
  <2>1. PICK t \in {"@", "=", "-", "+"} : NextLine(t)
    BY <1>5 DEF UnifiedLine, SsHunk, SsContext, SsDeleted, SsAdded
  <2>2. /\ UNCHANGED <<input, diff_pc, at>>
        /\ \A n \in Waits : <<at, n>> \in Seen' \/ n \in Waits'
        /\ t # "@" => <<at, Head(todo).n>> \in Seen' \/ Head(todo).n \in Waits'
    BY <2>1, LineKept
  <2>3. /\ Mine \in Seq(AnyLine) /\ Done \in Nat
        /\ Done + 1 \in 1 .. Len(Mine) /\ Head(todo) = Mine[Done + 1] /\ Head(todo).t = t
        /\ \A i : i # at => Received(i)' = Received(i)
        /\ Received(at) = SubSeq(Mine, 1, Done)
        /\ Received(at)' = SubSeq(Mine, 1, Done + 1)
    BY <2>1, <2>2, NextLineFacts DEF Good
  <2>4. CASE k # at
    BY <1>3, <2>3, <2>4
  <2>5. CASE k = at
    <3>1. Received(k) = SubSeq(Mine, 1, Done) /\ Received(k)' = SubSeq(Mine, 1, Done + 1)
      <4>1. at' = k
        BY <2>2, <2>5
      <4>2. Received(k)' = Received(at)'
        BY <4>1 DEF Received
      <4> QED
        BY <2>3, <2>5, <4>2
    <3> DEFINE L == Mine
               d == Done
    <3>2. /\ L \in Seq(AnyLine) /\ d \in Nat /\ d + 1 \in 1 .. Len(L)
          /\ Received(k) = SubSeq(L, 1, d) /\ Received(k)' = SubSeq(L, 1, d + 1)
          /\ Head(todo) = L[d + 1] /\ at' = at
      BY <2>2, <2>3, <3>1
    <3> HIDE DEF L, d
    <3>3. /\ Len(SubSeq(L, 1, d)) = d /\ Len(SubSeq(L, 1, d + 1)) = d + 1
          /\ \A i \in 1 .. d : SubSeq(L, 1, d)[i] = L[i]
          /\ \A i \in 1 .. d + 1 : SubSeq(L, 1, d + 1)[i] = L[i]
      BY <3>2
    <3>4. j \in 1 .. d + 1 /\ l = L[j]
      BY <3>2, <3>3
    <3>5. CASE j = d + 1
      <4>1. l = Head(todo) /\ t # "@"
        BY <3>2, <3>4, <3>5, <2>3
      <4> QED
        BY <4>1, <2>2, <2>5, <3>2
    <3>6. CASE j # d + 1
      <4>1. j \in 1 .. d
        BY <3>2, <3>4, <3>6
      <4>2. j \in 1 .. Len(Received(k)) /\ Received(k)[j] = l
        BY <4>1, <3>2, <3>3, <3>4
      <4>3. <<k, l.n>> \in Seen \/ (k = at /\ l.n \in Waits)
        BY <4>2 DEF AllKept
      <4> QED
        BY <4>3, <1>2, <2>2, <2>5, <3>2
    <3> QED
      BY <3>5, <3>6
  <2> QED
    BY <2>4, <2>5
<1>6. CASE EndPair
  <2>1. Received(k)' = Received(k)
    BY <1>6, EndReceived
  <2>2. ASSUME k = at, l.n \in Waits PROVE <<k, l.n>> \in Seen'
    <3> DEFINE D == Deferred
               n == l.n
    <3>1. PICK i \in 1 .. Len(D) : D[i].file = at /\ n \in {D[i].old, D[i].new}
      BY <2>2, WaitsShown
    <3>2. D \in Seq(RowT) /\ rows' = rows \o D /\ n \in Nat
      BY <1>6, <2>2, DeferredFacts DEF EndPair, DiffInv, Waits
    <3> HIDE DEF D, n
    <3>3. <<D[i].file, n>> \in Seen'
      BY <3>1, <3>2, SeenMore
    <3> QED
      BY <2>2, <3>1, <3>3 DEF n
  <2> QED
    BY <1>3, <2>1, <2>2
<1> QED
  BY <1>4, <1>5, <1>6 DEF DiffNext

\* The files of the statistic, and what it may say of one
Files == {k \in Nat : \E i \in 1 .. Len(items) : items[i].file = k}
Changes(s, t) == Cardinality({n \in 1 .. Len(s) : s[n] = t})
TrueItems ==
    {e \in ItemT :
        /\ e.file \in 1 .. Len(pairs) /\ Shown(pairs[e.file])
        /\ pairs[e.file].kind = "text" =>
              /\ e.added = Changes(pairs[e.file].script, "+")
              /\ e.removed = Changes(pairs[e.file].script, "-")}

\* The pairs that the first pass has shown are in the statistic.
Listed ==
    /\ \A k \in 1 .. Len(pairs) :
          Shown(pairs[k]) /\ (diff_pc = "stat" => k < at) => k \in Files
    /\ \A i \in 1 .. Len(items) : items[i] \in TrueItems

\* The statistic grows by the pairs that are shown, with their counts.
LEMMA StepListed == DiffInv /\ Listed /\ DiffNext => Listed'
<1> SUFFICES ASSUME DiffInv, Listed, DiffNext PROVE Listed'
  OBVIOUS
<1>1. /\ pairs' = pairs /\ at \in Nat /\ Len(pairs) \in Nat
      /\ items \in Seq(ItemT)
      /\ \A k : Shown(pairs[k])' = Shown(pairs[k])
  BY InputFixed, InputStays, CurrentPair DEF DiffInv, DiffTypeOK, ItemT
<1>2. TrueItems' = TrueItems
  BY <1>1 DEF TrueItems, Shown
<1>3. ASSUME items' = items
      PROVE  Files' = Files /\ \A i \in 1 .. Len(items') : items'[i] \in TrueItems
  BY <1>3 DEF Files, Listed
<1>4. CASE Inspect
  <2>1. diff_pc = "stat" /\ diff_pc' = "stat" /\ at' = at + 1 /\ at \in 1 .. Len(pairs)
    BY <1>4, InspectFacts DEF Inspect
  <2>2. CASE ~Shown(pairs[at])
    <3>1. items' = items
      BY <1>4, <2>2, InspectFacts
    <3>2. ASSUME NEW k \in 1 .. Len(pairs), Shown(pairs[k]), k < at' PROVE k \in Files
      <4>1. k < at
        BY <1>1, <2>1, <2>2, <3>2
      <4> QED
        BY <3>2, <4>1 DEF Listed
    <3> QED
      BY <1>1, <1>2, <1>3, <2>1, <3>1, <3>2 DEF Listed
  <2>3. CASE Shown(pairs[at])
    <3>1. PICK e \in ItemT :
             /\ items' = Append(items, e) /\ e.file = at
             /\ pairs[at].kind = "text" =>
                   /\ e.added = Changes(pairs[at].script, "+")
                   /\ e.removed = Changes(pairs[at].script, "-")
      BY <1>4, <2>3, InspectFacts DEF Changes
    <3>2. e \in TrueItems
      BY <2>1, <2>3, <3>1 DEF TrueItems
    <3>3. /\ Len(items') = Len(items) + 1 /\ Len(items) \in Nat
          /\ items'[Len(items) + 1] = e
          /\ \A i \in 1 .. Len(items) : items'[i] = items[i]
      BY <1>1, <3>1
    <3>4. \A i \in 1 .. Len(items') : items'[i] \in TrueItems
      <4> TAKE i \in 1 .. Len(items')
      <4>1. CASE i = Len(items) + 1
        BY <4>1, <3>2, <3>3
      <4>2. CASE i # Len(items) + 1
        <5>1. i \in 1 .. Len(items)
          BY <4>2, <3>3
        <5> QED
          BY <5>1, <3>3 DEF Listed
      <4> QED
        BY <4>1, <4>2
    <3>5. Files \subseteq Files' /\ at \in Files'
      <4>1. \A i \in 1 .. Len(items) : i \in 1 .. Len(items')
        BY <3>3
      <4>2. Len(items) + 1 \in 1 .. Len(items')
        BY <3>3
      <4> QED
        BY <1>1, <3>1, <3>3, <4>1, <4>2 DEF Files
    <3>6. ASSUME NEW k \in 1 .. Len(pairs), Shown(pairs[k]), k < at' PROVE k \in Files'
      <4>1. k < at \/ k = at
        BY <1>1, <2>1, <3>6
      <4> QED
        BY <3>5, <3>6, <4>1 DEF Listed
    <3> QED
      BY <1>1, <1>2, <2>1, <3>4, <3>6 DEF Listed
  <2> QED
    BY <2>2, <2>3
<1>5. CASE StatDone
  <2>1. items' = items /\ at > Len(pairs) /\ \A k \in 1 .. Len(pairs) : k < at
    BY <1>1, <1>5 DEF StatDone
  <2>2. \A k \in 1 .. Len(pairs) : Shown(pairs[k]) => k \in Files
    BY <2>1 DEF Listed
  <2> QED
    BY <1>1, <1>2, <1>3, <2>1, <2>2 DEF Listed
<1>6. CASE \/ BeginPair \/ UnifiedLine \/ SsHunk \/ SsContext \/ SsDeleted \/ SsAdded
           \/ EndPair \/ Finish
  <2>1. items' = items /\ diff_pc # "stat"
    <3>1. CASE BeginPair
      BY <3>1 DEF BeginPair
    <3>2. CASE UnifiedLine
      BY <3>2 DEF UnifiedLine, NextLine
    <3>3. CASE SsHunk
      BY <3>3 DEF SsHunk, NextLine
    <3>4. CASE SsContext
      BY <3>4 DEF SsContext, NextLine
    <3>5. CASE SsDeleted
      BY <3>5 DEF SsDeleted, NextLine
    <3>6. CASE SsAdded
      BY <3>6 DEF SsAdded, NextLine
    <3>7. CASE EndPair
      BY <3>7 DEF EndPair
    <3>8. CASE Finish
      BY <3>8 DEF Finish
    <3> QED
      BY <1>6, <3>1, <3>2, <3>3, <3>4, <3>5, <3>6, <3>7, <3>8
  <2>2. \A k \in 1 .. Len(pairs) : Shown(pairs[k]) => k \in Files
    BY <2>1 DEF Listed
  <2> QED
    BY <1>1, <1>2, <1>3, <2>1, <2>2 DEF Listed
<1> QED
  BY <1>4, <1>5, <1>6 DEF DiffNext

\* At the end every changed line of a file that is shown is in a row.
LEMMA ChangesShown ==
    ASSUME DiffInv, AllKept, diff_pc = "done", difftype # "statonly",
           NEW f \in 1 .. Len(pairs), Shown(pairs[f]), pairs[f].kind = "text",
           NEW n \in 1 .. Len(pairs[f].script), pairs[f].script[n] # "="
    PROVE  \E m \in 1 .. Len(rows) : rows[m].file = f /\ n \in {rows[m].old, rows[m].new}
<1> DEFINE s == pairs[f].script
           L == LinesOf(pairs[f])
<1>1. /\ Len(pairs) \in Nat /\ at = Len(pairs) + 1 /\ pairs[f] \in Pair /\ s \in Script
      /\ context \in Int
  BY CurrentPair, PairFacts DEF DiffInv, DiffTypeOK, InPhase
<1>2. f < at /\ f # at
  BY <1>1
<1>3. L \in Seq(AnyLine) /\ Exactly(s, Around, Len(s), L) /\ Around \in Nat \ {0}
  BY <1>1, TextLines DEF Laid
<1>4. Received(f) = L
  <2>1. Received(f) = SubSeq(L, 1, Len(L) - 0)
    BY <1>2 DEF Received
  <2> HIDE DEF L
  <2> QED
    BY <1>3, <2>1
<1>5. PICK j \in 1 .. Len(L) : L[j].t # "@" /\ L[j].n = n
  <2>1. n \in InHunk(s, Around) /\ n <= Len(s)
    BY <1>1, <1>3, ShownFacts
  <2> HIDE DEF L, s
  <2> QED
    BY <1>3, <2>1 DEF Exactly
<1>6. <<f, n>> \in Seen
  <2> HIDE DEF L
  <2> QED
    BY <1>2, <1>4, <1>5 DEF AllKept
<1> QED
  BY <1>6 DEF Seen

\* At the end the statistic and the rows agree.
LEMMA MatchesAtEnd == DiffInv /\ AllKept /\ Listed => StatMatchesDiff
<1> SUFFICES ASSUME DiffInv, AllKept, Listed, diff_pc = "done", difftype # "statonly"
             PROVE  StatMatchesDiff
  BY DEF StatMatchesDiff
<1>1. /\ DOMAIN pairs = 1 .. Len(pairs) /\ DOMAIN rows = 1 .. Len(rows)
      /\ DOMAIN items = 1 .. Len(items) /\ items \in Seq(ItemT)
  BY CurrentPair DEF DiffInv, DiffTypeOK, ItemT
<1>2. ASSUME NEW k \in DOMAIN pairs, NEW i \in DOMAIN rows, rows[i].file = k
      PROVE  \E j \in DOMAIN items : items[j].file = k
  <2>1. Shown(pairs[k])
    BY <1>1, <1>2 DEF DiffInv, RowsFrom
  <2>2. k \in Files
    BY <1>1, <2>1 DEF Listed
  <2> QED
    BY <1>1, <2>2 DEF Files
<1>3. ASSUME NEW i \in DOMAIN items, pairs[items[i].file].kind = "text"
      PROVE  LET f == items[i].file
                 s == pairs[f].script
                 mine == {rows[n] : n \in {m \in DOMAIN rows : rows[m].file = f}}
                 has(t) == Cardinality({n \in 1 .. Len(s) :
                       /\ s[n] = t
                       /\ \E r \in mine : n \in {r.old, r.new}})
             IN  /\ mine # {} \/ s \in Seq({"="})
                 /\ items[i].added = has("+")
                 /\ items[i].removed = has("-")
  <2> DEFINE f == items[i].file
             s == pairs[f].script
             mine == {rows[n] : n \in {m \in DOMAIN rows : rows[m].file = f}}
             mark(t) == {n \in 1 .. Len(s) : s[n] = t /\ \E r \in mine : n \in {r.old, r.new}}
  <2>1. /\ f \in 1 .. Len(pairs) /\ Shown(pairs[f]) /\ s \in Script
        /\ items[i].added = Changes(s, "+") /\ items[i].removed = Changes(s, "-")
    <3>1. items[i] \in TrueItems
      BY <1>1, <1>3 DEF Listed
    <3>2. f \in 1 .. Len(pairs) /\ Shown(pairs[f])
          /\ items[i].added = Changes(s, "+") /\ items[i].removed = Changes(s, "-")
      BY <1>3, <3>1 DEF TrueItems
    <3>3. pairs[f] \in Pair
      BY <3>2, CurrentPair DEF DiffInv
    <3> QED
      BY <3>2, <3>3, PairFacts
  <2>2. ASSUME NEW n \in 1 .. Len(s), s[n] # "="
        PROVE  \E r \in mine : n \in {r.old, r.new}
    <3>1. PICK m \in 1 .. Len(rows) : rows[m].file = f /\ n \in {rows[m].old, rows[m].new}
      BY <1>3, <2>1, <2>2, ChangesShown
    <3> QED
      BY <1>1, <3>1
  <2>3. ASSUME NEW t \in {"-", "+"} PROVE Changes(s, t) = Cardinality(mark(t))
    <3>1. {n \in 1 .. Len(s) : s[n] = t} = mark(t)
      BY <2>2
    <3> QED
      BY <3>1 DEF Changes
  <2>4. mine # {} \/ s \in Seq({"="})
    <3>1. CASE \E n \in 1 .. Len(s) : s[n] # "="
      BY <2>2, <3>1
    <3>2. CASE \A n \in 1 .. Len(s) : s[n] = "="
      <4> HIDE DEF s
      <4>1. Len(s) \in Nat /\ s = [n \in 1 .. Len(s) |-> s[n]]
        BY <2>1 DEF Script
      <4>2. s \in [1 .. Len(s) -> {"="}]
        BY <3>2, <4>1
      <4> QED
        BY <4>1, <4>2
    <3> QED
      BY <3>1, <3>2
  <2> QED
    BY <2>1, <2>3, <2>4
<1> QED
  BY <1>1, <1>2, <1>3 DEF StatMatchesDiff

\* The statistic lists every file that the diff shows and counts the changed lines
\* that are in its rows, in all diffs of any length, in both forms and at any context.
THEOREM StatisticMatches == DiffSpec => []StatMatchesDiff
<1>1. DiffInit => AllKept /\ Listed
  <2> SUFFICES ASSUME DiffInit PROVE AllKept /\ Listed
    OBVIOUS
  <2>1. /\ diff_pc = "stat" /\ at = 1 /\ items = <<>>
        /\ \A k : Received(k) = <<>>
    BY DEF DiffInit, Received
  <2>2. \A k : 1 .. Len(Received(k)) = {}
    BY <2>1
  <2>3. \A k \in 1 .. Len(pairs) : ~(k < at)
    BY <2>1
  <2>4. 1 .. Len(items) = {}
    BY <2>1
  <2> QED
    BY <2>1, <2>2, <2>3, <2>4 DEF AllKept, Listed
<1>2. DiffInv /\ AllKept /\ Listed /\ [DiffNext]_diffvars => AllKept' /\ Listed'
  <2>1. ASSUME AllKept, Listed, UNCHANGED diffvars PROVE AllKept' /\ Listed'
    <3>1. /\ pairs' = pairs /\ context' = context /\ diff_pc' = diff_pc /\ at' = at
          /\ todo' = todo /\ rows' = rows /\ items' = items
          /\ deferred_old' = deferred_old /\ deferred_new' = deferred_new
      BY <2>1 DEF diffvars
    <3>2. \A k : Received(k)' = Received(k)
      BY <3>1 DEF Received, LinesOf, DiffFiles, Shown
    <3>3. /\ \A k : Shown(pairs[k])' = Shown(pairs[k])
          /\ Seen' = Seen /\ Waits' = Waits /\ Files' = Files /\ TrueItems' = TrueItems
      BY <3>1 DEF Shown, Seen, Waits, Files, TrueItems
    <3>4. AllKept'
      BY <2>1, <3>1, <3>2, <3>3 DEF AllKept
    <3>5. Listed'
      BY <2>1, <3>1, <3>3 DEF Listed
    <3> QED
      BY <3>4, <3>5
  <2> QED
    BY <2>1, StepKept, StepListed
<1>3. DiffInv /\ AllKept /\ Listed => StatMatchesDiff
  BY MatchesAtEnd
<1> QED
  BY <1>1, <1>2, <1>3, DiffInvHolds, PTL DEF DiffSpec

=============================================================================
