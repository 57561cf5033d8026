---------------------------- MODULE ConfFileProofs ----------------------------
(***************************************************************************)
(* The configuration, for any names, any values and files of any length.   *)
(***************************************************************************)
EXTENDS ConfFile, SequenceTheorems, WellFoundedInduction, TLAPS

\* A nonempty set of naturals has a least member.
LEMMA LeastNumber ==
    ASSUME NEW S \in SUBSET Nat, S # {}
    PROVE  \E x \in S : \A y \in S : x <= y
<1> DEFINE R == {ss \in Nat \X Nat : ss[1] < ss[2]}
<1>1. R = OpToRel(<, Nat)
  BY Zenon DEF OpToRel
<1>2. IsWellFoundedOn(R, Nat)
  BY <1>1, NatLessThanWellFounded, Zenon
<1> HIDE DEF R
<1>3. PICK x \in S : \A y \in S : ~(<<y, x>> \in R)
  BY <1>2, WFMin
<1>4. ASSUME NEW y \in S PROVE x <= y
  <2>1. x \in Nat /\ y \in Nat /\ (y < x => <<y, x>> \in R)
    BY DEF R
  <2> QED BY <1>3, <2>1
<1> QED
  BY <1>4

\* A nonempty set of naturals that has a bound has a greatest member.
LEMMA GreatestNumber ==
    ASSUME NEW S \in SUBSET Nat, S # {}, NEW b \in Nat, \A x \in S : x <= b
    PROVE  \E x \in S : \A y \in S : y <= x
<1> DEFINE T == {b - x : x \in S}
<1>1. T \in SUBSET Nat /\ T # {}
  <2>1. ASSUME NEW x \in S PROVE b - x \in Nat
    <3>1. x \in Nat /\ x <= b
      OBVIOUS
    <3> QED BY <3>1
  <2> QED BY <2>1
<1>2. PICK t \in T : \A u \in T : t <= u
  BY <1>1, LeastNumber
<1>3. PICK x \in S : t = b - x
  BY <1>2
<1>4. ASSUME NEW y \in S PROVE y <= x
  <2>1. b - y \in T /\ x \in Nat /\ y \in Nat
    OBVIOUS
  <2>2. b - x <= b - y
    BY <1>2, <1>3, <2>1
  <2> QED BY <2>1, <2>2
<1> QED
  BY <1>4

-----------------------------------------------------------------------------
(***************************************************************************)
(* The order of names.                                                     *)
(***************************************************************************)
Names == Seq(Nat)

\* The first place where two names differ.
LEMMA FirstDifference ==
    ASSUME NEW S, NEW a \in Seq(S), NEW b \in Seq(S)
    PROVE  \/ a = b
           \/ Len(a) < Len(b) /\ \A j \in 1..Len(a) : a[j] = b[j]
           \/ Len(b) < Len(a) /\ \A j \in 1..Len(b) : a[j] = b[j]
           \/ \E i \in 1..Len(a) : /\ i \in 1..Len(b) /\ a[i] # b[i]
                                   /\ \A j \in 1..(i - 1) : a[j] = b[j]
<1> DEFINE D == {i \in 1..Len(a) : i \in 1..Len(b) /\ a[i] # b[i]}
<1>1. Len(a) \in Nat /\ Len(b) \in Nat /\ D \in SUBSET Nat
  OBVIOUS
<1>2. CASE D = {}
  <2>1. \A i \in 1..Len(a) : i \in 1..Len(b) => a[i] = b[i]
    BY <1>2
  <2>2. CASE Len(a) = Len(b)
    <3>1. \A i \in 1..Len(a) : a[i] = b[i]
      BY <2>1, <2>2
    <3> QED BY <2>2, <3>1, SeqEqual
  <2>3. CASE Len(a) < Len(b)
    <3>1. \A i \in 1..Len(a) : i \in 1..Len(b)
      BY <1>1, <2>3
    <3> QED BY <2>1, <2>3, <3>1
  <2>4. CASE Len(b) < Len(a)
    <3>1. \A i \in 1..Len(b) : i \in 1..Len(a)
      BY <1>1, <2>4
    <3> QED BY <2>1, <2>4, <3>1
  <2> QED BY <1>1, <2>2, <2>3, <2>4
<1>3. CASE D # {}
  <2>1. PICK i \in D : \A j \in D : i <= j
    <3> HIDE DEF D
    <3> QED BY <1>1, <1>3, LeastNumber
  <2>2. ASSUME NEW j \in 1..(i - 1) PROVE a[j] = b[j]
    <3>1. j \in 1..Len(a) /\ j \in 1..Len(b) /\ ~(i <= j)
      BY <1>1
    <3> QED BY <2>1, <3>1
  <2> QED BY <2>2
<1> QED
  BY <1>2, <1>3

\* IsPrefix, character by character.
LEMMA PrefixFacts ==
    ASSUME NEW S, NEW a \in Seq(S), NEW b \in Seq(S)
    PROVE  IsPrefix(a, b) <=> Len(a) <= Len(b) /\ \A i \in 1..Len(a) : a[i] = b[i]
<1> DEFINE n == Len(a)
           u == SubSeq(a, 1, n)
           v == SubSeq(b, 1, n)
<1>1. n \in Nat /\ Len(b) \in Nat /\ \A i \in 1..n : a[i] \in S
  OBVIOUS
<1> SUFFICES ASSUME n <= Len(b) PROVE u = v <=> \A i \in 1..n : a[i] = b[i]
  BY DEF IsPrefix
<1>2. \A i \in 1..n : b[i] \in S
  BY <1>1
<1>3. u \in Seq(S) /\ Len(u) = n /\ \A i \in 1..n : u[i] = a[i]
  BY <1>1, SubSeqProperties
<1>4. v \in Seq(S) /\ Len(v) = n /\ \A i \in 1..n : v[i] = b[i]
  BY <1>1, <1>2, SubSeqProperties
<1> HIDE DEF n, u, v
<1>5. ASSUME u = v PROVE \A i \in 1..n : a[i] = b[i]
  BY <1>3, <1>4, <1>5
<1>6. ASSUME \A i \in 1..n : a[i] = b[i] PROVE u = v
  BY <1>3, <1>4, <1>6, SeqEqual
<1> QED
  BY <1>5, <1>6

\* Less, character by character.
LEMMA LessFacts ==
    ASSUME NEW a \in Names, NEW b \in Names
    PROVE  Less(a, b) <=>
             \/ Len(a) < Len(b) /\ \A j \in 1..Len(a) : a[j] = b[j]
             \/ \E i \in 1..Len(a) : /\ i \in 1..Len(b) /\ a[i] < b[i]
                                     /\ \A j \in 1..(i - 1) : a[j] = b[j]
<1>1. Len(a) \in Nat /\ Len(b) \in Nat
  BY DEF Names
<1>2. IsPrefix(a, b) <=> Len(a) <= Len(b) /\ \A i \in 1..Len(a) : a[i] = b[i]
  BY PrefixFacts DEF Names
<1>3. Len(a) < Len(b) => Len(a) <= Len(b)
  BY <1>1
<1>4. \A i \in 1..Len(a) : i <= Len(b) <=> i \in 1..Len(b)
  BY <1>1
<1> QED
  BY <1>2, <1>3, <1>4, Zenon DEF Less

\* The order of names is total, ...
LEMMA LessTotal ==
    ASSUME NEW a \in Names, NEW b \in Names
    PROVE  a = b \/ Less(a, b) \/ Less(b, a)
<1>1. a \in Seq(Nat) /\ b \in Seq(Nat) /\ Len(a) \in Nat /\ Len(b) \in Nat
  BY DEF Names
<1>2. CASE Len(a) < Len(b) /\ \A j \in 1..Len(a) : a[j] = b[j]
  BY <1>2, LessFacts
<1>3. CASE Len(b) < Len(a) /\ \A j \in 1..Len(b) : a[j] = b[j]
  <2>1. \A j \in 1..Len(b) : b[j] = a[j]
    BY <1>3
  <2> QED BY <1>3, <2>1, LessFacts
<1>4. ASSUME NEW i \in 1..Len(a), i \in 1..Len(b), a[i] # b[i], \A j \in 1..(i - 1) : a[j] = b[j]
      PROVE  Less(a, b) \/ Less(b, a)
  <2>1. a[i] \in Nat /\ b[i] \in Nat
    BY <1>1, <1>4
  <2>2. CASE a[i] < b[i]
    BY <1>4, <2>2, LessFacts
  <2>3. CASE b[i] < a[i]
    <3>1. \A j \in 1..(i - 1) : b[j] = a[j]
      BY <1>4
    <3> QED BY <1>4, <2>3, <3>1, LessFacts
  <2> QED BY <1>4, <2>1, <2>2, <2>3
<1> QED
  BY <1>1, <1>2, <1>3, <1>4, FirstDifference

\* ... irreflexive ...
LEMMA LessIrreflexive ==
    ASSUME NEW a \in Names
    PROVE  ~Less(a, a)
<1>1. Len(a) \in Nat /\ \A i \in 1..Len(a) : a[i] \in Nat
  BY DEF Names
<1> QED
  BY <1>1, LessFacts

\* ... and transitive.
LEMMA LessTransitive ==
    ASSUME NEW a \in Names, NEW b \in Names, NEW c \in Names, Less(a, b), Less(b, c)
    PROVE  Less(a, c)
<1> DEFINE la == Len(a)
           lb == Len(b)
           lc == Len(c)
<1>1. /\ la \in Nat /\ lb \in Nat /\ lc \in Nat
      /\ \A i \in 1..la : a[i] \in Nat
      /\ \A i \in 1..lb : b[i] \in Nat
      /\ \A i \in 1..lc : c[i] \in Nat
  BY DEF Names
<1>2. \/ la < lb /\ \A j \in 1..la : a[j] = b[j]
      \/ \E i \in 1..la : i \in 1..lb /\ a[i] < b[i] /\ \A j \in 1..(i - 1) : a[j] = b[j]
  BY LessFacts
<1>3. \/ lb < lc /\ \A j \in 1..lb : b[j] = c[j]
      \/ \E i \in 1..lb : i \in 1..lc /\ b[i] < c[i] /\ \A j \in 1..(i - 1) : b[j] = c[j]
  BY LessFacts
<1>4. \/ la < lc /\ \A j \in 1..la : a[j] = c[j]
      \/ \E i \in 1..la : i \in 1..lc /\ a[i] < c[i] /\ \A j \in 1..(i - 1) : a[j] = c[j]
      => Less(a, c)
  BY LessFacts
<1> HIDE DEF la, lb, lc
<1>5. CASE la < lb /\ \A j \in 1..la : a[j] = b[j]
  <2>1. CASE lb < lc /\ \A j \in 1..lb : b[j] = c[j]
    <3>1. la < lc /\ \A j \in 1..la : a[j] = c[j]
      BY <1>1, <1>5, <2>1
    <3> QED BY <1>4, <3>1
  <2>2. ASSUME NEW i \in 1..lb, i \in 1..lc, b[i] < c[i], \A j \in 1..(i - 1) : b[j] = c[j]
        PROVE  Less(a, c)
    <3>1. CASE i <= la
      <4>1. i \in 1..la /\ a[i] < c[i] /\ \A j \in 1..(i - 1) : a[j] = c[j]
        BY <1>1, <1>5, <2>2, <3>1
      <4> QED BY <1>4, <2>2, <4>1
    <3>2. CASE la < i
      <4>1. la < lc /\ \A j \in 1..la : j \in 1..(i - 1)
        BY <1>1, <2>2, <3>2
      <4>2. \A j \in 1..la : a[j] = c[j]
        BY <1>5, <2>2, <4>1
      <4> QED BY <1>4, <4>1, <4>2
    <3> QED BY <1>1, <3>1, <3>2
  <2> QED BY <1>3, <2>1, <2>2
<1>6. ASSUME NEW k \in 1..la, k \in 1..lb, a[k] < b[k], \A j \in 1..(k - 1) : a[j] = b[j]
      PROVE  Less(a, c)
  <2>1. CASE lb < lc /\ \A j \in 1..lb : b[j] = c[j]
    <3>1. k \in 1..lc /\ a[k] < c[k] /\ \A j \in 1..(k - 1) : j \in 1..lb
      BY <1>1, <1>6, <2>1
    <3>2. \A j \in 1..(k - 1) : a[j] = c[j]
      BY <1>6, <2>1, <3>1
    <3> QED BY <1>4, <3>1, <3>2
  <2>2. ASSUME NEW i \in 1..lb, i \in 1..lc, b[i] < c[i], \A j \in 1..(i - 1) : b[j] = c[j]
        PROVE  Less(a, c)
    <3>0. a[k] \in Nat /\ b[k] \in Nat /\ b[i] \in Nat /\ c[i] \in Nat
      BY <1>1, <1>6, <2>2
    <3>1. CASE k < i
      <4>1. k \in 1..lc /\ k \in 1..(i - 1) /\ \A j \in 1..(k - 1) : j \in 1..(i - 1)
        BY <1>1, <1>6, <2>2, <3>1
      <4>2. a[k] < c[k] /\ \A j \in 1..(k - 1) : a[j] = c[j]
        BY <1>6, <2>2, <4>1
      <4> QED BY <1>4, <4>1, <4>2
    <3>2. CASE i <= k
      <4>1. i \in 1..la /\ (i < k => i \in 1..(k - 1)) /\ \A j \in 1..(i - 1) : j \in 1..(k - 1)
        BY <1>1, <1>6, <2>2, <3>2
      <4>2. a[i] < c[i]
        <5>1. CASE i = k
          BY <1>6, <2>2, <3>0, <5>1
        <5>2. CASE i < k
          BY <1>6, <2>2, <4>1, <5>2
        <5> QED BY <1>1, <3>2, <5>1, <5>2
      <4>3. \A j \in 1..(i - 1) : a[j] = c[j]
        BY <1>6, <2>2, <4>1
      <4> QED BY <1>4, <2>2, <4>1, <4>2, <4>3
    <3> QED BY <1>1, <3>1, <3>2
  <2> QED BY <1>3, <2>1, <2>2
<1> QED
  BY <1>2, <1>5, <1>6

\* A name comes after all it begins with, ...
LEMMA PrefixLess ==
    ASSUME NEW a \in Names, NEW b \in Names, IsPrefix(a, b)
    PROVE  a = b \/ Less(a, b)
<1>1. a \in Seq(Nat) /\ b \in Seq(Nat) /\ Len(a) \in Nat /\ Len(b) \in Nat
  BY DEF Names
<1>2. Len(a) <= Len(b) /\ \A i \in 1..Len(a) : a[i] = b[i]
  BY <1>1, PrefixFacts
<1>3. CASE Len(a) = Len(b)
  BY <1>1, <1>2, <1>3, SeqEqual
<1>4. CASE Len(a) < Len(b)
  BY <1>2, <1>4, LessFacts
<1> QED
  BY <1>1, <1>2, <1>3, <1>4

\* What a beginning of a name begins with, the name begins with, ...
LEMMA PrefixTransitive ==
    ASSUME NEW S, NEW a \in Seq(S), NEW b \in Seq(S), NEW c \in Seq(S), IsPrefix(a, b), IsPrefix(b, c)
    PROVE  IsPrefix(a, c)
<1> DEFINE la == Len(a)
           lb == Len(b)
           lc == Len(c)
<1>1. /\ la \in Nat /\ lb \in Nat /\ lc \in Nat
      /\ la <= lb /\ \A i \in 1..la : a[i] = b[i]
      /\ lb <= lc /\ \A i \in 1..lb : b[i] = c[i]
  BY PrefixFacts
<1>2. la <= lc /\ (\A i \in 1..la : a[i] = c[i]) => IsPrefix(a, c)
  BY PrefixFacts
<1> HIDE DEF la, lb, lc
<1>3. la <= lc /\ \A i \in 1..la : i \in 1..lb
  BY <1>1
<1> QED
  BY <1>1, <1>2, <1>3

\* ... and all names between a name and one that begins with it begin with it.
LEMMA BetweenPrefix ==
    ASSUME NEW a \in Names, NEW b \in Names, NEW c \in Names,
           IsPrefix(a, c), Less(a, b), Less(b, c)
    PROVE  IsPrefix(a, b)
<1> DEFINE la == Len(a)
           lb == Len(b)
           lc == Len(c)
<1>1. /\ la \in Nat /\ lb \in Nat /\ lc \in Nat
      /\ \A i \in 1..la : a[i] \in Nat
      /\ \A i \in 1..lb : b[i] \in Nat
      /\ \A i \in 1..lc : c[i] \in Nat
      /\ la <= lc /\ \A i \in 1..la : a[i] = c[i]
  BY PrefixFacts DEF Names
<1>2. \/ la < lb /\ \A j \in 1..la : a[j] = b[j]
      \/ \E i \in 1..la : i \in 1..lb /\ a[i] < b[i] /\ \A j \in 1..(i - 1) : a[j] = b[j]
  BY LessFacts
<1>3. la < lb /\ (\A i \in 1..la : a[i] = b[i]) => IsPrefix(a, b)
  <2>1. la < lb => la <= lb
    BY <1>1
  <2> QED BY <2>1, PrefixFacts DEF Names
<1>4. ASSUME NEW i \in 1..la, i \in 1..lb, a[i] < b[i], \A j \in 1..(i - 1) : a[j] = b[j]
      PROVE  Less(c, b)
  <2> HIDE DEF la, lb, lc
  <2>1. i \in 1..lc /\ c[i] < b[i] /\ \A j \in 1..(i - 1) : j \in 1..la
    BY <1>1, <1>4
  <2>2. \A j \in 1..(i - 1) : c[j] = b[j]
    BY <1>1, <1>4, <2>1
  <2> QED BY <1>4, <2>1, <2>2, LessFacts DEF lb, lc
<1>5. ~Less(c, b)
  BY LessTransitive, LessIrreflexive
<1> QED
  BY <1>2, <1>3, <1>4, <1>5

-----------------------------------------------------------------------------
(***************************************************************************)
(* Positions.  Under(p, w, q) says that the way from the root to q passes  *)
(* p and goes on to the left or to the right there.                        *)
(***************************************************************************)
Way == {"left", "right"}
Pos == Seq(Way)

Under(p, w, q) == \E i \in 1..Len(q) : p = SubSeq(q, 1, i - 1) /\ q[i] = w

\* The first steps of a way.
LEMMA AboveFacts ==
    ASSUME NEW q \in Pos, NEW i \in 1..(Len(q) + 1)
    PROVE  /\ SubSeq(q, 1, i - 1) \in Pos /\ Len(SubSeq(q, 1, i - 1)) = i - 1
           /\ \A j \in 1..(i - 1) : SubSeq(q, 1, i - 1)[j] = q[j]
<1>1. q \in Seq(Way) /\ Len(q) \in Nat /\ i - 1 \in Nat /\ i - 1 <= Len(q)
  BY DEF Pos
<1>2. \A j \in 1..(i - 1) : q[j] \in Way
  BY <1>1
<1> QED
  BY <1>1, <1>2, SubSeqProperties DEF Pos

\* Under, step by step.
LEMMA UnderFacts ==
    ASSUME NEW p \in Pos, NEW q \in Pos, NEW w
    PROVE  Under(p, w, q) <=> /\ Len(p) < Len(q) /\ q[Len(p) + 1] = w
                              /\ \A j \in 1..Len(p) : p[j] = q[j]
<1>1. p \in Seq(Way) /\ q \in Seq(Way) /\ Len(p) \in Nat /\ Len(q) \in Nat
  BY DEF Pos
<1>2. ASSUME NEW i \in 1..Len(q), p = SubSeq(q, 1, i - 1), q[i] = w
      PROVE  Len(p) < Len(q) /\ q[Len(p) + 1] = w /\ \A j \in 1..Len(p) : p[j] = q[j]
  <2>1. i \in 1..(Len(q) + 1)
    BY <1>1
  <2>2. Len(p) = i - 1 /\ \A j \in 1..(i - 1) : p[j] = q[j]
    BY <1>2, <2>1, AboveFacts
  <2> QED BY <1>1, <1>2, <2>2
<1>3. ASSUME Len(p) < Len(q), q[Len(p) + 1] = w, \A j \in 1..Len(p) : p[j] = q[j]
      PROVE  Under(p, w, q)
  <2> DEFINE i == Len(p) + 1
             u == SubSeq(q, 1, i - 1)
  <2>1. i \in 1..Len(q) /\ i \in 1..(Len(q) + 1) /\ i - 1 = Len(p)
    BY <1>1, <1>3
  <2>2. u \in Seq(Way) /\ Len(u) = i - 1 /\ \A j \in 1..(i - 1) : u[j] = q[j]
    BY <2>1, AboveFacts DEF Pos
  <2> HIDE DEF u
  <2>3. p = u
    BY <1>1, <1>3, <2>1, <2>2, SeqEqual
  <2> QED BY <1>3, <2>1, <2>3 DEF Under, u
<1> QED
  BY <1>2, <1>3 DEF Under

\* What is under q is under all that q is under.
LEMMA UnderTransitive ==
    ASSUME NEW p \in Pos, NEW q \in Pos, NEW r \in Pos, NEW v, NEW w,
           Under(p, v, q), Under(q, w, r)
    PROVE  Under(p, v, r)
<1> DEFINE lp == Len(p)
           lq == Len(q)
           lr == Len(r)
<1>1. /\ lp \in Nat /\ lq \in Nat /\ lr \in Nat
      /\ lp < lq /\ q[lp + 1] = v /\ \A j \in 1..lp : p[j] = q[j]
      /\ lq < lr /\ \A j \in 1..lq : q[j] = r[j]
  BY UnderFacts DEF Pos
<1>2. lp < lr /\ r[lp + 1] = v /\ (\A j \in 1..lp : p[j] = r[j]) => Under(p, v, r)
  BY UnderFacts
<1> HIDE DEF lp, lq, lr
<1>3. lp < lr /\ lp + 1 \in 1..lq /\ \A j \in 1..lp : j \in 1..lq
  BY <1>1
<1> QED
  BY <1>1, <1>2, <1>3

\* No position is under itself, and none to both sides of another.
LEMMA UnderOnce ==
    ASSUME NEW p \in Pos, NEW q \in Pos, NEW v, NEW w, Under(p, v, q)
    PROVE  p # q /\ v \in Way /\ (Under(p, w, q) => v = w) /\ ~Under(q, w, p)
<1> DEFINE lp == Len(p)
           lq == Len(q)
<1>1. /\ lp \in Nat /\ lq \in Nat /\ lp < lq /\ q[lp + 1] = v
      /\ Under(p, w, q) => q[lp + 1] = w
      /\ Under(q, w, p) => lq < lp
      /\ \A i \in 1..lq : q[i] \in Way
  BY UnderFacts DEF Pos
<1>2. p = q => lp = lq
  OBVIOUS
<1> HIDE DEF lp, lq
<1>3. lp + 1 \in 1..lq
  BY <1>1
<1> QED
  BY <1>1, <1>2, <1>3

\* Two positions are the same, or one is under the other, or they are to
\* different sides of a third.
LEMMA UnderSplit ==
    ASSUME NEW p \in Pos, NEW q \in Pos
    PROVE  \/ p = q
           \/ \E w \in Way : Under(p, w, q) \/ Under(q, w, p)
           \/ \E r \in Pos, v \in Way, w \in Way : Under(r, v, p) /\ Under(r, w, q) /\ v # w
<1>1. p \in Seq(Way) /\ q \in Seq(Way) /\ Len(p) \in Nat /\ Len(q) \in Nat
  BY DEF Pos
<1>2. CASE Len(p) < Len(q) /\ \A j \in 1..Len(p) : p[j] = q[j]
  <2>1. q[Len(p) + 1] \in Way
    BY <1>1, <1>2
  <2> QED BY <1>2, <2>1, UnderFacts
<1>3. CASE Len(q) < Len(p) /\ \A j \in 1..Len(q) : p[j] = q[j]
  <2>1. p[Len(q) + 1] \in Way /\ \A j \in 1..Len(q) : q[j] = p[j]
    BY <1>1, <1>3
  <2> QED BY <1>3, <2>1, UnderFacts
<1>4. ASSUME NEW i \in 1..Len(p), i \in 1..Len(q), p[i] # q[i], \A j \in 1..(i - 1) : p[j] = q[j]
      PROVE  \E r \in Pos, v \in Way, w \in Way : Under(r, v, p) /\ Under(r, w, q) /\ v # w
  <2> DEFINE r == SubSeq(p, 1, i - 1)
  <2>1. i \in 1..(Len(p) + 1)
    BY <1>1
  <2>2. r \in Pos /\ Len(r) = i - 1 /\ \A j \in 1..(i - 1) : r[j] = p[j]
    BY <2>1, AboveFacts
  <2>3. p[i] \in Way /\ q[i] \in Way /\ i \in Nat
    BY <1>1, <1>4
  <2>4. Under(r, p[i], p)
    BY DEF Under
  <2> HIDE DEF r
  <2>5. Len(r) < Len(q) /\ q[Len(r) + 1] = q[i] /\ \A j \in 1..Len(r) : r[j] = q[j]
    BY <1>1, <1>4, <2>2, <2>3
  <2>6. Under(r, q[i], q)
    BY <2>2, <2>5, UnderFacts
  <2> QED BY <1>4, <2>2, <2>3, <2>4, <2>6
<1> QED
  BY <1>1, <1>2, <1>3, <1>4, FirstDifference

\* A position is under its parent and under all its parent is under.
LEMMA UnderAppend ==
    ASSUME NEW p \in Pos, NEW w \in Way
    PROVE  /\ Append(p, w) \in Pos /\ Len(Append(p, w)) = Len(p) + 1
           /\ Under(p, w, Append(p, w))
           /\ \A q \in Pos, v \in Way : Under(q, v, Append(p, w)) <=> Under(q, v, p) \/ (q = p /\ v = w)
<1> DEFINE a == Append(p, w)
           lp == Len(p)
           la == Len(a)
<1>1. /\ p \in Seq(Way) /\ lp \in Nat /\ a \in Seq(Way) /\ a \in Pos /\ la = lp + 1
      /\ a[lp + 1] = w /\ \A j \in 1..lp : a[j] = p[j]
  BY DEF Pos
<1>2. lp = Len(p) /\ la = Len(a)
  OBVIOUS
<1> HIDE DEF a, la, lp
<1>3. ASSUME NEW q \in Pos, NEW v
      PROVE  /\ Len(q) \in Nat /\ q \in Seq(Way)
             /\ Under(q, v, a) <=> Len(q) < la /\ a[Len(q) + 1] = v /\ \A j \in 1..Len(q) : q[j] = a[j]
             /\ Under(q, v, p) <=> Len(q) < lp /\ p[Len(q) + 1] = v /\ \A j \in 1..Len(q) : q[j] = p[j]
  <2>1. Len(q) \in Nat /\ q \in Seq(Way)
    BY DEF Pos
  <2>2. Under(q, v, a) <=> Len(q) < Len(a) /\ a[Len(q) + 1] = v /\ \A j \in 1..Len(q) : q[j] = a[j]
    BY <1>1, UnderFacts, Zenon
  <2>3. Under(q, v, p) <=> Len(q) < Len(p) /\ p[Len(q) + 1] = v /\ \A j \in 1..Len(q) : q[j] = p[j]
    BY <1>1, UnderFacts, Zenon
  <2> QED BY <1>2, <2>1, <2>2, <2>3, Zenon
<1>4. Under(p, w, a)
  BY <1>1, <1>3, <1>2
<1>5. ASSUME NEW q \in Pos, NEW v, Under(q, v, a) PROVE Under(q, v, p) \/ (q = p /\ v = w)
  <2> DEFINE lq == Len(q)
  <2>1. lq \in Nat /\ lq < la /\ a[lq + 1] = v /\ \A j \in 1..lq : q[j] = a[j]
    BY <1>3, <1>5
  <2>2. lq < lp /\ p[lq + 1] = v /\ (\A j \in 1..lq : q[j] = p[j]) => Under(q, v, p)
    BY <1>3
  <2>3. lq = lp /\ (\A j \in 1..lq : q[j] = p[j]) => q = p
    BY <1>1, <1>3, <1>2, SeqEqual
  <2> HIDE DEF lq
  <2>4. \A j \in 1..lq : j \in 1..lp
    BY <1>1, <2>1
  <2>5. \A j \in 1..lq : q[j] = p[j]
    BY <1>1, <2>1, <2>4
  <2>6. CASE lq < lp
    <3>1. lq + 1 \in 1..lp
      BY <1>1, <2>1, <2>6
    <3> QED BY <1>1, <2>1, <2>2, <2>5, <2>6, <3>1
  <2>7. CASE lq = lp
    BY <1>1, <2>1, <2>3, <2>5, <2>7
  <2> QED BY <1>1, <2>1, <2>6, <2>7
<1>6. ASSUME NEW q \in Pos, NEW v, Under(q, v, p) PROVE Under(q, v, a)
  BY <1>1, <1>4, <1>6, UnderTransitive
<1> QED
  BY <1>1, <1>2, <1>4, <1>5, <1>6 DEF a

\* Every position but the root is under the root, the root under none.
LEMMA UnderRoot ==
    /\ <<>> \in Pos /\ Len(<<>>) = 0
    /\ \A p \in Pos, w \in Way : ~Under(p, w, <<>>)
BY DEF Pos, Under

-----------------------------------------------------------------------------
(***************************************************************************)
(* Trees, and where a search ends.                                         *)
(***************************************************************************)

\* Every node but the root has a parent, and no way is longer than some bound.
Shape(t) ==
    /\ DOMAIN t \subseteq Pos
    /\ \A q \in DOMAIN t, p \in Pos, w \in Way : Under(p, w, q) => p \in DOMAIN t
    /\ \E n \in Nat : \A p \in DOMAIN t : Len(p) <= n

\* The search that goes ways[q] at the node q passes p or ends there, ...
OnWay(t, ways, p) == \A q \in DOMAIN t, w \in Way : Under(q, w, p) => ways[q] = w

\* ... and it ends there.
EndsAt(t, ways, p) ==
    p \in Slots(t) /\ OnWay(t, ways, p) /\ (p \in DOMAIN t => ways[p] = "here")

\* All that a slot is under are nodes.
LEMMA SlotFacts ==
    ASSUME NEW t, Shape(t)
    PROVE  /\ Slots(t) \subseteq Pos /\ <<>> \in Slots(t) /\ DOMAIN t \subseteq Slots(t)
           /\ \A p \in DOMAIN t, w \in Way : Append(p, w) \in Slots(t)
           /\ \A q \in Slots(t), p \in Pos, w \in Way : Under(p, w, q) => p \in DOMAIN t
           /\ \E n \in Nat : \A p \in Slots(t) : Len(p) <= n
<1>1. DOMAIN t \subseteq Pos /\ <<>> \in Pos
  BY UnderRoot DEF Shape
<1>2. \A p \in DOMAIN t, w \in Way : Append(p, w) \in Pos /\ Len(Append(p, w)) = Len(p) + 1
  BY <1>1, UnderAppend
<1>3. /\ <<>> \in Slots(t) /\ DOMAIN t \subseteq Slots(t)
      /\ \A p \in DOMAIN t, w \in Way : Append(p, w) \in Slots(t)
      /\ \A q \in Slots(t) : q = <<>> \/ q \in DOMAIN t \/ \E p \in DOMAIN t, w \in Way : q = Append(p, w)
  BY DEF Slots, Way
<1>4. ASSUME NEW q \in Slots(t), NEW p \in Pos, NEW w \in Way, Under(p, w, q)
      PROVE  p \in DOMAIN t
  <2>1. q # <<>>
    BY <1>4, UnderRoot
  <2>2. CASE q \in DOMAIN t
    BY <1>4, <2>2 DEF Shape
  <2>3. ASSUME NEW r \in DOMAIN t, NEW v \in Way, q = Append(r, v)
        PROVE  p \in DOMAIN t
    <3>1. r \in Pos
      BY <1>1
    <3>2. Under(p, w, r) \/ p = r
      BY <1>4, <2>3, <3>1, UnderAppend, Zenon
    <3> QED BY <3>2 DEF Shape
  <2> QED BY <1>3, <2>1, <2>2, <2>3
<1>5. PICK n \in Nat : \A p \in DOMAIN t : Len(p) <= n
  BY DEF Shape
<1>6. ASSUME NEW q \in Slots(t) PROVE Len(q) <= n + 1
  <2>1. CASE q = <<>>
    BY <2>1, UnderRoot
  <2>2. CASE q \in DOMAIN t
    <3>1. Len(q) \in Nat /\ Len(q) <= n
      BY <1>1, <1>5, <2>2 DEF Pos
    <3> QED BY <3>1
  <2>3. ASSUME NEW r \in DOMAIN t, NEW v \in Way, q = Append(r, v)
        PROVE  Len(q) <= n + 1
    <3>1. Len(r) \in Nat /\ Len(r) <= n
      BY <1>1, <1>5 DEF Pos
    <3>2. Len(q) = Len(r) + 1
      BY <1>2, <2>3
    <3> QED BY <3>1, <3>2
  <2> QED BY <1>3, <2>1, <2>2, <2>3
<1>7. Slots(t) \subseteq Pos
  BY <1>1, <1>2, <1>3
<1>8. n + 1 \in Nat
  OBVIOUS
<1> QED
  BY <1>3, <1>4, <1>6, <1>7, <1>8

\* A search ends at one position, the one Place chooses.
LEMMA PlaceFacts ==
    ASSUME NEW t, Shape(t), NEW ways \in [DOMAIN t -> Way \cup {"here"}]
    PROVE  EndsAt(t, ways, Place(t, ways)) /\ \A p : EndsAt(t, ways, p) => p = Place(t, ways)
<1>0. /\ Slots(t) \subseteq Pos /\ <<>> \in Slots(t) /\ DOMAIN t \subseteq Slots(t)
      /\ \A p \in DOMAIN t, w \in Way : Append(p, w) \in Slots(t)
      /\ \A q \in Slots(t), p \in Pos, w \in Way : Under(p, w, q) => p \in DOMAIN t
  BY SlotFacts
<1>1. ASSUME NEW p \in Slots(t)
      PROVE  OnWay(t, ways, p) <=> \A i \in 1..Len(p) : ways[SubSeq(p, 1, i - 1)] = p[i]
  <2>1. p \in Pos /\ p \in Seq(Way) /\ Len(p) \in Nat
    BY <1>0 DEF Pos
  <2>2. ASSUME NEW i \in 1..Len(p)
        PROVE  SubSeq(p, 1, i - 1) \in DOMAIN t /\ p[i] \in Way /\ Under(SubSeq(p, 1, i - 1), p[i], p)
    <3>1. p[i] \in Way /\ i \in 1..(Len(p) + 1)
      BY <2>1
    <3>2. Under(SubSeq(p, 1, i - 1), p[i], p)
      BY DEF Under
    <3> QED BY <1>0, <2>1, <3>1, <3>2, AboveFacts
  <2>3. ASSUME OnWay(t, ways, p) PROVE \A i \in 1..Len(p) : ways[SubSeq(p, 1, i - 1)] = p[i]
    BY <2>2, <2>3 DEF OnWay
  <2>4. ASSUME \A i \in 1..Len(p) : ways[SubSeq(p, 1, i - 1)] = p[i] PROVE OnWay(t, ways, p)
    BY <2>4, Zenon DEF OnWay, Under
  <2> QED BY <2>3, <2>4
<1>2. \E p \in Slots(t) : OnWay(t, ways, p) /\ (p \in DOMAIN t => ways[p] = "here")
  <2> DEFINE W == {p \in Slots(t) : OnWay(t, ways, p)}
             L == {Len(p) : p \in W}
  <2>1. <<>> \in W
    BY <1>0, UnderRoot DEF OnWay, Shape
  <2>2. L \in SUBSET Nat /\ L # {}
    <3>1. \A p \in W : Len(p) \in Nat
      BY <1>0 DEF Pos
    <3>2. Len(<<>>) \in L
      BY <2>1, Zenon
    <3> QED BY <3>1, <3>2
  <2>3. PICK n \in Nat : \A l \in L : l <= n
    <3>1. PICK n \in Nat : \A p \in Slots(t) : Len(p) <= n
      BY SlotFacts
    <3> QED BY <3>1
  <2>4. PICK m \in L : \A l \in L : l <= m
    <3> HIDE DEF L
    <3> QED BY <2>2, <2>3, GreatestNumber
  <2>5. PICK p \in W : m = Len(p)
    BY <2>4
  <2>6. ASSUME p \in DOMAIN t, ways[p] # "here" PROVE FALSE
    <3> DEFINE a == Append(p, ways[p])
    <3>1. p \in Pos /\ ways[p] \in Way
      BY <1>0, <2>6
    <3>2. a \in Slots(t) /\ Len(a) = Len(p) + 1 /\ Len(p) \in Nat
      BY <1>0, <2>6, <3>1, UnderAppend DEF Pos
    <3>3. \A q \in Pos, v \in Way : Under(q, v, a) <=> Under(q, v, p) \/ (q = p /\ v = ways[p])
      BY <3>1, UnderAppend, Zenon
    <3> HIDE DEF a
    <3>4. OnWay(t, ways, a)
      BY <2>5, <3>3 DEF OnWay, Shape
    <3>5. Len(a) \in L
      BY <3>2, <3>4
    <3> QED BY <2>4, <2>5, <3>2, <3>5
  <2> QED BY <2>5, <2>6
<1>3. EndsAt(t, ways, Place(t, ways))
  <2> DEFINE C(p) == /\ \A i \in 1..Len(p) : ways[SubSeq(p, 1, i - 1)] = p[i]
                     /\ p \in DOMAIN t => ways[p] = "here"
  <2>1. \E p \in Slots(t) : C(p)
    BY <1>1, <1>2
  <2>2. Place(t, ways) = CHOOSE p \in Slots(t) : C(p)
    BY DEF Place
  <2>3. Place(t, ways) \in Slots(t) /\ C(Place(t, ways))
    <3> HIDE DEF C
    <3> QED BY <2>1, <2>2, Zenon
  <2> QED BY <1>1, <2>3 DEF EndsAt
<1>4. ASSUME NEW p, NEW q, EndsAt(t, ways, p), EndsAt(t, ways, q), p # q PROVE FALSE
  <2>1. /\ p \in Slots(t) /\ OnWay(t, ways, p) /\ (p \in DOMAIN t => ways[p] = "here") /\ p \in Pos
        /\ q \in Slots(t) /\ OnWay(t, ways, q) /\ (q \in DOMAIN t => ways[q] = "here") /\ q \in Pos
    BY <1>0, <1>4 DEF EndsAt
  <2>2. ASSUME NEW w \in Way, Under(p, w, q) PROVE FALSE
    BY <1>0, <2>1, <2>2 DEF OnWay, Way
  <2>3. ASSUME NEW w \in Way, Under(q, w, p) PROVE FALSE
    BY <1>0, <2>1, <2>3 DEF OnWay, Way
  <2>4. ASSUME NEW r \in Pos, NEW v \in Way, NEW w \in Way, Under(r, v, p), Under(r, w, q), v # w
        PROVE  FALSE
    BY <1>0, <2>1, <2>4 DEF OnWay
  <2> QED BY <1>4, <2>1, <2>2, <2>3, <2>4, UnderSplit
<1> QED
  BY <1>3, <1>4

-----------------------------------------------------------------------------
(***************************************************************************)
(* The two comparisons.  A tree is in order as far as the search needs it: *)
(* what is to the right of a node is greater.  What is to the left may be  *)
(* greater too, since a node can take the place of one it is a beginning   *)
(* of.                                                                     *)
(***************************************************************************)

\* strcmp tells all names apart, ...
LEMMA StrCmpFacts ==
    ASSUME NEW a \in Names, NEW b \in Names
    PROVE  /\ StrCmp(a, b) \in Way \cup {"here"}
           /\ StrCmp(a, b) = "here" <=> a = b
           /\ StrCmp(a, b) = "left" <=> Less(a, b)
           /\ StrCmp(a, b) = "right" <=> Less(b, a)
<1>1. a = b => ~Less(a, b) /\ ~Less(b, a)
  BY LessIrreflexive
<1>2. ~(Less(a, b) /\ Less(b, a))
  BY LessTransitive, LessIrreflexive
<1>3. a = b \/ Less(a, b) \/ Less(b, a)
  BY LessTotal
<1> QED
  BY <1>1, <1>2, <1>3 DEF StrCmp, Way

\* ... and memcmp agrees with it unless the name is a beginning of the other.
LEMMA MemCmpFacts ==
    ASSUME NEW a \in Names, NEW b \in Names
    PROVE  /\ MemCmp(a, b) \in Way \cup {"here"}
           /\ MemCmp(a, b) = "here" <=> IsPrefix(a, b)
           /\ MemCmp(a, b) # "here" => StrCmp(a, b) = MemCmp(a, b)
<1>1. IsPrefix(a, a)
  BY PrefixFacts DEF Names
<1> QED
  BY <1>1 DEF MemCmp, StrCmp, Way

\* A tree that searches can rely on.
Ordered(t) ==
    /\ Shape(t)
    /\ t = [p \in DOMAIN t |-> t[p]]
    /\ \A p \in DOMAIN t : t[p] = [key |-> t[p].key, data |-> t[p].data] /\ t[p].key \in Names
    /\ \A p \in DOMAIN t, q \in DOMAIN t : Under(p, "right", q) => Less(t[p].key, t[q].key)

\* The search for k ends at p, ...
Leads(t, k, p) ==
    /\ p \in Slots(t)
    /\ \A q \in DOMAIN t, w \in Way : Under(q, w, p) => StrCmp(k, t[q].key) = w
    /\ p \in DOMAIN t => t[p].key = k

\* ... and so does the search for the place to insert k.
Fits(t, k, p) ==
    /\ p \in Slots(t)
    /\ \A q \in DOMAIN t, w \in Way : Under(q, w, p) => MemCmp(k, t[q].key) = w
    /\ p \in DOMAIN t => IsPrefix(k, t[p].key)

\* The search by config_btree_find_node ends at one position.
LEMMA FoundFacts ==
    ASSUME NEW t, Ordered(t), NEW k \in Names
    PROVE  Leads(t, k, Found(t, k)) /\ \A p : Leads(t, k, p) => p = Found(t, k)
<1> DEFINE ways == [p \in DOMAIN t |-> StrCmp(k, t[p].key)]
<1>1. Shape(t) /\ \A p \in DOMAIN t : t[p].key \in Names
  BY DEF Ordered
<1>2. \A p \in DOMAIN t : StrCmp(k, t[p].key) \in Way \cup {"here"} /\ (StrCmp(k, t[p].key) = "here" <=> t[p].key = k)
  BY <1>1, StrCmpFacts
<1>3. ways \in [DOMAIN t -> Way \cup {"here"}] /\ \A p \in DOMAIN t : ways[p] = StrCmp(k, t[p].key)
  BY <1>2
<1>4. Found(t, k) = Place(t, ways)
  BY DEF Found
<1> HIDE DEF ways
<1>5. \A p : EndsAt(t, ways, p) <=> Leads(t, k, p)
  BY <1>2, <1>3 DEF EndsAt, OnWay, Leads
<1>6. EndsAt(t, ways, Place(t, ways)) /\ \A p : EndsAt(t, ways, p) => p = Place(t, ways)
  BY <1>1, <1>3, PlaceFacts
<1> QED
  BY <1>4, <1>5, <1>6

\* t with a node at p, new or in the place of another.
WithNode(t, k, d, p) ==
    [q \in DOMAIN t \cup {p} |-> IF q = p THEN [key |-> k, data |-> d] ELSE t[q]]

\* The search of config_btree_insert_node ends somewhere.
LEMMA InsertPlace ==
    ASSUME NEW t, Ordered(t), NEW k \in Names, NEW d
    PROVE  \E p : Fits(t, k, p) /\ InsertNode(t, k, d) = WithNode(t, k, d, p)
<1> DEFINE ways == [p \in DOMAIN t |-> MemCmp(k, t[p].key)]
<1>1. Shape(t) /\ \A p \in DOMAIN t : t[p].key \in Names
  BY DEF Ordered
<1>2. \A p \in DOMAIN t : MemCmp(k, t[p].key) \in Way \cup {"here"} /\ (MemCmp(k, t[p].key) = "here" <=> IsPrefix(k, t[p].key))
  BY <1>1, MemCmpFacts
<1>3. ways \in [DOMAIN t -> Way \cup {"here"}] /\ \A p \in DOMAIN t : ways[p] = MemCmp(k, t[p].key)
  BY <1>2
<1>4. InsertNode(t, k, d) = WithNode(t, k, d, Place(t, ways))
  BY DEF InsertNode, WithNode
<1> HIDE DEF ways
<1>5. \A p : EndsAt(t, ways, p) <=> Fits(t, k, p)
  BY <1>2, <1>3 DEF EndsAt, OnWay, Fits
<1>6. EndsAt(t, ways, Place(t, ways))
  BY <1>1, <1>3, PlaceFacts
<1> QED
  BY <1>4, <1>5, <1>6

\* u is t with a node for k put at p.
Put(t, k, d, p, u) ==
    /\ Fits(t, k, p)
    /\ DOMAIN u = DOMAIN t \cup {p} /\ u = [q \in DOMAIN u |-> u[q]]
    /\ u[p] = [key |-> k, data |-> d] /\ u[p].key = k /\ u[p].data = d
    /\ \A q \in DOMAIN t : q # p => u[q] = t[q]

\* config_btree_insert_node puts a node somewhere.
LEMMA InsertPuts ==
    ASSUME NEW t, Ordered(t), NEW k \in Names, NEW d
    PROVE  \E p \in Slots(t) : Put(t, k, d, p, InsertNode(t, k, d))
<1>1. PICK p : Fits(t, k, p) /\ InsertNode(t, k, d) = WithNode(t, k, d, p)
  BY InsertPlace
<1>2. Put(t, k, d, p, InsertNode(t, k, d))
  BY <1>1 DEF Put, WithNode
<1>3. p \in Slots(t)
  BY <1>1 DEF Fits
<1> QED
  BY <1>2, <1>3

\* The places for nodes grow.
LEMMA PutShape ==
    ASSUME NEW t, Ordered(t), NEW k \in Names, NEW d, NEW p \in Slots(t), NEW u, Put(t, k, d, p, u)
    PROVE  Shape(u) /\ Slots(t) \subseteq Slots(u)
<1>0. /\ Shape(t) /\ DOMAIN t \subseteq Pos /\ DOMAIN u = DOMAIN t \cup {p}
      /\ Slots(t) \subseteq Pos /\ DOMAIN t \subseteq Slots(t)
      /\ \A q \in Slots(t), r \in Pos, w \in Way : Under(r, w, q) => r \in DOMAIN t
  BY SlotFacts DEF Ordered, Put, Shape
<1>1. DOMAIN u \subseteq Pos
  BY <1>0
<1>2. \A q \in DOMAIN u, r \in Pos, w \in Way : Under(r, w, q) => r \in DOMAIN u
  BY <1>0
<1>3. PICK n \in Nat : \A q \in DOMAIN t : Len(q) <= n
  BY <1>0 DEF Shape
<1>4. ASSUME NEW q \in DOMAIN u PROVE Len(q) <= n + Len(p)
  <2>1. Len(p) \in Nat /\ Len(q) \in Nat
    BY <1>0, <1>1 DEF Pos
  <2> QED BY <1>0, <1>3, <1>4, <2>1
<1>5. n + Len(p) \in Nat
  BY <1>0 DEF Pos
<1> QED
  BY <1>0, <1>1, <1>2, <1>4, <1>5 DEF Shape, Slots

\* The new tree is ordered, and the node put into it is found.
LEMMA PutFound ==
    ASSUME NEW t, Ordered(t), NEW k \in Names, NEW d, NEW p \in Slots(t), NEW u, Put(t, k, d, p, u)
    PROVE  Ordered(u) /\ FindNode(u, k) = {d}
<1>0. /\ Shape(t) /\ DOMAIN u = DOMAIN t \cup {p} /\ u[p].key = k /\ u[p].data = d
      /\ \A q \in DOMAIN t : q # p => u[q] = t[q]
      /\ \A q \in DOMAIN t : t[q].key \in Names
      /\ \A q \in DOMAIN t, r \in DOMAIN t : Under(q, "right", r) => Less(t[q].key, t[r].key)
      /\ \A q \in DOMAIN t, w \in Way : Under(q, w, p) => MemCmp(k, t[q].key) = w
      /\ p \in DOMAIN t => IsPrefix(k, t[p].key)
  BY DEF Ordered, Put, Fits
<1>1. Shape(u) /\ Slots(t) \subseteq Slots(u) /\ DOMAIN u \subseteq Pos /\ DOMAIN t \subseteq Pos
  BY <1>0, PutShape DEF Shape
<1>2. \A q \in DOMAIN u : u[q].key \in Names
  BY <1>0
<1>3. ASSUME NEW q \in DOMAIN t, NEW w \in Way, Under(q, w, p)
      PROVE  q # p /\ StrCmp(k, u[q].key) = w
  <2>1. q # p
    BY <1>0, <1>1, <1>3, UnderOnce
  <2>2. MemCmp(k, t[q].key) = w /\ w # "here"
    BY <1>0, <1>3 DEF Way
  <2> QED BY <1>0, <2>1, <2>2, MemCmpFacts
<1>4. ASSUME NEW q \in DOMAIN u, NEW r \in DOMAIN u, Under(q, "right", r)
      PROVE  Less(u[q].key, u[r].key)
  <2>0. q # r /\ "right" \in Way
    BY <1>1, <1>4, UnderOnce DEF Way
  <2>1. CASE r = p
    <3>1. StrCmp(k, u[q].key) = "right"
      BY <1>0, <1>3, <1>4, <2>0, <2>1
    <3> QED BY <1>0, <1>2, <2>1, <3>1, StrCmpFacts
  <2>2. CASE q = p
    <3>1. p \in DOMAIN t /\ r \in DOMAIN t /\ u[r] = t[r]
      BY <1>0, <1>1, <1>4, <2>0, <2>2 DEF Shape
    <3>2. Less(t[p].key, t[r].key)
      BY <1>0, <1>4, <2>2, <3>1
    <3>3. k = t[p].key \/ Less(k, t[p].key)
      BY <1>0, <3>1, PrefixLess
    <3>4. Less(k, t[r].key)
      BY <1>0, <3>1, <3>2, <3>3, LessTransitive
    <3> QED BY <1>0, <2>2, <3>1, <3>4
  <2>3. CASE q # p /\ r # p
    BY <1>0, <1>4, <2>3
  <2> QED BY <2>1, <2>2, <2>3
<1>5. Ordered(u)
  <2>1. ASSUME NEW q \in DOMAIN u PROVE u[q] = [key |-> u[q].key, data |-> u[q].data]
    BY <1>0, Zenon DEF Ordered, Put
  <2> QED BY <1>1, <1>2, <1>4, <2>1 DEF Ordered, Put
<1>6. Leads(u, k, p)
  <2>1. ASSUME NEW q \in DOMAIN u, NEW w \in Way, Under(q, w, p) PROVE StrCmp(k, u[q].key) = w
    <3>1. q # p
      BY <1>1, <2>1, UnderOnce
    <3> QED BY <1>0, <1>3, <2>1, <3>1
  <2> QED BY <1>0, <1>1, <2>1 DEF Leads
<1>7. p = Found(u, k)
  BY <1>5, <1>6, FoundFacts
<1> QED
  BY <1>0, <1>5, <1>7 DEF FindNode

\* Any other key is found as before, or not any more if it begins with the one
\* put into the tree.
LEMMA PutOthers ==
    ASSUME NEW t, Ordered(t), NEW k \in Names, NEW d, NEW p \in Slots(t), NEW u, Put(t, k, d, p, u),
           NEW x \in Names, x # k
    PROVE  FindNode(u, x) = FindNode(t, x) \/ (FindNode(u, x) = {} /\ IsPrefix(k, x))
<1>0. /\ Shape(t) /\ DOMAIN u = DOMAIN t \cup {p} /\ u[p].key = k /\ u[p].data = d
      /\ \A q \in DOMAIN t : q # p => u[q] = t[q]
      /\ \A q \in DOMAIN t : t[q].key \in Names
      /\ \A q \in DOMAIN t, r \in DOMAIN t : Under(q, "right", r) => Less(t[q].key, t[r].key)
      /\ p \in DOMAIN t => IsPrefix(k, t[p].key)
  BY DEF Ordered, Put, Fits
<1>1. /\ Ordered(u) /\ Shape(u) /\ Slots(t) \subseteq Slots(u) /\ Slots(t) \subseteq Pos
      /\ DOMAIN u \subseteq Pos /\ DOMAIN t \subseteq Pos /\ Slots(u) \subseteq Pos
      /\ \A q \in Slots(t), r \in Pos, w \in Way : Under(r, w, q) => r \in DOMAIN t
      /\ \A q \in Slots(u), r \in Pos, w \in Way : Under(r, w, q) => r \in DOMAIN u
  BY <1>0, PutShape, PutFound, SlotFacts DEF Shape
<1>2. PICK f : f = Found(t, x)
  OBVIOUS
<1>3. /\ f \in Slots(t)
      /\ \A q \in DOMAIN t, w \in Way : Under(q, w, f) => StrCmp(x, t[q].key) = w
      /\ f \in DOMAIN t => t[f].key = x
      /\ FindNode(t, x) = IF f \in DOMAIN t THEN {t[f].data} ELSE {}
  BY <1>2, FoundFacts DEF Leads, FindNode
<1>4. PICK g : g = Found(u, x)
  OBVIOUS
<1>5. /\ g \in Slots(u)
      /\ \A q \in DOMAIN u, w \in Way : Under(q, w, g) => StrCmp(x, u[q].key) = w
      /\ g \in DOMAIN u => u[g].key = x
      /\ FindNode(u, x) = IF g \in DOMAIN u THEN {u[g].data} ELSE {}
  BY <1>1, <1>4, FoundFacts DEF Leads, FindNode
<1>6. \A q : Leads(u, x, q) => g = q
  BY <1>1, <1>4, FoundFacts
<1>7. ASSUME f # p, \A w \in Way : Under(p, w, f) => StrCmp(x, k) = w
      PROVE  FindNode(u, x) = FindNode(t, x)
  <2>1. ASSUME NEW q \in DOMAIN u, NEW w \in Way, Under(q, w, f) PROVE StrCmp(x, u[q].key) = w
    BY <1>0, <1>3, <1>7, <2>1
  <2>2. Leads(u, x, f)
    BY <1>0, <1>1, <1>3, <1>7, <2>1 DEF Leads
  <2>3. g = f
    BY <1>6, <2>2
  <2> QED BY <1>0, <1>3, <1>5, <1>7, <2>3
<1>8. CASE f = p /\ p \notin DOMAIN t
  <2> DEFINE w == StrCmp(x, k)
             a == Append(p, w)
  <2>1. w \in Way
    BY StrCmpFacts
  <2>2. a \in Pos /\ Under(p, w, a) /\ \A q \in Pos, v \in Way : Under(q, v, a) <=> Under(q, v, p) \/ (q = p /\ v = w)
    BY <1>1, <2>1, UnderAppend, Zenon
  <2>3. a \in Slots(u)
    BY <1>0, <1>1, <2>1, SlotFacts
  <2> HIDE DEF w, a
  <2>4. a \notin DOMAIN u
    <3>1. a # p
      BY <1>1, <2>2, UnderOnce
    <3> QED BY <1>0, <1>1, <1>8, <2>1, <2>2, <3>1 DEF Shape
  <2>5. ASSUME NEW q \in DOMAIN u, NEW v \in Way, Under(q, v, a) PROVE StrCmp(x, u[q].key) = v
    <3>1. CASE q = p /\ v = w
      BY <1>0, <3>1 DEF w
    <3>2. CASE Under(q, v, p)
      <4>1. q # p
        BY <1>1, <3>2, UnderOnce
      <4> QED BY <1>0, <1>3, <1>8, <3>2, <4>1
    <3> QED BY <1>1, <2>2, <2>5, <3>1, <3>2
  <2>6. g = a
    BY <1>6, <2>3, <2>4, <2>5 DEF Leads
  <2> QED BY <1>3, <1>5, <1>8, <2>4, <2>6
<1>9. ASSUME p \in DOMAIN t, f = p \/ \E w \in Way : Under(p, w, f) /\ StrCmp(x, k) # w
      PROVE  FindNode(u, x) = {} /\ IsPrefix(k, x)
  <2> DEFINE K == t[p].key
  <2>1. K \in Names /\ IsPrefix(k, K) /\ (k = K \/ Less(k, K))
    BY <1>0, <1>9, PrefixLess
  <2>2. K # k /\ (x = K \/ Less(x, K)) /\ Less(k, x)
    <3>1. CASE f = p
      BY <1>3, <1>9, <2>1, <3>1
    <3>2. ASSUME NEW w \in Way, Under(p, w, f), StrCmp(x, k) # w
          PROVE  K # k /\ Less(x, K) /\ Less(k, x)
      <4>1. StrCmp(x, K) = w /\ K # k
        BY <1>3, <1>9, <3>2
      <4>2. Less(k, K)
        BY <2>1, <4>1
      <4>3. ~Less(K, x)
        <5>1. ASSUME Less(K, x) PROVE FALSE
          <6>1. Less(k, x)
            BY <2>1, <4>2, <5>1, LessTransitive
          <6>2. StrCmp(x, K) = "right" /\ StrCmp(x, k) = "right"
            BY <2>1, <5>1, <6>1, StrCmpFacts
          <6> QED BY <3>2, <4>1, <6>2
        <5> QED BY <5>1
      <4>4. w # "right" /\ w = "left"
        <5>1. w # "right"
          BY <2>1, <4>1, <4>3, StrCmpFacts
        <5> QED BY <5>1 DEF Way
      <4>5. Less(x, K)
        BY <2>1, <4>1, <4>4, StrCmpFacts
      <4>6. ~Less(x, k)
        BY <3>2, <4>4, StrCmpFacts
      <4> QED BY <4>1, <4>5, <4>6, LessTotal
    <3> QED BY <1>9, <3>1, <3>2
  <2>3. IsPrefix(k, x)
    BY <2>1, <2>2, BetweenPrefix
  <2>4. ASSUME g \in DOMAIN u PROVE FALSE
    <3>1. g # p /\ g \in DOMAIN t /\ u[g] = t[g] /\ t[g].key = x /\ g \in Pos /\ p \in Pos /\ f \in Pos
      BY <1>0, <1>1, <1>3, <1>5, <2>4
    <3>2. \A q \in Pos, w \in Way : Under(q, w, p) => Under(q, w, f)
      BY <1>9, <3>1, UnderTransitive
    <3>3. ASSUME NEW w \in Way, Under(g, w, p) PROVE FALSE
      <4>1. StrCmp(x, x) = w
        BY <1>3, <3>1, <3>2, <3>3
      <4>2. StrCmp(x, x) = "here"
        BY StrCmpFacts
      <4> QED BY <4>1, <4>2 DEF Way
    <3>4. ASSUME NEW r \in Pos, NEW v \in Way, NEW w \in Way, Under(r, v, p), Under(r, w, g), v # w
          PROVE  FALSE
      <4>1. r \in DOMAIN t /\ r # p
        BY <1>1, <3>1, <3>4, UnderOnce
      <4>2. StrCmp(x, t[r].key) = v
        BY <1>3, <3>2, <3>4, <4>1
      <4>3. StrCmp(x, t[r].key) = w
        BY <1>0, <1>5, <3>4, <4>1
      <4> QED BY <3>4, <4>2, <4>3
    <3>5. ASSUME NEW w \in Way, Under(p, w, g) PROVE FALSE
      <4>1. StrCmp(x, k) = w
        BY <1>0, <1>5, <3>5
      <4>2. w = "right"
        BY <2>2, <4>1, StrCmpFacts
      <4>3. Less(K, x)
        BY <1>0, <1>9, <3>1, <3>5, <4>2
      <4> QED BY <2>1, <2>2, <4>3, LessTransitive, LessIrreflexive
    <3> QED BY <3>1, <3>3, <3>4, <3>5, UnderSplit
  <2> QED BY <1>5, <2>3, <2>4
<1>10. f # p /\ p \notin DOMAIN t => \A w \in Way : ~Under(p, w, f)
  BY <1>1, <1>3
<1> QED
  BY <1>7, <1>8, <1>9, <1>10

\* u is t with k, as the get functions see it.
Inserts(t, k, d, u) ==
    /\ Ordered(u) /\ FindNode(u, k) = {d}
    /\ \A x \in Names : \/ x = k \/ FindNode(u, x) = FindNode(t, x)
                        \/ FindNode(u, x) = {} /\ IsPrefix(k, x)
    /\ \A p \in DOMAIN u : \/ u[p].key = k /\ u[p].data = d
                           \/ p \in DOMAIN t /\ u[p] = t[p]

\* That is what config_btree_insert_node makes of t.
LEMMA InsertFacts ==
    ASSUME NEW t, Ordered(t), NEW k \in Names, NEW d, NEW u, u = InsertNode(t, k, d)
    PROVE  Inserts(t, k, d, u)
<1>1. PICK p \in Slots(t) : Put(t, k, d, p, u)
  BY InsertPuts
<1>2. Ordered(u) /\ FindNode(u, k) = {d}
  BY <1>1, PutFound
<1>3. \A x \in Names : \/ x = k \/ FindNode(u, x) = FindNode(t, x)
                       \/ FindNode(u, x) = {} /\ IsPrefix(k, x)
  BY <1>1, PutOthers
<1>4. \A q \in DOMAIN u : (u[q].key = k /\ u[q].data = d) \/ (q \in DOMAIN t /\ u[q] = t[q])
  BY <1>1 DEF Put
<1> QED
  BY <1>2, <1>3, <1>4 DEF Inserts

\* A search finds nothing or the data of one node with the key.
LEMMA FindFacts ==
    ASSUME NEW t, Ordered(t), NEW k \in Names
    PROVE  \/ FindNode(t, k) = {} /\ Found(t, k) \notin DOMAIN t
           \/ /\ Found(t, k) \in DOMAIN t /\ t[Found(t, k)].key = k
              /\ FindNode(t, k) = {t[Found(t, k)].data}
BY FoundFacts DEF FindNode, Leads

\* The search for a key depends on the keys only.
LEMMA SameKeys ==
    ASSUME NEW t, Ordered(t), NEW u, Ordered(u), DOMAIN u = DOMAIN t,
           \A p \in DOMAIN t : u[p].key = t[p].key, NEW k \in Names
    PROVE  Found(u, k) = Found(t, k)
<1>1. Leads(t, k, Found(t, k))
  BY FoundFacts
<1>2. Leads(u, k, Found(t, k))
  BY <1>1 DEF Leads, Slots
<1> QED
  BY <1>2, FoundFacts

\* u is t with other data for k.
Changes(t, k, e, u) ==
    /\ Ordered(u) /\ FindNode(u, k) = {e}
    /\ \A x \in Names : x # k => FindNode(u, x) = FindNode(t, x)
    /\ DOMAIN u = DOMAIN t
    /\ \A p \in DOMAIN u : u[p].key = t[p].key /\ (u[p].data = e \/ u[p] = t[p])

\* New data for a node that was found.
LEMMA DataFacts ==
    ASSUME NEW t, Ordered(t), NEW k \in Names, FindNode(t, k) # {}, NEW e, NEW u,
           u = [t EXCEPT ![Found(t, k)].data = e]
    PROVE  Changes(t, k, e, u)
<1>1. PICK f : f = Found(t, k)
  OBVIOUS
<1>2. f \in DOMAIN t /\ t[f].key = k /\ u = [t EXCEPT ![f].data = e]
  BY <1>1, FindFacts
<1>3. /\ \A p \in DOMAIN t : t[p] = [key |-> t[p].key, data |-> t[p].data] /\ t[p].key \in Names
      /\ t = [p \in DOMAIN t |-> t[p]]
  BY DEF Ordered
<1>4. /\ DOMAIN u = DOMAIN t /\ u = [p \in DOMAIN u |-> u[p]]
      /\ \A p \in DOMAIN t : p # f => u[p] = t[p]
      /\ u[f] = [t[f] EXCEPT !.data = e]
  BY <1>2, <1>3
<1>5. t[f] = [key |-> k, data |-> t[f].data]
  BY <1>2, <1>3
<1>6. u[f] = [key |-> k, data |-> e] /\ u[f].key = k /\ u[f].data = e
  BY <1>4, <1>5
<1>7. \A p \in DOMAIN u : u[p].key = t[p].key /\ (u[p].data = e \/ u[p] = t[p])
  BY <1>2, <1>4, <1>6
<1>8. ASSUME NEW p \in DOMAIN u
      PROVE u[p] = [key |-> u[p].key, data |-> u[p].data] /\ u[p].key \in Names
  BY <1>2, <1>3, <1>4, <1>6, Zenon
<1>9. Shape(u)
  BY <1>4 DEF Ordered, Shape
<1>10. Ordered(u)
  BY <1>4, <1>7, <1>8, <1>9 DEF Ordered
<1>11. \A x \in Names : Found(u, x) = Found(t, x)
  <2>1. DOMAIN u = DOMAIN t /\ \A p \in DOMAIN t : u[p].key = t[p].key
    BY <1>4, <1>7
  <2> QED BY <1>10, <2>1, SameKeys, Zenon
<1>12. FindNode(u, k) = {e}
  BY <1>1, <1>2, <1>4, <1>6, <1>11 DEF FindNode
<1>13. ASSUME NEW x \in Names, x # k PROVE FindNode(u, x) = FindNode(t, x)
  <2>1. Found(t, x) \in DOMAIN t => Found(t, x) # f
    BY <1>2, <1>13, FindFacts
  <2> QED BY <1>4, <1>11, <2>1 DEF FindNode
<1> QED
  BY <1>4, <1>7, <1>10, <1>12, <1>13 DEF Changes

\* The empty tree.
LEMMA EmptyFacts ==
    Ordered(<<>>) /\ DOMAIN <<>> = {} /\ \A k \in Names : FindNode(<<>>, k) = {}
<1>1. DOMAIN <<>> = {}
  OBVIOUS
<1>2. Shape(<<>>)
  BY <1>1 DEF Shape
<1>3. <<>> = [p \in DOMAIN <<>> |-> <<>>[p]]
  BY <1>1
<1>4. Ordered(<<>>)
  BY <1>1, <1>2, <1>3 DEF Ordered
<1> QED
  BY <1>1, <1>4 DEF FindNode

-----------------------------------------------------------------------------
(***************************************************************************)
(* What the lines of a log give to the keys.                               *)
(***************************************************************************)
Gives(line, s, k) == line.kind = "value" /\ line.section = s /\ line.key = k

Displaces(line, s, k) ==
    \/ line.kind = "section" /\ IsPrefix(line.section, s)
    \/ line.kind = "value" /\ line.section = s /\ IsStrictPrefix(line.key, k)

\* The line i gave the key its last value, ...
LastGiven(lg, s, k, i) ==
    i \in DOMAIN lg /\ Gives(lg[i], s, k) /\ \A j \in DOMAIN lg : Gives(lg[j], s, k) => j <= i

\* ... and a line after i displaced the key.
DisplacedIn(lg, s, k, i) == \E j \in DOMAIN lg : i < j /\ Displaces(lg[j], s, k)

\* The values found for a key: none or one.
Content(cfg, s, k) == UNION {FindNode(tree, k) : tree \in FindNode(cfg, s)}

\* The configuration has for the key what the lines give it.
Reads(cfg, lg, s, k) ==
    \/ Content(cfg, s, k) = {} /\ \A i \in DOMAIN lg : LastGiven(lg, s, k, i) => DisplacedIn(lg, s, k, i)
    \/ \E i \in DOMAIN lg : LastGiven(lg, s, k, i) /\ Content(cfg, s, k) = {lg[i].value}

\* A tree of keys, and the tree of sections.
KeyTree(t) ==
    Ordered(t) /\ \A p \in DOMAIN t : t[p].key \in Key /\ t[p].data \in Value

SectionTree(cfg) ==
    Ordered(cfg) /\ \A p \in DOMAIN cfg : cfg[p].key \in Section /\ KeyTree(cfg[p].data)

\* What a line adds to a log.
Adds(lg, line, more, s, k) ==
    /\ \A i \in DOMAIN lg : i \in DOMAIN more /\ more[i] = lg[i]
    /\ DOMAIN more \subseteq Nat
    /\ \A i \in DOMAIN lg : DisplacedIn(lg, s, k, i) => DisplacedIn(more, s, k, i)
    /\ Displaces(line, s, k) => \A i \in DOMAIN lg : DisplacedIn(more, s, k, i)
    /\ ~Gives(line, s, k) =>
         \A i : (i \in DOMAIN lg /\ LastGiven(lg, s, k, i)) <=> (i \in DOMAIN more /\ LastGiven(more, s, k, i))
    /\ Gives(line, s, k) =>
         \E i \in DOMAIN more : LastGiven(more, s, k, i) /\ more[i] = line

\* A line that is appended adds that.
LEMMA OneMoreLine ==
    ASSUME NEW S, NEW lg \in Seq(S), NEW line \in S, NEW more, more = Append(lg, line), NEW s, NEW k
    PROVE  Adds(lg, line, more, s, k)
<1> DEFINE n == Len(lg)
<1>1. /\ n \in Nat /\ DOMAIN lg = 1..n /\ DOMAIN more = 1..(n + 1)
      /\ more[n + 1] = line /\ \A i \in 1..n : more[i] = lg[i]
  OBVIOUS
<1> HIDE DEF n
<1>2. /\ \A i \in 1..n : i \in 1..(n + 1) /\ i < n + 1
      /\ n + 1 \in 1..(n + 1) /\ n + 1 \notin 1..n
      /\ \A i \in 1..(n + 1) : i \in 1..n \/ i = n + 1
      /\ \A i \in 1..(n + 1) : i <= n + 1
      /\ 1..(n + 1) \subseteq Nat
  BY <1>1
<1>3. \A i \in DOMAIN lg : DisplacedIn(lg, s, k, i) => DisplacedIn(more, s, k, i)
  BY <1>1, <1>2 DEF DisplacedIn
<1>4. Displaces(line, s, k) => \A i \in DOMAIN lg : DisplacedIn(more, s, k, i)
  BY <1>1, <1>2 DEF DisplacedIn
<1>5. ASSUME ~Gives(line, s, k), NEW i
      PROVE  (i \in DOMAIN lg /\ LastGiven(lg, s, k, i)) <=> (i \in DOMAIN more /\ LastGiven(more, s, k, i))
  BY <1>1, <1>2, <1>5 DEF LastGiven
<1>6. Gives(line, s, k) => LastGiven(more, s, k, n + 1)
  BY <1>1, <1>2 DEF LastGiven
<1> QED
  BY <1>1, <1>2, <1>3, <1>4, <1>5, <1>6 DEF Adds

\* The line gives the key no value, and hides it or leaves it alone.
Spares(line, s, k, cfg, u) ==
    /\ ~Gives(line, s, k)
    /\ \/ Content(u, s, k) = Content(cfg, s, k)
       \/ Content(u, s, k) = {} /\ Displaces(line, s, k)

\* A line that gives the key no value.
LEMMA OtherLine ==
    ASSUME NEW S, NEW lg \in Seq(S), NEW line \in S, NEW s, NEW k,
           NEW cfg, NEW u, Reads(cfg, lg, s, k), Spares(line, s, k, cfg, u)
    PROVE  Reads(u, Append(lg, line), s, k)
<1> DEFINE more == Append(lg, line)
<1>0. Adds(lg, line, more, s, k)
  BY OneMoreLine
<1>1. /\ \A i \in DOMAIN lg : i \in DOMAIN more /\ more[i] = lg[i]
      /\ \A i \in DOMAIN lg : DisplacedIn(lg, s, k, i) => DisplacedIn(more, s, k, i)
      /\ Displaces(line, s, k) => \A i \in DOMAIN lg : DisplacedIn(more, s, k, i)
      /\ \A i : (i \in DOMAIN lg /\ LastGiven(lg, s, k, i)) <=> (i \in DOMAIN more /\ LastGiven(more, s, k, i))
  BY <1>0 DEF Adds, Spares
<1> HIDE DEF more
<1>2. Reads(u, more, s, k)
  BY <1>1 DEF Reads, Spares
<1> QED
  BY <1>2 DEF more

\* Names are names.
LEMMA NamesFacts == Section \subseteq Names /\ Key \subseteq Names
BY ConfFileAssumption DEF Names

\* A new section is empty, and hides the one in whose place it is put.
LEMMA SectionLine ==
    ASSUME NEW cfg, SectionTree(cfg), NEW n \in Section, NEW line, line = [kind |-> "section", section |-> n],
           NEW u, u = ParseLine(cfg, line)
    PROVE  /\ SectionTree(u) /\ FindNode(u, n) # {}
           /\ \A lg \in Seq(Line), s \in Section, k \in Key :
                Reads(cfg, lg, s, k) => Reads(u, Append(lg, line), s, k)
<1>0. n \in Names /\ line \in Line /\ line.kind = "section" /\ line.section = n /\ Ordered(cfg)
  BY NamesFacts DEF Line, SectionTree
<1>1. u = InsertNode(cfg, n, <<>>)
  BY <1>0 DEF ParseLine, InsertSection
<1>2. /\ Ordered(u) /\ FindNode(u, n) = {<<>>}
      /\ \A x \in Names : \/ x = n \/ FindNode(u, x) = FindNode(cfg, x)
                          \/ FindNode(u, x) = {} /\ IsPrefix(n, x)
      /\ \A p \in DOMAIN u : \/ u[p].key = n /\ u[p].data = <<>>
                             \/ p \in DOMAIN cfg /\ u[p] = cfg[p]
  <2>1. Inserts(cfg, n, <<>>, u)
    BY <1>0, <1>1, InsertFacts
  <2> QED BY <2>1 DEF Inserts
<1>3. KeyTree(<<>>)
  BY EmptyFacts DEF KeyTree
<1>4. SectionTree(u)
  BY <1>2, <1>3 DEF SectionTree
<1>5. ASSUME NEW lg \in Seq(Line), NEW s \in Section, NEW k \in Key, Reads(cfg, lg, s, k)
      PROVE  Reads(u, Append(lg, line), s, k)
  <2>1. ~Gives(line, s, k)
    BY <1>0 DEF Gives
  <2>2. s \in Names /\ k \in Names
    BY NamesFacts
  <2>3. CASE s = n
    <3>1. Content(u, s, k) = {}
      BY <1>2, <2>2, <2>3, EmptyFacts DEF Content
    <3>2. IsPrefix(n, s)
      BY <2>2, <2>3, PrefixFacts DEF Names
    <3>3. Displaces(line, s, k)
      BY <1>0, <3>2 DEF Displaces
    <3>4. Spares(line, s, k, cfg, u)
      BY <2>1, <3>1, <3>3 DEF Spares
    <3> QED BY <1>0, <1>5, <3>4, OtherLine, Zenon
  <2>4. CASE s # n
    <3>1. \/ FindNode(u, s) = FindNode(cfg, s)
          \/ FindNode(u, s) = {} /\ Displaces(line, s, k)
      BY <1>0, <1>2, <2>2, <2>4 DEF Displaces
    <3>2. \/ Content(u, s, k) = Content(cfg, s, k)
          \/ Content(u, s, k) = {} /\ Displaces(line, s, k)
      BY <3>1 DEF Content
    <3>3. Spares(line, s, k, cfg, u)
      BY <2>1, <3>2 DEF Spares
    <3> QED BY <1>0, <1>5, <3>3, OtherLine, Zenon
  <2> QED BY <2>3, <2>4
<1> QED
  BY <1>2, <1>4, <1>5

\* A value is found from now on, and hides those whose keys begin with its key.
LEMMA ValueLine ==
    ASSUME NEW cfg, SectionTree(cfg), NEW n \in Section, NEW c \in Key, NEW v \in Value, NEW line,
           line = [kind |-> "value", section |-> n, key |-> c, value |-> v],
           FindNode(cfg, n) # {}, NEW u, u = ParseLine(cfg, line)
    PROVE  /\ SectionTree(u) /\ \A s \in Section : FindNode(cfg, s) # {} => FindNode(u, s) # {}
           /\ \A lg \in Seq(Line), s \in Section, k \in Key :
                Reads(cfg, lg, s, k) => Reads(u, Append(lg, line), s, k)
<1>0. /\ n \in Names /\ c \in Names /\ line \in Line /\ Ordered(cfg)
      /\ line.kind = "value" /\ line.section = n /\ line.key = c /\ line.value = v
  BY NamesFacts DEF Line, SectionTree
<1>1. PICK f : f = Found(cfg, n) /\ f \in DOMAIN cfg /\ cfg[f].key = n /\ FindNode(cfg, n) = {cfg[f].data}
  BY <1>0, FindFacts
<1>2. PICK t : t = cfg[f].data
  OBVIOUS
<1>3. PICK e : e = InsertNode(t, c, v)
  OBVIOUS
<1>4. u = [cfg EXCEPT ![Found(cfg, n)].data = e]
  BY <1>0, <1>1, <1>2, <1>3 DEF ParseLine, InsertSectionNode
<1>5. KeyTree(t) /\ Ordered(t)
  BY <1>1, <1>2 DEF SectionTree, KeyTree
<1>6. /\ Ordered(e) /\ FindNode(e, c) = {v}
      /\ \A x \in Names : \/ x = c \/ FindNode(e, x) = FindNode(t, x)
                          \/ FindNode(e, x) = {} /\ IsPrefix(c, x)
      /\ \A p \in DOMAIN e : \/ e[p].key = c /\ e[p].data = v
                             \/ p \in DOMAIN t /\ e[p] = t[p]
  <2>1. Inserts(t, c, v, e)
    BY <1>0, <1>3, <1>5, InsertFacts
  <2> QED BY <2>1 DEF Inserts
<1>7. /\ Ordered(u) /\ FindNode(u, n) = {e}
      /\ \A x \in Names : x # n => FindNode(u, x) = FindNode(cfg, x)
      /\ DOMAIN u = DOMAIN cfg
      /\ \A p \in DOMAIN u : u[p].key = cfg[p].key /\ (u[p].data = e \/ u[p] = cfg[p])
  <2>1. Changes(cfg, n, e, u)
    BY <1>0, <1>4, DataFacts
  <2> QED BY <2>1 DEF Changes
<1>8. KeyTree(e)
  BY <1>5, <1>6 DEF KeyTree
<1>9. SectionTree(u)
  BY <1>7, <1>8 DEF SectionTree
<1>10. ASSUME NEW lg \in Seq(Line), NEW s \in Section, NEW k \in Key, Reads(cfg, lg, s, k)
       PROVE  Reads(u, Append(lg, line), s, k)
  <2>1. s \in Names /\ k \in Names
    BY NamesFacts
  <2>2. CASE s # n
    <3>1. Content(u, s, k) = Content(cfg, s, k) /\ ~Gives(line, s, k)
      BY <1>0, <1>7, <2>1, <2>2 DEF Content, Gives
    <3>2. Spares(line, s, k, cfg, u)
      BY <3>1 DEF Spares
    <3> QED BY <1>0, <1>10, <3>2, OtherLine, Zenon
  <2>3. CASE s = n /\ k = c
    <3>1. Content(u, s, k) = {v} /\ Gives(line, s, k)
      BY <1>0, <1>6, <1>7, <2>3 DEF Content, Gives
    <3>2. PICK more : more = Append(lg, line)
      OBVIOUS
    <3>3. PICK i \in DOMAIN more : LastGiven(more, s, k, i) /\ more[i] = line
      <4>1. Adds(lg, line, more, s, k)
        BY <1>0, <3>2, OneMoreLine
      <4> QED BY <3>1, <4>1 DEF Adds
    <3> QED BY <1>0, <3>1, <3>2, <3>3 DEF Reads
  <2>4. CASE s = n /\ k # c
    <3>1. Content(u, s, k) = FindNode(e, k) /\ Content(cfg, s, k) = FindNode(t, k) /\ ~Gives(line, s, k)
      BY <1>0, <1>1, <1>2, <1>7, <2>4 DEF Content, Gives
    <3>2. \/ FindNode(e, k) = FindNode(t, k)
          \/ FindNode(e, k) = {} /\ Displaces(line, s, k)
      BY <1>0, <1>6, <2>1, <2>4 DEF Displaces, IsStrictPrefix
    <3>3. Spares(line, s, k, cfg, u)
      BY <3>1, <3>2 DEF Spares
    <3> QED BY <1>0, <1>10, <3>3, OtherLine, Zenon
  <2> QED BY <2>2, <2>3, <2>4
<1>11. \A s \in Section : FindNode(cfg, s) # {} => FindNode(u, s) # {}
  BY <1>7, NamesFacts
<1> QED
  BY <1>9, <1>10, <1>11

-----------------------------------------------------------------------------
(***************************************************************************)
(* The inductive invariant: the trees are ordered and have what the log    *)
(* gives, and the section of the parser is there.                          *)
(***************************************************************************)
ConfInv ==
    /\ SectionTree(config) /\ log \in Seq(Line) /\ current \in Section
    /\ parsing => FindNode(config, current) # {}
    /\ \A s \in Section, k \in Key : Reads(config, log, s, k)

\* Reads with the log of the module is what ReadsBack asks for.
LEMMA ReadsFacts ==
    ASSUME log \in Seq(Line), NEW s \in Section, NEW k \in Key, Reads(config, log, s, k),
           NEW i, i = LastValue(s, k), NEW v, v = GetString(config, s, k, NoValue)
    PROVE  \/ i > 0 /\ v = log[i].value
           \/ v = NoValue /\ (i = 0 \/ Displaced(s, k, i))
<1>1. DOMAIN log = 1..Len(log) /\ Len(log) \in Nat
  OBVIOUS
<1> DEFINE given == {j \in DOMAIN log : Gives(log[j], s, k)}
           all == given \cup {0}
<1>2. i = Max(all)
  BY DEF LastValue, Gives
<1>3. all \in SUBSET Nat /\ all # {} /\ \A j \in all : j <= Len(log)
  BY <1>1
<1>4. i \in all /\ \A j \in all : i >= j
  <2> HIDE DEF all
  <2>1. PICK m \in all : \A j \in all : j <= m
    BY <1>1, <1>3, GreatestNumber
  <2>2. \A j \in all : m >= j
    BY <1>3, <2>1
  <2> QED BY <1>2, <2>2, Zenon DEF Max
<1>5. i # 0 => LastGiven(log, s, k, i) /\ i \in DOMAIN log /\ i > 0
  BY <1>1, <1>3, <1>4 DEF LastGiven
<1>6. \A j \in DOMAIN log : LastGiven(log, s, k, j) => j = i
  BY <1>1, <1>3, <1>4 DEF LastGiven
<1>7. v = IF Content(config, s, k) = {} THEN NoValue ELSE CHOOSE x \in Content(config, s, k) : TRUE
  BY DEF GetString, Content
<1>8. CASE Content(config, s, k) = {} /\ \A j \in DOMAIN log : LastGiven(log, s, k, j) => DisplacedIn(log, s, k, j)
  <2>1. i # 0 => DisplacedIn(log, s, k, i) /\ i \in DOMAIN log
    BY <1>5, <1>8
  <2>2. ASSUME DisplacedIn(log, s, k, i), i \in DOMAIN log PROVE Displaced(s, k, i)
    <3>1. PICK j \in DOMAIN log : i < j /\ Displaces(log[j], s, k)
      BY <2>2 DEF DisplacedIn
    <3>2. j \in (i + 1)..Len(log)
      BY <1>1, <2>2, <3>1
    <3> QED BY <3>1, <3>2 DEF Displaces, Displaced
  <2> QED BY <1>7, <1>8, <2>1, <2>2
<1>9. ASSUME NEW j \in DOMAIN log, LastGiven(log, s, k, j), Content(config, s, k) = {log[j].value}
      PROVE  i > 0 /\ v = log[i].value
  <2>1. j = i /\ i > 0
    BY <1>1, <1>6, <1>9
  <2>2. v = log[j].value
    BY <1>7, <1>9
  <2> QED BY <2>1, <2>2
<1> QED
  BY <1>8, <1>9 DEF Reads

\* The invariant implies the property.
LEMMA ConfInvReadsBack == ConfInv => ReadsBack
BY ReadsFacts, Zenon DEF ConfInv, ReadsBack

\* The configuration with the default section only.
LEMMA NewConfigFacts ==
    /\ SectionTree(NewConfig) /\ FindNode(NewConfig, Default) # {}
    /\ \A s \in Section, k \in Key : Reads(NewConfig, <<>>, s, k)
<1>1. SectionTree(<<>>)
  BY EmptyFacts DEF SectionTree
<1>2. Default \in Section /\ Default \in Names /\ Ordered(<<>>) /\ NewConfig = InsertNode(<<>>, Default, <<>>)
  BY ConfFileAssumption, NamesFacts, EmptyFacts DEF NewConfig, InsertSection
<1>3. Inserts(<<>>, Default, <<>>, NewConfig)
  BY <1>2, InsertFacts
<1>4. /\ Ordered(NewConfig) /\ FindNode(NewConfig, Default) = {<<>>}
      /\ \A x \in Names : \/ x = Default \/ FindNode(NewConfig, x) = FindNode(<<>>, x)
                          \/ FindNode(NewConfig, x) = {}
      /\ \A p \in DOMAIN NewConfig : NewConfig[p].key = Default /\ NewConfig[p].data = <<>>
  BY <1>3, EmptyFacts DEF Inserts
<1>5. SectionTree(NewConfig)
  BY <1>2, <1>4, EmptyFacts DEF SectionTree, KeyTree
<1>6. ASSUME NEW s \in Section, NEW k \in Key PROVE Reads(NewConfig, <<>>, s, k)
  <2>1. s \in Names /\ k \in Names
    BY NamesFacts
  <2>2. FindNode(NewConfig, s) = {<<>>} \/ FindNode(NewConfig, s) = {}
    BY <1>4, <2>1, EmptyFacts
  <2>3. Content(NewConfig, s, k) = {}
    BY <2>1, <2>2, EmptyFacts DEF Content
  <2> QED BY <2>3, EmptyFacts DEF Reads
<1> QED
  BY <1>4, <1>5, <1>6

\* The invariant holds at first ...
LEMMA ConfInitInv == ConfInit => ConfInv
BY NewConfigFacts, ConfFileAssumption DEF ConfInit, ConfInv

\* ... and after every line and every value set.
LEMMA ConfNextInv == ConfInv /\ [ConfNext]_confVars => ConfInv'
<1> SUFFICES ASSUME ConfInv, [ConfNext]_confVars PROVE ConfInv'
  OBVIOUS
<1>0. /\ SectionTree(config) /\ log \in Seq(Line) /\ current \in Section
      /\ parsing => FindNode(config, current) # {}
      /\ \A s \in Section, k \in Key : Reads(config, log, s, k)
  BY DEF ConfInv
<1>1. ASSUME NEW n \in Section, OnSectionEnd(n) PROVE ConfInv'
  <2> DEFINE line == [kind |-> "section", section |-> n]
  <2>1. config' = ParseLine(config, line) /\ log' = Append(log, line) /\ current' = n /\ parsing' = parsing
    BY <1>1 DEF OnSectionEnd
  <2>2. line \in Line
    BY DEF Line
  <2> HIDE DEF line
  <2>4. /\ SectionTree(config') /\ FindNode(config', n) # {}
        /\ \A lg \in Seq(Line), s \in Section, k \in Key :
             Reads(config, lg, s, k) => Reads(config', Append(lg, line), s, k)
    BY <1>0, <2>1, SectionLine DEF line
  <2> QED BY <1>0, <2>1, <2>2, <2>4 DEF ConfInv
<1>2. ASSUME NEW c \in Key, NEW v \in Value, OnNewLine(c, v) PROVE ConfInv'
  <2> DEFINE line == [kind |-> "value", section |-> current, key |-> c, value |-> v]
  <2>1. /\ parsing /\ config' = ParseLine(config, line) /\ log' = Append(log, line)
        /\ current' = current /\ parsing' = parsing
    BY <1>2 DEF OnNewLine
  <2>2. line \in Line
    BY <1>0 DEF Line
  <2> HIDE DEF line
  <2>4. /\ SectionTree(config') /\ \A s \in Section : FindNode(config, s) # {} => FindNode(config', s) # {}
        /\ \A lg \in Seq(Line), s \in Section, k \in Key :
             Reads(config, lg, s, k) => Reads(config', Append(lg, line), s, k)
    BY <1>0, <2>1, ValueLine DEF line
  <2> QED BY <1>0, <2>1, <2>2, <2>4 DEF ConfInv
<1>3. CASE EndOfFile
  BY <1>0, <1>3 DEF EndOfFile, ConfInv
<1>4. ASSUME NEW n \in Section, NEW c \in Key, NEW v \in Value, SetString(n, c, v) PROVE ConfInv'
  <2> DEFINE head == [kind |-> "section", section |-> n]
             line == [kind |-> "value", section |-> n, key |-> c, value |-> v]
  <2>1. line \in Line /\ head \in Line
    BY DEF Line
  <2>2. CASE FindNode(config, n) # {}
    <3>1. /\ ~parsing /\ config' = ParseLine(config, line) /\ log' = Append(log, line)
          /\ current' = current /\ parsing' = parsing
      BY <1>4, <2>2 DEF SetString
    <3> HIDE DEF line
    <3>2. /\ SectionTree(config')
          /\ \A lg \in Seq(Line), s \in Section, k \in Key :
               Reads(config, lg, s, k) => Reads(config', Append(lg, line), s, k)
      BY <1>0, <2>2, <3>1, ValueLine DEF line
    <3> QED BY <1>0, <2>1, <3>1, <3>2 DEF ConfInv
  <2>3. CASE FindNode(config, n) = {}
    <3>1. /\ ~parsing /\ config' = ParseLine(InsertSection(config, n), line) /\ log' = log \o <<head, line>>
          /\ current' = current /\ parsing' = parsing
      BY <1>4, <2>3 DEF SetString
    <3>2. PICK mid : mid = ParseLine(config, head)
      OBVIOUS
    <3>3. mid = InsertSection(config, n)
      <4>1. head.kind = "section" /\ head.section = n
        OBVIOUS
      <4> HIDE DEF head
      <4> QED BY <3>2, <4>1 DEF ParseLine
    <3> HIDE DEF line, head
    <3>4. log' = Append(Append(log, head), line) /\ Append(log, head) \in Seq(Line)
      BY <1>0, <2>1, <3>1
    <3>5. /\ SectionTree(mid) /\ FindNode(mid, n) # {}
          /\ \A lg \in Seq(Line), s \in Section, k \in Key :
               Reads(config, lg, s, k) => Reads(mid, Append(lg, head), s, k)
      BY <1>0, <3>2, SectionLine DEF head
    <3>6. config' = ParseLine(mid, line)
      BY <3>1, <3>3
    <3>7. /\ SectionTree(config')
          /\ \A lg \in Seq(Line), s \in Section, k \in Key :
               Reads(mid, lg, s, k) => Reads(config', Append(lg, line), s, k)
      BY <3>5, <3>6, ValueLine DEF line
    <3>8. \A s \in Section, k \in Key : Reads(config', log', s, k)
      BY <1>0, <3>4, <3>5, <3>7
    <3>9. log' \in Seq(Line)
      BY <2>1, <3>4, AppendProperties, Zenon
    <3> QED BY <1>0, <3>1, <3>7, <3>8, <3>9, Zenon DEF ConfInv
  <2> QED BY <2>2, <2>3
<1>5. CASE UNCHANGED confVars
  BY <1>0, <1>5 DEF ConfInv, confVars
<1> QED
  BY <1>1, <1>2, <1>3, <1>4, <1>5 DEF ConfNext

\* For any names, values and files of any length, a get function returns the
\* last value given to exactly this key, or the default for keys that were
\* given none or were displaced (config_btree_insert_node,
\* config_btree_find_node, ini_config_set_string).
THEOREM ValuesReadBack == ConfInit /\ [][ConfNext]_confVars => []ReadsBack
<1>1. ConfInit /\ [][ConfNext]_confVars => []ConfInv
  BY ConfInitInv, ConfNextInv, PTL
<1> QED
  BY <1>1, ConfInvReadsBack, PTL

-----------------------------------------------------------------------------
(***************************************************************************)
(* The traversal.  Its function is determined from the leaves upwards.     *)
(***************************************************************************)

\* What the traversal of the subtree at p writes, if that of the subtrees of
\* its children is f.
VisitNode(t, written, f, p) ==
    IF p \in DOMAIN t
    THEN f[Append(p, "left")] \o written[p] \o f[Append(p, "right")]
    ELSE <<>>

IsVisit(t, written, f) == f = [p \in Slots(t) |-> VisitNode(t, written, f, p)]

\* f is right for the positions whose ways are longer than n - m.
VisitFrom(t, written, f, n, m) ==
    \A p \in Slots(t) : Len(p) + m > n => f[p] = VisitNode(t, written, f, p)

\* There is such a function.
LEMMA VisitExists ==
    ASSUME NEW t, Shape(t), NEW written
    PROVE  \E f : IsVisit(t, written, f)
<1>0. PICK n \in Nat : \A p \in Slots(t) : Len(p) <= n
  BY SlotFacts
<1>1. \A p \in Slots(t) : Len(p) \in Nat
  BY SlotFacts DEF Pos
<1>2. \A p \in DOMAIN t, w \in Way : Append(p, w) \in Slots(t) /\ Len(Append(p, w)) = Len(p) + 1
  <2>1. DOMAIN t \subseteq Pos /\ \A p \in DOMAIN t, w \in Way : Append(p, w) \in Slots(t)
    BY SlotFacts DEF Shape
  <2> QED BY <2>1, UnderAppend
<1> DEFINE Bad == {m \in Nat : ~\E f : VisitFrom(t, written, f, n, m)}
<1>3. 0 \notin Bad
  <2>1. \A p \in Slots(t) : ~(Len(p) + 0 > n)
    BY <1>0, <1>1
  <2>2. VisitFrom(t, written, <<>>, n, 0)
    BY <2>1 DEF VisitFrom
  <2> QED BY <2>2
<1>4. ASSUME NEW m \in Nat, NEW f, VisitFrom(t, written, f, n, m)
      PROVE  \E g : VisitFrom(t, written, g, n, m + 1) /\ g = [p \in Slots(t) |-> VisitNode(t, written, f, p)]
  <2> DEFINE g == [p \in Slots(t) |-> VisitNode(t, written, f, p)]
  <2>1. \A p \in Slots(t) : g[p] = VisitNode(t, written, f, p)
    OBVIOUS
  <2> HIDE DEF g
  <2>2. ASSUME NEW p \in Slots(t), Len(p) + (m + 1) > n PROVE g[p] = VisitNode(t, written, g, p)
    <3>1. CASE p \in DOMAIN t
      <4>1. ASSUME NEW w \in Way PROVE f[Append(p, w)] = g[Append(p, w)]
        <5>1. Append(p, w) \in Slots(t) /\ Len(Append(p, w)) = Len(p) + 1
          BY <1>2, <3>1
        <5>2. Len(Append(p, w)) + m > n
          BY <1>1, <2>2, <5>1
        <5>3. f[Append(p, w)] = VisitNode(t, written, f, Append(p, w))
          BY <1>4, <5>1, <5>2 DEF VisitFrom
        <5> QED BY <2>1, <5>1, <5>3
      <4>2. f[Append(p, "left")] = g[Append(p, "left")] /\ f[Append(p, "right")] = g[Append(p, "right")]
        BY <4>1 DEF Way
      <4> QED BY <2>1, <3>1, <4>2, Zenon DEF VisitNode
    <3>2. CASE p \notin DOMAIN t
      BY <2>1, <3>2 DEF VisitNode
    <3> QED BY <3>1, <3>2
  <2>3. VisitFrom(t, written, g, n, m + 1)
    BY <2>2 DEF VisitFrom
  <2> QED BY <2>3 DEF g
<1>5. Bad = {}
  <2>1. SUFFICES ASSUME Bad # {} PROVE FALSE
    OBVIOUS
  <2>2. Bad \in SUBSET Nat
    OBVIOUS
  <2>3. PICK b \in Bad : \A c \in Bad : b <= c
    <3> HIDE DEF Bad
    <3> QED BY <2>1, <2>2, LeastNumber
  <2>4. b # 0 /\ b \in Nat
    BY <1>3, <2>3
  <2>5. b - 1 \in Nat /\ (b - 1) + 1 = b /\ ~(b <= b - 1)
    BY <2>4
  <2>6. b - 1 \notin Bad
    BY <2>3, <2>5
  <2>7. PICK f : VisitFrom(t, written, f, n, b - 1)
    BY <2>5, <2>6
  <2>8. \E g : VisitFrom(t, written, g, n, (b - 1) + 1)
    BY <1>4, <2>5, <2>7
  <2> QED BY <2>3, <2>5, <2>8
<1>6. n + 1 \in Nat
  OBVIOUS
<1>7. PICK f : VisitFrom(t, written, f, n, n + 1)
  BY <1>5, <1>6
<1>8. PICK g : VisitFrom(t, written, g, n, (n + 1) + 1) /\ g = [p \in Slots(t) |-> VisitNode(t, written, f, p)]
  BY <1>4, <1>6, <1>7
<1>9. ASSUME NEW p \in Slots(t) PROVE g[p] = VisitNode(t, written, g, p)
  <2>1. Len(p) + ((n + 1) + 1) > n
    BY <1>1
  <2> QED BY <1>8, <2>1 DEF VisitFrom
<1>10. g = [p \in Slots(t) |-> g[p]]
  BY <1>8
<1>11. g = [p \in Slots(t) |-> VisitNode(t, written, g, p)]
  BY <1>9, <1>10
<1> QED
  BY <1>11 DEF IsVisit

\* The traversal starts at the root.
LEMMA TraverseVisit ==
    ASSUME NEW t, Shape(t), NEW written
    PROVE  \E f : IsVisit(t, written, f) /\ Traverse(t, written) = f[<<>>]
<1> DEFINE v == CHOOSE f : IsVisit(t, written, f)
<1>1. IsVisit(t, written, v)
  BY VisitExists, Zenon
<1>2. Traverse(t, written) = v[<<>>]
  BY Zenon DEF Traverse, IsVisit, VisitNode
<1> QED
  BY <1>1, <1>2

\* What IsVisit says of a position.
VisitAt(t, written, f, p) ==
    /\ p \notin DOMAIN t => f[p] = <<>>
    /\ p \in DOMAIN t => f[p] = f[Append(p, "left")] \o written[p] \o f[Append(p, "right")]

\* It says so of all positions.
LEMMA VisitStep ==
    ASSUME NEW t, NEW written, NEW f, IsVisit(t, written, f)
    PROVE  \A p \in Slots(t) : VisitAt(t, written, f, p)
<1>1. \A p \in Slots(t) : f[p] = VisitNode(t, written, f, p)
  BY DEF IsVisit
<1> QED
  BY <1>1 DEF VisitNode, VisitAt

\* r is p or under p.
Within(p, r) == r = p \/ \E w \in Way : Under(p, w, r)

\* The children of a node and what they are above.
LEMMA ChildFacts ==
    ASSUME NEW t, Shape(t), NEW p \in DOMAIN t, NEW w \in Way
    PROVE  /\ p \in Pos /\ Append(p, w) \in Slots(t) /\ Append(p, w) \in Pos
           /\ Len(Append(p, w)) = Len(p) + 1 /\ Len(p) \in Nat
           /\ \A r \in Pos : Within(Append(p, w), r) <=> Under(p, w, r)
<1>1. p \in Pos /\ p \in Seq(Way) /\ Len(p) \in Nat /\ Append(p, w) \in Slots(t)
  <2>1. p \in Pos
    BY DEF Shape
  <2>2. Append(p, w) \in Slots(t)
    BY SlotFacts
  <2> QED BY <2>1, <2>2 DEF Pos
<1>2. /\ Append(p, w) \in Pos /\ Len(Append(p, w)) = Len(p) + 1
      /\ Under(p, w, Append(p, w))
  BY <1>1, UnderAppend
<1> DEFINE a == Append(p, w)
<1>3. Len(a) = Len(p) + 1 /\ a[Len(p) + 1] = w /\ \A j \in 1..Len(p) : a[j] = p[j]
  BY <1>1
<1> HIDE DEF a
<1>4. ASSUME NEW r \in Pos, Within(a, r) PROVE Under(p, w, r)
  <2>1. CASE r = a
    BY <1>2, <2>1 DEF a
  <2>2. ASSUME NEW v \in Way, Under(a, v, r) PROVE Under(p, w, r)
    BY <1>1, <1>2, <2>2, UnderTransitive DEF a
  <2> QED BY <1>4, <2>1, <2>2 DEF Within
<1>5. ASSUME NEW r \in Pos, Under(p, w, r) PROVE Within(a, r)
  <2> DEFINE lp == Len(p)
             lr == Len(r)
  <2>1. /\ lp \in Nat /\ lr \in Nat /\ lp < lr /\ r[lp + 1] = w /\ \A j \in 1..lp : p[j] = r[j]
        /\ r \in Seq(Way) /\ a \in Seq(Way) /\ a \in Pos
    BY <1>1, <1>2, <1>5, UnderFacts DEF Pos, a
  <2>2. Len(a) = lp + 1 /\ a[lp + 1] = w /\ \A j \in 1..lp : a[j] = p[j]
    BY <1>3
  <2>3. lr = Len(r)
    OBVIOUS
  <2> HIDE DEF lp, lr
  <2>4. \A j \in 1..(lp + 1) : a[j] = r[j]
    <3>1. \A j \in 1..(lp + 1) : j \in 1..lp \/ j = lp + 1
      BY <2>1
    <3> QED BY <2>1, <2>2, <3>1
  <2>5. CASE lr = lp + 1
    <3>1. r = a
      BY <2>1, <2>2, <2>3, <2>4, <2>5, SeqEqual
    <3> QED BY <3>1 DEF Within
  <2>6. CASE lp + 1 < lr
    <3>1. Len(a) < Len(r) /\ \A j \in 1..Len(a) : a[j] = r[j]
      BY <2>2, <2>3, <2>4, <2>6
    <3>2. r[Len(a) + 1] \in Way
      <4>1. lp + 2 \in 1..lr /\ Len(a) + 1 = lp + 2
        BY <2>1, <2>2, <2>6
      <4>2. \A j \in 1..lr : r[j] \in Way
        BY <2>1, <2>3
      <4> QED BY <4>1, <4>2
    <3>3. Under(a, r[Len(a) + 1], r)
      BY <2>1, <3>1, UnderFacts
    <3> QED BY <3>2, <3>3 DEF Within
  <2> QED BY <2>1, <2>5, <2>6
<1> QED
  BY <1>1, <1>2, <1>4, <1>5 DEF a

\* What can be put together of members of C is in C.
Closed(C) == <<>> \in C /\ \A a \in C, b \in C : a \o b \in C

\* Sequences can.
LEMMA SeqClosed == \A S : Closed(Seq(S))
BY ConcatProperties DEF Closed

\* What the traversal of a subtree writes is put together of what is written
\* for its nodes.
LEMMA VisitIn ==
    ASSUME NEW t, Shape(t), NEW written, NEW f, IsVisit(t, written, f),
           NEW C, Closed(C), NEW p \in Slots(t),
           \A r \in DOMAIN t : Within(p, r) => written[r] \in C
    PROVE  f[p] \in C
<1> DEFINE Inside(q) == \A r \in DOMAIN t : Within(q, r) => written[r] \in C
           Bad == {q \in Slots(t) : Inside(q) /\ f[q] \notin C}
           L == {Len(q) : q \in Bad}
<1>0. Slots(t) \subseteq Pos /\ DOMAIN t \subseteq Pos
  BY SlotFacts DEF Shape
<1> SUFFICES ASSUME Bad # {} PROVE FALSE
  OBVIOUS
<1>1. \A q \in Bad : Len(q) \in Nat
  BY <1>0 DEF Pos
<1>2. L \in SUBSET Nat /\ L # {}
  BY <1>1
<1>3. PICK n \in Nat : \A l \in L : l <= n
  <2>1. PICK n \in Nat : \A q \in Slots(t) : Len(q) <= n
    BY SlotFacts
  <2> QED BY <2>1
<1>4. PICK l \in L : \A k \in L : k <= l
  <2> HIDE DEF L
  <2> QED BY <1>2, <1>3, GreatestNumber
<1>5. PICK q \in Bad : l = Len(q)
  BY <1>4
<1>6. q \in DOMAIN t
  <2>1. q \in Slots(t) /\ f[q] \notin C
    BY <1>5
  <2>2. VisitAt(t, written, f, q)
    BY <2>1, VisitStep
  <2> QED BY <2>1, <2>2 DEF VisitAt, Closed
<1>7. ASSUME NEW w \in Way PROVE f[Append(q, w)] \in C
  <2> DEFINE a == Append(q, w)
  <2>1. a \in Slots(t) /\ Len(a) = Len(q) + 1 /\ Len(q) \in Nat /\ \A r \in Pos : Within(a, r) <=> Under(q, w, r)
    BY <1>6, ChildFacts, Zenon
  <2> HIDE DEF a
  <2>2. Inside(a)
    <3>1. \A r \in DOMAIN t : Within(a, r) => Within(q, r)
      BY <1>0, <2>1 DEF Within
    <3> QED BY <1>5, <3>1
  <2>3. a \notin Bad
    <3>1. ASSUME a \in Bad PROVE FALSE
      <4>1. Len(a) \in L
        BY <3>1
      <4>2. Len(a) <= Len(q)
        BY <1>4, <1>5, <4>1
      <4> QED BY <2>1, <4>2
    <3> QED BY <3>1
  <2>4. f[a] \in C
    BY <2>1, <2>2, <2>3
  <2> QED BY <2>4 DEF a
<1>8. written[q] \in C
  BY <1>5, <1>6 DEF Within
<1>9. f[Append(q, "left")] \in C /\ f[Append(q, "right")] \in C
  BY <1>7 DEF Way
<1>10. f[q] = f[Append(q, "left")] \o written[q] \o f[Append(q, "right")]
  <2>1. q \in Slots(t)
    BY <1>5
  <2>2. VisitAt(t, written, f, q)
    BY <2>1, VisitStep
  <2> QED BY <1>6, <2>2 DEF VisitAt
<1>11. f[q] \in C
  BY <1>8, <1>9, <1>10 DEF Closed
<1> QED
  BY <1>5, <1>11

\* The traversal visits r after q.
After(q, r) ==
    \/ Under(q, "right", r) \/ Under(r, "left", q)
    \/ \E c \in Pos : Under(c, "left", q) /\ Under(c, "right", r)

\* A key that is found is less than all that are visited after it.
LEMMA AfterGreater ==
    ASSUME NEW t, Ordered(t), NEW x \in Names, NEW q \in DOMAIN t, q = Found(t, x),
           NEW r \in DOMAIN t, After(q, r)
    PROVE  Less(x, t[r].key)
<1>0. /\ DOMAIN t \subseteq Pos /\ \A p \in DOMAIN t : t[p].key \in Names
      /\ \A p \in DOMAIN t, c \in Pos, w \in Way : Under(c, w, p) => c \in DOMAIN t
      /\ \A p \in DOMAIN t, s \in DOMAIN t : Under(p, "right", s) => Less(t[p].key, t[s].key)
      /\ "left" \in Way /\ "right" \in Way
  BY DEF Ordered, Shape, Way
<1>1. t[q].key = x /\ \A p \in DOMAIN t, w \in Way : Under(p, w, q) => StrCmp(x, t[p].key) = w
  BY FoundFacts DEF Leads
<1>2. \A p \in DOMAIN t : Under(p, "left", q) => Less(x, t[p].key)
  BY <1>0, <1>1, StrCmpFacts
<1>3. CASE Under(q, "right", r)
  BY <1>0, <1>1, <1>3
<1>4. CASE Under(r, "left", q)
  BY <1>2, <1>4
<1>5. ASSUME NEW c \in Pos, Under(c, "left", q), Under(c, "right", r) PROVE Less(x, t[r].key)
  <2>1. c \in DOMAIN t
    BY <1>0, <1>5
  <2>2. Less(x, t[c].key) /\ Less(t[c].key, t[r].key)
    BY <1>0, <1>2, <1>5, <2>1
  <2> QED BY <1>0, <2>1, <2>2, LessTransitive
<1> QED
  BY <1>3, <1>4, <1>5 DEF After

\* seq is put together of lines before, the lines mid, and lines of G after.
Splits(seq, S, mid, G) == \E a \in Seq(S), b \in Seq(G) : seq = (a \o mid) \o b

\* More before or after such a sequence.
LEMMA SplitMore ==
    ASSUME NEW S, NEW G \in SUBSET S, NEW mid \in Seq(S), NEW seq, Splits(seq, S, mid, G)
    PROVE  /\ \A x \in Seq(S) : Splits(x \o seq, S, mid, G)
           /\ \A y \in Seq(G) : Splits(seq \o y, S, mid, G)
<1>1. \A u \in Seq(S), v \in Seq(S), w \in Seq(S) : (u \o v) \o w = u \o (v \o w)
  BY ConcatAssociative
<1>2. PICK a \in Seq(S), b \in Seq(G) : seq = (a \o mid) \o b
  BY DEF Splits
<1>3. PICK m \in Seq(S) : m = a \o mid
  BY ConcatProperties
<1>4. b \in Seq(S) /\ seq = m \o b
  BY <1>2, <1>3
<1>5. ASSUME NEW x \in Seq(S) PROVE Splits(x \o seq, S, mid, G)
  <2>1. (x \o m) \o b = x \o (m \o b)
    BY <1>4, <1>1, Zenon
  <2>2. (x \o a) \o mid = x \o (a \o mid)
    BY <1>1, Zenon
  <2>3. x \o a \in Seq(S)
    BY ConcatProperties
  <2> QED BY <1>4, <1>3, <2>1, <2>2, <2>3, Zenon DEF Splits
<1>6. ASSUME NEW y \in Seq(G) PROVE Splits(seq \o y, S, mid, G)
  <2>1. y \in Seq(S) /\ b \o y \in Seq(G)
    BY ConcatProperties
  <2>2. (m \o b) \o y = m \o (b \o y)
    BY <1>4, <1>1, <2>1, Zenon
  <2> QED BY <1>4, <1>3, <2>1, <2>2, Zenon DEF Splits
<1> QED
  BY <1>5, <1>6

\* The traversal writes the lines for q, and then only lines for nodes that it
\* visits after q.
LEMMA TraverseSplits ==
    ASSUME NEW t, Shape(t), NEW S, NEW written \in [DOMAIN t -> Seq(S)], NEW q \in DOMAIN t,
           NEW G \in SUBSET S, \A r \in DOMAIN t : After(q, r) => written[r] \in Seq(G)
    PROVE  Splits(Traverse(t, written), S, written[q], G)
<1>1. PICK f : IsVisit(t, written, f) /\ Traverse(t, written) = f[<<>>]
  BY TraverseVisit
<1>2. /\ Slots(t) \subseteq Pos /\ DOMAIN t \subseteq Pos /\ DOMAIN t \subseteq Slots(t) /\ <<>> \in Slots(t)
      /\ \A r \in Slots(t), c \in Pos, w \in Way : Under(c, w, r) => c \in DOMAIN t
  BY SlotFacts DEF Shape
<1>3. ASSUME NEW p \in Slots(t) PROVE f[p] \in Seq(S)
  <2>1. Closed(Seq(S))
    BY SeqClosed
  <2>2. \A r \in DOMAIN t : written[r] \in Seq(S)
    OBVIOUS
  <2> QED BY <1>1, <2>1, <2>2, VisitIn, Zenon
<1>4. ASSUME NEW p \in Slots(t), \A r \in DOMAIN t : Within(p, r) => After(q, r)
      PROVE  f[p] \in Seq(G)
  <2>1. Closed(Seq(G))
    BY SeqClosed
  <2>2. \A r \in DOMAIN t : Within(p, r) => written[r] \in Seq(G)
    BY <1>4
  <2> QED BY <1>1, <2>1, <2>2, VisitIn, Zenon
<1>5. \A p \in DOMAIN t : /\ f[p] = f[Append(p, "left")] \o written[p] \o f[Append(p, "right")]
                          /\ f[Append(p, "left")] \in Seq(S) /\ f[Append(p, "right")] \in Seq(S)
                          /\ Append(p, "left") \in Slots(t) /\ Append(p, "right") \in Slots(t)
  <2>1. ASSUME NEW p \in DOMAIN t
        PROVE  f[p] = f[Append(p, "left")] \o written[p] \o f[Append(p, "right")]
    <3>1. VisitAt(t, written, f, p)
      BY <1>1, <1>2, VisitStep
    <3> QED BY <3>1 DEF VisitAt
  <2>2. \A p \in DOMAIN t, w \in Way : Append(p, w) \in Slots(t)
    BY ChildFacts
  <2> QED BY <1>3, <2>1, <2>2 DEF Way
<1>6. \A p \in DOMAIN t, w \in Way, r \in Pos : Within(Append(p, w), r) <=> Under(p, w, r)
  BY ChildFacts
<1>7. Splits(f[q], S, written[q], G)
  <2> DEFINE a == f[Append(q, "left")]
             b == f[Append(q, "right")]
  <2>1. b \in Seq(G)
    <3>1. \A r \in DOMAIN t : Within(Append(q, "right"), r) => After(q, r)
      BY <1>2, <1>6 DEF After, Way
    <3> QED BY <1>4, <1>5, <3>1
  <2>2. a \in Seq(S) /\ f[q] = a \o written[q] \o b
    BY <1>5
  <2> HIDE DEF a, b
  <2> QED BY <2>1, <2>2 DEF Splits
<1>8. ASSUME NEW p \in DOMAIN t, NEW w \in Way, Under(p, w, q), Splits(f[Append(p, w)], S, written[q], G)
      PROVE  Splits(f[p], S, written[q], G)
  <2> DEFINE a == f[Append(p, "left")]
             b == f[Append(p, "right")]
  <2>1. /\ f[p] = (a \o written[p]) \o b /\ a \in Seq(S) /\ b \in Seq(S)
        /\ written[p] \in Seq(S) /\ written[q] \in Seq(S)
    BY <1>5
  <2>2. CASE w = "left"
    <3>1. Splits(a, S, written[q], G)
      BY <1>8, <2>2
    <3>2. written[p] \in Seq(G)
      BY <1>8, <2>2 DEF After
    <3>3. b \in Seq(G)
      <4>1. \A r \in DOMAIN t : Within(Append(p, "right"), r) => After(q, r)
        BY <1>2, <1>6, <1>8, <2>2 DEF After, Way
      <4> QED BY <1>4, <1>5, <4>1
    <3> HIDE DEF a, b
    <3>4. Splits(a \o written[p], S, written[q], G)
      BY <2>1, <3>1, <3>2, SplitMore
    <3> QED BY <2>1, <3>3, <3>4, SplitMore
  <2>3. CASE w = "right"
    <3>1. Splits(b, S, written[q], G)
      BY <1>8, <2>3
    <3> HIDE DEF a, b
    <3>2. a \o written[p] \in Seq(S)
      BY <2>1, ConcatProperties
    <3> QED BY <2>1, <3>1, <3>2, SplitMore
  <2> QED BY <2>2, <2>3 DEF Way
<1> DEFINE Bad == {p \in DOMAIN t : Within(p, q) /\ ~Splits(f[p], S, written[q], G)}
           L == {Len(p) : p \in Bad}
<1>9. Bad = {}
  <2> SUFFICES ASSUME Bad # {} PROVE FALSE
    OBVIOUS
  <2>1. \A p \in Bad : Len(p) \in Nat
    BY <1>2 DEF Pos
  <2>2. L \in SUBSET Nat /\ L # {}
    BY <2>1
  <2>3. PICK n \in Nat : \A l \in L : l <= n
    <3>1. PICK n \in Nat : \A p \in DOMAIN t : Len(p) <= n
      BY DEF Shape
    <3> QED BY <3>1
  <2>4. PICK l \in L : \A k \in L : k <= l
    <3> HIDE DEF L
    <3> QED BY <2>2, <2>3, GreatestNumber
  <2>5. PICK p \in Bad : l = Len(p)
    BY <2>4
  <2>6. PICK w \in Way : Under(p, w, q)
    BY <1>7, <2>5 DEF Within
  <2>7. ~Splits(f[Append(p, w)], S, written[q], G)
    BY <1>8, <2>5, <2>6
  <2> DEFINE a == Append(p, w)
  <2>8. a \in Slots(t) /\ a \in Pos /\ Len(a) = Len(p) + 1 /\ Len(p) \in Nat /\ Within(a, q)
    <3>1. a \in Slots(t) /\ a \in Pos /\ Len(a) = Len(p) + 1 /\ Len(p) \in Nat
      BY ChildFacts, Zenon
    <3>2. Within(a, q)
      BY <1>2, <1>6, <2>6
    <3> QED BY <3>1, <3>2
  <2> HIDE DEF a
  <2>9. a \in DOMAIN t
    BY <1>2, <2>8 DEF Within
  <2>10. a \in Bad
    BY <2>7, <2>8, <2>9 DEF a
  <2>11. Len(a) \in L
    BY <2>10
  <2>12. Len(a) <= Len(p)
    BY <2>4, <2>5, <2>11
  <2> QED BY <2>8, <2>12
<1>10. <<>> \in DOMAIN t /\ Within(<<>>, q)
  <2>1. \A p \in Pos, w \in Way : ~Under(p, w, <<>>)
    BY UnderRoot
  <2>2. Within(<<>>, q)
    <3>1. q \in Pos /\ <<>> \in Pos
      BY <1>2
    <3> QED BY <2>1, <3>1, UnderSplit DEF Within
  <2> QED BY <1>2, <2>2 DEF Within
<1> QED
  BY <1>1, <1>9, <1>10

-----------------------------------------------------------------------------
(***************************************************************************)
(* Reading a file.                                                         *)
(***************************************************************************)
ParsedStep(lines, f, n) == IF n = 0 THEN NewConfig ELSE ParseLine(f[n - 1], lines[n])

IsParsed(lines, f) == f = [n \in 0..Len(lines) |-> ParsedStep(lines, f, n)]

\* The configurations after the first lines exist.
LEMMA ParsedExists ==
    ASSUME NEW lines, Len(lines) \in Nat
    PROVE  \E f : IsParsed(lines, f)
<1> DEFINE N == Len(lines)
           Upto(f, m) == \A n \in 0..N : n < m => f[n] = ParsedStep(lines, f, n)
           Bad == {m \in Nat : ~\E f : Upto(f, m)}
<1>0. N \in Nat /\ N = Len(lines)
  OBVIOUS
<1> HIDE DEF N
<1>1. 0 \notin Bad
  <2>1. Upto(<<>>, 0)
    BY <1>0
  <2> QED BY <2>1
<1>2. ASSUME NEW m \in Nat, NEW f, Upto(f, m)
      PROVE  \E g : Upto(g, m + 1) /\ g = [n \in 0..N |-> ParsedStep(lines, f, n)]
  <2> DEFINE g == [n \in 0..N |-> ParsedStep(lines, f, n)]
  <2>1. \A n \in 0..N : g[n] = ParsedStep(lines, f, n)
    OBVIOUS
  <2> HIDE DEF g
  <2>2. ASSUME NEW n \in 0..N, n < m + 1 PROVE g[n] = ParsedStep(lines, g, n)
    <3>1. CASE n = 0
      BY <2>1, <3>1 DEF ParsedStep
    <3>2. CASE n # 0
      <4>1. n - 1 \in 0..N /\ n - 1 < m
        BY <1>0, <2>2, <3>2
      <4>2. f[n - 1] = g[n - 1]
        BY <1>2, <2>1, <4>1
      <4> QED BY <2>1, <3>2, <4>2 DEF ParsedStep
    <3> QED BY <3>1, <3>2
  <2>3. Upto(g, m + 1)
    BY <2>2
  <2> HIDE DEF Upto
  <2> QED BY <2>3 DEF g
<1> HIDE DEF Upto
<1>3. Bad = {}
  <2>1. SUFFICES ASSUME Bad # {} PROVE FALSE
    OBVIOUS
  <2>2. Bad \in SUBSET Nat
    OBVIOUS
  <2>3. PICK b \in Bad : \A c \in Bad : b <= c
    <3> HIDE DEF Bad
    <3> QED BY <2>1, <2>2, LeastNumber
  <2>4. b # 0 /\ b \in Nat
    BY <1>1, <2>3
  <2>5. b - 1 \in Nat /\ (b - 1) + 1 = b /\ ~(b <= b - 1)
    BY <2>4
  <2>6. b - 1 \notin Bad
    BY <2>3, <2>5
  <2>7. PICK f : Upto(f, b - 1)
    BY <2>5, <2>6
  <2>8. \E g : Upto(g, (b - 1) + 1)
    BY <1>2, <2>5, <2>7
  <2> QED BY <2>3, <2>5, <2>8
<1>4. N + 1 \in Nat
  BY <1>0
<1>5. PICK f : Upto(f, N + 1)
  BY <1>3, <1>4
<1>6. PICK g : Upto(g, (N + 1) + 1) /\ g = [n \in 0..N |-> ParsedStep(lines, f, n)]
  BY <1>2, <1>4, <1>5
<1>7. \A n \in 0..N : g[n] = ParsedStep(lines, g, n)
  <2>1. \A n \in 0..N : n < (N + 1) + 1
    BY <1>0
  <2> QED BY <1>6, <2>1 DEF Upto
<1>8. g = [n \in 0..N |-> g[n]]
  BY <1>6
<1>9. g = [n \in 0..N |-> ParsedStep(lines, g, n)]
  BY <1>7, <1>8
<1> QED
  BY <1>0, <1>9 DEF IsParsed

\* Files that ini_config_save writes: every value follows its section or
\* another value of it.
Files ==
    {lines \in Seq(Line) : \A j \in DOMAIN lines :
        lines[j].kind = "value" =>
            j - 1 \in DOMAIN lines /\ lines[j - 1].section = lines[j].section}

\* The two kinds of lines.
LEMMA LineFacts ==
    ASSUME NEW line \in Line
    PROVE  /\ line.section \in Section
           /\ \/ line.kind = "section" /\ line = [kind |-> "section", section |-> line.section]
              \/ /\ line.kind = "value" /\ line.key \in Key /\ line.value \in Value
                 /\ line = [kind |-> "value", section |-> line.section, key |-> line.key, value |-> line.value]
BY DEF Line

\* The file is read as its lines say: none of its values is without a section.
LEMMA ReadFile ==
    ASSUME NEW lines \in Files
    PROVE  \A s \in Section, k \in Key : Reads(CreateFromString(lines), lines, s, k)
<1>0. /\ lines \in Seq(Line) /\ Len(lines) \in Nat
      /\ \A j \in 1..Len(lines) :
            lines[j].kind = "value" =>
                j - 1 \in 1..Len(lines) /\ lines[j - 1].section = lines[j].section
  BY DEF Files
<1>1. PICK f : IsParsed(lines, f) /\ CreateFromString(lines) = f[Len(lines)]
  <2> DEFINE v == CHOOSE f : IsParsed(lines, f)
  <2>1. IsParsed(lines, v)
    BY <1>0, ParsedExists, Zenon
  <2>2. CreateFromString(lines) = v[Len(lines)]
    BY Zenon DEF CreateFromString, IsParsed, ParsedStep
  <2> QED BY <2>1, <2>2
<1>2. \A n \in 0..Len(lines) : f[n] = ParsedStep(lines, f, n)
  BY <1>1 DEF IsParsed
<1> DEFINE first(n) == SubSeq(lines, 1, n)
           Good(n) == /\ SectionTree(f[n]) /\ (n > 0 => FindNode(f[n], lines[n].section) # {})
                      /\ \A s \in Section, k \in Key : Reads(f[n], first(n), s, k)
           Bad == {n \in 0..Len(lines) : ~Good(n)}
<1>3. ASSUME NEW n \in 0..Len(lines) PROVE first(n) \in Seq(Line) /\ Len(first(n)) = n /\ \A j \in 1..n : first(n)[j] = lines[j]
  <2>1. n \in Nat /\ n <= Len(lines) /\ \A j \in 1..n : lines[j] \in Line
    BY <1>0
  <2> QED BY <2>1, SubSeqProperties
<1>4. Good(0)
  <2>1. f[0] = NewConfig /\ 0 \in 0..Len(lines)
    BY <1>0, <1>2 DEF ParsedStep
  <2>2. first(0) = <<>>
    BY <1>0, <1>3, <2>1
  <2> HIDE DEF first
  <2> QED BY <2>1, <2>2, NewConfigFacts
<1>5. ASSUME NEW n \in 0..Len(lines), n # 0, Good(n - 1) PROVE Good(n)
  <2>1. n - 1 \in 0..Len(lines) /\ n \in 1..Len(lines) /\ n \in Nat /\ n > 0
    BY <1>0, <1>5
  <2> DEFINE line == lines[n]
             cfg == f[n - 1]
             u == f[n]
             lg == first(n - 1)
  <2>2. u = ParseLine(cfg, line) /\ line \in Line
    BY <1>0, <1>2, <1>5, <2>1 DEF ParsedStep
  <2>3. lg \in Seq(Line) /\ first(n) = Append(lg, line)
    <3> DEFINE more == Append(lg, line)
    <3>1. lg \in Seq(Line) /\ Len(lg) = n - 1 /\ \A j \in 1..(n - 1) : lg[j] = lines[j]
      BY <1>3, <2>1
    <3>2. first(n) \in Seq(Line) /\ Len(first(n)) = n /\ \A j \in 1..n : first(n)[j] = lines[j]
      BY <1>3
    <3> HIDE DEF lg, first
    <3>3. more \in Seq(Line) /\ Len(more) = n /\ more[n] = line /\ \A j \in 1..(n - 1) : more[j] = lg[j]
      BY <2>1, <2>2, <3>1
    <3> HIDE DEF more
    <3>4. \A j \in 1..n : first(n)[j] = more[j]
      BY <2>1, <3>1, <3>2, <3>3
    <3>5. first(n) = more
      BY <3>2, <3>3, <3>4, SeqEqual
    <3> QED BY <3>1, <3>5 DEF more
  <2>4. /\ SectionTree(cfg) /\ (n - 1 > 0 => FindNode(cfg, lines[n - 1].section) # {})
        /\ \A s \in Section, k \in Key : Reads(cfg, lg, s, k)
    BY <1>5
  <2>5. /\ line.section \in Section
        /\ \/ line.kind = "section" /\ line = [kind |-> "section", section |-> line.section]
           \/ /\ line.kind = "value" /\ line.key \in Key /\ line.value \in Value
              /\ line = [kind |-> "value", section |-> line.section, key |-> line.key, value |-> line.value]
    BY <2>2, LineFacts, Zenon
  <2>6. line.kind = "value" => n - 1 > 0 /\ lines[n - 1].section = line.section
    BY <1>0, <2>1
  <2> HIDE DEF line, cfg, u, lg, first
  <2>7. /\ SectionTree(u) /\ FindNode(u, line.section) # {}
        /\ \A l \in Seq(Line), s \in Section, k \in Key : Reads(cfg, l, s, k) => Reads(u, Append(l, line), s, k)
    <3>1. CASE line.kind = "section"
      <4>1. line = [kind |-> "section", section |-> line.section]
        BY <2>5, <3>1
      <4> QED BY <2>2, <2>4, <2>5, <4>1, SectionLine, Zenon
    <3>2. CASE line.kind = "value"
      <4>1. /\ line.key \in Key /\ line.value \in Value /\ FindNode(cfg, line.section) # {}
            /\ line = [kind |-> "value", section |-> line.section, key |-> line.key, value |-> line.value]
        BY <2>4, <2>5, <2>6, <3>2
      <4>2. /\ SectionTree(u) /\ \A s \in Section : FindNode(cfg, s) # {} => FindNode(u, s) # {}
            /\ \A l \in Seq(Line), s \in Section, k \in Key : Reads(cfg, l, s, k) => Reads(u, Append(l, line), s, k)
        <5>1. PICK h \in Section, c \in Key, v \in Value :
                 h = line.section /\ line = [kind |-> "value", section |-> h, key |-> c, value |-> v]
          BY <2>5, <4>1
        <5>2. FindNode(cfg, h) # {}
          BY <4>1, <5>1
        <5> QED BY <2>2, <2>4, <5>1, <5>2, ValueLine
      <4> QED BY <2>5, <4>1, <4>2, Zenon
    <3> QED BY <2>5, <3>1, <3>2
  <2>8. SectionTree(u) /\ FindNode(u, line.section) # {} /\ \A s \in Section, k \in Key : Reads(u, first(n), s, k)
    BY <2>3, <2>4, <2>7
  <2> QED BY <2>8 DEF u, line
<1> HIDE DEF Good
<1>6. Bad = {}
  <2>1. SUFFICES ASSUME Bad # {} PROVE FALSE
    OBVIOUS
  <2>2. Bad \in SUBSET Nat
    BY <1>0
  <2>3. PICK b \in Bad : \A c \in Bad : b <= c
    <3> HIDE DEF Bad
    <3> QED BY <2>1, <2>2, LeastNumber
  <2>4. b # 0 /\ b \in 0..Len(lines)
    BY <1>4, <2>3
  <2>5. b - 1 \in 0..Len(lines) /\ ~(b <= b - 1)
    BY <1>0, <2>4
  <2>6. Good(b - 1)
    BY <2>3, <2>5
  <2> QED BY <1>5, <2>3, <2>4, <2>6
<1>7. Len(lines) \in 0..Len(lines)
  BY <1>0
<1>8. Good(Len(lines))
  BY <1>6, <1>7
<1>9. first(Len(lines)) = lines
  BY <1>0, <1>3, <1>7, SeqEqual
<1> HIDE DEF first
<1> QED
  BY <1>1, <1>8, <1>9 DEF Good

-----------------------------------------------------------------------------
(***************************************************************************)
(* Saving and reading again.  A key that is found is saved after the       *)
(* hidden nodes with the same key, and only greater keys after it: none of *)
(* them is a beginning of it, so none displaces it.                        *)
(***************************************************************************)

\* What a whole traversal writes is put together of what it writes for nodes.
LEMMA TraverseIn ==
    ASSUME NEW t, Shape(t), NEW C, Closed(C), NEW written, \A r \in DOMAIN t : written[r] \in C
    PROVE  Traverse(t, written) \in C
<1>1. PICK f : IsVisit(t, written, f) /\ Traverse(t, written) = f[<<>>]
  BY TraverseVisit
<1>2. <<>> \in Slots(t)
  BY SlotFacts
<1>3. f[<<>>] \in C
  BY <1>1, <1>2, VisitIn, Zenon
<1> QED
  BY <1>1, <1>3

\* Files can be put together.
LEMMA FilesClosed == Closed(Files)
<1>1. <<>> \in Files
  BY DEF Files
<1>2. ASSUME NEW a \in Files, NEW b \in Files PROVE a \o b \in Files
  <2> DEFINE la == Len(a)
             lb == Len(b)
             c == a \o b
  <2>1. /\ la \in Nat /\ lb \in Nat /\ DOMAIN c = 1..(la + lb) /\ c \in Seq(Line)
        /\ \A i \in 1..la : c[i] = a[i]
        /\ \A i \in 1..lb : c[la + i] = b[i]
        /\ \A i \in 1..la : a[i].kind = "value" => i - 1 \in 1..la /\ a[i - 1].section = a[i].section
        /\ \A i \in 1..lb : b[i].kind = "value" => i - 1 \in 1..lb /\ b[i - 1].section = b[i].section
    BY DEF Files
  <2> HIDE DEF la, lb, c
  <2>2. ASSUME NEW j \in 1..(la + lb), c[j].kind = "value"
        PROVE  j - 1 \in 1..(la + lb) /\ c[j - 1].section = c[j].section
    <3>1. CASE j \in 1..la
      <4>1. j - 1 \in 1..la /\ a[j - 1].section = a[j].section
        BY <2>1, <2>2, <3>1
      <4>2. j - 1 \in 1..(la + lb)
        BY <2>1, <4>1
      <4> QED BY <2>1, <3>1, <4>1, <4>2
    <3>2. CASE j \notin 1..la
      <4>1. PICK i \in 1..lb : j = la + i
        <5>1. j - la \in 1..lb /\ j = la + (j - la)
          BY <2>1, <3>2
        <5> QED BY <5>1
      <4>2. i - 1 \in 1..lb /\ b[i - 1].section = b[i].section
        BY <2>1, <2>2, <4>1
      <4>3. j - 1 = la + (i - 1) /\ j - 1 \in 1..(la + lb)
        BY <2>1, <4>1, <4>2
      <4>4. c[j - 1] = b[i - 1] /\ c[j] = b[i]
        BY <2>1, <4>1, <4>2, <4>3
      <4> QED BY <4>2, <4>3, <4>4
    <3> QED BY <3>1, <3>2
  <2>3. c \in Files
    BY <2>1, <2>2 DEF Files
  <2> QED BY <2>3 DEF c
<1> QED
  BY <1>1, <1>2 DEF Closed

\* The lines of a section, and those that leave what a key was given.
InSection(n) == {line \in Line : line.section = n}
Harmless(s, k) == {line \in Line : ~Gives(line, s, k) /\ ~Displaces(line, s, k)}

SavedValue(n, node) == [kind |-> "value", section |-> n, key |-> node.key, value |-> node.data]
SavedValues(n, t) == [p \in DOMAIN t |-> <<SavedValue(n, t[p])>>]

\* What is saved for a section is a file of its lines.
LEMMA SavedSectionFacts ==
    ASSUME NEW n \in Section, NEW t, KeyTree(t), NEW node, node.key = n, node.data = t
    PROVE  SavedSection(node) \in Files /\ SavedSection(node) \in Seq(InSection(n))
<1> DEFINE V == {line \in Line : line.section = n /\ line.kind = "value"}
           head == [kind |-> "section", section |-> n]
           rest == Traverse(t, SavedValues(n, t))
<1>1. SavedSection(node) = <<head>> \o rest
  BY DEF SavedSection, SavedValues, SavedValue
<1>2. Shape(t) /\ \A p \in DOMAIN t : t[p].key \in Key /\ t[p].data \in Value
  BY DEF KeyTree, Ordered
<1>3. ASSUME NEW p \in DOMAIN t PROVE SavedValues(n, t)[p] \in Seq(V)
  <2>1. SavedValue(n, t[p]) \in V
    BY <1>2 DEF SavedValue, Line
  <2> HIDE DEF V
  <2> QED BY <2>1 DEF SavedValues
<1>4. Closed(Seq(V))
  BY SeqClosed
<1>5. rest \in Seq(V)
  <2> HIDE DEF V
  <2> QED BY <1>2, <1>3, <1>4, TraverseIn
<1>6. head \in Line /\ head.kind = "section" /\ head.section = n
  BY DEF Line
<1> HIDE DEF rest, head
<1> DEFINE l == <<head>> \o rest
           m == Len(rest)
<1>7. /\ m \in Nat /\ DOMAIN l = 1..(m + 1) /\ l[1] = head
      /\ \A i \in 1..m : l[i + 1] = rest[i] /\ rest[i] \in V
      /\ l \in Seq(Line)
  <2>1. m \in Nat /\ rest \in Seq(Line) /\ <<head>> \in Seq(Line) /\ Len(<<head>>) = 1 /\ <<head>>[1] = head
    BY <1>5, <1>6
  <2>2. l \in Seq(Line) /\ Len(l) = 1 + m
        /\ \A i \in 1..(1 + m) : l[i] = IF i <= 1 THEN <<head>>[i] ELSE rest[i - 1]
    BY <2>1, ConcatProperties
  <2>3. \A i \in 1..m : rest[i] \in V
    <3> HIDE DEF V
    <3> QED BY <1>5
  <2> HIDE DEF l, m, V
  <2>4. DOMAIN l = 1..(m + 1)
    BY <2>1, <2>2
  <2>5. l[1] = head
    BY <2>1, <2>2
  <2>6. \A i \in 1..m : l[i + 1] = rest[i]
    <3>1. \A i \in 1..m : i + 1 \in 1..(1 + m) /\ ~(i + 1 <= 1) /\ (i + 1) - 1 = i
      BY <2>1
    <3> QED BY <2>2, <3>1
  <2> QED BY <2>1, <2>2, <2>3, <2>4, <2>5, <2>6
<1> HIDE DEF l, m
<1>8. ASSUME NEW j \in 1..(m + 1) PROVE j = 1 \/ (j - 1 \in 1..m /\ (j - 1) + 1 = j)
  BY <1>7
<1>9. ASSUME NEW j \in 1..(m + 1) PROVE l[j].section = n
  <2>1. CASE j = 1
    BY <1>6, <1>7, <2>1
  <2>2. CASE j # 1
    <3>1. j - 1 \in 1..m /\ (j - 1) + 1 = j
      BY <1>8, <2>2
    <3>2. l[j] = rest[j - 1] /\ rest[j - 1] \in V
      <4> HIDE DEF V
      <4> QED BY <1>7, <3>1
    <3> QED BY <3>2
  <2> QED BY <2>1, <2>2
<1>10. l \in Seq(InSection(n))
  <2>1. \A j \in 1..Len(l) : l[j] \in InSection(n)
    BY <1>7, <1>9 DEF InSection
  <2> QED BY <1>7, <2>1
<1>11. ASSUME NEW j \in 1..(m + 1), l[j].kind = "value"
       PROVE  j - 1 \in 1..(m + 1) /\ l[j - 1].section = l[j].section
  <2>1. j # 1
    BY <1>6, <1>7, <1>11
  <2>2. j - 1 \in 1..(m + 1)
    BY <1>7, <1>8, <2>1
  <2> QED BY <1>9, <2>2
<1>12. l \in Files
  BY <1>7, <1>11 DEF Files
<1> QED
  BY <1>1, <1>10, <1>12 DEF l

\* A section saves the value of a key that is found, and nothing after it that
\* displaces it.
LEMMA SavedSectionSplits ==
    ASSUME NEW s \in Section, NEW t, KeyTree(t), NEW node, node.key = s, node.data = t,
           NEW k \in Key, Found(t, k) \in DOMAIN t
    PROVE  Splits(SavedSection(node), Line, <<SavedValue(s, t[Found(t, k)])>>, Harmless(s, k))
<1> DEFINE head == [kind |-> "section", section |-> s]
           w == SavedValues(s, t)
           q == Found(t, k)
           mid == <<SavedValue(s, t[q])>>
<1>1. SavedSection(node) = <<head>> \o Traverse(t, w)
  BY DEF SavedSection, SavedValues, SavedValue
<1>2. Ordered(t) /\ Shape(t) /\ \A p \in DOMAIN t : t[p].key \in Key /\ t[p].data \in Value
  BY DEF KeyTree, Ordered
<1>3. \A p \in DOMAIN t : w[p] = <<SavedValue(s, t[p])>> /\ SavedValue(s, t[p]) \in Line
  BY <1>2 DEF SavedValue, SavedValues, Line
<1>4. w \in [DOMAIN t -> Seq(Line)]
  <2>1. \A x \in Line : <<x>> \in Seq(Line)
    OBVIOUS
  <2>2. \A p \in DOMAIN t : <<SavedValue(s, t[p])>> \in Seq(Line)
    BY <1>3, <2>1, Zenon
  <2> QED BY <2>2 DEF SavedValues
<1>5. ASSUME NEW r \in DOMAIN t, After(q, r) PROVE w[r] \in Seq(Harmless(s, k))
  <2>1. k \in Names /\ t[r].key \in Names
    BY <1>2, NamesFacts
  <2>2. Less(k, t[r].key)
    BY <1>2, <1>5, <2>1, AfterGreater
  <2>3. t[r].key # k /\ ~IsPrefix(t[r].key, k)
    BY <2>1, <2>2, PrefixLess, LessTransitive, LessIrreflexive
  <2>4. SavedValue(s, t[r]).kind = "value" /\ SavedValue(s, t[r]).key = t[r].key
    BY DEF SavedValue
  <2>5. SavedValue(s, t[r]) \in Harmless(s, k)
    BY <1>3, <2>3, <2>4 DEF Harmless, Gives, Displaces, IsStrictPrefix
  <2>6. \A x \in Harmless(s, k) : <<x>> \in Seq(Harmless(s, k))
    OBVIOUS
  <2> HIDE DEF w
  <2> QED BY <1>3, <2>5, <2>6, Zenon
<1>6. w[q] = mid /\ mid \in Seq(Line) /\ head \in Line
  BY <1>3 DEF Line
<1>7. Harmless(s, k) \in SUBSET Line
  BY DEF Harmless
<1> HIDE DEF w, mid, head, q
<1>8. q \in DOMAIN t
  BY DEF q
<1>9. Splits(Traverse(t, w), Line, mid, Harmless(s, k))
  <2>1. Splits(Traverse(t, w), Line, w[q], Harmless(s, k))
    BY <1>2, <1>4, <1>5, <1>7, <1>8, TraverseSplits
  <2> QED BY <1>6, <2>1
<1>10. <<head>> \in Seq(Line)
  BY <1>6
<1>11. Splits(<<head>> \o Traverse(t, w), Line, mid, Harmless(s, k))
  BY <1>6, <1>7, <1>9, <1>10, SplitMore, Zenon
<1> QED
  BY <1>1, <1>11 DEF mid, q

\* So does the whole configuration.
LEMMA SaveSplits ==
    ASSUME NEW cfg, SectionTree(cfg), NEW s \in Section, NEW k \in Key, NEW f, f = Found(cfg, s),
           f \in DOMAIN cfg, NEW t, t = cfg[f].data, NEW q, q = Found(t, k), q \in DOMAIN t
    PROVE  /\ Save(cfg) \in Files
           /\ Splits(Save(cfg), Line, <<SavedValue(s, t[q])>>, Harmless(s, k))
<1> DEFINE w == [p \in DOMAIN cfg |-> SavedSection(cfg[p])]
           mid == <<SavedValue(s, t[q])>>
           G == Harmless(s, k)
<1>1. Save(cfg) = Traverse(cfg, w)
  BY DEF Save
<1>2. Ordered(cfg) /\ Shape(cfg) /\ \A p \in DOMAIN cfg : cfg[p].key \in Section /\ KeyTree(cfg[p].data)
  BY DEF SectionTree, Ordered
<1>3. \A p \in DOMAIN cfg : w[p] = SavedSection(cfg[p])
  OBVIOUS
<1>4. \A p \in DOMAIN cfg : w[p] \in Files /\ w[p] \in Seq(InSection(cfg[p].key))
  BY <1>2, <1>3, SavedSectionFacts
<1>5. w \in [DOMAIN cfg -> Seq(Line)]
  <2>1. \A p \in DOMAIN cfg : w[p] \in Seq(Line)
    BY <1>4 DEF Files
  <2> QED BY <2>1
<1> HIDE DEF w
<1>6. Traverse(cfg, w) \in Files
  BY <1>2, <1>4, FilesClosed, TraverseIn
<1>7. cfg[f].key = s /\ s \in Names /\ k \in Names
  BY <1>2, NamesFacts, FindFacts
<1>8. ASSUME NEW r \in DOMAIN cfg, After(f, r) PROVE w[r] \in Seq(G)
  <2> DEFINE n == cfg[r].key
  <2>1. n \in Names
    BY <1>2, NamesFacts
  <2>2. Less(s, n)
    BY <1>2, <1>7, <1>8, AfterGreater
  <2>3. n # s /\ ~IsPrefix(n, s)
    BY <1>7, <2>1, <2>2, PrefixLess, LessTransitive, LessIrreflexive
  <2>4. InSection(n) \subseteq G
    BY <2>3 DEF InSection, Harmless, Gives, Displaces
  <2>5. w[r] \in Seq(InSection(n))
    BY <1>4
  <2> HIDE DEF n, G
  <2> QED BY <2>4, <2>5
<1>9. G \in SUBSET Line
  BY DEF Harmless
<1>10. mid \in Seq(Line)
  <2>1. t[q].key \in Key /\ t[q].data \in Value
    BY <1>2 DEF KeyTree
  <2>2. SavedValue(s, t[q]) \in Line
    BY <2>1 DEF SavedValue, Line
  <2> QED BY <2>2
<1>11. Splits(w[f], Line, mid, G)
  BY <1>2, <1>3, <1>7, SavedSectionSplits
<1> HIDE DEF mid, G
<1>12. Splits(Traverse(cfg, w), Line, w[f], G)
  BY <1>2, <1>5, <1>8, <1>9, TraverseSplits
<1>13. PICK a \in Seq(Line), b \in Seq(G) : Traverse(cfg, w) = (a \o w[f]) \o b
  BY <1>12 DEF Splits
<1>14. Splits(a \o w[f], Line, mid, G)
  BY <1>9, <1>10, <1>11, SplitMore, Zenon
<1>15. Splits((a \o w[f]) \o b, Line, mid, G)
  BY <1>9, <1>10, <1>14, SplitMore, Zenon
<1> QED
  BY <1>1, <1>6, <1>13, <1>15 DEF mid, G

\* The line in the middle is the last that gives the key a value.
LEMMA SplitLast ==
    ASSUME NEW s, NEW k, NEW line \in Line, Gives(line, s, k), NEW lines,
           Splits(lines, Line, <<line>>, Harmless(s, k))
    PROVE  \E i \in DOMAIN lines : /\ lines[i] = line /\ LastGiven(lines, s, k, i)
                                   /\ ~DisplacedIn(lines, s, k, i)
<1> DEFINE G == Harmless(s, k)
<1>1. PICK a \in Seq(Line), b \in Seq(G) : lines = (a \o <<line>>) \o b
  BY DEF Splits
<1>2. \A l \in G : l \in Line /\ ~Gives(l, s, k) /\ ~Displaces(l, s, k)
  BY DEF Harmless
<1> HIDE DEF G
<1> DEFINE la == Len(a)
           lb == Len(b)
<1>3. /\ la \in Nat /\ lb \in Nat /\ DOMAIN lines = 1..(la + 1 + lb)
      /\ lines[la + 1] = line /\ \A i \in 1..lb : lines[la + 1 + i] = b[i] /\ b[i] \in G
  BY <1>1, <1>2
<1> HIDE DEF la, lb
<1>4. ASSUME NEW j \in DOMAIN lines, la + 1 < j PROVE ~Gives(lines[j], s, k) /\ ~Displaces(lines[j], s, k)
  <2>1. j - (la + 1) \in 1..lb /\ j = la + 1 + (j - (la + 1))
    BY <1>3, <1>4
  <2> QED BY <1>2, <1>3, <2>1
<1>5. la + 1 \in DOMAIN lines /\ \A j \in DOMAIN lines : j <= la + 1 \/ la + 1 < j
  BY <1>3
<1> QED
  BY <1>3, <1>4, <1>5 DEF LastGiven, DisplacedIn

\* Every value that could be read before it was saved is read again.
LEMMA ConfInvSavedReadsBack == ConfInv => SavedReadsBack
<1> SUFFICES ASSUME ConfInv, NEW s \in Section, NEW k \in Key,
                    NEW v, v = GetString(config, s, k, NoValue), v # NoValue
             PROVE  GetString(CreateFromString(Save(config)), s, k, NoValue) = v
  BY Zenon DEF SavedReadsBack
<1>0. SectionTree(config) /\ Ordered(config) /\ s \in Names /\ k \in Names
  BY NamesFacts DEF ConfInv, SectionTree
<1>1. v = IF Content(config, s, k) = {} THEN NoValue ELSE CHOOSE x \in Content(config, s, k) : TRUE
  BY DEF GetString, Content
<1>2. PICK f : f = Found(config, s) /\ f \in DOMAIN config /\ FindNode(config, s) = {config[f].data}
  <2>1. FindNode(config, s) # {}
    BY <1>1 DEF Content
  <2> QED BY <1>0, <2>1, FindFacts
<1>3. PICK t : t = config[f].data
  OBVIOUS
<1>4. KeyTree(t) /\ Ordered(t) /\ Content(config, s, k) = FindNode(t, k)
  BY <1>0, <1>2, <1>3 DEF SectionTree, KeyTree, Content
<1>5. PICK q : q = Found(t, k) /\ q \in DOMAIN t /\ t[q].key = k /\ FindNode(t, k) = {t[q].data}
  BY <1>0, <1>1, <1>4, FindFacts
<1>6. v = t[q].data
  BY <1>1, <1>4, <1>5
<1>7. PICK line \in Line : line = SavedValue(s, t[q]) /\ Gives(line, s, k) /\ line.value = v
  <2>1. t[q].data \in Value
    BY <1>4, <1>5 DEF KeyTree
  <2> DEFINE line == [kind |-> "value", section |-> s, key |-> k, value |-> v]
  <2>2. line \in Line
    BY <1>6, <2>1 DEF Line
  <2>3. line = SavedValue(s, t[q])
    BY <1>5, <1>6 DEF SavedValue
  <2>4. Gives(line, s, k) /\ line.value = v
    BY DEF Gives
  <2> HIDE DEF line
  <2> QED BY <2>2, <2>3, <2>4
<1>8. PICK lines : lines = Save(config)
  OBVIOUS
<1>9. lines \in Files /\ Splits(lines, Line, <<line>>, Harmless(s, k))
  BY <1>0, <1>2, <1>3, <1>5, <1>7, <1>8, SaveSplits
<1>10. PICK i \in DOMAIN lines : lines[i] = line /\ LastGiven(lines, s, k, i) /\ ~DisplacedIn(lines, s, k, i)
  BY <1>7, <1>9, SplitLast
<1>11. PICK again : again = CreateFromString(lines)
  OBVIOUS
<1>12. Reads(again, lines, s, k)
  BY <1>9, <1>11, ReadFile
<1>13. PICK j \in DOMAIN lines : LastGiven(lines, s, k, j) /\ Content(again, s, k) = {lines[j].value}
  BY <1>10, <1>12 DEF Reads
<1>14. i = j
  <2>1. DOMAIN lines \subseteq Nat
    BY <1>9 DEF Files
  <2> QED BY <1>10, <1>13, <2>1 DEF LastGiven
<1>15. Content(again, s, k) = {v}
  BY <1>7, <1>10, <1>13, <1>14
<1>16. GetString(again, s, k, NoValue) = v
  BY <1>15 DEF GetString, Content
<1> QED
  BY <1>8, <1>11, <1>16

\* For any names, values and files of any length, a configuration that is saved
\* and read again has every value that could be read before (ini_config_save,
\* ini_config_create_from_file).
THEOREM SavedValuesReadBack == ConfInit /\ [][ConfNext]_confVars => []SavedReadsBack
<1>1. ConfInit /\ [][ConfNext]_confVars => []ConfInv
  BY ConfInitInv, ConfNextInv, PTL
<1> QED
  BY <1>1, ConfInvSavedReadsBack, PTL
=============================================================================
