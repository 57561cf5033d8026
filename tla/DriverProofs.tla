------------------------------ MODULE DriverProofs ------------------------------
(***************************************************************************)
(* What the keyboard drivers compute, for any number of packets and any    *)
(* wall: the framing of SerialLine and the commands of Wall.               *)
(***************************************************************************)
EXTENDS SerialLine, Wall, SequenceTheorems, WellFoundedInduction, TLAPS

-----------------------------------------------------------------------------
(***************************************************************************)
(* Bytes on the line.                                                      *)
(***************************************************************************)
Byte == [packet : Nat, at : 0..7]

\* The place of a byte in all that the keyboard sends.
Rank(b) == 8 * b.packet + b.at

\* The eight bytes of a packet.
LEMMA PacketFacts ==
    ASSUME NEW i \in Nat
    PROVE  /\ PacketBytes(i) \in Seq(Byte) /\ Len(PacketBytes(i)) = 8
           /\ \A j \in 1..8 : /\ PacketBytes(i)[j] \in Byte
                              /\ PacketBytes(i)[j].packet = i /\ PacketBytes(i)[j].at = j - 1
<1>1. \A j \in 1..8 : PacketBytes(i)[j] = [packet |-> i, at |-> j - 1]
  BY DEF PacketBytes
<1>2. \A j \in 1..8 : /\ PacketBytes(i)[j] \in Byte
                      /\ PacketBytes(i)[j].packet = i /\ PacketBytes(i)[j].at = j - 1
  BY <1>1 DEF Byte
<1>3. PacketBytes(i) \in Seq(Byte) /\ DOMAIN PacketBytes(i) = 1..8
  BY <1>1, <1>2 DEF PacketBytes
<1>4. Len(PacketBytes(i)) = 8
  BY <1>3, LenProperties
<1> QED
  BY <1>2, <1>3, <1>4

\* The line w followed by packet i without its byte n.
SentOn(x, w, i, n) ==
    /\ x \in Seq(Byte)
    /\ Len(x) = Len(w) + (IF n = 0 THEN 8 ELSE 7)
    /\ \A j \in 1..Len(w) : x[j] = w[j]
    /\ \A j \in (Len(w) + 1)..Len(x) :
          /\ x[j] \in Byte /\ x[j].packet = i
          /\ x[j].at = IF n # 0 /\ j - Len(w) >= n THEN j - Len(w) ELSE j - Len(w) - 1

\* What is on the line once packet i without its byte n has been sent.
LEMMA SentFacts ==
    ASSUME NEW w \in Seq(Byte), NEW i \in Nat, NEW n \in 0..8, NEW x,
           x = w \o SubSeq(PacketBytes(i), 1, n - 1) \o SubSeq(PacketBytes(i), n + 1, 8)
    PROVE  SentOn(x, w, i, n)
<1> DEFINE p == PacketBytes(i)
           a == SubSeq(p, 1, n - 1)
           b == SubSeq(p, n + 1, 8)
           u == w \o a
           v == u \o b
<1>0. x = v
  OBVIOUS
<1>1. /\ Len(w) \in Nat
      /\ \A j \in 1..8 : p[j] \in Byte /\ p[j].packet = i /\ p[j].at = j - 1
  BY PacketFacts
<1> HIDE DEF p
<1>2. /\ a \in Seq(Byte) /\ (n = 0 => Len(a) = 0) /\ (n # 0 => Len(a) = n - 1)
      /\ \A j \in 1..(n - 1) : a[j] = p[j]
  <2>1. \A j \in 1..(n - 1) : p[j] \in Byte
    BY <1>1
  <2>2. /\ a \in Seq(Byte) /\ Len(a) = IF 1 <= n - 1 THEN (n - 1) - 1 + 1 ELSE 0
        /\ \A j \in 1..((n - 1) - 1 + 1) : a[j] = p[1 + j - 1]
    BY <2>1, SubSeqProperties
  <2> HIDE DEF a
  <2> QED BY <2>2
<1>3. /\ b \in Seq(Byte) /\ Len(b) = 8 - n
      /\ \A j \in 1..(8 - n) : b[j] = p[n + j]
  <2>1. \A j \in (n + 1)..8 : p[j] \in Byte
    BY <1>1
  <2>2. /\ b \in Seq(Byte) /\ Len(b) = IF n + 1 <= 8 THEN 8 - (n + 1) + 1 ELSE 0
        /\ \A j \in 1..(8 - (n + 1) + 1) : b[j] = p[n + 1 + j - 1]
    BY <2>1, SubSeqProperties
  <2> HIDE DEF b
  <2> QED BY <2>2
<1> HIDE DEF a, b
<1>4. /\ u \in Seq(Byte) /\ Len(u) = Len(w) + Len(a)
      /\ \A j \in 1..Len(w) : u[j] = w[j]
      /\ \A j \in 1..Len(a) : u[Len(w) + j] = a[j]
  BY <1>2
<1> HIDE DEF u
<1>5. /\ v \in Seq(Byte) /\ Len(v) = Len(u) + Len(b)
      /\ \A j \in 1..Len(u) : v[j] = u[j]
      /\ \A j \in 1..Len(b) : v[Len(u) + j] = b[j]
  <2>1. u \in Seq(Byte) /\ b \in Seq(Byte)
    BY <1>3, <1>4
  <2> QED BY <2>1
<1> HIDE DEF v
<1> DEFINE lw == Len(w)
           la == Len(a)
           lb == Len(b)
           lu == Len(u)
           lv == Len(v)
<1>6. /\ lw \in Nat /\ la \in Nat /\ lu = lw + la /\ lv = lu + lb /\ lb = 8 - n
      /\ (n = 0 => la = 0) /\ (n # 0 => la = n - 1)
      /\ \A j \in 1..lw : u[j] = w[j]
      /\ \A j \in 1..la : u[lw + j] = a[j]
      /\ \A j \in 1..lu : v[j] = u[j]
      /\ \A j \in 1..lb : v[lu + j] = b[j]
  BY <1>1, <1>2, <1>3, <1>4, <1>5
<1> HIDE DEF lw, la, lb, lu, lv
<1>7. lv = lw + (IF n = 0 THEN 8 ELSE 7)
  BY <1>6
<1>8. \A j \in 1..lw : v[j] = w[j]
  BY <1>6
<1>9. ASSUME NEW j \in (lw + 1)..lv
      PROVE  /\ v[j] \in Byte /\ v[j].packet = i
             /\ v[j].at = IF n # 0 /\ j - lw >= n THEN j - lw ELSE j - lw - 1
  <2>1. CASE j <= lu
    <3> DEFINE k == j - lw
    <3>1. /\ j \in 1..lu /\ k \in 1..la /\ k \in 1..(n - 1) /\ k \in 1..8 /\ j = lw + k
          /\ ~(n # 0 /\ k >= n)
      BY <1>6, <2>1
    <3> HIDE DEF k
    <3>2. v[j] = a[k]
      BY <1>6, <3>1
    <3>3. v[j] = p[k]
      BY <1>2, <3>1, <3>2
    <3>4. v[j] \in Byte /\ v[j].packet = i /\ v[j].at = k - 1
      BY <1>1, <3>1, <3>3
    <3> QED BY <3>1, <3>4 DEF k
  <2>2. CASE j > lu
    <3> DEFINE k == j - lu
               at == IF n # 0 /\ j - lw >= n THEN j - lw ELSE j - lw - 1
    <3>1. /\ k \in 1..lb /\ k \in 1..(8 - n) /\ n + k \in 1..8 /\ j = lu + k
          /\ n + k - 1 = at
      BY <1>6, <2>2
    <3> HIDE DEF k, at
    <3>2. v[j] = b[k]
      BY <1>6, <3>1
    <3>3. v[j] = p[n + k]
      BY <1>3, <3>1, <3>2
    <3>4. v[j] \in Byte /\ v[j].packet = i /\ v[j].at = at
      <4> DEFINE q == n + k
      <4>1. q \in 1..8 /\ v[j] = p[q] /\ at = q - 1
        BY <3>1, <3>3
      <4> HIDE DEF q
      <4> QED BY <1>1, <4>1
    <3> QED BY <3>4 DEF at
  <2> QED BY <1>6, <2>1, <2>2
<1> QED
  BY <1>0, <1>5, <1>7, <1>8, <1>9 DEF lw, lv, SentOn

\* A byte taken off the line.
LEMMA TailFacts ==
    ASSUME NEW w \in Seq(Byte), w # <<>>
    PROVE  /\ Len(w) \in Nat /\ Len(w) >= 1 /\ Head(w) = w[1] /\ Head(w) \in Byte
           /\ Tail(w) \in Seq(Byte) /\ Len(Tail(w)) = Len(w) - 1
           /\ \A j \in 1..Len(Tail(w)) : Tail(w)[j] = w[j + 1] /\ j + 1 \in 1..Len(w)
<1>1. Len(w) \in Nat /\ Len(w) >= 1
  OBVIOUS
<1>2. /\ Head(w) \in Byte /\ Tail(w) \in Seq(Byte) /\ Len(Tail(w)) = Len(w) - 1
      /\ \A j \in 1..Len(Tail(w)) : Tail(w)[j] = w[j + 1]
  BY HeadTailProperties
<1>3. Head(w) = w[1]
  OBVIOUS
<1> QED
  BY <1>1, <1>2, <1>3

\* Seven bytes taken off the line, after the first.
LEMMA ReadnFacts ==
    ASSUME NEW w \in Seq(Byte), Len(w) >= 7, NEW b \in Byte
    PROVE  LET t == <<b>> \o SubSeq(w, 1, 7)
               v == SubSeq(w, 8, Len(w))
           IN  /\ t \in Seq(Byte) /\ Len(t) = 8 /\ t[1] = b
               /\ \A j \in 1..7 : t[j + 1] = w[j]
               /\ v \in Seq(Byte) /\ Len(v) = Len(w) - 7
               /\ \A j \in 1..Len(v) : v[j] = w[j + 7] /\ j + 7 \in 8..Len(w)
<1> DEFINE s == SubSeq(w, 1, 7)
           t == <<b>> \o s
           v == SubSeq(w, 8, Len(w))
<1>1. Len(w) \in Nat /\ \A j \in 1..Len(w) : w[j] \in Byte
  OBVIOUS
<1>2. s \in Seq(Byte) /\ Len(s) = 7 /\ \A j \in 1..7 : s[j] = w[j]
  <2>1. \A j \in 1..7 : w[j] \in Byte
    BY <1>1
  <2>2. /\ s \in Seq(Byte) /\ Len(s) = IF 1 <= 7 THEN 7 - 1 + 1 ELSE 0
        /\ \A j \in 1..(7 - 1 + 1) : s[j] = w[1 + j - 1]
    BY <2>1, SubSeqProperties
  <2> HIDE DEF s
  <2> QED BY <2>2
<1>3. /\ v \in Seq(Byte) /\ Len(v) = Len(w) - 7
      /\ \A j \in 1..Len(v) : v[j] = w[j + 7] /\ j + 7 \in 8..Len(w)
  <2>1. \A j \in 8..Len(w) : w[j] \in Byte
    BY <1>1
  <2>2. /\ v \in Seq(Byte) /\ Len(v) = IF 8 <= Len(w) THEN Len(w) - 8 + 1 ELSE 0
        /\ \A j \in 1..(Len(w) - 8 + 1) : v[j] = w[8 + j - 1]
    BY <1>1, <2>1, SubSeqProperties
  <2> HIDE DEF v
  <2> DEFINE lw == Len(w)
             lv == Len(v)
  <2>3. /\ lw \in Nat /\ lw >= 7 /\ lv = IF 8 <= lw THEN lw - 8 + 1 ELSE 0
        /\ \A j \in 1..(lw - 8 + 1) : v[j] = w[8 + j - 1]
    BY <1>1, <2>2
  <2> HIDE DEF lw, lv
  <2>4. lv = lw - 7 /\ \A j \in 1..lv : v[j] = w[j + 7] /\ j + 7 \in 8..lw
    BY <2>3
  <2> QED BY <2>2, <2>4 DEF lw, lv
<1> HIDE DEF s, v
<1>4. <<b>> \in Seq(Byte) /\ Len(<<b>>) = 1 /\ <<b>>[1] = b
  OBVIOUS
<1>5. /\ t \in Seq(Byte) /\ Len(t) = Len(<<b>>) + Len(s)
      /\ \A j \in 1..(Len(<<b>>) + Len(s)) :
            t[j] = IF j <= Len(<<b>>) THEN <<b>>[j] ELSE s[j - Len(<<b>>)]
  BY <1>2, <1>4, ConcatProperties
<1> HIDE DEF t
<1>6. Len(t) = 8 /\ t[1] = b /\ \A j \in 1..7 : t[j + 1] = w[j]
  BY <1>2, <1>4, <1>5
<1> QED
  BY <1>3, <1>5, <1>6 DEF t, s, v

-----------------------------------------------------------------------------
(***************************************************************************)
(* Framing.  Resynchronised speaks of a receiver that has read all it can; *)
(* the invariant says what is on the line in between.                      *)
(***************************************************************************)
LineType ==
    /\ wire \in Seq(Byte) /\ taken \in Seq(Seq(Byte))
    /\ inner \in Seq(SUBSET (1..7)) /\ lost \in Seq(BOOLEAN) /\ Len(lost) = Len(inner)
    /\ started = <<>> \/ \E b \in Byte : started = <<b>>

\* The line keeps the order of the bytes; the receiver is at most one packet
\* behind, and if it is, the packet it has begun ends in the latest one.
LineOrder ==
    /\ \A j \in 1..Len(wire) : wire[j].packet \in 1..Len(inner)
    /\ \A i, j \in 1..Len(wire) : i < j => Rank(wire[i]) < Rank(wire[j])
    /\ started = <<>> => \A j \in 1..Len(wire) : wire[j].packet = Len(inner)
    /\ started # <<>> =>
          /\ started[1].packet \in 1..Len(inner)
          /\ \A j \in 1..Len(wire) : started[1].packet <= wire[j].packet
          /\ \/ started[1].packet = Len(inner)
             \/ Len(wire) >= 7 /\ started[1].packet + 1 = Len(inner) /\ wire[7].packet = Len(inner)

\* What was taken began no later than what is on the line.
TakenOrder ==
    /\ \A m \in 1..Len(taken) :
          /\ taken[m][1].packet \in 1..Len(inner)
          /\ started # <<>> => taken[m][1].packet <= started[1].packet
          /\ \A j \in 1..Len(wire) : taken[m][1].packet <= wire[j].packet
    /\ \A m, n \in 1..Len(taken) : m < n => taken[m][1].packet <= taken[n][1].packet

\* Packet i as a whole on the line, or begun.
Fresh(i) == started = <<>> /\ wire = PacketBytes(i)
Opened(i) == started = <<PacketBytes(i)[1]>> /\ wire = Tail(PacketBytes(i))

\* Only bytes after the first of a packet are left once the receiver has what
\* it is reading.
Skipping == started = <<>> /\ \A j \in 1..Len(wire) : wire[j].at # 0
Straddling ==
    /\ started # <<>> /\ Len(wire) >= 7
    /\ \A j \in 8..Len(wire) : wire[j].at # 0

Clean(i) == ~lost[i] /\ inner[i] = {}

\* The packets Resynchronised promises.
Due(i) == ~lost[i] /\ (i = 1 \/ Intact(i - 1) \/ Clean(i - 1))

\* The packet that was sent last.
Latest(i) ==
    /\ Intact(i) => started = <<>> /\ wire = <<>>
    /\ Due(i) => Intact(i) \/ Fresh(i) \/ Opened(i)
    /\ Clean(i) => Fresh(i) \/ Opened(i) \/ Skipping \/ Straddling

LineInv ==
    /\ LineType /\ LineOrder /\ TakenOrder
    /\ \A i \in 1..(Len(inner) - 1) : Due(i) => Intact(i)
    /\ Len(inner) > 0 => Latest(Len(inner))

\* An empty line satisfies the invariant.
LEMMA LineInvInit == LineInit => LineInv
<1> SUFFICES ASSUME LineInit PROVE LineInv
  OBVIOUS
<1>1. LineType
  BY DEF LineInit, LineType
<1>2. Len(wire) = 0 /\ Len(taken) = 0 /\ Len(inner) = 0
  BY DEF LineInit
<1> QED
  BY <1>1, <1>2 DEF LineInit, LineInv, LineOrder, TakenOrder

\* A whole packet begins with 0xff.
LEMMA PacketHead ==
    ASSUME NEW i \in Nat
    PROVE  /\ PacketBytes(i) # <<>> /\ Head(PacketBytes(i)) = PacketBytes(i)[1]
           /\ PacketBytes(i)[1].at = 0
<1>1. PacketBytes(i) \in Seq(Byte) /\ Len(PacketBytes(i)) = 8 /\ PacketBytes(i)[1].at = 0
  BY PacketFacts
<1>2. PacketBytes(i) # <<>>
  <2> SUFFICES ASSUME PacketBytes(i) = <<>> PROVE 8 = 0
    OBVIOUS
  <2> QED BY <1>1, EmptySeq, Zenon
<1> QED
  BY <1>1, <1>2, TailFacts

\* So does the line after a byte that is skipped or begins a packet,
LEMMA FirstByteStep ==
    ASSUME LineInv, FirstByte
    PROVE  LineInv'
<1>0. PICK N \in Nat : N = Len(inner)
  BY DEF LineInv, LineType
<1> DEFINE lw == Len(wire)
           lv == Len(wire')
           h == Head(wire)
<1>1. /\ UNCHANGED <<inner, lost, taken>> /\ started = <<>> /\ wire # <<>>
      /\ wire' = Tail(wire) /\ (Is0xff(h) => started' = <<h>>) /\ (~Is0xff(h) => started' = <<>>)
  BY DEF FirstByte
<1>2. wire \in Seq(Byte)
  BY DEF LineInv, LineType
<1>3. /\ lw \in Nat /\ lw >= 1 /\ lv = lw - 1 /\ wire' \in Seq(Byte) /\ h = wire[1] /\ h \in Byte
      /\ \A j \in 1..lv : wire'[j] = wire[j + 1] /\ j + 1 \in 1..lw
  BY <1>1, <1>2, TailFacts
<1>4. /\ \A j \in 1..lw : wire[j].packet \in 1..N /\ wire[j].packet = N
      /\ \A i, j \in 1..lw : i < j => Rank(wire[i]) < Rank(wire[j])
  BY <1>0, <1>1 DEF LineInv, LineOrder
<1>5. /\ \A m \in 1..Len(taken) : taken[m][1].packet \in 1..N
      /\ \A m, n \in 1..Len(taken) : m < n => taken[m][1].packet <= taken[n][1].packet
  BY <1>0 DEF LineInv, TakenOrder
<1>6. \A i : /\ Intact(i)' <=> Intact(i)
             /\ Clean(i)' <=> Clean(i)
             /\ Due(i)' <=> Due(i)
  BY <1>1 DEF Intact, Clean, Due
<1>7. LineType'
  BY <1>1, <1>3 DEF LineInv, LineType
<1> HIDE DEF lw, lv, h
<1>8. started' = <<>> \/ started' = <<h>>
  BY <1>1
<1>9. h.packet = N /\ (started' # <<>> => started'[1] = h)
  BY <1>3, <1>4, <1>8
<1>10. \A j \in 1..lv : wire'[j].packet \in 1..N /\ wire'[j].packet = N
  BY <1>3, <1>4
<1>11. LineOrder'
  <2>1. ASSUME NEW i \in 1..lv, NEW j \in 1..lv, i < j
        PROVE  Rank(wire'[i]) < Rank(wire'[j])
    <3>1. i + 1 \in 1..lw /\ j + 1 \in 1..lw /\ i + 1 < j + 1
      BY <1>3, <2>1
    <3> QED BY <1>3, <1>4, <3>1
  <2>2. N \in 1..N
    BY <1>3, <1>4
  <2>3. N <= N
    BY <1>0
  <2>4. Len(inner') = N /\ Len(wire') = lv
    BY <1>0, <1>1 DEF lv
  <2>5. started' # <<>> => /\ started'[1].packet = N /\ started'[1].packet \in 1..N
                           /\ \A j \in 1..lv : started'[1].packet <= wire'[j].packet
    BY <1>9, <1>10, <2>2, <2>3
  <2> QED BY <1>10, <2>1, <2>4, <2>5 DEF LineOrder
<1>12. TakenOrder'
  <2>1. \A m \in 1..Len(taken) : taken[m][1].packet <= N
    BY <1>5
  <2>2. Len(inner') = N /\ Len(wire') = lv /\ taken' = taken
    BY <1>0, <1>1 DEF lv
  <2> QED BY <1>5, <1>9, <1>10, <2>1, <2>2 DEF TakenOrder
<1>13. \A i \in 1..(Len(inner') - 1) : Due(i)' => Intact(i)'
  BY <1>1, <1>6 DEF LineInv
<1>14. N > 0 => Latest(N)'
  <2> SUFFICES ASSUME N > 0 PROVE Latest(N)'
    OBVIOUS
  <2>1. Latest(N)
    BY <1>0 DEF LineInv
  <2>2. ~Intact(N) /\ ~Opened(N) /\ ~Straddling
    BY <1>1, <2>1 DEF Latest, Opened, Straddling
  <2>3. CASE Fresh(N)
    <3>1. h = PacketBytes(N)[1] /\ h.at = 0 /\ wire = PacketBytes(N)
      BY <2>3, PacketHead DEF Fresh, h
    <3>2. Is0xff(h)
      BY <3>1 DEF Is0xff
    <3>3. Opened(N)'
      BY <1>1, <3>1, <3>2 DEF Opened
    <3> QED BY <1>6, <2>2, <3>3 DEF Latest
  <2>4. CASE ~Fresh(N)
    <3>1. ~Due(N)
      BY <2>1, <2>2, <2>4 DEF Latest
    <3>2. Clean(N) => Skipping'
      <4> SUFFICES ASSUME Clean(N) PROVE Skipping'
        OBVIOUS
      <4>1. \A j \in 1..lw : wire[j].at # 0
        BY <2>1, <2>2, <2>4 DEF Latest, Skipping, lw
      <4>2. h.at # 0
        BY <1>3, <4>1
      <4>3. started' = <<>>
        BY <1>1, <1>9, <4>2 DEF Clean, Is0xff
      <4>4. \A j \in 1..lv : wire'[j].at # 0
        BY <1>3, <4>1
      <4> QED BY <4>3, <4>4 DEF Skipping, lv
    <3> QED BY <1>6, <2>2, <3>1, <3>2 DEF Latest
  <2> QED BY <2>3, <2>4
<1> QED
  BY <1>0, <1>1, <1>7, <1>11, <1>12, <1>13, <1>14 DEF LineInv

\* after the seven bytes of Readn,
LEMMA ReadnStep ==
    ASSUME LineInv, Readn
    PROVE  LineInv'
<1>0. PICK N \in Nat : N = Len(inner)
  BY DEF LineInv, LineType
<1>1. /\ UNCHANGED <<inner, lost>> /\ started # <<>> /\ Len(wire) >= 7 /\ started' = <<>>
      /\ taken' = Append(taken, started \o SubSeq(wire, 1, 7))
      /\ wire' = SubSeq(wire, 8, Len(wire))
  BY DEF Readn
<1>2. PICK b \in Byte : started = <<b>>
  BY <1>1 DEF LineInv, LineType
<1> DEFINE t == <<b>> \o SubSeq(wire, 1, 7)
           lw == Len(wire)
           lv == Len(wire')
           lt == Len(taken)
<1>3. wire \in Seq(Byte) /\ lw \in Nat /\ lw >= 7 /\ taken \in Seq(Seq(Byte)) /\ lt \in Nat
  BY <1>1 DEF LineInv, LineType
<1>4. /\ t \in Seq(Byte) /\ Len(t) = 8 /\ t[1] = b /\ \A j \in 1..7 : t[j + 1] = wire[j]
      /\ wire' \in Seq(Byte) /\ lv = lw - 7
      /\ \A j \in 1..lv : wire'[j] = wire[j + 7] /\ j + 7 \in 8..lw
  BY <1>1, <1>3, ReadnFacts
<1>5. taken' = Append(taken, t)
  BY <1>1, <1>2
<1> HIDE DEF t
<1>6. /\ taken' \in Seq(Seq(Byte)) /\ Len(taken') = lt + 1 /\ taken'[lt + 1] = t
      /\ \A m \in 1..lt : taken'[m] = taken[m]
  BY <1>3, <1>4, <1>5
<1>7. LineType'
  BY <1>1, <1>4, <1>6 DEF LineInv, LineType
<1>8. /\ \A j \in 1..lw : wire[j].packet \in 1..N /\ wire[j].at \in 0..7
      /\ \A i, j \in 1..lw : i < j => Rank(wire[i]) < Rank(wire[j])
  <2>1. ASSUME NEW j \in 1..lw PROVE wire[j].at \in 0..7
    <3>1. wire[j] \in Byte
      BY <1>3
    <3> HIDE DEF lw
    <3> QED BY <3>1 DEF Byte
  <2>2. /\ \A j \in 1..lw : wire[j].packet \in 1..N
        /\ \A i, j \in 1..lw : i < j => Rank(wire[i]) < Rank(wire[j])
    BY <1>0 DEF LineInv, LineOrder
  <2> HIDE DEF lw
  <2> QED BY <2>1, <2>2
<1>9. /\ b.packet \in 1..N /\ \A j \in 1..lw : b.packet <= wire[j].packet
      /\ b.packet = N \/ (b.packet + 1 = N /\ wire[7].packet = N)
  <2>1. started[1] = b
    BY <1>2
  <2> QED BY <1>0, <1>1, <2>1 DEF LineInv, LineOrder
<1>10. /\ \A m \in 1..lt : taken[m][1].packet \in 1..N /\ taken[m][1].packet <= b.packet
       /\ \A m, n \in 1..lt : m < n => taken[m][1].packet <= taken[n][1].packet
  <2>1. started[1] = b
    BY <1>2
  <2> QED BY <1>0, <1>1, <2>1 DEF LineInv, TakenOrder
<1>11. Len(inner') = N
  BY <1>0, <1>1
<1> HIDE DEF lw, lv, lt
\* What is left is of the latest packet.
<1>12. \A j \in 1..lv : wire'[j].packet = N /\ wire'[j].packet \in 1..N
  <2> SUFFICES ASSUME NEW j \in 1..lv PROVE wire[j + 7].packet = N /\ j + 7 \in 1..lw
    BY <1>4, <1>8
  <2> DEFINE k == j + 7
  <2>1. k \in 1..lw /\ 7 \in 1..lw /\ 7 < k
    BY <1>3, <1>4
  <2> HIDE DEF k
  <2>2. Rank(wire[7]) < Rank(wire[k])
    BY <1>8, <2>1
  <2>3. /\ wire[7].packet \in 1..N /\ wire[7].at \in 0..7
        /\ wire[k].packet \in 1..N /\ wire[k].at \in 0..7 /\ b.packet <= wire[k].packet
    BY <1>8, <1>9, <2>1
  <2>4. wire[7].packet <= wire[k].packet
    BY <2>2, <2>3 DEF Rank
  <2>5. wire[k].packet = N
    BY <1>9, <2>3, <2>4
  <2> QED BY <2>1, <2>5 DEF k
<1>13. LineOrder'
  <2>1. ASSUME NEW i \in 1..lv, NEW j \in 1..lv, i < j
        PROVE  Rank(wire'[i]) < Rank(wire'[j])
    <3>1. i + 7 \in 1..lw /\ j + 7 \in 1..lw /\ i + 7 < j + 7
      BY <1>3, <1>4, <2>1
    <3> QED BY <1>4, <1>8, <3>1
  <2>2. lv = Len(wire')
    BY DEF lv
  <2> QED BY <1>1, <1>11, <1>12, <2>1, <2>2 DEF LineOrder
<1>14. TakenOrder'
  <2>1. \A m \in 1..(lt + 1) : taken'[m][1].packet \in 1..N /\ taken'[m][1].packet <= b.packet
    <3>1. ASSUME NEW m \in 1..(lt + 1)
          PROVE  m \in 1..lt \/ m = lt + 1
      BY <1>3
    <3>2. taken'[lt + 1][1] = b
      BY <1>4, <1>6
    <3>3. b.packet <= b.packet
      BY <1>9
    <3> QED BY <1>6, <1>9, <1>10, <3>1, <3>2, <3>3
  <2>2. \A m \in 1..(lt + 1) : \A j \in 1..lv : taken'[m][1].packet <= wire'[j].packet
    BY <1>12, <2>1
  <2>3. ASSUME NEW m \in 1..(lt + 1), NEW n \in 1..(lt + 1), m < n
        PROVE  taken'[m][1].packet <= taken'[n][1].packet
    <3>1. m \in 1..lt /\ (n \in 1..lt \/ n = lt + 1)
      BY <1>3, <2>3
    <3>2. CASE n \in 1..lt
      BY <1>6, <1>10, <2>3, <3>1, <3>2
    <3>3. CASE n = lt + 1
      BY <1>4, <1>6, <1>10, <3>1, <3>3
    <3> QED BY <3>1, <3>2, <3>3
  <2>4. Len(taken') = lt + 1 /\ Len(wire') = lv
    BY <1>6 DEF lv
  <2> QED BY <1>1, <1>11, <2>1, <2>2, <2>3, <2>4 DEF TakenOrder
\* Only the latest packet can have been taken as a whole, and then it was the
\* end of the line.
<1>15. ASSUME NEW i \in Nat, t = PacketBytes(i)
       PROVE  i = N /\ wire' = <<>>
  <2>1. /\ t[1].packet = i /\ t[8].packet = i /\ t[8].at = 7
    BY <1>15, PacketFacts
  <2>2. t[8] = wire[7]
    <3>1. 7 + 1 = 8 /\ 7 \in 1..7
      OBVIOUS
    <3> QED BY <1>4, <3>1
  <2>3. i = N
    BY <1>4, <1>9, <2>1, <2>2
  <2>4. lv = 0
    <3> SUFFICES ASSUME lv # 0 PROVE FALSE
      OBVIOUS
    <3>1. 8 \in 1..lw /\ 7 \in 1..lw /\ 7 < 8
      BY <1>3, <1>4
    <3>2. /\ Rank(wire[7]) < Rank(wire[8])
          /\ wire[8].packet \in 1..N /\ wire[8].at \in 0..7
      BY <1>8, <3>1
    <3> QED BY <2>1, <2>2, <2>3, <3>2 DEF Rank
  <2>5. wire' = <<>>
    BY <1>4, <2>4, EmptySeq DEF lv
  <2> QED BY <2>3, <2>5
<1>16. \A i : Intact(i)' <=> Intact(i) \/ t = PacketBytes(i)
  <2>1. DOMAIN taken = 1..lt /\ DOMAIN taken' = 1..(lt + 1)
    BY <1>3, <1>6 DEF lt
  <2>2. \A m \in 1..(lt + 1) : m \in 1..lt \/ m = lt + 1
    BY <1>3
  <2>3. lt + 1 \in 1..(lt + 1) /\ \A m \in 1..lt : m \in 1..(lt + 1)
    BY <1>3
  <2> QED BY <1>6, <2>1, <2>2, <2>3 DEF Intact
<1>17. /\ \A i \in Nat : i # N => (Intact(i)' <=> Intact(i))
       /\ \A i : Clean(i)' <=> Clean(i)
  BY <1>1, <1>15, <1>16 DEF Clean
<1>18. \A i \in 1..N : Due(i)' <=> Due(i)
  <2> SUFFICES ASSUME NEW i \in 1..N PROVE Due(i)' <=> Due(i)
    OBVIOUS
  <2>1. i - 1 \in Nat /\ i - 1 # N
    OBVIOUS
  <2>2. Intact(i - 1)' <=> Intact(i - 1)
    BY <1>17, <2>1
  <2> QED BY <1>1, <1>17, <2>2 DEF Due
<1>19. \A i \in 1..(N - 1) : Due(i)' => Intact(i)'
  <2> SUFFICES ASSUME NEW i \in 1..(N - 1), Due(i)' PROVE Intact(i)'
    OBVIOUS
  <2>1. i \in 1..N /\ i \in Nat /\ i # N
    OBVIOUS
  <2>2. Intact(i)
    BY <1>0, <1>18, <2>1 DEF LineInv
  <2> QED BY <1>17, <2>1, <2>2
<1>20. N > 0 => Latest(N)'
  <2> SUFFICES ASSUME N > 0 PROVE Latest(N)'
    OBVIOUS
  <2>1. Latest(N) /\ N \in 1..N
    BY <1>0 DEF LineInv
  <2>2. ~Intact(N) /\ ~Fresh(N) /\ ~Skipping
    BY <1>1, <2>1 DEF Latest, Fresh, Skipping
  <2>3. Opened(N) => t = PacketBytes(N)
    <3> SUFFICES ASSUME Opened(N) PROVE t = PacketBytes(N)
      OBVIOUS
    <3> DEFINE p == PacketBytes(N)
    <3>1. /\ p \in Seq(Byte) /\ Len(p) = 8 /\ p # <<>>
      BY PacketFacts, PacketHead
    <3>2. b = p[1] /\ wire = Tail(p)
      BY <1>2 DEF Opened
    <3> HIDE DEF p
    <3>3. \A j \in 1..7 : Tail(p)[j] = p[j + 1]
      <4> DEFINE l == Len(p)
                 q == Tail(p)
                 m == Len(q)
      <4>1. l = 8 /\ m = l - 1 /\ \A j \in 1..m : q[j] = p[j + 1]
        BY <3>1, TailFacts
      <4> HIDE DEF l, m, q
      <4>2. m = 7
        BY <4>1
      <4>3. \A j \in 1..7 : q[j] = p[j + 1]
        BY <4>1, <4>2
      <4> QED BY <4>3 DEF q
    <3>4. \A k \in 1..8 : t[k] = p[k]
      <4> SUFFICES ASSUME NEW k \in 1..8 PROVE t[k] = p[k]
        OBVIOUS
      <4>1. CASE k = 1
        BY <1>4, <3>2, <4>1
      <4>2. CASE k # 1
        <5> DEFINE j == k - 1
        <5>1. j \in 1..7 /\ k = j + 1
          BY <4>2
        <5> HIDE DEF j
        <5> QED BY <1>4, <3>2, <3>3, <5>1
      <4> QED BY <4>1, <4>2
    <3>5. t = p
      BY <1>4, <3>1, <3>4, SeqEqual
    <3> QED BY <3>5 DEF p
  <2>4. Intact(N)' => started' = <<>> /\ wire' = <<>>
    BY <1>1, <1>15, <1>16, <2>2
  <2>5. Due(N)' => Intact(N)'
    BY <1>16, <1>18, <2>1, <2>2, <2>3 DEF Latest
  <2>6. Clean(N)' => Skipping'
    <3> SUFFICES ASSUME Clean(N) PROVE Skipping'
      BY <1>17
    <3>1. CASE Opened(N)
      <4>1. lv = 0
        <5>1. wire' = <<>>
          BY <1>15, <2>3, <3>1
        <5> QED BY <5>1 DEF lv
      <4>2. \A j \in 1..lv : wire'[j].at # 0
        BY <4>1
      <4> QED BY <1>1, <4>2 DEF Skipping, lv
    <3>2. CASE Straddling
      <4>1. \A j \in 8..lw : wire[j].at # 0
        BY <3>2 DEF Straddling, lw
      <4>2. \A j \in 1..lv : wire'[j].at # 0
        BY <1>4, <4>1
      <4> QED BY <1>1, <4>2 DEF Skipping, lv
    <3> QED BY <2>1, <2>2, <3>1, <3>2 DEF Latest
  <2> QED BY <2>4, <2>5, <2>6 DEF Latest
<1> QED
  BY <1>7, <1>11, <1>13, <1>14, <1>19, <1>20 DEF LineInv

\* A receiver that has read all it can is not at the start of a whole packet.
LEMMA IdleFacts ==
    ASSUME wire \in Seq(Byte), Idle, NEW i \in Nat
    PROVE  ~Fresh(i) /\ ~Opened(i) /\ ~Straddling
<1>1. ~Fresh(i)
  BY PacketHead DEF Idle, Fresh
<1>2. ~Opened(i)
  <2> SUFFICES ASSUME Opened(i) PROVE FALSE
    OBVIOUS
  <2> DEFINE p == PacketBytes(i)
             l == Len(p)
             m == Len(wire)
  <2>1. p \in Seq(Byte) /\ l = 8 /\ p # <<>>
    BY PacketFacts, PacketHead
  <2>2. wire = Tail(p) /\ started = <<p[1]>>
    BY DEF Opened
  <2> HIDE DEF p
  <2>3. m = l - 1
    BY <2>1, <2>2, TailFacts
  <2>4. started # <<>>
    BY <2>2
  <2>5. m < 7
    BY <2>4 DEF Idle
  <2> HIDE DEF l, m
  <2> QED BY <2>1, <2>3, <2>5
<1>3. ~Straddling
  <2> SUFFICES ASSUME Straddling PROVE FALSE
    OBVIOUS
  <2> DEFINE m == Len(wire)
  <2>1. m \in Nat /\ m >= 7 /\ m < 7
    BY DEF Straddling, Idle
  <2> HIDE DEF m
  <2> QED BY <2>1
<1> QED
  BY <1>1, <1>2, <1>3

\* and after a packet was sent, whole or without a byte.
LEMMA SendStep ==
    ASSUME LineInv, NEW at \in SUBSET (1..7), NEW n \in 0..8, SendPacket(at, n)
    PROVE  LineInv'
<1>0. PICK N \in Nat : N = Len(inner)
  BY DEF LineInv, LineType
<1> DEFINE M == N + 1
           lw == Len(wire)
           lv == Len(wire')
           lt == Len(taken)
           lost1 == n # 0
<1>1. /\ Idle /\ UNCHANGED <<started, taken>>
      /\ wire' = wire \o SubSeq(PacketBytes(M), 1, n - 1) \o SubSeq(PacketBytes(M), n + 1, 8)
      /\ inner' = Append(inner, at) /\ lost' = Append(lost, lost1)
  BY <1>0 DEF SendPacket
<1>2. /\ wire \in Seq(Byte) /\ taken \in Seq(Seq(Byte)) /\ inner \in Seq(SUBSET (1..7))
      /\ lost \in Seq(BOOLEAN) /\ Len(lost) = N /\ lw \in Nat /\ lt \in Nat
      /\ started = <<>> \/ \E b \in Byte : started = <<b>>
  BY <1>0 DEF LineInv, LineType
<1>3. M \in Nat /\ lost1 \in BOOLEAN
  OBVIOUS
<1>4. /\ inner' \in Seq(SUBSET (1..7)) /\ Len(inner') = M /\ inner'[M] = at
      /\ \A i \in 1..N : inner'[i] = inner[i]
  BY <1>0, <1>1, <1>2
<1>5. /\ lost' \in Seq(BOOLEAN) /\ Len(lost') = M /\ lost'[M] = lost1
      /\ \A i \in 1..N : lost'[i] = lost[i]
  BY <1>0, <1>1, <1>2, <1>3
<1>6. /\ wire' \in Seq(Byte) /\ lv = lw + (IF n = 0 THEN 8 ELSE 7)
      /\ \A j \in 1..lw : wire'[j] = wire[j]
      /\ \A j \in (lw + 1)..lv :
            /\ wire'[j].packet = M /\ wire'[j].at \in 0..7
            /\ wire'[j].at = IF n # 0 /\ j - lw >= n THEN j - lw ELSE j - lw - 1
  <2>1. /\ wire' \in Seq(Byte) /\ lv = lw + (IF n = 0 THEN 8 ELSE 7)
        /\ \A j \in 1..lw : wire'[j] = wire[j]
        /\ \A j \in (lw + 1)..lv :
              /\ wire'[j] \in Byte /\ wire'[j].packet = M
              /\ wire'[j].at = IF n # 0 /\ j - lw >= n THEN j - lw ELSE j - lw - 1
    <3> HIDE DEF M
    <3>1. /\ wire \in Seq(Byte) /\ M \in Nat /\ n \in 0..8
          /\ wire' = wire \o SubSeq(PacketBytes(M), 1, n - 1) \o SubSeq(PacketBytes(M), n + 1, 8)
      BY <1>1, <1>2, <1>3
    <3>2. SentOn(wire', wire, M, n)
      BY ONLY <3>1, SentFacts, Zenon
    <3> QED BY <3>2 DEF SentOn
  <2> HIDE DEF lw, lv, M
  <2>2. \A j \in (lw + 1)..lv : wire'[j].at \in 0..7
    BY <2>1 DEF Byte
  <2> QED BY <2>1, <2>2
<1>7. LineType'
  BY <1>1, <1>2, <1>4, <1>5, <1>6 DEF LineType
<1>8. /\ \A j \in 1..lw : wire[j].packet \in 1..N
      /\ \A i, j \in 1..lw : i < j => Rank(wire[i]) < Rank(wire[j])
  BY <1>0 DEF LineInv, LineOrder
<1>9. \A j \in 1..lw : wire[j].at \in 0..7
  <2> SUFFICES ASSUME NEW j \in 1..lw PROVE wire[j].at \in 0..7
    OBVIOUS
  <2>1. wire[j] \in Byte
    BY <1>2
  <2> HIDE DEF lw
  <2> QED BY <2>1 DEF Byte
<1>10. /\ \A m \in 1..lt : taken[m][1].packet \in 1..N
       /\ \A m \in 1..lt : started # <<>> => taken[m][1].packet <= started[1].packet
       /\ \A m \in 1..lt : \A j \in 1..lw : taken[m][1].packet <= wire[j].packet
       /\ \A m, k \in 1..lt : m < k => taken[m][1].packet <= taken[k][1].packet
  BY <1>0 DEF LineInv, TakenOrder
\* A receiver within a packet is within the one sent last.
<1>11. started # <<>> => /\ lw < 7 /\ started[1].packet = N /\ N \in 1..N
                         /\ \A j \in 1..lw : started[1].packet <= wire[j].packet
  <2> SUFFICES ASSUME started # <<>>
               PROVE  /\ lw < 7 /\ started[1].packet = N /\ N \in 1..N
                      /\ \A j \in 1..lw : started[1].packet <= wire[j].packet
    OBVIOUS
  <2>1. /\ lw < 7 /\ started[1].packet \in 1..N
        /\ \A j \in 1..lw : started[1].packet <= wire[j].packet
        /\ started[1].packet = N \/ lw >= 7
    BY <1>0, <1>1 DEF Idle, LineInv, LineOrder
  <2> HIDE DEF lw
  <2> QED BY <1>2, <2>1
<1>12. started = <<>> => lw = 0 /\ wire = <<>>
  BY <1>1 DEF Idle
<1> HIDE DEF lw, lv, lt, lost1
<1>13. \A j \in 1..lv : \/ j \in 1..lw /\ wire'[j] = wire[j]
                        \/ j \in (lw + 1)..lv /\ ~(j \in 1..lw)
  BY <1>2, <1>6
<1>14. \A j \in 1..lv : wire'[j].packet \in 1..M /\ N <= M
  BY <1>6, <1>8, <1>13
<1>15. LineOrder'
  <2>1. ASSUME NEW i \in 1..lv, NEW j \in 1..lv, i < j
        PROVE  Rank(wire'[i]) < Rank(wire'[j])
    <3>1. CASE j \in 1..lw
      <4>1. i \in 1..lw
        BY <1>2, <2>1, <3>1
      <4> QED BY <1>6, <1>8, <2>1, <3>1, <4>1
    <3>2. CASE i \in 1..lw /\ j \in (lw + 1)..lv
      <4>1. /\ wire'[i].packet \in 1..N /\ wire'[i].at \in 0..7
            /\ wire'[j].packet = M /\ wire'[j].at \in 0..7
        BY <1>6, <1>8, <1>9, <3>2
      <4> QED BY <4>1 DEF Rank
    <3>3. CASE i \in (lw + 1)..lv /\ j \in (lw + 1)..lv
      <4>1. /\ wire'[i].packet = M /\ wire'[j].packet = M
            /\ wire'[i].at = IF n # 0 /\ i - lw >= n THEN i - lw ELSE i - lw - 1
            /\ wire'[j].at = IF n # 0 /\ j - lw >= n THEN j - lw ELSE j - lw - 1
        BY <1>6, <3>3
      <4>2. wire'[i].at < wire'[j].at
        BY <1>2, <1>6, <2>1, <4>1
      <4>3. wire'[i].at \in 0..7 /\ wire'[j].at \in 0..7
        BY <1>6, <3>3
      <4> QED BY <4>1, <4>2, <4>3 DEF Rank
    <3>4. i \in (lw + 1)..lv => j \in (lw + 1)..lv
      BY <1>2, <1>6, <2>1
    <3> QED BY <1>13, <3>1, <3>2, <3>3, <3>4
  <2>2. started = <<>> => \A j \in 1..lv : wire'[j].packet = M
    BY <1>6, <1>12
  <2>3. started # <<>> => /\ started[1].packet \in 1..M
                          /\ \A j \in 1..lv : started[1].packet <= wire'[j].packet
                          /\ lv >= 7 /\ started[1].packet + 1 = M /\ wire'[7].packet = M
    <3> SUFFICES ASSUME started # <<>>
                 PROVE  /\ started[1].packet \in 1..M
                        /\ \A j \in 1..lv : started[1].packet <= wire'[j].packet
                        /\ lv >= 7 /\ started[1].packet + 1 = M /\ wire'[7].packet = M
      OBVIOUS
    <3>1. started[1].packet \in 1..M /\ lv >= 7 /\ started[1].packet + 1 = M
      BY <1>2, <1>6, <1>11
    <3>2. 7 \in (lw + 1)..lv
      BY <1>2, <1>6, <1>11
    <3>3. wire'[7].packet = M
      BY <1>6, <3>2
    <3>4. ASSUME NEW j \in 1..lv PROVE started[1].packet <= wire'[j].packet
      BY <1>6, <1>11, <1>13, <3>1
    <3> QED BY <3>1, <3>3, <3>4
  <2>4. Len(inner') = M /\ Len(wire') = lv /\ started' = started
    BY <1>1, <1>4 DEF lv
  <2> QED BY <1>14, <2>1, <2>2, <2>3, <2>4 DEF LineOrder
<1>16. TakenOrder'
  <2>1. \A m \in 1..lt : taken[m][1].packet \in 1..M /\ taken[m][1].packet <= M
    BY <1>10
  <2>2. \A m \in 1..lt : \A j \in 1..lv : taken[m][1].packet <= wire'[j].packet
    BY <1>6, <1>10, <1>13, <2>1
  <2>3. Len(inner') = M /\ Len(wire') = lv /\ started' = started /\ taken' = taken /\ Len(taken) = lt
    BY <1>1, <1>4 DEF lv, lt
  <2> QED BY <1>10, <2>1, <2>2, <2>3 DEF TakenOrder
<1>17. \A i : Intact(i)' <=> Intact(i)
  BY <1>1 DEF Intact
<1>18. ~Intact(M)
  <2> SUFFICES ASSUME NEW m \in 1..lt, taken[m] = PacketBytes(M) PROVE FALSE
    <3>1. DOMAIN taken = 1..lt
      BY <1>2 DEF lt
    <3> QED BY <3>1 DEF Intact
  <2>1. PacketBytes(M)[1].packet = M
    <3> HIDE DEF M
    <3> QED BY <1>3, PacketFacts
  <2> QED BY <1>10, <2>1
<1>19. \A i \in 1..N : (Clean(i)' <=> Clean(i)) /\ (lost'[i] <=> lost[i])
  BY <1>4, <1>5 DEF Clean
<1>20. \A i \in 1..N : Due(i)' <=> Due(i)
  <2> SUFFICES ASSUME NEW i \in 1..N PROVE Due(i)' <=> Due(i)
    OBVIOUS
  <2>1. i = 1 \/ i - 1 \in 1..N
    OBVIOUS
  <2> QED BY <1>17, <1>19, <2>1 DEF Due
<1>21. ~Fresh(N) /\ ~Opened(N) /\ ~Straddling
  BY <1>1, <1>2, IdleFacts
<1>22. \A i \in 1..(Len(inner') - 1) : Due(i)' => Intact(i)'
  <2> SUFFICES ASSUME NEW i \in 1..N, Due(i) PROVE Intact(i)
    BY <1>4, <1>17, <1>20
  <2>1. CASE i = N
    <3>1. N > 0
      BY <2>1
    <3>2. Latest(N)
      BY <1>0, <3>1 DEF LineInv
    <3> QED BY <1>21, <2>1, <3>2 DEF Latest
  <2>2. CASE i # N
    <3>1. i \in 1..(N - 1)
      BY <2>2
    <3> QED BY <1>0, <3>1 DEF LineInv
  <2> QED BY <2>1, <2>2
\* A whole packet sent to a receiver between packets is all there is.
<1>23. ~lost'[M] /\ started = <<>> => Fresh(M)'
  <2> SUFFICES ASSUME ~lost'[M], started = <<>> PROVE Fresh(M)'
    OBVIOUS
  <2> DEFINE p == PacketBytes(M)
  <2>1. n = 0 /\ lw = 0
    BY <1>5, <1>12 DEF lost1
  <2>2. p \in Seq(Byte) /\ Len(p) = 8 /\ \A j \in 1..8 : p[j] = [packet |-> M, at |-> j - 1]
    BY <1>3, PacketFacts DEF PacketBytes
  <2>3. lv = 8
    BY <1>6, <2>1
  <2>4. \A j \in 1..8 : wire'[j] = [packet |-> M, at |-> j - 1]
    <3> SUFFICES ASSUME NEW j \in 1..8 PROVE wire'[j] = [packet |-> M, at |-> j - 1]
      OBVIOUS
    <3>1. j \in (lw + 1)..lv
      BY <2>1, <2>3
    <3>2. wire'[j].packet = M /\ wire'[j].at = j - 1
      BY <1>6, <2>1, <3>1
    <3>3. wire'[j] \in Byte
      BY <1>6, <2>3 DEF lv
    <3> HIDE DEF M
    <3> QED BY <3>2, <3>3 DEF Byte
  <2> HIDE DEF p
  <2>5. wire' = p
    <3>1. Len(wire') = Len(p)
      BY <2>2, <2>3 DEF lv
    <3>2. \A j \in 1..Len(wire') : wire'[j] = p[j]
      BY <2>2, <2>3, <2>4 DEF lv
    <3> QED BY <1>6, <2>2, <3>1, <3>2, SeqEqual
  <2> QED BY <1>1, <2>5 DEF Fresh, p
<1>24. Due(M)' => Fresh(M)'
  <2> SUFFICES ASSUME Due(M)' PROVE started = <<>> /\ ~lost'[M]
    BY <1>23
  <2>1. M - 1 = N
    OBVIOUS
  <2>2. /\ ~lost'[M] /\ (M = 1 \/ Intact(N) \/ Clean(N)')
    BY <1>17, <2>1 DEF Due
  <2>3. CASE N = 0
    BY <1>11, <2>2, <2>3
  <2>4. CASE N # 0
    <3>1. Latest(N) /\ N \in 1..N
      BY <1>0, <2>4 DEF LineInv
    <3>2. Intact(N) \/ Clean(N)
      BY <1>19, <2>2, <2>4, <3>1
    <3> QED BY <1>21, <2>2, <3>1, <3>2 DEF Latest, Skipping
  <2> QED BY <2>3, <2>4
<1>25. Clean(M)' => Fresh(M)' \/ Straddling'
  <2> SUFFICES ASSUME Clean(M)', started # <<>> PROVE Straddling'
    BY <1>23 DEF Clean
  <2>1. n = 0 /\ lw < 7
    BY <1>5, <1>11 DEF Clean, lost1
  <2>2. lv >= 7
    BY <1>2, <1>6
  <2>3. \A j \in 8..lv : wire'[j].at # 0
    <3> SUFFICES ASSUME NEW j \in 8..lv PROVE wire'[j].at # 0
      OBVIOUS
    <3>1. j \in (lw + 1)..lv /\ j - lw - 1 # 0
      BY <1>2, <1>6, <2>1
    <3>2. wire'[j].at = j - lw - 1
      BY <1>6, <2>1, <3>1
    <3> QED BY <3>1, <3>2
  <2> QED BY <1>1, <2>2, <2>3 DEF Straddling, lv
<1>26. Latest(M)'
  BY <1>17, <1>18, <1>24, <1>25 DEF Latest
<1> QED
  BY <1>4, <1>7, <1>15, <1>16, <1>22, <1>26 DEF LineInv

\* No step leads out of the invariant.
LEMMA LineInvStep == LineInv /\ [LineNext]_lineVars => LineInv'
<1> SUFFICES ASSUME LineInv, [LineNext]_lineVars PROVE LineInv'
  OBVIOUS
<1>1. ASSUME NEW at \in {{}} \cup {{i} : i \in Inner}, NEW n \in 0..8, SendPacket(at, n)
      PROVE  LineInv'
  <2>1. at \in SUBSET (1..7)
    BY SerialLineAssumption
  <2> QED BY <1>1, <2>1, SendStep
<1>2. CASE FirstByte
  BY <1>2, FirstByteStep
<1>3. CASE Readn
  BY <1>3, ReadnStep
<1>4. CASE UNCHANGED lineVars
  BY <1>4 DEF lineVars, LineInv, LineType, LineOrder, TakenOrder, Due, Clean, Intact, Latest,
              Fresh, Opened, Skipping, Straddling
<1> QED
  BY <1>1, <1>2, <1>3, <1>4 DEF LineNext

\* However many packets are sent and however many bytes are lost, a packet that
\* lost nothing is taken intact if the one before it was, or if that one lost
\* nothing and holds no further 0xff, and the packets are taken in order
\* (OnRxKeyboardPacket, Readn).
THEOREM LineResynchronises == LineInit /\ [][LineNext]_lineVars => []Resynchronised
<1>1. LineInv => Resynchronised
  <2> SUFFICES ASSUME LineInv, Idle PROVE Resynchronised
    BY DEF Resynchronised
  <2>0. PICK N \in Nat : N = Len(inner) /\ DOMAIN inner = 1..N /\ DOMAIN taken = 1..Len(taken)
    BY DEF LineInv, LineType
  <2>1. ASSUME NEW i \in 1..N, Due(i) PROVE Intact(i)
    <3>1. CASE i = N
      <4>1. N > 0
        BY <3>1
      <4>2. Latest(N)
        BY <2>0, <4>1 DEF LineInv
      <4>3. wire \in Seq(Byte)
        BY DEF LineInv, LineType
      <4> QED BY <2>1, <3>1, <4>2, <4>3, IdleFacts DEF Latest
    <3>2. CASE i # N
      <4>1. i \in 1..(N - 1)
        BY <3>2
      <4> QED BY <2>0, <2>1, <4>1 DEF LineInv
    <3> QED BY <3>1, <3>2
  <2>2. \A m, n \in 1..Len(taken) : m < n => taken[m][1].packet <= taken[n][1].packet
    BY DEF LineInv, TakenOrder
  <2> QED BY <2>0, <2>1, <2>2 DEF Resynchronised, Due, Clean
<1> QED
  BY <1>1, LineInvInit, LineInvStep, PTL

-----------------------------------------------------------------------------
(***************************************************************************)
(* Walls.                                                                  *)
(***************************************************************************)
\* Where a monitor hangs, on a wall with three or six in a row.
LEMMA PlaceFacts ==
    ASSUME NEW m \in 1..255, NEW k \in {3, 6}
    PROVE  /\ Row(m, k) \in Nat /\ Column(m, k) \in Nat /\ Column(m, k) < k
           /\ m = k * Row(m, k) + Column(m, k) + 1
<1>1. CASE k = 3
  BY <1>1 DEF Row, Column
<1>2. CASE k = 6
  BY <1>2 DEF Row, Column
<1> QED
  BY <1>1, <1>2

\* The window that MCCKeyboardJXJEn asks for holds exactly the monitors of the
\* rectangle with those corners (getEdge, move).
THEOREM WindowsFillRectangles == WallInit => WindowFillsRectangle
<1> SUFFICES ASSUME WallInit, leftUp <= 9, rightDown <= 9
             PROVE  LET w == SendSwitch(camera, leftUp, rightDown).window
                    IN  Rectangle(leftUp, rightDown, 3, 9) =
                          {m \in 1..9 :
                              /\ w.left <= Column(m, 3) * Width /\ (Column(m, 3) + 1) * Width <= w.right
                              /\ w.top <= Row(m, 3) * Height /\ (Row(m, 3) + 1) * Height <= w.bottom}
  BY DEF WindowFillsRectangle
<1> DEFINE w == SendSwitch(camera, leftUp, rightDown).window
           lc == Column(leftUp, 3)
           lr == Row(leftUp, 3)
           rc == Column(rightDown, 3)
           rr == Row(rightDown, 3)
<1>1. /\ w.left = lc * Width /\ w.top = lr * Height
      /\ w.right = rc * Width + Width /\ w.bottom = rr * Height + Height
  BY DEF SendSwitch, Window, Row, Column
<1>2. lc \in Nat /\ lr \in Nat /\ rc \in Nat /\ rr \in Nat
  <2>1. leftUp \in 1..255 /\ rightDown \in 1..255
    BY WallAssumption DEF WallInit
  <2>2. 3 \in {3, 6}
    OBVIOUS
  <2> QED BY <2>1, <2>2, PlaceFacts, Zenon
<1> HIDE DEF w, lc, lr, rc, rr
<1>3. ASSUME NEW m \in 1..9
      PROVE  /\ Row(m, 3) \in lr..rr /\ Column(m, 3) \in lc..rc
             <=> /\ w.left <= Column(m, 3) * Width /\ (Column(m, 3) + 1) * Width <= w.right
                 /\ w.top <= Row(m, 3) * Height /\ (Row(m, 3) + 1) * Height <= w.bottom
  <2> DEFINE c == Column(m, 3)
             r == Row(m, 3)
  <2>1. c \in Nat /\ r \in Nat
    <3>1. m \in 1..255 /\ 3 \in {3, 6}
      OBVIOUS
    <3> QED BY <3>1, PlaceFacts, Zenon
  <2> HIDE DEF c, r
  <2>2. /\ r \in lr..rr /\ c \in lc..rc
        <=> /\ w.left <= c * Width /\ (c + 1) * Width <= w.right
            /\ w.top <= r * Height /\ (r + 1) * Height <= w.bottom
    BY <1>1, <1>2, <2>1 DEF Width, Height
  <2> QED BY <2>2 DEF c, r
<1> QED
  BY <1>3 DEF Rectangle, w, lc, lr, rc, rr

\* The loop over rows as the function that satisfies its equation.
RowsOff(f) ==
    f = [n \in 0..255 |-> IF n <= 6 THEN [row |-> 1, col |-> n]
                                    ELSE [f[n - 6] EXCEPT !.row = @ + 1]]
Cells == CHOOSE f : RowsOff(f)

\* Where the loop ends for the number n.
CellOf(n) == [row |-> IF n = 0 THEN 1 ELSE Row(n, 6) + 1,
              col |-> IF n = 0 THEN 0 ELSE Column(n, 6) + 1]

\* The loop starts with the number of the monitor, modulo 256.
LEMMA CellIsCells == \A m : Cell(m) = Cells[m % 256]
  BY DEF Cell, Cells, RowsOff

\* One round of the loop takes off a row of six.
LEMMA CellStep ==
    ASSUME NEW n \in 0..255
    PROVE  /\ n <= 6 => CellOf(n) = [row |-> 1, col |-> n]
           /\ ~(n <= 6) => CellOf(n) = [CellOf(n - 6) EXCEPT !.row = @ + 1]
<1>1. CASE n <= 6
  <2>1. n # 0 => Row(n, 6) = 0 /\ Column(n, 6) = n - 1
    BY <1>1 DEF Row, Column
  <2> QED BY <1>1, <2>1 DEF CellOf
<1>2. CASE n > 6
  <2>1. n - 6 \in 1..255
    BY <1>2
  <2>2. Row(n, 6) = Row(n - 6, 6) + 1 /\ Column(n, 6) = Column(n - 6, 6)
    BY <1>2 DEF Row, Column
  <2> QED BY <1>2, <2>1, <2>2 DEF CellOf
<1> QED
  BY <1>1, <1>2

\* A nonempty set of naturals has a least member.
LEMMA LeastNumber ==
    ASSUME NEW S \in SUBSET Nat, S # {}
    PROVE  \E x \in S : \A y \in S : x <= y
<1> DEFINE R == {ss \in Nat \X Nat : ss[1] < ss[2]}
<1>1. R = OpToRel(<, Nat)
  BY Zenon DEF OpToRel
<1>2. IsWellFoundedOn(R, Nat)
  BY <1>1, NatLessThanWellFounded, Zenon
<1> HIDE DEF R
<1>3. PICK x \in S : \A y \in S : ~(<<y, x>> \in R)
  BY <1>2, WFMin
<1>4. ASSUME NEW y \in S PROVE x <= y
  <2>1. x \in Nat /\ y \in Nat /\ (y < x => <<y, x>> \in R)
    BY DEF R
  <2> QED BY <1>3, <2>1
<1> QED
  BY <1>4

\* The equation has one solution: a least number where another differs would be
\* one row above a smaller one.
LEMMA CellsFunction == \A n \in 0..255 : Cells[n] = CellOf(n)
<1> DEFINE g == [n \in 0..255 |-> CellOf(n)]
<1>1. RowsOff(g)
  <2>1. ASSUME NEW n \in 0..255
        PROVE  g[n] = IF n <= 6 THEN [row |-> 1, col |-> n] ELSE [g[n - 6] EXCEPT !.row = @ + 1]
    <3>1. ~(n <= 6) => n - 6 \in 0..255
      OBVIOUS
    <3>2. ~(n <= 6) => g[n - 6] = CellOf(n - 6)
      BY <3>1
    <3>3. g[n] = CellOf(n)
      OBVIOUS
    <3> HIDE DEF g
    <3>4. CASE n <= 6
      <4>1. CellOf(n) = [row |-> 1, col |-> n]
        BY <3>4, CellStep, Zenon
      <4> QED BY <3>3, <3>4, <4>1
    <3>5. CASE ~(n <= 6)
      <4>1. CellOf(n) = [CellOf(n - 6) EXCEPT !.row = @ + 1]
        BY <3>5, CellStep
      <4>2. CellOf(n) = [g[n - 6] EXCEPT !.row = @ + 1]
        BY <3>2, <3>5, <4>1
      <4> QED BY <3>3, <3>5, <4>2
    <3> QED BY <3>4, <3>5
  <2> QED BY <2>1 DEF RowsOff
<1>2. RowsOff(Cells)
  BY <1>1 DEF Cells
<1>3. \A n \in 0..255 : /\ n <= 6 => Cells[n] = [row |-> 1, col |-> n]
                        /\ ~(n <= 6) => Cells[n] = [Cells[n - 6] EXCEPT !.row = @ + 1]
  BY <1>2 DEF RowsOff
<1> DEFINE Bad == {n \in 0..255 : Cells[n] # CellOf(n)}
<1> SUFFICES ASSUME Bad # {} PROVE FALSE
  OBVIOUS
<1>4. PICK n \in Bad : \A k \in Bad : n <= k
  <2>1. Bad \in SUBSET Nat
    OBVIOUS
  <2> HIDE DEF Bad
  <2> QED BY <2>1, LeastNumber
<1>5. n \in 0..255 /\ Cells[n] # CellOf(n)
  OBVIOUS
<1>6. ~(n <= 6)
  <2> SUFFICES ASSUME n <= 6 PROVE FALSE
    OBVIOUS
  <2>1. Cells[n] = [row |-> 1, col |-> n]
    BY <1>3, <1>5
  <2>2. CellOf(n) = [row |-> 1, col |-> n]
    BY <1>5, CellStep, Zenon
  <2> QED BY <1>5, <2>1, <2>2
<1>7. n - 6 \in 0..255 /\ ~(n <= n - 6)
  BY <1>5, <1>6
<1>8. Cells[n - 6] = CellOf(n - 6)
  BY <1>4, <1>7
<1>9. Cells[n] = [Cells[n - 6] EXCEPT !.row = @ + 1]
  BY <1>3, <1>5, <1>6
<1>10. CellOf(n) = [CellOf(n - 6) EXCEPT !.row = @ + 1]
  BY <1>5, <1>6, CellStep, Zenon
<1> QED
  BY <1>5, <1>8, <1>9, <1>10, Zenon

\* The loop finds the row and the column of a monitor, both from 1.
LEMMA CellFacts ==
    ASSUME NEW m \in 1..255
    PROVE  Cell(m).row = Row(m, 6) + 1 /\ Cell(m).col = Column(m, 6) + 1
<1>1. m % 256 = m /\ m \in 0..255 /\ m # 0
  OBVIOUS
<1>2. Cell(m) = CellOf(m)
  BY <1>1, CellIsCells, CellsFunction
<1> QED
  BY <1>1, <1>2 DEF CellOf

\* Where a monitor with a known row and column hangs.
LEMMA PlaceOf ==
    ASSUME NEW r \in Nat, NEW c \in 0..5
    PROVE  Row(6 * r + c + 1, 6) = r /\ Column(6 * r + c + 1, 6) = c
BY DEF Row, Column

\* Counting the cells of a grid of w columns row by row.
LEMMA GridCount ==
    ASSUME NEW w \in 1..6, NEW rows \in 1..14
    PROVE  rows * w \in 1..84 /\ 6 + 12 * rows * w \in 18..1014
<1>1. CASE w = 1
  BY <1>1
<1>2. CASE w = 2
  BY <1>2
<1>3. CASE w = 3
  BY <1>3
<1>4. CASE w = 4
  BY <1>4
<1>5. CASE w = 5
  BY <1>5
<1>6. CASE w = 6
  BY <1>6
<1> QED
  BY <1>1, <1>2, <1>3, <1>4, <1>5, <1>6

\* The column and the row of the n-th cell.
LEMMA GridPlace ==
    ASSUME NEW w \in 1..6, NEW rows \in 1..14, NEW n \in 0..(rows * w - 1)
    PROVE  n % w \in 0..(w - 1) /\ n \div w \in 0..(rows - 1) /\ n = w * (n \div w) + (n % w)
<1>1. CASE w = 1
  BY <1>1
<1>2. CASE w = 2
  BY <1>2
<1>3. CASE w = 3
  BY <1>3
<1>4. CASE w = 4
  BY <1>4
<1>5. CASE w = 5
  BY <1>5
<1>6. CASE w = 6
  BY <1>6
<1> QED
  BY <1>1, <1>2, <1>3, <1>4, <1>5, <1>6

\* The number of the cell in a column and a row.
LEMMA GridCell ==
    ASSUME NEW w \in 1..6, NEW rows \in 1..14, NEW x \in 0..(w - 1), NEW y \in 0..(rows - 1)
    PROVE  /\ w * y + x \in 0..(rows * w - 1)
           /\ (w * y + x) % w = x /\ (w * y + x) \div w = y
<1>1. CASE w = 1
  BY <1>1
<1>2. CASE w = 2
  BY <1>2
<1>3. CASE w = 3
  BY <1>3
<1>4. CASE w = 4
  BY <1>4
<1>5. CASE w = 5
  BY <1>5
<1>6. CASE w = 6
  BY <1>6
<1> QED
  BY <1>1, <1>2, <1>3, <1>4, <1>5, <1>6

\* The byte of a corner names its monitor.
LEMMA CornerNames ==
    ASSUME NEW m \in 1..84
    PROVE  ((Corner(Cell(m)) % 16) - 1) * 6 + (Corner(Cell(m)) \div 16) = m
<1> DEFINE r == Row(m, 6)
           c == Column(m, 6)
<1>1. m \in 1..255 /\ 6 \in {3, 6}
  OBVIOUS
<1>2. r \in Nat /\ c \in Nat /\ c < 6 /\ m = 6 * r + c + 1
  BY <1>1, PlaceFacts, Zenon
<1>3. Cell(m).row = r + 1 /\ Cell(m).col = c + 1
  BY <1>1, CellFacts
<1> HIDE DEF r, c
<1>4. r \in 0..13 /\ c \in 0..5
  BY <1>2
<1>5. Corner(Cell(m)) = (c + 1) * 16 + (r + 1)
  BY <1>3, <1>4 DEF Corner
<1>6. Corner(Cell(m)) % 16 = r + 1 /\ Corner(Cell(m)) \div 16 = c + 1
  BY <1>4, <1>5
<1> QED
  BY <1>2, <1>4, <1>6

\* On a wall of up to 84 monitors what MCCKeyboardRC sends fits its buffer and
\* switches exactly the monitors of the rectangle, each once; the frame names
\* its corners, and corners the wrong way round send nothing
\* (buildPacketFromMessage).  The fifteenth row would not fit the buffer.
THEOREM PinsFillRectangles ==
    ASSUME LastMonitor <= 84
    PROVE  WallInit => PinFillsRectangle
<1> SUFFICES ASSUME WallInit PROVE PinFillsRectangle
  OBVIOUS
<1> DEFINE sent == BuildPin(camera, leftUp, rightDown)
           lr == Row(leftUp, 6)
           lc == Column(leftUp, 6)
           rr == Row(rightDown, 6)
           rc == Column(rightDown, 6)
           cols == (rc + 1) - (lc + 1) + 1
           rows == (rr + 1) - (lr + 1) + 1
           w == rc - lc + 1
           h == rr - lr + 1
           Monitor(n) == leftUp + (n % w) + 6 * (n \div w)
<1>1. /\ leftUp \in 1..84 /\ rightDown \in 1..84 /\ leftUp \in 1..255 /\ rightDown \in 1..255
      /\ 6 \in {3, 6} /\ LastMonitor \in Nat /\ rightDown <= LastMonitor
  BY WallAssumption DEF WallInit
<1>2. /\ lr \in Nat /\ lc \in Nat /\ lc < 6 /\ leftUp = 6 * lr + lc + 1
      /\ rr \in Nat /\ rc \in Nat /\ rc < 6 /\ rightDown = 6 * rr + rc + 1
  BY <1>1, PlaceFacts, Zenon
<1>3. /\ Cell(leftUp).row = lr + 1 /\ Cell(leftUp).col = lc + 1
      /\ Cell(rightDown).row = rr + 1 /\ Cell(rightDown).col = rc + 1
  BY <1>1, CellFacts
<1> HIDE DEF lr, lc, rr, rc
<1>4. cols = w /\ rows = h
  BY <1>2
<1>5. lr \in 0..13 /\ rr \in 0..13 /\ lc \in 0..5 /\ rc \in 0..5
  BY <1>1, <1>2
<1>6. ASSUME NEW m \in 1..LastMonitor
      PROVE  /\ Row(m, 6) \in Nat /\ Column(m, 6) \in 0..5
             /\ m = 6 * Row(m, 6) + Column(m, 6) + 1
             /\ m \in Rectangle(leftUp, rightDown, 6, LastMonitor)
                  <=> Row(m, 6) \in lr..rr /\ Column(m, 6) \in lc..rc
  <2>1. m \in 1..255 /\ 6 \in {3, 6}
    BY <1>1
  <2>2. Row(m, 6) \in Nat /\ Column(m, 6) \in Nat /\ Column(m, 6) < 6 /\ m = 6 * Row(m, 6) + Column(m, 6) + 1
    BY <2>1, PlaceFacts, Zenon
  <2> QED BY <2>2 DEF Rectangle, lr, lc, rr, rc
<1>7. CASE rr < lr \/ rc < lc
  <2>1. sent = [length |-> 0, corners |-> <<>>, commands |-> <<>>]
    <3>1. Cell(rightDown).row < Cell(leftUp).row \/ Cell(rightDown).col < Cell(leftUp).col
      BY <1>3, <1>5, <1>7
    <3> QED BY <3>1 DEF BuildPin
  <2>2. Rectangle(leftUp, rightDown, 6, LastMonitor) = {}
    <3> SUFFICES ASSUME NEW m \in Rectangle(leftUp, rightDown, 6, LastMonitor) PROVE FALSE
      OBVIOUS
    <3>1. m \in 1..LastMonitor
      BY DEF Rectangle
    <3>2. Row(m, 6) \in lr..rr /\ Column(m, 6) \in lc..rc
      BY <1>6, <3>1
    <3> QED BY <1>5, <1>7, <3>2
  <2> HIDE DEF sent
  <2>3. sent.length = 0 /\ DOMAIN sent.commands = {}
    BY <2>1
  <2> QED BY <2>2, <2>3 DEF PinFillsRectangle, BufferSize, sent
<1>8. CASE ~(rr < lr \/ rc < lc)
  <2>1. w \in 1..6 /\ h \in 1..14
    BY <1>5, <1>8
  <2>2. /\ sent.length = 6 + 12 * h * w
        /\ sent.corners = <<Corner(Cell(leftUp)), Corner(Cell(rightDown))>>
        /\ DOMAIN sent.commands = 1..(h * w)
        /\ \A n \in 1..(h * w) : sent.commands[n].monitor = Monitor(n - 1)
    <3>1. ~(Cell(rightDown).row < Cell(leftUp).row \/ Cell(rightDown).col < Cell(leftUp).col)
      BY <1>3, <1>5, <1>8
    <3>2. /\ Cell(rightDown).col - Cell(leftUp).col + 1 = w
          /\ Cell(rightDown).row - Cell(leftUp).row + 1 = h
      BY <1>3, <1>4
    <3> HIDE DEF w, h
    <3> QED BY <3>1, <3>2 DEF BuildPin
  <2> HIDE DEF sent, w, h
  <2> DEFINE size == h * w
  <2>3. size \in 1..84 /\ 6 + 12 * h * w \in 18..1014
    BY <2>1, GridCount
  <2>4. ASSUME NEW n \in 0..(size - 1)
        PROVE  /\ n % w \in 0..(w - 1) /\ n \div w \in 0..(h - 1)
               /\ n = w * (n \div w) + (n % w)
    BY <2>1, GridPlace
  \* Every command is for a monitor of the rectangle ...
  <2>5. ASSUME NEW n \in 0..(size - 1)
        PROVE  Monitor(n) \in Rectangle(leftUp, rightDown, 6, LastMonitor)
    <3> DEFINE x == n % w
               y == n \div w
               m == 6 * (lr + y) + (lc + x) + 1
    <3>1. x \in 0..(w - 1) /\ y \in 0..(h - 1)
      BY <2>4
    <3>2. Monitor(n) = leftUp + x + 6 * y
      OBVIOUS
    <3> HIDE DEF x, y, Monitor
    <3>3. lr + y \in lr..rr /\ lc + x \in lc..rc /\ lr + y \in Nat /\ lc + x \in 0..5
      BY <1>5, <2>1, <3>1 DEF w, h
    <3>4. Monitor(n) = m
      BY <1>2, <3>1, <3>2, <3>3
    <3>5. Row(m, 6) = lr + y /\ Column(m, 6) = lc + x
      BY <3>3, PlaceOf
    <3>6. m \in 1..LastMonitor
      BY <1>1, <1>2, <3>3
    <3> HIDE DEF m
    <3> QED BY <1>6, <3>3, <3>4, <3>5, <3>6
  \* ... every monitor of the rectangle has one ...
  <2>6. ASSUME NEW m \in Rectangle(leftUp, rightDown, 6, LastMonitor)
        PROVE  \E n \in 0..(size - 1) : m = Monitor(n)
    <3>1. m \in 1..LastMonitor
      BY DEF Rectangle
    <3> DEFINE r == Row(m, 6)
               c == Column(m, 6)
               x == c - lc
               y == r - lr
               n == w * y + x
    <3>2. r \in lr..rr /\ c \in lc..rc /\ m = 6 * r + c + 1
      BY <1>6, <3>1
    <3> HIDE DEF r, c
    <3>3. x \in 0..(w - 1) /\ y \in 0..(h - 1) /\ m = leftUp + x + 6 * y
      BY <1>2, <1>5, <3>2 DEF w, h
    <3> HIDE DEF x, y
    <3>4. n \in 0..(size - 1) /\ n % w = x /\ n \div w = y
      BY <2>1, <3>3, GridCell
    <3> HIDE DEF n
    <3> QED BY <3>3, <3>4
  \* ... and no more than one.
  <2>7. ASSUME NEW n \in 0..(size - 1), NEW k \in 0..(size - 1), Monitor(n) = Monitor(k)
        PROVE  n = k
    <3> DEFINE x == n % w
               y == n \div w
               u == k % w
               v == k \div w
    <3>1. /\ x \in 0..(w - 1) /\ y \in 0..(h - 1) /\ n = w * y + x
          /\ u \in 0..(w - 1) /\ v \in 0..(h - 1) /\ k = w * v + u
      BY <2>4
    <3>2. leftUp + x + 6 * y = leftUp + u + 6 * v
      BY <2>7
    <3> HIDE DEF x, y, u, v
    <3>3. x = u /\ y = v
      BY <1>1, <2>1, <3>1, <3>2
    <3> QED BY <3>1, <3>3
  <2> HIDE DEF Monitor
  <2>8. {sent.commands[n].monitor : n \in DOMAIN sent.commands}
          = Rectangle(leftUp, rightDown, 6, LastMonitor)
    <3>1. ASSUME NEW n \in 1..size
          PROVE  sent.commands[n].monitor \in Rectangle(leftUp, rightDown, 6, LastMonitor)
      <4>1. n - 1 \in 0..(size - 1)
        BY <2>3
      <4> QED BY <2>2, <2>5, <4>1
    <3>2. ASSUME NEW m \in Rectangle(leftUp, rightDown, 6, LastMonitor)
          PROVE  \E n \in 1..size : sent.commands[n].monitor = m
      <4>1. PICK n \in 0..(size - 1) : m = Monitor(n)
        BY <2>6
      <4> DEFINE k == n + 1
      <4>2. k \in 1..size /\ k - 1 = n
        BY <2>3
      <4> HIDE DEF k
      <4> QED BY <2>2, <4>1, <4>2
    <3> QED BY <2>2, <3>1, <3>2
  <2>9. ASSUME NEW m \in DOMAIN sent.commands, NEW n \in DOMAIN sent.commands,
               sent.commands[m].monitor = sent.commands[n].monitor
        PROVE  m = n
    <3>1. m \in 1..size /\ n \in 1..size
      BY <2>2
    <3>2. m - 1 \in 0..(size - 1) /\ n - 1 \in 0..(size - 1)
      BY <2>3, <3>1
    <3>3. Monitor(m - 1) = Monitor(n - 1)
      BY <2>2, <2>9, <3>1
    <3>4. m - 1 = n - 1
      BY <2>7, <3>2, <3>3
    <3> QED BY <2>3, <3>1, <3>4
  <2>10. sent.corners[1] = Corner(Cell(leftUp)) /\ sent.corners[2] = Corner(Cell(rightDown))
    BY <2>2
  <2>11. /\ ((sent.corners[1] % 16) - 1) * 6 + (sent.corners[1] \div 16) = leftUp
         /\ ((sent.corners[2] % 16) - 1) * 6 + (sent.corners[2] \div 16) = rightDown
    <3>1. /\ ((Corner(Cell(leftUp)) % 16) - 1) * 6 + (Corner(Cell(leftUp)) \div 16) = leftUp
          /\ ((Corner(Cell(rightDown)) % 16) - 1) * 6 + (Corner(Cell(rightDown)) \div 16) = rightDown
      BY <1>1, CornerNames
    <3> QED BY <2>10, <3>1, Zenon
  <2>12. sent.length <= BufferSize
    <3> DEFINE l == 6 + 12 * h * w
    <3>1. sent.length = l /\ l \in 18..1014
      BY <2>2, <2>3
    <3> HIDE DEF l
    <3> QED BY <3>1 DEF BufferSize
  <2> QED BY <2>8, <2>9, <2>11, <2>12 DEF PinFillsRectangle, sent
<1> QED
  BY <1>7, <1>8
=============================================================================
