------------------------------ MODULE SerialLine ------------------------------
(***************************************************************************)
(* How a driver cuts the bytes of a keyboard's line into packets: it skips *)
(* to the next 0xff and takes the seven bytes after it, whatever they are; *)
(* the checksum is not looked at.  The line may lose bytes.                *)
(***************************************************************************)
EXTENDS Integers, Sequences, FiniteSets

CONSTANTS
    Inner,       \* positions after the first where a packet may hold 0xff
    MaxPackets,  \* bound: packets the keyboard sends
    MaxLost      \* bound: bytes the line loses

ASSUME SerialLineAssumption ==
    Inner \subseteq 1..7 /\ MaxPackets \in Nat /\ MaxLost \in Nat

VARIABLES
    wire,        \* bytes on the line: which packet they are from, and where
    inner,       \* inner[i]: where packet i holds a further 0xff, if anywhere
    lost,        \* lost[i]: did packet i lose a byte?
    started,     \* the receiver is in Readn
    taken        \* the packets the receiver has taken

lineVars == <<wire, inner, lost, started, taken>>

PacketBytes(i) == [n \in 1..8 |-> [packet |-> i, at |-> n - 1]]

Is0xff(byte) == byte.at = 0 \/ byte.at \in inner[byte.packet]

LineInit ==
    /\ wire = <<>> /\ inner = <<>> /\ lost = <<>> /\ started = <<>> /\ taken = <<>>

\* The receiver has read all it can: it is faster than the line.
Idle == IF started = <<>> THEN wire = <<>> ELSE Len(wire) < 7

\* The keyboard sends a packet, of which the line loses byte n, or none.
SendPacket(at, n) ==
    LET bytes == PacketBytes(Len(inner) + 1)
    IN  /\ Idle /\ Len(inner) < MaxPackets
        /\ n # 0 => Cardinality({i \in DOMAIN lost : lost[i]}) < MaxLost
        /\ wire' = wire \o SubSeq(bytes, 1, n - 1) \o SubSeq(bytes, n + 1, 8)
        /\ inner' = Append(inner, at)
        /\ lost' = Append(lost, n # 0)
        /\ UNCHANGED <<started, taken>>

\* Mutant: the first byte of a packet is whatever comes next.
FirstByteAny ==
    /\ started = <<>> /\ wire # <<>>
    /\ wire' = Tail(wire)
    /\ started' = <<Head(wire)>>
    /\ UNCHANGED <<inner, lost, taken>>

\* The loop of OnRxKeyboardPacket reads one byte.
FirstByte ==
    /\ started = <<>> /\ wire # <<>>
    /\ wire' = Tail(wire)
    /\ started' = IF Is0xff(Head(wire)) THEN <<Head(wire)>> ELSE <<>>
    /\ UNCHANGED <<inner, lost, taken>>

\* Readn has its seven bytes.
Readn ==
    /\ started # <<>> /\ Len(wire) >= 7
    /\ taken' = Append(taken, started \o SubSeq(wire, 1, 7))
    /\ wire' = SubSeq(wire, 8, Len(wire))
    /\ started' = <<>>
    /\ UNCHANGED <<inner, lost>>

LineNext ==
    \/ \E at \in {{}} \cup {{i} : i \in Inner}, n \in 0..8 : SendPacket(at, n)
    \/ FirstByte \/ Readn
-----------------------------------------------------------------------------
Intact(i) == \E n \in DOMAIN taken : taken[n] = PacketBytes(i)

\* A lost byte costs its packet and at most the next one: a packet that lost
\* nothing arrives intact and in order if the one before did, or if that one
\* lost nothing either and holds no further 0xff.  So the receiver can stay out
\* of step only while packet after packet holds a 0xff, as a motion at full
\* speed to the right or down does (OnRxKeyboardPacket, Readn).
Resynchronised ==
    Idle =>
        /\ \A i \in DOMAIN inner :
              ~lost[i] /\ (i = 1 \/ Intact(i - 1) \/ (~lost[i - 1] /\ inner[i - 1] = {})) =>
                  Intact(i)
        /\ \A m, n \in DOMAIN taken : m < n => taken[m][1].packet <= taken[n][1].packet
=============================================================================
