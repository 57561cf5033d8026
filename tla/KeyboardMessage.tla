---------------------------- MODULE KeyboardMessage ----------------------------
(***************************************************************************)
(* MCCKeyboardMessage and its two encodings: the 8-byte packets of the     *)
(* serial keyboards and matrices (MCCKeyboardJXJ) and the packets of the   *)
(* GUI clients (MCCClientManager).                                         *)
(***************************************************************************)
EXTENDS Integers

\* ptz_opt_type is a set of these bits; STOP is the empty set.
PtzBits == {"UP", "DOWN", "LEFT", "RIGHT", "ZOOMIN", "ZOOMOUT"}

Byte == 0..255
Packet == [0..7 -> Byte]

\* Everything operator== compares; seq and cached_cmd are left out.
Messages ==
    [type : {"UNKNOWN", "SWITCH", "PTZ", "Pin"}, kb : Int, cam : Int \X Int, mon : Int,
     leftUp : Int, rightDown : Int, opt : SUBSET PtzBits, vstep : Nat, hstep : Nat,
     lock : {0, 1, 2}]

\* The constructor.
NewMessage ==
    [type |-> "UNKNOWN", kb |-> 0, cam |-> <<-1, -1>>, mon |-> 0, leftUp |-> 0,
     rightDown |-> 0, opt |-> {}, vstep |-> 0, hstep |-> 0, lock |-> 0]

(***************************************************************************)
(* Packets on the serial lines.                                            *)
(***************************************************************************)

\* A byte read through a char.
Signed(b) == IF b < 128 THEN b ELSE b - 256

\* Bit 7 of a step byte is its direction.
Direction(b, positive, negative) ==
    IF b % 128 = 0 THEN {} ELSE IF b < 128 THEN {positive} ELSE {negative}

Zoom(b) == CASE b = 64 -> {"ZOOMIN"} [] b = 128 -> {"ZOOMOUT"} [] OTHER -> {}

\* The commands of byte 2.
SwitchCmd == 17
PtzCmd == 33
RegisterCmd == 65

\* buildMessageFromPacket of keyboard id at that matrix.
MessageFromPacket(p, id, matrix) ==
    LET base == [NewMessage EXCEPT !.kb = id, !.cam = <<matrix, Signed(p[4])>>]
    IN  CASE p[2] = SwitchCmd ->
                [base EXCEPT !.type = "SWITCH", !.mon = Signed(p[5])]
          [] p[2] = PtzCmd ->
                [base EXCEPT !.type = "PTZ", !.hstep = p[5] % 128, !.vstep = p[6] % 128,
                             !.opt = Zoom(p[3]) \cup Direction(p[5], "LEFT", "RIGHT")
                                                \cup Direction(p[6], "UP", "DOWN")]
          [] OTHER -> base

\* Mutant: STOP does not clear the bytes of the axes.
AxisByteNoStop(old, opt, first, firstByte, second, secondByte) ==
    CASE second \in opt -> secondByte % 256
      [] first \in opt /\ second \notin opt -> firstByte % 256
      [] OTHER -> old

\* A byte of a PTZ packet: the later of two contradictory bits wins, and
\* without either bit the buffer keeps what it holds, unless all is to stop.
AxisByte(old, opt, first, firstByte, second, secondByte) ==
    CASE second \in opt -> secondByte % 256
      [] first \in opt /\ second \notin opt -> firstByte % 256
      [] opt = {} -> 0
      [] OTHER -> old

\* The bytes of a message without the checksum.
PayloadFromMessage(buf, m) ==
    LET b == [buf EXCEPT ![0] = 255, ![1] = 0]
    IN  CASE m.type = "SWITCH" ->
                [b EXCEPT ![2] = SwitchCmd, ![3] = 0, ![4] = m.cam[2] % 256,
                          ![5] = m.mon % 256, ![6] = 85]
          [] m.type = "PTZ" ->
                [b EXCEPT ![2] = PtzCmd, ![4] = m.cam[2] % 256,
                          ![3] = AxisByte(b[3], m.opt, "ZOOMIN", 64, "ZOOMOUT", 128),
                          ![5] = AxisByte(b[5], m.opt, "LEFT", m.hstep, "RIGHT", 128 + m.hstep),
                          ![6] = AxisByte(b[6], m.opt, "UP", m.vstep, "DOWN", 128 + m.vstep)]
          [] OTHER -> b

\* buildPacketFromMessage, on the buffer of the packet before.
PacketFromMessage(buf, m) ==
    LET b == PayloadFromMessage(buf, m)
    IN  [b EXCEPT ![7] = (b[1] + b[2] + b[3] + b[4] + b[5] + b[6]) % 256]

\* The static buffer of OnRxMatrixPacket: camera 1 to monitor 1.
FirstPacket ==
    [i \in 0..7 |-> CASE i = 0 -> 255 [] i = 2 -> 17 [] i \in {4, 5} -> 1
                      [] i = 6 -> 85 [] i = 7 -> 104 [] OTHER -> 0]

(***************************************************************************)
(* Packets of the GUI clients.                                             *)
(***************************************************************************)

ClientPackets ==
    [type : {"SWITCH", "PTZ", "Pin", "other"}, kb : Int, cam : Int \X Int, mon : Int,
     opt : SUBSET PtzBits, lumid : Int, rdmid : Int]

\* Mutant: a step up is negative.
MessageFromClientSigned(p) ==
    [NewMessage EXCEPT !.type = p.type, !.kb = p.kb, !.cam = p.cam, !.mon = p.mon,
                       !.opt = p.opt, !.vstep = IF "UP" \in p.opt THEN -20 ELSE 20]

\* The message onReadable posts for a packet of type 1, 2 or 3.
MessageFromClient(p) ==
    LET base == [NewMessage EXCEPT !.type = p.type, !.kb = p.kb, !.cam = p.cam, !.mon = p.mon]
    IN  CASE p.type = "SWITCH" -> base
          [] p.type = "PTZ" ->
                [base EXCEPT !.opt = p.opt,
                             !.vstep = IF p.opt \cap {"UP", "DOWN"} # {} THEN 20 ELSE 0,
                             !.hstep = IF p.opt \cap {"LEFT", "RIGHT"} # {} THEN 20 ELSE 0]
          [] p.type = "Pin" ->
                [base EXCEPT !.mon = p.lumid, !.leftUp = p.lumid, !.rightDown = p.rdmid]

\* What Notify tells the clients of a message.
Notice(m) == [type |-> m.type, kb |-> m.kb, cam |-> m.cam, mon |-> m.mon, opt |-> m.opt]

\* Mutant: notices of one kind are taken for the same.
SameNoticeKind(last, n) == last.type = "PTZ" /\ n.type = "PTZ"

\* The notices Notify holds for the same.
SameNotice(last, n) == last.type = "PTZ" /\ n.type = "PTZ" /\ last.opt = n.opt
=============================================================================
