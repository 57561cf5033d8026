----------------------------- MODULE ConsoleProofs -----------------------------
(***************************************************************************)
(* What Console guarantees for any keyboards, cameras, clients and packets *)
(* and any number of events.                                               *)
(***************************************************************************)
EXTENDS Console, TLAPS

\* The two halves of a queue's get.
LEMMA HeadTail ==
    ASSUME NEW S, NEW s \in Seq(S), s # <<>>
    PROVE  /\ Head(s) \in S /\ Tail(s) \in Seq(S)
           /\ s = <<Head(s)>> \o Tail(s)
<1>1. Len(s) \in Nat /\ Len(s) # 0
  OBVIOUS
<1>2. Head(s) \in S /\ Tail(s) \in Seq(S)
  BY <1>1
<1>3. s = <<Head(s)>> \o Tail(s)
  BY <1>1, <1>2
<1> QED BY <1>2, <1>3

-----------------------------------------------------------------------------
(***************************************************************************)
(* The conversions return messages, packets and notices.                   *)
(***************************************************************************)

\* The message a keyboard starts with is well formed.
LEMMA NewMessageType == NewMessage \in Messages
BY DEF NewMessage, Messages

\* buildMessageFromPacket.
LEMMA MessageFromPacketType ==
    ASSUME NEW p \in Packet, NEW id \in Int, NEW mx \in Int
    PROVE  MessageFromPacket(p, id, mx) \in Messages
<1>1. \A i \in 0..7 : p[i] \in 0..255
  BY DEF Packet, Byte
<1>2. Signed(p[4]) \in Int /\ Signed(p[5]) \in Int /\ p[5] % 128 \in Nat /\ p[6] % 128 \in Nat
  BY <1>1 DEF Signed
<1>3. Zoom(p[3]) \subseteq PtzBits
  BY DEF Zoom, PtzBits
<1>4. /\ Direction(p[5], "LEFT", "RIGHT") \subseteq PtzBits
      /\ Direction(p[6], "UP", "DOWN") \subseteq PtzBits
  BY DEF Direction, PtzBits
<1> DEFINE base == [NewMessage EXCEPT !.kb = id, !.cam = <<mx, Signed(p[4])>>]
           opt == Zoom(p[3]) \cup Direction(p[5], "LEFT", "RIGHT")
                             \cup Direction(p[6], "UP", "DOWN")
<1>5. base \in Messages
  BY <1>2, NewMessageType DEF Messages
<1>6. opt \in SUBSET PtzBits
  BY <1>3, <1>4
<1>7. [base EXCEPT !.type = "SWITCH", !.mon = Signed(p[5])] \in Messages
  BY <1>2, <1>5 DEF Messages
<1>8. [base EXCEPT !.type = "PTZ", !.hstep = p[5] % 128, !.vstep = p[6] % 128,
                   !.opt = opt] \in Messages
  <2> HIDE DEF base, opt
  <2> QED BY <1>2, <1>5, <1>6 DEF Messages
<1> QED
  BY <1>5, <1>7, <1>8 DEF MessageFromPacket, SwitchCmd, PtzCmd

\* What onReadable posts.
LEMMA MessageFromClientType ==
    ASSUME NEW p \in ClientPackets, p.type # "other"
    PROVE  MessageFromClient(p) \in Messages
<1> DEFINE base == [NewMessage EXCEPT !.type = p.type, !.kb = p.kb, !.cam = p.cam, !.mon = p.mon]
<1>1. base \in Messages
  BY NewMessageType DEF Messages, ClientPackets
<1>2. p.type \in {"SWITCH", "PTZ", "Pin"} /\ p.opt \in SUBSET PtzBits
      /\ p.lumid \in Int /\ p.rdmid \in Int
  BY DEF ClientPackets
<1> QED
  BY <1>1, <1>2 DEF MessageFromClient, Messages

\* A notice of a message is one the clients understand.
LEMMA NoticeType ==
    ASSUME NEW m \in Messages
    PROVE  Notice(m) \in Notices
BY DEF Notice, Notices, Messages

\* buildPacketFromMessage writes bytes.
LEMMA AxisByteType ==
    ASSUME NEW old \in Byte, NEW opt, NEW a, NEW b, NEW x \in Nat, NEW y \in Nat
    PROVE  AxisByte(old, opt, a, x, b, y) \in Byte
BY DEF AxisByte, Byte

\* So are all eight bytes of a command.
LEMMA PacketFromMessageType ==
    ASSUME NEW b \in Packet, NEW m \in Messages
    PROVE  PacketFromMessage(b, m) \in Packet
<1>1. /\ m.cam[2] % 256 \in Byte /\ m.mon % 256 \in Byte
      /\ m.hstep \in Nat /\ m.vstep \in Nat /\ 128 + m.hstep \in Nat /\ 128 + m.vstep \in Nat
  BY DEF Messages, Byte
<1> DEFINE c == [b EXCEPT ![0] = 255, ![1] = 0]
<1>2. c \in Packet
  BY DEF Packet, Byte
<1>3. c[3] \in Byte /\ c[5] \in Byte /\ c[6] \in Byte
  BY <1>2 DEF Packet
<1>4. /\ AxisByte(c[3], m.opt, "ZOOMIN", 64, "ZOOMOUT", 128) \in Byte
      /\ AxisByte(c[5], m.opt, "LEFT", m.hstep, "RIGHT", 128 + m.hstep) \in Byte
      /\ AxisByte(c[6], m.opt, "UP", m.vstep, "DOWN", 128 + m.vstep) \in Byte
  <2> HIDE DEF c
  <2> QED BY <1>1, <1>3, AxisByteType
<1>5. PayloadFromMessage(b, m) \in Packet
  <2> SwitchCmd \in Byte /\ PtzCmd \in Byte /\ 0 \in Byte /\ 85 \in Byte
    BY DEF SwitchCmd, PtzCmd, Byte
  <2> HIDE DEF c
  <2> QED BY <1>1, <1>2, <1>4 DEF PayloadFromMessage, Packet, c
<1> DEFINE d == PayloadFromMessage(b, m)
           sum == (d[1] + d[2] + d[3] + d[4] + d[5] + d[6]) % 256
<1>6. sum \in Byte
  <2>1. d[1] \in Int /\ d[2] \in Int /\ d[3] \in Int /\ d[4] \in Int /\ d[5] \in Int /\ d[6] \in Int
    BY <1>5 DEF Packet, Byte
  <2>2. \A t \in Int : t % 256 \in 0..255
    OBVIOUS
  <2>3. d[1] + d[2] + d[3] + d[4] + d[5] + d[6] \in Int
    BY <2>1
  <2> HIDE DEF d
  <2> QED BY <2>2, <2>3 DEF Byte
<1> HIDE DEF d, sum
<1>7. [d EXCEPT ![7] = sum] \in Packet
  BY <1>5, <1>6 DEF Packet, d
<1> QED
  BY <1>7 DEF PacketFromMessage, d, sum
-----------------------------------------------------------------------------
(***************************************************************************)
(* The type invariant, part by part.                                       *)
(***************************************************************************)

\* Before run everything is well formed.
LEMMA TypeInit == Init => TypeOK
<1> SUFFICES ASSUME Init PROVE TypeOK
  OBVIOUS
<1>1. NewMessage \in Messages
  BY NewMessageType
<1>2. FirstPacket \in Packet
  BY DEF FirstPacket, Packet, Byte
<1>3. NoNotice \in Notices
  BY DEF NoNotice, Notices, PtzBits
<1>4. 0 \in 0..MaxEvents
  BY ConsoleAssumption
<1>5. outq \in [Slot -> Seq(Messages)] /\ fifo \in Seq(Messages) /\ handled \in Seq(Messages)
  BY DEF Init
<1>6. mLastMessage \in [Slot -> Messages] /\ told \in [Fd -> Notices]
      /\ rx \in [Slot -> BOOLEAN] /\ slot \in [Slot -> SlotState]
  BY <1>1, <1>3 DEF Init, SlotState
<1>7. remote \in Seq([event : Messages, keyboard : BOOLEAN]) /\ lastSwitch \in Int \X Int
  BY DEF Init
<1> QED
  BY <1>1, <1>2, <1>3, <1>4, <1>5, <1>6, <1>7 DEF Init, TypeOK, MainState

\* Squeue::add.
LEMMA PostType ==
    ASSUME TypeOK, NEW m \in Messages, Post(m)
    PROVE  /\ fifo' \in Seq(Messages)
           /\ km' \in {"off", "check", "get", "wait", "woken", "handle", "ended"}
BY DEF TypeOK, Post

\* SendSwitch and SendPtz.
LEMMA SendType ==
    ASSUME TypeOK, NEW m \in Messages, SendToDriver(m)
    PROVE  outq' \in [Slot -> Seq(Messages)]
BY DEF TypeOK, SendToDriver, HasKeyboard

\* Perform, on whichever thread it is called.
LEMMA PerformType ==
    ASSUME TypeOK, NEW m \in Messages, Perform(m)
    PROVE  /\ rx' \in [Slot -> BOOLEAN] /\ mLastMessage' \in [Slot -> Messages]
           /\ outq' \in [Slot -> Seq(Messages)]
           /\ registered' \in BOOLEAN /\ buf' \in Packet /\ cmd' \in Messages
           /\ open' \subseteq Fd /\ mConnFdList' \subseteq Fd
           /\ lastNotice' \in Notices /\ accepted' \in Notices
           /\ told' \in [Fd -> Notices]
           /\ crash' \in {"none", "unset", "keyboard", "freed", "condition", "assert"}
<1>1. outq' \in [Slot -> Seq(Messages)]
  BY SendType DEF Perform
<1>2. Notice(m) \in Notices
  BY NoticeType
<1>3. CASE ClientManagerSet
  <2>1. Notify(m) /\ UNCHANGED crash
    BY <1>3 DEF Perform
  <2>2. told' \in [Fd -> Notices]
    BY <1>2, <2>1 DEF Notify, TypeOK
  <2> QED BY <1>1, <1>2, <2>1, <2>2 DEF Notify, Perform, TypeOK
<1>4. CASE ~ClientManagerSet
  BY <1>1, <1>4 DEF Perform, TypeOK, clients
<1> QED
  BY <1>3, <1>4

\* The manager's thread keeps everything well formed.
LEMMA HandleType ==
    ASSUME TypeOK, Handle
    PROVE  TypeOK'
<1>1. /\ km' = "check" /\ handled' \in Seq(Messages)
      /\ UNCHANGED <<main, slot, mbStop, fifo, msg, events>>
  BY DEF Handle, TypeOK
<1>2. CASE msg.type \in {"SWITCH", "Pin"} /\ OnSwitch(msg)
  <2>1. CASE Perform(msg) /\ lastSwitch' = msg.cam /\ UNCHANGED remote
    <3>1. lastSwitch' \in Int \X Int
      BY <2>1 DEF TypeOK, Messages
    <3> QED BY <1>1, <2>1, <3>1, PerformType DEF TypeOK
  <2>2. CASE /\ remote' = Append(remote, [event |-> msg, keyboard |-> HasKeyboard(msg.kb)])
             /\ UNCHANGED <<driver, clients, lastSwitch, crash>>
    <3>1. [event |-> msg, keyboard |-> HasKeyboard(msg.kb)] \in [event : Messages, keyboard : BOOLEAN]
      BY DEF TypeOK, HasKeyboard
    <3>2. remote' \in Seq([event : Messages, keyboard : BOOLEAN])
      BY <2>2, <3>1 DEF TypeOK
    <3> QED BY <1>1, <2>2, <3>2 DEF TypeOK, driver, clients
  <2>3. CASE Refuse(msg)
    BY <1>1, <2>3 DEF Refuse, TypeOK, driver, clients, resources
  <2> QED BY <1>2, <2>1, <2>2, <2>3 DEF OnSwitch
<1>3. CASE msg.type = "PTZ" /\ OnPtz(msg)
  <2>1. CASE Perform([msg EXCEPT !.cam = lastSwitch]) /\ UNCHANGED resources
    <3>1. [msg EXCEPT !.cam = lastSwitch] \in Messages
      BY DEF TypeOK, Messages
    <3> QED BY <1>1, <2>1, <3>1, PerformType DEF TypeOK, resources
  <2>2. CASE UNCHANGED <<driver, clients, resources, crash>>
    BY <1>1, <2>2 DEF TypeOK, driver, clients, resources
  <2>3. CASE Refuse(msg)
    BY <1>1, <2>3 DEF Refuse, TypeOK, driver, clients, resources
  <2> QED BY <1>3, <2>1, <2>2, <2>3 DEF OnPtz
<1>4. CASE UNCHANGED <<driver, clients, resources, crash>>
  BY <1>1, <1>4 DEF TypeOK, driver, clients, resources
<1> QED
  BY <1>2, <1>3, <1>4 DEF Handle

\* So do the threads of the agents,
LEMMA AgentType ==
    ASSUME TypeOK, AgentStep
    PROVE  TypeOK'
<1>1. ASSUME NEW i \in 1..Len(remote), NEW ok \in BOOLEAN, NEW p \in Inport, Answer(i, ok, p)
      PROVE  TypeOK'
  <2> DEFINE R == [event : Messages, keyboard : BOOLEAN]
             m == [remote[i].event EXCEPT !.type = "SWITCH", !.cam = <<MatrixId, p>>]
  <2>1. remote \in Seq(R) /\ remote[i] \in R
    <3>1. remote \in Seq(R)
      BY DEF TypeOK
    <3> HIDE DEF R
    <3> QED BY <3>1
  <2>2. remote' \in Seq(R)
    <3> HIDE DEF R
    <3>1. SubSeq(remote, 1, i - 1) \in Seq(R) /\ SubSeq(remote, i + 1, Len(remote)) \in Seq(R)
      BY <2>1
    <3> QED BY <1>1, <3>1 DEF Answer
  <2>3. m \in Messages
    BY <2>1, ConsoleAssumption DEF Messages
  <2>4. remote[i].event.cam \in Int \X Int
    BY <2>1 DEF Messages
  <2>5. outq' \in [Slot -> Seq(Messages)] /\ lastSwitch' \in Int \X Int
    <3>1. CASE ok /\ remote[i].keyboard
      <4>1. SendToDriver(m) /\ lastSwitch' = remote[i].event.cam
        BY <1>1, <3>1 DEF Answer
      <4> HIDE DEF m
      <4> QED BY <2>3, <2>4, <4>1, SendType
    <3>2. CASE ~(ok /\ remote[i].keyboard)
      BY <1>1, <3>2 DEF Answer, TypeOK
    <3> QED BY <3>1, <3>2
  <2> QED BY <1>1, <2>2, <2>5 DEF Answer, TypeOK, manager, clients
<1> DEFINE ptz(c, opt) == [NewMessage EXCEPT !.type = "PTZ", !.cam = <<MatrixId, c>>, !.opt = opt,
                                             !.vstep = 32, !.hstep = 32]
           switch(c, o) == [NewMessage EXCEPT !.type = "SWITCH", !.cam = <<MatrixId, c>>, !.mon = o]
<1>2. ASSUME NEW c \in Camera, NEW opt \in PtzRequest, ParentPtz(c, opt)
      PROVE  TypeOK'
  <2>1. ptz(c, opt) \in Messages
    BY NewMessageType, ConsoleAssumption DEF Messages
  <2>2. Perform(ptz(c, opt))
    BY <1>2 DEF ParentPtz
  <2>3. events' \in 0..MaxEvents
    BY <1>2, ConsoleAssumption DEF ParentPtz, TypeOK
  <2> HIDE DEF ptz
  <2> QED BY <1>2, <2>1, <2>2, <2>3, PerformType DEF ParentPtz, TypeOK, manager, resources
<1>3. ASSUME NEW c \in Camera, NEW o \in Outport, ParentSwitch(c, o)
      PROVE  TypeOK'
  <2>1. switch(c, o) \in Messages
    BY NewMessageType, ConsoleAssumption DEF Messages
  <2>2. Perform(switch(c, o))
    BY <1>3 DEF ParentSwitch
  <2>3. events' \in 0..MaxEvents
    BY <1>3, ConsoleAssumption DEF ParentSwitch, TypeOK
  <2> HIDE DEF switch
  <2> QED BY <1>3, <2>1, <2>2, <2>3, PerformType DEF ParentSwitch, TypeOK, manager, resources
<1> QED
  BY <1>1, <1>2, <1>3 DEF AgentStep

\* the receivers and senders of the drivers,
LEMMA DriverType ==
    ASSUME TypeOK, NEW k \in Slot, DriverStep(k)
    PROVE  TypeOK'
<1>1. CASE RxBegin(k)
  BY <1>1, ConsoleAssumption DEF RxBegin, TypeOK, manager, clients, resources
<1>2. CASE OnRxMatrixPacket(k)
  <2>1. CASE registered /\ outq[k] # <<>>
    <3>1. cmd' \in Messages /\ outq' \in [Slot -> Seq(Messages)]
      <4>1. Head(outq[k]) \in Messages /\ Tail(outq[k]) \in Seq(Messages)
        BY <2>1, HeadTail DEF TypeOK
      <4> QED BY <1>2, <2>1, <4>1 DEF OnRxMatrixPacket, TypeOK
    <3>2. buf' \in Packet
      BY <1>2, <2>1, <3>1, PacketFromMessageType DEF OnRxMatrixPacket, TypeOK
    <3> QED BY <1>2, <3>1, <3>2 DEF OnRxMatrixPacket, TypeOK, manager, clients, resources
  <2>2. CASE ~(registered /\ outq[k] # <<>>)
    BY <1>2, <2>2 DEF OnRxMatrixPacket, TypeOK, manager, clients, resources
  <2> QED BY <2>1, <2>2
<1>3. ASSUME NEW p \in KeyPacket, NEW g \in InitId, OnRxKeyboardPacket(k, p, g)
      PROVE  TypeOK'
  <2> DEFINE m == MessageFromPacket(p, IF slot[k] = "open" THEN g ELSE k, MatrixId)
  <2>1. m \in Messages
    <3>1. p \in Packet /\ MatrixId \in Int /\ (IF slot[k] = "open" THEN g ELSE k) \in Int
      BY ConsoleAssumption
    <3> QED BY <3>1, MessageFromPacketType
  <2>2. CASE m = mLastMessage[k]
    BY <1>3, <2>2 DEF OnRxKeyboardPacket, TypeOK, clients, resources
  <2>3. CASE m # mLastMessage[k]
    <3>1. Post(m) /\ mLastMessage' = [mLastMessage EXCEPT ![k] = m]
      BY <1>3, <2>3 DEF OnRxKeyboardPacket
    <3>2. rx' \in [Slot -> BOOLEAN]
          /\ UNCHANGED <<main, slot, mbStop, msg, handled, outq, registered, buf, cmd, clients,
                         resources, events, crash>>
      BY <1>3 DEF OnRxKeyboardPacket, TypeOK
    <3> HIDE DEF m
    <3>3. mLastMessage' \in [Slot -> Messages]
      BY <2>1, <3>1 DEF TypeOK
    <3> QED BY <2>1, <3>1, <3>2, <3>3, PostType DEF TypeOK, clients, resources
  <2> QED BY <2>2, <2>3
<1> QED
  BY <1>1, <1>2, <1>3 DEF DriverStep

\* the client manager,
LEMMA ClientType ==
    ASSUME TypeOK, NEW f \in Fd, ClientStep(f)
    PROVE  TypeOK'
<1>1. CASE OnNewConnection(f)
  <2>1. NoNotice \in Notices
    BY DEF NoNotice, Notices, PtzBits
  <2> QED BY <1>1, <2>1 DEF OnNewConnection, TypeOK, manager, driver, resources
<1>2. CASE OnDisconnect(f)
  BY <1>2 DEF OnDisconnect, TypeOK, manager, driver, resources
<1>3. CASE OnExcept(f)
  BY <1>3 DEF OnExcept, TypeOK, manager, driver, resources
<1>4. ASSUME NEW p \in GuiPacket, OnReadable(f, p)
      PROVE  TypeOK'
  <2>1. events' \in 0..MaxEvents
    BY <1>4, ConsoleAssumption DEF OnReadable, TypeOK
  <2>2. fifo' \in Seq(Messages) /\ km' \in {"off", "check", "get", "wait", "woken", "handle", "ended"}
    <3>1. CASE p.type = "other"
      BY <1>4, <3>1 DEF OnReadable, TypeOK
    <3>2. CASE p.type # "other"
      <4>1. MessageFromClient(p) \in Messages
        BY <3>2, MessageFromClientType, ConsoleAssumption
      <4>2. Post(MessageFromClient(p))
        BY <1>4, <3>2 DEF OnReadable
      <4> QED BY <4>1, <4>2, PostType
    <3> QED BY <3>1, <3>2
  <2> QED BY <1>4, <2>1, <2>2 DEF OnReadable, TypeOK, driver, clients, resources
<1> QED
  BY <1>1, <1>2, <1>3, <1>4 DEF ClientStep

\* The main thread, and what may end the process.
MainActions ==
    \/ MainStep \/ Shutdown \/ Exit \/ DestroyFails \/ UseFreed
    \/ \E k \in Slot : RxAssertFails(k)

\* and the main thread in run and shutdown.
LEMMA MainType ==
    ASSUME TypeOK, MainActions
    PROVE  TypeOK'
<1> USE DEF TypeOK, lifeless, manager, driver, clients, resources, MainState, SlotState
<1>1. CASE StartManager
  BY <1>1 DEF StartManager
<1>2. ASSUME NEW k \in Slot, OpenPorts(k) \/ SetId(k) \/ LoadFails(k)
      PROVE  TypeOK'
  <2>1. CASE OpenPorts(k)
    BY <2>1 DEF OpenPorts
  <2>2. CASE SetId(k)
    BY <2>2 DEF SetId
  <2>3. CASE LoadFails(k)
    BY <2>3 DEF LoadFails
  <2> QED BY <1>2, <2>1, <2>2, <2>3
<1>3. ASSUME NEW k \in Slot, ClosePort(k) \/ DeletePort(k) \/ StopQuery(k)
      PROVE  TypeOK'
  BY <1>3 DEF ClosePort, DeletePort, StopQuery
<1>4. CASE SetClientManager \/ KeyboardsUnloaded \/ DestroyQueue \/ JoinManager \/ Shutdown \/ Exit
  BY <1>4 DEF SetClientManager, KeyboardsUnloaded, DestroyQueue, JoinManager, Shutdown, Exit
<1>5. CASE StopManager
  BY <1>5 DEF StopManager
<1>6. ASSUME DestroyFails \/ UseFreed \/ \E k \in Slot : RxAssertFails(k)
      PROVE  TypeOK'
  BY <1>6 DEF DestroyFails, UseFreed, RxAssertFails
<1> QED
  BY <1>1, <1>2, <1>3, <1>4, <1>5, <1>6 DEF MainActions, MainStep

\* Every variable keeps its type: whatever packets the keyboards and the
\* clients send, the queues hold messages and the buffer holds bytes
\* (buildMessageFromPacket, buildPacketFromMessage, onReadable).
THEOREM TypeCorrect == Spec => []TypeOK
<1>1. Init => TypeOK
  BY TypeInit
<1>2. TypeOK /\ [Next]_vars => TypeOK'
  <2> SUFFICES ASSUME TypeOK, [Next]_vars PROVE TypeOK'
    OBVIOUS
  <2>1. CASE Handle
    BY <2>1, HandleType
  <2>2. CASE CheckStop
    BY <2>2 DEF CheckStop, TypeOK, driver, clients, resources
  <2>3. CASE Get
    <3>1. CASE fifo = <<>>
      BY <2>3, <3>1 DEF Get, TypeOK, driver, clients, resources
    <3>2. CASE fifo # <<>>
      <4>1. Head(fifo) \in Messages /\ Tail(fifo) \in Seq(Messages)
        BY <3>2, HeadTail DEF TypeOK
      <4> QED BY <2>3, <3>2, <4>1 DEF Get, TypeOK, driver, clients, resources
    <3> QED BY <3>1, <3>2
  <2>4. CASE AgentStep
    BY <2>4, AgentType
  <2>5. CASE MainActions
    BY <2>5, MainType
  <2>6. CASE \E k \in Slot : DriverStep(k)
    BY <2>6, DriverType
  <2>7. CASE \E f \in Fd : ClientStep(f)
    BY <2>7, ClientType
  <2>8. CASE UNCHANGED vars
    BY <2>8 DEF vars, TypeOK, manager, driver, clients, resources
  <2> QED
    BY <2>1, <2>2, <2>3, <2>4, <2>5, <2>6, <2>7, <2>8 DEF Next, ManagerStep, MainActions
<1> QED
  BY <1>1, <1>2, PTL DEF Spec
-----------------------------------------------------------------------------
(***************************************************************************)
(* While main runs, nothing but a refusal to an absent keyboard ends the   *)
(* process.                                                                *)
(***************************************************************************)

\* The property itself does not say why a keyboard the configuration enables
\* is always there to be notified: run sets the client manager only after the
\* last of them is loaded, and unloads none before shutdown.
KeyboardsLoaded == main = "running" => \A k \in Enabled : slot[k] = "loaded"

RunningInv == KeyboardsLoaded /\ RunningNeverCrashes

\* No step leads out of the invariant.
LEMMA RunningStep ==
    ASSUME TypeOK, RunningInv, [Next]_vars
    PROVE  RunningInv'
<1> USE DEF RunningInv, KeyboardsLoaded, RunningNeverCrashes
<1>1. CASE Handle
  <2>1. /\ Up /\ UNCHANGED <<main, slot>>
        /\ handled' = Append(handled, msg)
    BY <1>1 DEF Handle
  <2>2. handled'[Len(handled')] = msg
    BY <2>1 DEF TypeOK
  <2>3. ASSUME NEW m, Perform(m), main = "running"
        PROVE  crash' = "none"
    BY <2>1, <2>3 DEF Perform, ClientManagerSet, Up
  <2>4. ASSUME Refuse(msg), main = "running"
        PROVE  crash' = "none" \/ (crash' = "keyboard" /\ msg.kb \notin Enabled)
    BY <2>1, <2>4, ConsoleAssumption DEF Refuse, HasKeyboard, Up
  <2>5. main = "running" => crash' = "none" \/ (crash' = "keyboard" /\ msg.kb \notin Enabled)
    <3> SUFFICES ASSUME main = "running"
                 PROVE  crash' = "none" \/ (crash' = "keyboard" /\ msg.kb \notin Enabled)
      OBVIOUS
    <3>1. CASE OnSwitch(msg)
      BY <2>1, <2>3, <2>4, <3>1 DEF OnSwitch, Up
    <3>2. CASE OnPtz(msg)
      BY <2>1, <2>3, <2>4, <3>2 DEF OnPtz, Up
    <3>3. CASE UNCHANGED crash
      BY <2>1, <3>3 DEF Up
    <3> QED BY <1>1, <3>1, <3>2, <3>3 DEF Handle
  <2> QED BY <2>1, <2>2, <2>5
<1>2. CASE CheckStop \/ Get
  BY <1>2 DEF CheckStop, Get
<1>3. CASE AgentStep
  <2>1. ASSUME NEW i, NEW ok, NEW q, Answer(i, ok, q)
        PROVE  RunningInv'
    BY <2>1 DEF Answer, manager
  <2>2. ASSUME NEW m, Up, Perform(m), UNCHANGED <<main, slot>>
        PROVE  RunningInv'
    BY <2>2 DEF Perform, ClientManagerSet, Up
  <2>3. ASSUME NEW c, NEW o, ParentPtz(c, o) \/ ParentSwitch(c, o)
        PROVE  RunningInv'
    BY <2>2, <2>3 DEF ParentPtz, ParentSwitch
  <2> QED BY <1>3, <2>1, <2>3 DEF AgentStep
<1>4. CASE MainActions
  <2> USE DEF lifeless, manager, Up
  <2>1. CASE StartManager \/ KeyboardsUnloaded \/ DestroyQueue \/ JoinManager \/ Shutdown \/ Exit
             \/ StopManager
    BY <2>1 DEF StartManager, KeyboardsUnloaded, DestroyQueue, JoinManager, Shutdown, Exit,
                StopManager
  <2>2. CASE SetClientManager
    BY <2>2 DEF SetClientManager
  <2>3. ASSUME NEW k \in Slot, OpenPorts(k) \/ SetId(k) \/ LoadFails(k)
        PROVE  RunningInv'
    BY <2>3 DEF OpenPorts, SetId, LoadFails, Loading
  <2>4. ASSUME NEW k \in Slot, ClosePort(k) \/ DeletePort(k) \/ StopQuery(k)
        PROVE  RunningInv'
    BY <2>4 DEF ClosePort, DeletePort, StopQuery
  <2>5. CASE DestroyFails \/ UseFreed \/ \E k \in Slot : RxAssertFails(k)
    BY <2>5 DEF DestroyFails, UseFreed, RxAssertFails, ShuttingDown
  <2> QED BY <1>4, <2>1, <2>2, <2>3, <2>4, <2>5 DEF MainActions, MainStep
<1>5. ASSUME NEW k \in Slot, DriverStep(k)
      PROVE  RunningInv'
  BY <1>5 DEF DriverStep, RxBegin, OnRxMatrixPacket, OnRxKeyboardPacket, manager
<1>6. ASSUME NEW f \in Fd, ClientStep(f)
      PROVE  RunningInv'
  BY <1>6 DEF ClientStep, OnNewConnection, OnDisconnect, OnExcept, OnReadable, manager
<1>7. CASE UNCHANGED vars
  BY <1>7 DEF vars, manager
<1> QED
  BY <1>1, <1>2, <1>3, <1>4, <1>5, <1>6, <1>7 DEF Next, ManagerStep, MainActions

\* From setClientManager to the start of the shutdown the process ends only
\* when onSwitch or onPtz refuse an event of a keyboard that is not configured
\* (kb->Notify), for any keyboards, clients and events, and in whatever order
\* the threads run: in particular events posted while the keyboards were still
\* being loaded, whose ids may be garbage, are among them.
THEOREM OnlyAbsentKeyboardsCrash == Spec => []RunningNeverCrashes
<1>1. Init => RunningInv
  BY DEF Init, RunningInv, KeyboardsLoaded, RunningNeverCrashes
<1>2. TypeOK /\ RunningInv /\ [Next]_vars => RunningInv'
  BY RunningStep
<1>3. RunningInv => RunningNeverCrashes
  BY DEF RunningInv
<1> QED
  BY <1>1, <1>2, <1>3, TypeCorrect, PTL DEF Spec
-----------------------------------------------------------------------------
(***************************************************************************)
(* Notices to the clients.                                                 *)
(***************************************************************************)

\* A connection is in the list Notify sends to; last_packet differs from the
\* notice of the last event only where Notify suppresses it; and whoever was
\* told anything since it connected was told last_packet.
NoticeInv ==
    /\ open \subseteq mConnFdList
    /\ lastNotice.type = accepted.type /\ lastNotice.opt = accepted.opt
    /\ accepted.type # "PTZ" => lastNotice = accepted
    /\ \A f \in open : told[f] # NoNotice => told[f] = lastNotice

\* Notify, on whichever thread, keeps the notices in agreement.
LEMMA NotifyKeeps ==
    ASSUME TypeOK, NoticeInv, NEW m, Perform(m)
    PROVE  NoticeInv'
<1> DEFINE n == Notice(m)
<1>1. CASE ClientManagerSet
  <2>1. Notify(m)
    BY <1>1 DEF Perform
  <2>2. CASE SameNotice(lastNotice, n)
    BY <2>1, <2>2 DEF Notify, SameNotice, NoticeInv
  <2>3. CASE ~SameNotice(lastNotice, n)
    <3> HIDE DEF n
    <3>1. /\ accepted' = n /\ lastNotice' = n /\ UNCHANGED <<open, mConnFdList>>
          /\ told' = [f \in Fd |-> IF f \in mConnFdList \cap open THEN n ELSE told[f]]
      BY <2>1, <2>3 DEF Notify, n
    <3>2. \A f \in open : told'[f] = n
      BY <3>1 DEF NoticeInv, TypeOK
    <3> QED BY <3>1, <3>2 DEF NoticeInv
  <2> QED BY <2>2, <2>3
<1>2. CASE ~ClientManagerSet
  BY <1>2 DEF Perform, clients, NoticeInv
<1> QED
  BY <1>1, <1>2

\* No step leads out of the invariant.
LEMMA NoticeStep ==
    ASSUME TypeOK, NoticeInv, [Next]_vars
    PROVE  NoticeInv'
<1>0. ASSUME UNCHANGED clients
      PROVE  NoticeInv'
  BY <1>0 DEF clients, NoticeInv
<1>1. CASE Handle
  BY <1>0, <1>1, NotifyKeeps DEF Handle, OnSwitch, OnPtz, Refuse
<1>2. CASE CheckStop \/ Get
  BY <1>0, <1>2 DEF CheckStop, Get
<1>3. CASE AgentStep
  BY <1>0, <1>3, NotifyKeeps DEF AgentStep, Answer, ParentPtz, ParentSwitch
<1>4. CASE MainActions
  BY <1>0, <1>4 DEF MainActions, MainStep, StartManager, SetClientManager, OpenPorts, SetId,
     LoadFails, ClosePort, DeletePort, StopQuery, KeyboardsUnloaded, DestroyQueue, StopManager,
     JoinManager, Shutdown, Exit, DestroyFails, UseFreed, RxAssertFails, lifeless
<1>5. ASSUME NEW k \in Slot, DriverStep(k)
      PROVE  NoticeInv'
  BY <1>0, <1>5 DEF DriverStep, RxBegin, OnRxMatrixPacket, OnRxKeyboardPacket
<1>6. ASSUME NEW f \in Fd, ClientStep(f)
      PROVE  NoticeInv'
  <2>1. CASE OnNewConnection(f)
    BY <2>1 DEF OnNewConnection, NoticeInv, TypeOK
  <2>2. CASE OnDisconnect(f)
    BY <2>2 DEF OnDisconnect, NoticeInv
  <2>3. CASE OnExcept(f)
    BY <2>3 DEF OnExcept, NoticeInv
  <2>4. CASE \E p \in GuiPacket : OnReadable(f, p)
    BY <1>0, <2>4 DEF OnReadable
  <2> QED BY <1>6, <2>1, <2>2, <2>3, <2>4 DEF ClientStep
<1>7. CASE UNCHANGED vars
  BY <1>0, <1>7 DEF vars
<1> QED
  BY <1>1, <1>2, <1>3, <1>4, <1>5, <1>6, <1>7 DEF Next, ManagerStep, MainActions

\* The clients agree on the last event, for any number of them, whichever
\* connections come, go or fail between two notices and whichever notices are
\* suppressed (Notify, onNewConnection, onDisconnect, onExcept).
THEOREM NoticesAgree == Spec => []ClientsAgree
<1>1. Init => NoticeInv
  BY DEF Init, NoticeInv
<1>2. TypeOK /\ NoticeInv /\ [Next]_vars => NoticeInv'
  BY NoticeStep
<1>3. NoticeInv => ClientsAgree
  BY DEF NoticeInv, ClientsAgree
<1> QED
  BY <1>1, <1>2, <1>3, TypeCorrect, PTL DEF Spec
-----------------------------------------------------------------------------
(***************************************************************************)
(* The queue and the manager's thread implement Dispatch.                  *)
(***************************************************************************)

\* waiting of the refinement.
Waiting == IF km = "handle" THEN <<msg>> \o fifo ELSE fifo

\* A step that neither posts nor takes nor handles.
Quiet ==
    /\ UNCHANGED <<fifo, msg, handled>>
    /\ (km' = "handle") <=> (km = "handle")

\* Squeue::add is the abstract Post.
LEMMA PostRefines ==
    ASSUME TypeOK, NEW m \in Messages, Post(m), UNCHANGED <<msg, handled>>
    PROVE  Manager!Post
<1>1. fifo \in Seq(Messages) /\ msg \in Messages /\ fifo' = Append(fifo, m)
  BY DEF Post, TypeOK
<1>2. (km' = "handle") <=> (km = "handle")
  BY DEF Post
<1>3. Waiting \in Seq(Messages) /\ Waiting' = Append(Waiting, m)
  <2>1. CASE km = "handle"
    <3>1. <<msg>> \o Append(fifo, m) = Append(<<msg>> \o fifo, m)
      BY <1>1
    <3> QED BY <1>1, <1>2, <2>1, <3>1 DEF Waiting
  <2>2. CASE km # "handle"
    BY <1>1, <1>2, <2>2 DEF Waiting
  <2> QED BY <2>1, <2>2
<1>4. /\ Waiting' \in Seq(Messages) /\ Waiting' # <<>>
      /\ Waiting = SubSeq(Waiting', 1, Len(Waiting') - 1)
  <2> HIDE DEF Waiting
  <2>1. ASSUME NEW s \in Seq(Messages)
        PROVE  /\ Append(s, m) \in Seq(Messages) /\ Append(s, m) # <<>>
               /\ s = SubSeq(Append(s, m), 1, Len(Append(s, m)) - 1)
    OBVIOUS
  <2> QED BY <1>3, <2>1
<1> QED
  BY <1>4 DEF Manager!Post, Waiting

\* ThreadIf::Start is called on a thread that does not run.
NotStarted == main = "start" => km = "off"

\* run starts the manager's thread once.
LEMMA StartsOnce == Spec => []NotStarted
<1>1. Init => NotStarted
  BY DEF Init, NotStarted
<1>2. NotStarted /\ [Next]_vars => NotStarted'
  <2> SUFFICES ASSUME NotStarted, [Next]_vars PROVE NotStarted'
    OBVIOUS
  <2> USE DEF NotStarted
  <2>1. CASE ManagerStep
    BY <2>1 DEF ManagerStep, CheckStop, Get, Handle
  <2>2. CASE AgentStep
    BY <2>2 DEF AgentStep, Answer, ParentPtz, ParentSwitch, manager
  <2>3. CASE MainActions
    BY <2>3 DEF MainActions, MainStep, StartManager, SetClientManager, OpenPorts, SetId,
       LoadFails, ClosePort, DeletePort, StopQuery, KeyboardsUnloaded, DestroyQueue, StopManager,
       JoinManager, Shutdown, Exit, DestroyFails, UseFreed, RxAssertFails, lifeless, manager
  <2>4. CASE \E k \in Slot : DriverStep(k)
    BY <2>4 DEF DriverStep, RxBegin, OnRxMatrixPacket, OnRxKeyboardPacket, Post, manager
  <2>5. CASE \E f \in Fd : ClientStep(f)
    BY <2>5 DEF ClientStep, OnNewConnection, OnDisconnect, OnExcept, OnReadable, Post, manager
  <2>6. CASE UNCHANGED vars
    BY <2>6 DEF vars, manager
  <2> QED BY <2>1, <2>2, <2>3, <2>4, <2>5, <2>6 DEF Next, MainActions
<1> QED
  BY <1>1, <1>2, PTL DEF Spec

\* Every step is a step of Dispatch or leaves its state alone.
LEMMA DispatchStep ==
    ASSUME TypeOK, NotStarted, [Next]_vars
    PROVE  [Manager!Next]_<<Waiting, handled>>
<1>0. ASSUME Quiet
      PROVE  UNCHANGED <<Waiting, handled>>
  BY <1>0 DEF Quiet, Waiting
<1>1. CASE Handle
  <2>1. /\ km = "handle" /\ km' = "check" /\ UNCHANGED fifo
        /\ handled' = Append(handled, msg)
    BY <1>1 DEF Handle
  <2>2. fifo \in Seq(Messages) /\ msg \in Messages
    BY DEF TypeOK
  <2>3. /\ <<msg>> \o fifo # <<>> /\ Head(<<msg>> \o fifo) = msg
        /\ Tail(<<msg>> \o fifo) = fifo
    BY <2>2
  <2> QED BY <2>1, <2>3 DEF Manager!Next, Manager!Handle
<1>2. CASE CheckStop
  BY <1>0, <1>2 DEF CheckStop, Quiet
<1>3. CASE Get
  <2>1. CASE fifo = <<>>
    BY <1>0, <1>3, <2>1 DEF Get, Quiet
  <2>2. CASE fifo # <<>>
    <3>1. fifo = <<Head(fifo)>> \o Tail(fifo)
      BY <2>2, HeadTail DEF TypeOK
    <3> QED BY <1>3, <2>2, <3>1 DEF Get, Waiting
  <2> QED BY <2>1, <2>2
<1>4. CASE AgentStep
  BY <1>0, <1>4 DEF AgentStep, Answer, ParentPtz, ParentSwitch, manager, Quiet
<1>5. CASE MainActions
  <2>1. CASE StartManager
    BY <1>0, <2>1 DEF StartManager, Quiet, NotStarted
  <2>2. CASE ~StartManager
    BY <1>0, <1>5, <2>2 DEF MainActions, MainStep, SetClientManager, OpenPorts, SetId,
       LoadFails, ClosePort, DeletePort, StopQuery, KeyboardsUnloaded, DestroyQueue, StopManager,
       JoinManager, Shutdown, Exit, DestroyFails, UseFreed, RxAssertFails, lifeless, manager,
       Quiet
  <2> QED BY <2>1, <2>2
<1>6. ASSUME NEW k \in Slot, DriverStep(k)
      PROVE  [Manager!Next]_<<Waiting, handled>>
  <2>1. CASE RxBegin(k) \/ OnRxMatrixPacket(k)
    BY <1>0, <2>1 DEF RxBegin, OnRxMatrixPacket, manager, Quiet
  <2>2. ASSUME NEW p \in KeyPacket, NEW g \in InitId, OnRxKeyboardPacket(k, p, g)
        PROVE  [Manager!Next]_<<Waiting, handled>>
    <3> DEFINE m == MessageFromPacket(p, IF slot[k] = "open" THEN g ELSE k, MatrixId)
    <3>1. m \in Messages
      <4>1. p \in Packet /\ MatrixId \in Int /\ (IF slot[k] = "open" THEN g ELSE k) \in Int
        BY ConsoleAssumption
      <4> QED BY <4>1, MessageFromPacketType
    <3>2. CASE m = mLastMessage[k]
      BY <1>0, <2>2, <3>2 DEF OnRxKeyboardPacket, Quiet
    <3>3. CASE m # mLastMessage[k]
      <4>1. Post(m) /\ UNCHANGED <<msg, handled>>
        BY <2>2, <3>3 DEF OnRxKeyboardPacket
      <4> HIDE DEF m
      <4> QED BY <3>1, <4>1, PostRefines DEF Manager!Next
    <3> QED BY <3>2, <3>3
  <2> QED BY <1>6, <2>1, <2>2 DEF DriverStep
<1>7. ASSUME NEW f \in Fd, ClientStep(f)
      PROVE  [Manager!Next]_<<Waiting, handled>>
  <2>1. CASE OnNewConnection(f) \/ OnDisconnect(f) \/ OnExcept(f)
    BY <1>0, <2>1 DEF OnNewConnection, OnDisconnect, OnExcept, manager, Quiet
  <2>2. ASSUME NEW p \in GuiPacket, OnReadable(f, p)
        PROVE  [Manager!Next]_<<Waiting, handled>>
    <3>1. CASE p.type = "other"
      BY <1>0, <2>2, <3>1 DEF OnReadable, Quiet
    <3>2. CASE p.type # "other"
      <4>1. MessageFromClient(p) \in Messages
        BY <3>2, MessageFromClientType, ConsoleAssumption
      <4>2. Post(MessageFromClient(p)) /\ UNCHANGED <<msg, handled>>
        BY <2>2, <3>2 DEF OnReadable
      <4> QED BY <4>1, <4>2, PostRefines DEF Manager!Next
    <3> QED BY <3>1, <3>2
  <2> QED BY <1>7, <2>1, <2>2 DEF ClientStep
<1>8. CASE UNCHANGED vars
  BY <1>0, <1>8 DEF vars, manager, Quiet
<1> QED
  BY <1>1, <1>2, <1>3, <1>4, <1>5, <1>6, <1>7, <1>8 DEF Next, ManagerStep, MainActions

\* Console implements Dispatch: the events of all threads are handled once and
\* in the order of their posts, for queues of any length (Squeue::add, get,
\* MCCKeyboardManager::thread).
THEOREM QueueRefinesDispatch == Spec => DispatchedInOrder
<1>1. Init => Manager!Init
  BY DEF Init, Manager!Init
<1>2. TypeOK /\ NotStarted /\ [Next]_vars => [Manager!Next]_<<Waiting, handled>>
  BY DispatchStep
<1> QED
  BY <1>1, <1>2, TypeCorrect, StartsOnce, PTL DEF Spec, DispatchedInOrder, Manager!Spec, Waiting
-----------------------------------------------------------------------------
(***************************************************************************)
(* Commands survive the 8 bytes of the serial protocol.                    *)
(***************************************************************************)

\* What a byte read through a char can carry.
Carried == -128..127

\* No axis is to move both ways.
Consistent(opt) ==
    /\ ~({"UP", "DOWN"} \subseteq opt)
    /\ ~({"LEFT", "RIGHT"} \subseteq opt)
    /\ ~({"ZOOMIN", "ZOOMOUT"} \subseteq opt)

\* The numbers fit into the protocol, which nothing in the code checks, and
\* clients and parent ask for motions that are not contradictory: a client
\* sends one direction at a time (MCCClient::Ptz).
WireFits ==
    /\ Camera \subseteq Carried /\ Monitor \subseteq Carried
    /\ Inport \subseteq Carried /\ Outport \subseteq Carried
    /\ \A p \in GuiPacket : Consistent(p.opt)
    /\ \A opt \in PtzRequest : Consistent(opt)

\* A motion that the step bytes can express.
PtzFits(m) ==
    m.type = "PTZ" =>
        /\ Consistent(m.opt)
        /\ m.opt \cap {"UP", "DOWN"} # {} => m.vstep \in 1..127
        /\ m.opt \cap {"LEFT", "RIGHT"} # {} => m.hstep \in 1..127

\* A command that the packet can express.
CommandFits(m) ==
    /\ PtzFits(m)
    /\ m.type \in {"SWITCH", "PTZ"} => m.cam[2] \in Carried
    /\ m.type = "SWITCH" => m.mon \in Carried

Fitting == {m \in Messages : PtzFits(m)}
Sendable == {m \in Messages : CommandFits(m)}
Requests ==
    {x \in [event : Messages, keyboard : BOOLEAN] :
        x.event.mon \in Monitor /\ x.event.cam[1] \in Reachable}

\* The property looks at the packet being sent; the invariant follows the
\* command back through the driver's queue, the contexts of remote switches
\* and the manager's queue to the packet it came from.
WireInv ==
    /\ fifo \in Seq(Fitting) /\ msg \in Fitting
    /\ outq \in [Slot -> Seq(Sendable)]
    /\ remote \in Seq(Requests)
    /\ lastSwitch = <<0, 1>> \/ lastSwitch[1] \in Reachable \cup {MatrixId}
    /\ CommandOnWire

\* What buildMessageFromPacket reads.
LEMMA Decoded ==
    ASSUME NEW p, NEW id, NEW mx
    PROVE  LET d == MessageFromPacket(p, id, mx)
           IN  /\ d.cam = <<mx, Signed(p[4])>>
               /\ p[2] = 17 => d.type = "SWITCH" /\ d.mon = Signed(p[5])
               /\ p[2] = 33 =>
                     /\ d.type = "PTZ" /\ d.hstep = p[5] % 128 /\ d.vstep = p[6] % 128
                     /\ d.opt = Zoom(p[3]) \cup Direction(p[5], "LEFT", "RIGHT")
                                           \cup Direction(p[6], "UP", "DOWN")
BY DEF MessageFromPacket, NewMessage, SwitchCmd, PtzCmd

\* What buildPacketFromMessage writes.
LEMMA Encoded ==
    ASSUME NEW b \in Packet, NEW m \in Messages
    PROVE  LET q == PacketFromMessage(b, m)
           IN  /\ m.type = "SWITCH" =>
                     q[2] = 17 /\ q[4] = m.cam[2] % 256 /\ q[5] = m.mon % 256
               /\ m.type = "PTZ" =>
                     /\ q[2] = 33 /\ q[4] = m.cam[2] % 256
                     /\ q[3] = AxisByte(b[3], m.opt, "ZOOMIN", 64, "ZOOMOUT", 128)
                     /\ q[5] = AxisByte(b[5], m.opt, "LEFT", m.hstep, "RIGHT", 128 + m.hstep)
                     /\ q[6] = AxisByte(b[6], m.opt, "UP", m.vstep, "DOWN", 128 + m.vstep)
<1> DEFINE c == PayloadFromMessage(b, m)
           sum == (c[1] + c[2] + c[3] + c[4] + c[5] + c[6]) % 256
<1>1. /\ DOMAIN c = 0..7
      /\ m.type = "SWITCH" => c[2] = 17 /\ c[4] = m.cam[2] % 256 /\ c[5] = m.mon % 256
      /\ m.type = "PTZ" =>
            /\ c[2] = 33 /\ c[4] = m.cam[2] % 256
            /\ c[3] = AxisByte(b[3], m.opt, "ZOOMIN", 64, "ZOOMOUT", 128)
            /\ c[5] = AxisByte(b[5], m.opt, "LEFT", m.hstep, "RIGHT", 128 + m.hstep)
            /\ c[6] = AxisByte(b[6], m.opt, "UP", m.vstep, "DOWN", 128 + m.vstep)
  BY DEF PayloadFromMessage, SwitchCmd, PtzCmd, Packet
<1>2. PacketFromMessage(b, m) = [c EXCEPT ![7] = sum]
  BY DEF PacketFromMessage
<1> HIDE DEF c, sum
<1>3. \A i \in 2..6 : PacketFromMessage(b, m)[i] = c[i]
  BY <1>1, <1>2
<1> QED
  BY <1>1, <1>3

\* A number a char holds comes back from its byte.
LEMMA SignedByte ==
    ASSUME NEW x \in Carried
    PROVE  Signed(x % 256) = x
BY DEF Signed, Carried

\* An axis with one direction: the step and the direction come back; without
\* any motion, nothing does.
LEMMA AxisRoundTrip ==
    ASSUME NEW old, NEW opt, NEW pos, NEW neg, NEW step,
           ~(pos \in opt /\ neg \in opt),
           pos \in opt \/ neg \in opt => step \in 1..127
    PROVE  LET x == AxisByte(old, opt, pos, step, neg, 128 + step)
           IN  /\ pos \in opt => Direction(x, pos, neg) = {pos} /\ x % 128 = step
               /\ neg \in opt => Direction(x, pos, neg) = {neg} /\ x % 128 = step
               /\ opt = {} => Direction(x, pos, neg) = {}
<1> DEFINE x == AxisByte(old, opt, pos, step, neg, 128 + step)
<1>1. CASE pos \in opt
  <2>1. x = step % 256 /\ step \in 1..127
    BY <1>1 DEF AxisByte
  <2>2. x = step /\ x % 128 = step /\ x % 128 # 0 /\ x < 128
    BY <2>1
  <2> HIDE DEF x
  <2>3. Direction(x, pos, neg) = {pos}
    BY <2>2 DEF Direction
  <2> QED BY <1>1, <2>2, <2>3 DEF x
<1>2. CASE neg \in opt
  <2>1. x = (128 + step) % 256 /\ step \in 1..127
    BY <1>2 DEF AxisByte
  <2>2. x = 128 + step /\ x % 128 = step /\ x % 128 # 0 /\ ~(x < 128)
    BY <2>1
  <2> HIDE DEF x
  <2>3. Direction(x, pos, neg) = {neg}
    BY <2>2 DEF Direction
  <2> QED BY <1>2, <2>2, <2>3 DEF x
<1>3. CASE opt = {}
  <2>1. x = 0
    BY <1>3 DEF AxisByte
  <2>2. 0 % 128 = 0
    OBVIOUS
  <2> QED BY <1>3, <2>1, <2>2 DEF Direction
<1>4. CASE pos \notin opt /\ neg \notin opt /\ opt # {}
  BY <1>4
<1> QED
  BY <1>1, <1>2, <1>3, <1>4

\* The zoom asked for comes back, and none after STOP.
LEMMA ZoomRoundTrip ==
    ASSUME NEW old, NEW opt, ~({"ZOOMIN", "ZOOMOUT"} \subseteq opt)
    PROVE  LET x == AxisByte(old, opt, "ZOOMIN", 64, "ZOOMOUT", 128)
           IN  /\ opt \cap {"ZOOMIN", "ZOOMOUT"} \subseteq Zoom(x)
               /\ opt = {} => Zoom(x) = {}
<1> DEFINE x == AxisByte(old, opt, "ZOOMIN", 64, "ZOOMOUT", 128)
<1>1. CASE "ZOOMIN" \in opt
  BY <1>1 DEF AxisByte, Zoom
<1>2. CASE "ZOOMOUT" \in opt
  BY <1>2 DEF AxisByte, Zoom
<1>3. CASE "ZOOMIN" \notin opt /\ "ZOOMOUT" \notin opt
  <2>1. opt = {} => x = 0
    BY DEF AxisByte
  <2> QED BY <1>3, <2>1 DEF Zoom
<1> QED
  BY <1>1, <1>2, <1>3

\* Whatever packet was in the buffer before, the next one says what its
\* command says.
LEMMA RoundTrip ==
    ASSUME NEW b \in Packet, NEW m \in Sendable
    PROVE  LET d == MessageFromPacket(PacketFromMessage(b, m), m.kb, m.cam[1])
           IN  /\ m.type \in {"SWITCH", "PTZ"} => d.type = m.type /\ d.cam = m.cam
               /\ m.type = "SWITCH" => d.mon = m.mon
               /\ m.type = "PTZ" =>
                     /\ m.opt \subseteq d.opt
                     /\ m.opt = {} => d.opt = {}
                     /\ m.opt \cap {"UP", "DOWN"} # {} => d.vstep = m.vstep
                     /\ m.opt \cap {"LEFT", "RIGHT"} # {} => d.hstep = m.hstep
<1> DEFINE q == PacketFromMessage(b, m)
           d == MessageFromPacket(q, m.kb, m.cam[1])
<1>1. m \in Messages /\ CommandFits(m)
  BY DEF Sendable
<1>2. m.cam = <<m.cam[1], m.cam[2]>>
  BY <1>1 DEF Messages
<1> HIDE DEF q, d
<1>3. ASSUME m.type \in {"SWITCH", "PTZ"}
      PROVE  d.cam = m.cam
  <2>1. q[4] = m.cam[2] % 256
    BY <1>1, <1>3, Encoded DEF q
  <2>2. Signed(q[4]) = m.cam[2]
    BY <1>1, <1>3, <2>1, SignedByte DEF CommandFits
  <2>3. d.cam = <<m.cam[1], Signed(q[4])>>
    BY Decoded DEF d
  <2> QED BY <1>2, <2>2, <2>3
<1>4. ASSUME m.type = "SWITCH"
      PROVE  d.type = "SWITCH" /\ d.mon = m.mon
  <2>1. q[2] = 17 /\ q[5] = m.mon % 256
    BY <1>1, <1>4, Encoded DEF q
  <2>2. Signed(q[5]) = m.mon
    BY <1>1, <1>4, <2>1, SignedByte DEF CommandFits
  <2> QED BY <2>1, <2>2, Decoded DEF d
<1>5. ASSUME m.type = "PTZ"
      PROVE  /\ d.type = "PTZ" /\ m.opt \subseteq d.opt
             /\ m.opt = {} => d.opt = {}
             /\ m.opt \cap {"UP", "DOWN"} # {} => d.vstep = m.vstep
             /\ m.opt \cap {"LEFT", "RIGHT"} # {} => d.hstep = m.hstep
  <2>1. /\ q[2] = 33
        /\ q[3] = AxisByte(b[3], m.opt, "ZOOMIN", 64, "ZOOMOUT", 128)
        /\ q[5] = AxisByte(b[5], m.opt, "LEFT", m.hstep, "RIGHT", 128 + m.hstep)
        /\ q[6] = AxisByte(b[6], m.opt, "UP", m.vstep, "DOWN", 128 + m.vstep)
    BY <1>1, <1>5, Encoded DEF q
  <2>2. /\ d.type = "PTZ" /\ d.hstep = q[5] % 128 /\ d.vstep = q[6] % 128
        /\ d.opt = Zoom(q[3]) \cup Direction(q[5], "LEFT", "RIGHT")
                              \cup Direction(q[6], "UP", "DOWN")
    BY <2>1, Decoded DEF d
  <2>3. /\ Consistent(m.opt) /\ m.opt \subseteq PtzBits
        /\ m.opt \cap {"UP", "DOWN"} # {} => m.vstep \in 1..127
        /\ m.opt \cap {"LEFT", "RIGHT"} # {} => m.hstep \in 1..127
    BY <1>1, <1>5 DEF CommandFits, PtzFits, Messages
  <2>4. /\ m.opt \cap {"ZOOMIN", "ZOOMOUT"} \subseteq Zoom(q[3])
        /\ m.opt = {} => Zoom(q[3]) = {}
    BY <2>1, <2>3, ZoomRoundTrip DEF Consistent
  <2>5. /\ "LEFT" \in m.opt => Direction(q[5], "LEFT", "RIGHT") = {"LEFT"} /\ q[5] % 128 = m.hstep
        /\ "RIGHT" \in m.opt => Direction(q[5], "LEFT", "RIGHT") = {"RIGHT"} /\ q[5] % 128 = m.hstep
        /\ m.opt = {} => Direction(q[5], "LEFT", "RIGHT") = {}
    BY <2>1, <2>3, AxisRoundTrip DEF Consistent
  <2>6. /\ "UP" \in m.opt => Direction(q[6], "UP", "DOWN") = {"UP"} /\ q[6] % 128 = m.vstep
        /\ "DOWN" \in m.opt => Direction(q[6], "UP", "DOWN") = {"DOWN"} /\ q[6] % 128 = m.vstep
        /\ m.opt = {} => Direction(q[6], "UP", "DOWN") = {}
    BY <2>1, <2>3, AxisRoundTrip DEF Consistent
  <2>7. m.opt \subseteq d.opt
    BY <2>2, <2>3, <2>4, <2>5, <2>6 DEF PtzBits
  <2>8. m.opt = {} => d.opt = {}
    BY <2>2, <2>4, <2>5, <2>6
  <2> QED BY <2>2, <2>5, <2>6, <2>7, <2>8
<1> QED
  BY <1>3, <1>4, <1>5 DEF d, q

\* What a keyboard's packet asks for can be sent on: its steps are read from
\* seven bits, and a direction is only there with a step.
LEMMA KeyboardFits ==
    ASSUME NEW p \in Packet, NEW id \in Int, NEW mx \in Int
    PROVE  MessageFromPacket(p, id, mx) \in Fitting
<1> DEFINE m == MessageFromPacket(p, id, mx)
<1>1. m \in Messages
  BY MessageFromPacketType
<1>2. \A i \in 0..7 : p[i] \in 0..255
  BY DEF Packet, Byte
<1>3. \A x \in 0..255 : x % 128 \in 0..127
  OBVIOUS
<1>4. ASSUME m.type = "PTZ"
      PROVE  /\ m.hstep = p[5] % 128 /\ m.vstep = p[6] % 128
             /\ m.opt = Zoom(p[3]) \cup Direction(p[5], "LEFT", "RIGHT")
                                   \cup Direction(p[6], "UP", "DOWN")
  <2>1. p[2] = 33
    BY <1>4 DEF MessageFromPacket, SwitchCmd, PtzCmd, NewMessage
  <2> QED BY <2>1, Decoded
<1>5. ASSUME NEW x \in 0..255, NEW a, NEW b
      PROVE  /\ Direction(x, a, b) = {} \/ Direction(x, a, b) = {a} \/ Direction(x, a, b) = {b}
             /\ Direction(x, a, b) # {} => x % 128 \in 1..127
  BY <1>3 DEF Direction
<1>6. Zoom(p[3]) \in {{}, {"ZOOMIN"}, {"ZOOMOUT"}}
  BY DEF Zoom
<1>7. /\ Direction(p[5], "LEFT", "RIGHT") \in {{}, {"LEFT"}, {"RIGHT"}}
      /\ Direction(p[5], "LEFT", "RIGHT") # {} => p[5] % 128 \in 1..127
      /\ Direction(p[6], "UP", "DOWN") \in {{}, {"UP"}, {"DOWN"}}
      /\ Direction(p[6], "UP", "DOWN") # {} => p[6] % 128 \in 1..127
  <2>1. p[5] \in 0..255 /\ p[6] \in 0..255
    BY <1>2
  <2>2. /\ Direction(p[5], "LEFT", "RIGHT") \in {{}, {"LEFT"}, {"RIGHT"}}
        /\ Direction(p[5], "LEFT", "RIGHT") # {} => p[5] % 128 \in 1..127
    BY <1>5, <2>1
  <2>3. /\ Direction(p[6], "UP", "DOWN") \in {{}, {"UP"}, {"DOWN"}}
        /\ Direction(p[6], "UP", "DOWN") # {} => p[6] % 128 \in 1..127
    BY <1>5, <2>1
  <2> QED BY <2>2, <2>3
<1> HIDE DEF m
<1>8. PtzFits(m)
  <2> SUFFICES ASSUME m.type = "PTZ"
               PROVE  /\ Consistent(m.opt)
                      /\ m.opt \cap {"UP", "DOWN"} # {} => m.vstep \in 1..127
                      /\ m.opt \cap {"LEFT", "RIGHT"} # {} => m.hstep \in 1..127
    BY DEF PtzFits
  <2>1. Consistent(m.opt)
    BY <1>4, <1>6, <1>7 DEF Consistent
  <2>2. m.opt \cap {"UP", "DOWN"} # {} => m.vstep \in 1..127
    BY <1>4, <1>6, <1>7
  <2>3. m.opt \cap {"LEFT", "RIGHT"} # {} => m.hstep \in 1..127
    BY <1>4, <1>6, <1>7
  <2> QED BY <2>1, <2>2, <2>3
<1> QED
  BY <1>1, <1>8 DEF Fitting, m

\* So can what a client asks for.
LEMMA ClientFits ==
    ASSUME WireFits, NEW p \in GuiPacket, p.type # "other"
    PROVE  MessageFromClient(p) \in Fitting
<1> DEFINE m == MessageFromClient(p)
<1>1. p \in ClientPackets /\ m \in Messages
  BY MessageFromClientType, ConsoleAssumption
<1>2. ASSUME m.type = "PTZ"
      PROVE  /\ m.opt = p.opt
             /\ m.opt \cap {"UP", "DOWN"} # {} => m.vstep = 20
             /\ m.opt \cap {"LEFT", "RIGHT"} # {} => m.hstep = 20
  BY <1>1, <1>2 DEF MessageFromClient, NewMessage, ClientPackets
<1>3. Consistent(p.opt)
  BY DEF WireFits
<1> HIDE DEF m
<1>4. PtzFits(m)
  BY <1>2, <1>3 DEF PtzFits
<1> QED
  BY <1>1, <1>4 DEF Fitting, m

\* SendSwitch and SendPtz.
LEMMA SendFits ==
    ASSUME WireInv, NEW m \in Sendable, SendToDriver(m)
    PROVE  outq' \in [Slot -> Seq(Sendable)]
BY DEF WireInv, SendToDriver, HasKeyboard

\* What the manager's thread queues for the matrix can be expressed.
LEMMA HandleFits ==
    ASSUME TypeOK, WireFits, WireInv, Handle
    PROVE  WireInv'
<1>1. UNCHANGED <<fifo, msg>> /\ msg \in Fitting /\ fifo \in Seq(Fitting) /\ msg \in Messages
  BY DEF Handle, WireInv, TypeOK
<1>2. ASSUME UNCHANGED driver
      PROVE  CommandOnWire' /\ outq' \in [Slot -> Seq(Sendable)]
  BY <1>2 DEF driver, CommandOnWire, WireInv
<1>3. ASSUME NEW m \in Sendable, Perform(m)
      PROVE  CommandOnWire' /\ outq' \in [Slot -> Seq(Sendable)]
  <2>1. outq' \in [Slot -> Seq(Sendable)]
    BY <1>3, SendFits DEF Perform
  <2> QED BY <1>3, <2>1 DEF Perform, CommandOnWire, WireInv
<1>4. CASE msg.type \in {"SWITCH", "Pin"} /\ OnSwitch(msg)
  <2>1. CASE /\ "ACCEPT" \in SwitchResults(msg) /\ Perform(msg)
             /\ lastSwitch' = msg.cam /\ UNCHANGED remote
    <3>1. msg.mon \in Monitor /\ msg.cam[1] = MatrixId /\ msg.cam[2] \in Camera
      BY <2>1, ConsoleAssumption DEF SwitchResults
    <3>2. msg \in Sendable
      BY <1>1, <3>1 DEF Sendable, Fitting, CommandFits, WireFits
    <3> QED BY <1>1, <1>3, <2>1, <3>1, <3>2 DEF WireInv
  <2>2. CASE /\ "PENDING" \in SwitchResults(msg)
             /\ remote' = Append(remote, [event |-> msg, keyboard |-> HasKeyboard(msg.kb)])
             /\ UNCHANGED <<driver, clients, lastSwitch, crash>>
    <3>1. msg.mon \in Monitor /\ msg.cam[1] \in Reachable
      BY <2>2, ConsoleAssumption DEF SwitchResults
    <3>2. [event |-> msg, keyboard |-> HasKeyboard(msg.kb)] \in Requests
      BY <1>1, <3>1 DEF Requests, HasKeyboard
    <3>3. remote' \in Seq(Requests)
      BY <2>2, <3>2 DEF WireInv
    <3> QED BY <1>1, <1>2, <2>2, <3>3 DEF WireInv
  <2>3. CASE Refuse(msg)
    BY <1>1, <1>2, <2>3 DEF Refuse, WireInv, resources
  <2> QED BY <1>4, <2>1, <2>2, <2>3 DEF OnSwitch
<1>5. CASE msg.type = "PTZ" /\ OnPtz(msg)
  <2>1. CASE /\ "ACCEPT" \in PtzResults(lastSwitch)
             /\ Perform([msg EXCEPT !.cam = lastSwitch]) /\ UNCHANGED resources
    <3> DEFINE m == [msg EXCEPT !.cam = lastSwitch]
    <3>1. lastSwitch[2] \in Carried
      <4>1. CASE lastSwitch = <<0, 1>>
        BY <4>1 DEF Carried
      <4>2. CASE lastSwitch[1] \in Reachable \cup {MatrixId}
        <5>1. lastSwitch[1] = MatrixId /\ lastSwitch[2] \in Camera
          BY <2>1, <4>2, ConsoleAssumption DEF PtzResults
        <5> QED BY <5>1 DEF WireFits
      <4> QED BY <4>1, <4>2 DEF WireInv
    <3>2. m \in Messages
      BY <1>1 DEF Messages, TypeOK
    <3>3. /\ m.type = msg.type /\ m.opt = msg.opt /\ m.vstep = msg.vstep /\ m.hstep = msg.hstep
          /\ m.cam = lastSwitch
      BY <1>1 DEF Messages
    <3> HIDE DEF m
    <3>4. m \in Sendable
      BY <1>1, <1>5, <3>1, <3>2, <3>3 DEF Sendable, Fitting, CommandFits, PtzFits
    <3>5. CommandOnWire' /\ outq' \in [Slot -> Seq(Sendable)]
      BY <1>3, <2>1, <3>4 DEF m
    <3> QED BY <1>1, <2>1, <3>5 DEF WireInv, resources
  <2>2. CASE UNCHANGED <<driver, clients, resources, crash>>
    BY <1>1, <1>2, <2>2 DEF WireInv, resources
  <2>3. CASE Refuse(msg)
    BY <1>1, <1>2, <2>3 DEF Refuse, WireInv, resources
  <2> QED BY <1>5, <2>1, <2>2, <2>3 DEF OnPtz
<1>6. CASE UNCHANGED <<driver, clients, resources, crash>>
  BY <1>1, <1>2, <1>6 DEF WireInv, resources
<1> QED
  BY <1>4, <1>5, <1>6 DEF Handle

\* So can what the agents' threads queue,
LEMMA AgentFits ==
    ASSUME TypeOK, WireFits, WireInv, AgentStep
    PROVE  WireInv'
<1>1. ASSUME NEW i \in 1..Len(remote), NEW ok \in BOOLEAN, NEW p \in Inport, Answer(i, ok, p)
      PROVE  WireInv'
  <2> DEFINE m == [remote[i].event EXCEPT !.type = "SWITCH", !.cam = <<MatrixId, p>>]
  <2>1. remote \in Seq(Requests) /\ remote[i] \in Requests
    BY DEF WireInv
  <2>2. remote' \in Seq(Requests)
    <3>1. /\ SubSeq(remote, 1, i - 1) \in Seq(Requests)
          /\ SubSeq(remote, i + 1, Len(remote)) \in Seq(Requests)
      BY <2>1
    <3> QED BY <1>1, <3>1 DEF Answer
  <2>3. remote[i].event \in Messages /\ remote[i].event.mon \in Monitor
        /\ remote[i].event.cam[1] \in Reachable
    BY <2>1 DEF Requests
  <2>4. m \in Messages
    BY <2>3, ConsoleAssumption DEF Messages
  <2>5. m.type = "SWITCH" /\ m.cam[2] = p /\ m.mon = remote[i].event.mon
    BY <2>3 DEF Messages
  <2>6. m \in Sendable
    <3> HIDE DEF m
    <3> QED BY <2>3, <2>4, <2>5 DEF Sendable, CommandFits, PtzFits, WireFits
  <2>7. /\ outq' \in [Slot -> Seq(Sendable)]
        /\ lastSwitch' = <<0, 1>> \/ lastSwitch'[1] \in Reachable \cup {MatrixId}
    <3>1. CASE ok /\ remote[i].keyboard
      <4>1. SendToDriver(m) /\ lastSwitch' = remote[i].event.cam
        BY <1>1, <3>1 DEF Answer
      <4> HIDE DEF m
      <4> QED BY <2>3, <2>6, <4>1, SendFits
    <3>2. CASE ~(ok /\ remote[i].keyboard)
      BY <1>1, <3>2 DEF Answer, WireInv
    <3> QED BY <3>1, <3>2
  <2>8. CommandOnWire'
    BY <1>1 DEF Answer, CommandOnWire, WireInv
  <2> QED BY <1>1, <2>2, <2>7, <2>8 DEF Answer, WireInv, manager
<1>2. ASSUME NEW m \in Sendable, Perform(m), UNCHANGED <<manager, resources>>
      PROVE  WireInv'
  <2>1. outq' \in [Slot -> Seq(Sendable)]
    BY <1>2, SendFits DEF Perform
  <2>2. CommandOnWire'
    BY <1>2 DEF Perform, CommandOnWire, WireInv
  <2> QED BY <1>2, <2>1, <2>2 DEF WireInv, manager, resources
<1>3. ASSUME NEW c \in Camera, NEW opt \in PtzRequest, ParentPtz(c, opt)
      PROVE  WireInv'
  <2> DEFINE m == [NewMessage EXCEPT !.type = "PTZ", !.cam = <<MatrixId, c>>, !.opt = opt,
                                     !.vstep = 32, !.hstep = 32]
  <2>1. m \in Messages
    BY NewMessageType, ConsoleAssumption DEF Messages
  <2>2. m.type = "PTZ" /\ m.opt = opt /\ m.vstep = 32 /\ m.hstep = 32 /\ m.cam[2] = c
    BY DEF NewMessage
  <2>3. Perform(m) /\ UNCHANGED <<manager, resources>>
    BY <1>3 DEF ParentPtz
  <2> HIDE DEF m
  <2>4. m \in Sendable
    BY <2>1, <2>2 DEF Sendable, CommandFits, PtzFits, WireFits
  <2> QED BY <1>2, <2>3, <2>4
<1>4. ASSUME NEW c \in Camera, NEW o \in Outport, ParentSwitch(c, o)
      PROVE  WireInv'
  <2> DEFINE m == [NewMessage EXCEPT !.type = "SWITCH", !.cam = <<MatrixId, c>>, !.mon = o]
  <2>1. m \in Messages
    BY NewMessageType, ConsoleAssumption DEF Messages
  <2>2. m.type = "SWITCH" /\ m.mon = o /\ m.cam[2] = c
    BY DEF NewMessage
  <2>3. Perform(m) /\ UNCHANGED <<manager, resources>>
    BY <1>4 DEF ParentSwitch
  <2> HIDE DEF m
  <2>4. m \in Sendable
    BY <2>1, <2>2 DEF Sendable, CommandFits, PtzFits, WireFits
  <2> QED BY <1>2, <2>3, <2>4
<1> QED
  BY <1>1, <1>3, <1>4 DEF AgentStep

\* and the drivers send what was queued.
LEMMA DriverFits ==
    ASSUME TypeOK, WireInv, NEW k \in Slot, DriverStep(k)
    PROVE  WireInv'
<1>1. CASE RxBegin(k)
  BY <1>1 DEF RxBegin, manager, resources, WireInv, CommandOnWire
<1>2. CASE OnRxMatrixPacket(k)
  <2>1. CASE registered /\ outq[k] # <<>>
    <3>1. Head(outq[k]) \in Sendable /\ Tail(outq[k]) \in Seq(Sendable)
      BY <2>1, HeadTail DEF WireInv
    <3>2. cmd' \in Sendable /\ outq' \in [Slot -> Seq(Sendable)]
          /\ buf' = PacketFromMessage(buf, cmd') /\ buf \in Packet
      BY <1>2, <2>1, <3>1 DEF OnRxMatrixPacket, WireInv, TypeOK
    <3>3. CommandOnWire'
      BY <3>2, RoundTrip DEF CommandOnWire
    <3> QED BY <1>2, <3>2, <3>3 DEF OnRxMatrixPacket, WireInv, manager, resources
  <2>2. CASE ~(registered /\ outq[k] # <<>>)
    BY <1>2, <2>2 DEF OnRxMatrixPacket, manager, resources, WireInv, CommandOnWire
  <2> QED BY <2>1, <2>2
<1>3. ASSUME NEW p \in KeyPacket, NEW g \in InitId, OnRxKeyboardPacket(k, p, g)
      PROVE  WireInv'
  <2> DEFINE m == MessageFromPacket(p, IF slot[k] = "open" THEN g ELSE k, MatrixId)
  <2>1. m \in Fitting
    <3>1. p \in Packet /\ MatrixId \in Int /\ (IF slot[k] = "open" THEN g ELSE k) \in Int
      BY ConsoleAssumption
    <3> QED BY <3>1, KeyboardFits
  <2>2. fifo' \in Seq(Fitting)
    <3>1. UNCHANGED fifo \/ Post(m)
      BY <1>3 DEF OnRxKeyboardPacket
    <3>2. fifo \in Seq(Fitting)
      BY DEF WireInv
    <3> HIDE DEF m
    <3>3. Append(fifo, m) \in Seq(Fitting)
      BY <2>1, <3>2
    <3> QED BY <3>1, <3>2, <3>3 DEF Post
  <2>3. UNCHANGED <<msg, outq, buf, cmd, resources>>
    BY <1>3 DEF OnRxKeyboardPacket
  <2>4. CommandOnWire'
    BY <2>3 DEF CommandOnWire, WireInv
  <2> HIDE DEF m
  <2> QED BY <2>2, <2>3, <2>4 DEF resources, WireInv
<1> QED
  BY <1>1, <1>2, <1>3 DEF DriverStep

\* No step leads out of the invariant.
LEMMA WireStep ==
    ASSUME TypeOK, WireFits, WireInv, [Next]_vars
    PROVE  WireInv'
<1>0. ASSUME UNCHANGED <<fifo, msg, driver, resources>>
      PROVE  WireInv'
  BY <1>0 DEF driver, resources, WireInv, CommandOnWire
<1>1. CASE Handle
  BY <1>1, HandleFits
<1>2. CASE CheckStop
  BY <1>0, <1>2 DEF CheckStop
<1>3. CASE Get
  <2>1. CASE fifo = <<>>
    BY <1>0, <1>3, <2>1 DEF Get
  <2>2. CASE fifo # <<>>
    <3>1. Head(fifo) \in Fitting /\ Tail(fifo) \in Seq(Fitting)
      BY <2>2, HeadTail DEF WireInv
    <3> QED BY <1>3, <2>2, <3>1 DEF Get, driver, resources, WireInv, CommandOnWire
  <2> QED BY <2>1, <2>2
<1>4. CASE AgentStep
  BY <1>4, AgentFits
<1>5. CASE MainActions
  BY <1>0, <1>5 DEF MainActions, MainStep, StartManager, SetClientManager, OpenPorts, SetId,
     LoadFails, ClosePort, DeletePort, StopQuery, KeyboardsUnloaded, DestroyQueue, StopManager,
     JoinManager, Shutdown, Exit, DestroyFails, UseFreed, RxAssertFails, lifeless, manager
<1>6. CASE \E k \in Slot : DriverStep(k)
  BY <1>6, DriverFits
<1>7. ASSUME NEW f \in Fd, ClientStep(f)
      PROVE  WireInv'
  <2>1. CASE OnNewConnection(f) \/ OnDisconnect(f) \/ OnExcept(f)
    BY <1>0, <2>1 DEF OnNewConnection, OnDisconnect, OnExcept, manager
  <2>2. ASSUME NEW p \in GuiPacket, OnReadable(f, p)
        PROVE  WireInv'
    <3>1. CASE p.type = "other"
      BY <1>0, <2>2, <3>1 DEF OnReadable
    <3>2. CASE p.type # "other"
      <4>1. MessageFromClient(p) \in Fitting
        BY <3>2, ClientFits
      <4>2. fifo' = Append(fifo, MessageFromClient(p)) /\ UNCHANGED <<msg, driver, resources>>
        BY <2>2, <3>2 DEF OnReadable, Post
      <4>3. fifo' \in Seq(Fitting)
        BY <4>1, <4>2 DEF WireInv
      <4> QED BY <4>2, <4>3 DEF driver, resources, WireInv, CommandOnWire
    <3> QED BY <3>1, <3>2
  <2> QED BY <1>7, <2>1, <2>2 DEF ClientStep
<1>8. CASE UNCHANGED vars
  BY <1>0, <1>8 DEF vars, manager
<1> QED
  BY <1>1, <1>2, <1>3, <1>4, <1>5, <1>6, <1>7, <1>8 DEF Next, ManagerStep, MainActions

\* The packet the matrix reads means what its command said, after any sequence
\* of commands through the one buffer that is never cleared, provided that the
\* numbers fit into its bytes and no request contradicts itself
\* (buildPacketFromMessage, OnRxMatrixPacket).
THEOREM CommandsSurviveTheWire ==
    ASSUME WireFits
    PROVE  Spec => []CommandOnWire
<1>1. Init => WireInv
  <2> SUFFICES ASSUME Init PROVE WireInv
    OBVIOUS
  <2>1. NewMessage \in Fitting
    BY NewMessageType DEF Fitting, PtzFits, NewMessage
  <2>2. outq \in [Slot -> Seq(Sendable)] /\ remote \in Seq(Requests) /\ fifo \in Seq(Fitting)
    BY DEF Init
  <2>3. CommandOnWire
    BY DEF Init, CommandOnWire, NewMessage
  <2> QED BY <2>1, <2>2, <2>3 DEF Init, WireInv
<1>2. TypeOK /\ WireInv /\ [Next]_vars => WireInv'
  BY WireStep
<1>3. WireInv => CommandOnWire
  BY DEF WireInv
<1> QED
  BY <1>1, <1>2, <1>3, TypeCorrect, PTL DEF Spec
=============================================================================
