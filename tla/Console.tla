-------------------------------- MODULE Console --------------------------------
(***************************************************************************)
(* The side of one MCC process that its operators see: the serial          *)
(* keyboards and the GUI clients, the keyboard manager's queue and thread, *)
(* the commands to the video matrix, the notices to the clients, and the   *)
(* life of all this from MCCRunner::run to MCCRunner::shutdown.            *)
(*                                                                         *)
(* Threads: main; the keyboard manager's; for every keyboard the receivers *)
(* of its two serial ports and its query thread; the client manager's; the *)
(* agent's.  Whether a monitor or a head is free is decided elsewhere      *)
(* (MatrixNetwork, PtzArbiter): here either answer is possible.            *)
(***************************************************************************)
EXTENDS KeyboardMessage, Sequences

CONSTANTS
    Slot,            \* the indices of m_keyboards
    Enabled,         \* the keyboards the configuration enables, all of type jxj
    Broken,          \* those of them whose serial port may fail to open
    InitId,          \* what a keyboard's mId may hold before SetId (garbage)
    MatrixId,        \* this matrix
    Camera, Monitor, \* its cameras and monitors
    Reachable,       \* the matrices below it
    Inport,          \* its inputs for their trunks
    Outport,         \* the numbers of its trunks to the parent
    Fd,              \* fds of GUI clients
    KeyPacket,       \* packets the keyboards send
    GuiPacket,       \* packets the clients send
    PtzRequest,      \* ptz.direction in requests of the parent
    MaxEvents        \* bound: packets and requests in all

ASSUME ConsoleAssumption ==
    /\ Slot \subseteq Nat /\ 0 \in Slot /\ Enabled \subseteq Slot /\ Broken \subseteq Enabled
    /\ InitId \subseteq Int /\ MatrixId \in Int
    /\ Camera \subseteq Int /\ Monitor \subseteq Int /\ Reachable \subseteq Int \ {MatrixId}
    /\ Inport \subseteq Int /\ Outport \subseteq Int
    /\ KeyPacket \subseteq Packet /\ GuiPacket \subseteq ClientPackets
    /\ PtzRequest \subseteq SUBSET PtzBits
    /\ MaxEvents \in Nat

VARIABLES
    main,            \* where the main thread is
    slot,            \* slot[k]: the keyboard of m_keyboards[k], see SlotState
    km,              \* where the keyboard manager's thread is
    mbStop,          \* its stop flag
    fifo,            \* the manager's Squeue
    msg,             \* the message its thread has taken
    rx,              \* rx[k]: is the receiver of the keyboard's port amid a packet?
    mLastMessage,    \* mLastMessage[k], of the driver
    outq,            \* outq[k]: mFifo of the driver, commands for the matrix
    registered,      \* rcv_cnt > 0
    buf,             \* the static packet of OnRxMatrixPacket
    cmd,             \* the static message of OnRxMatrixPacket
    lastSwitch,      \* __last_switch_cid
    remote,          \* SWITCHes sent to a matrix below: contexts, with or without keyboard
    open,            \* the connections of GUI clients
    mConnFdList,     \* what the client manager takes for them
    lastNotice,      \* last_packet of Notify
    told,            \* told[f]: the last notice sent on a connection
    accepted,        \* history: the notice of the last message Notify was called with
    handled,         \* history: the messages the manager's thread has handled
    events,          \* packets and requests so far
    crash            \* why the process crashed

manager == <<km, mbStop, fifo, msg, handled>>
driver == <<rx, mLastMessage, outq, registered, buf, cmd>>
clients == <<open, mConnFdList, lastNotice, told, accepted>>
resources == <<lastSwitch, remote>>
vars == <<main, slot, manager, driver, clients, resources, events, crash>>

\* The main thread: run up to "running", then shutdown.
MainState == {"start", "load", "running", "unload", "destroy", "stop", "join", "ended"}

\* NULL; ports open but not in m_keyboards yet; loaded; and, in Unload: the
\* matrix port deleted and the keyboard's closing; both deleted.
SlotState == {"empty", "open", "loaded", "closing", "portGone"}

NoNotice == [type |-> "none", kb |-> 0, cam |-> <<0, 0>>, mon |-> 0, opt |-> {}]
Notices == [type : {"none", "UNKNOWN", "SWITCH", "PTZ", "Pin"}, kb : Int,
            cam : Int \X Int, mon : Int, opt : SUBSET PtzBits]

TypeOK ==
    /\ main \in MainState /\ slot \in [Slot -> SlotState]
    /\ km \in {"off", "check", "get", "wait", "woken", "handle", "ended"}
    /\ mbStop \in BOOLEAN /\ registered \in BOOLEAN
    /\ fifo \in Seq(Messages) /\ handled \in Seq(Messages)
    /\ msg \in Messages /\ cmd \in Messages
    /\ rx \in [Slot -> BOOLEAN]
    /\ mLastMessage \in [Slot -> Messages]
    /\ outq \in [Slot -> Seq(Messages)]
    /\ buf \in Packet
    /\ lastSwitch \in Int \X Int
    /\ remote \in Seq([event : Messages, keyboard : BOOLEAN])
    /\ open \subseteq Fd /\ mConnFdList \subseteq Fd
    /\ lastNotice \in Notices /\ accepted \in Notices
    /\ told \in [Fd -> Notices]
    /\ events \in 0..MaxEvents
    /\ crash \in {"none", "unset", "keyboard", "freed", "condition", "assert"}
-----------------------------------------------------------------------------
Init ==
    /\ main = "start" /\ slot = [k \in Slot |-> "empty"]
    /\ km = "off" /\ mbStop = FALSE /\ fifo = <<>> /\ msg = NewMessage /\ handled = <<>>
    /\ rx = [k \in Slot |-> FALSE]
    /\ mLastMessage = [k \in Slot |-> NewMessage]
    /\ outq = [k \in Slot |-> <<>>]
    /\ registered = FALSE /\ buf = FirstPacket /\ cmd = NewMessage
    /\ lastSwitch = <<0, 1>> /\ remote = <<>>
    /\ open = {} /\ mConnFdList = {}
    /\ lastNotice = NoNotice /\ accepted = NoNotice /\ told = [f \in Fd |-> NoNotice]
    /\ events = 0 /\ crash = "none"

\* The process exists.
Up == main # "ended" /\ crash = "none"

\* setClientManager has been called.
ClientManagerSet == main \notin {"start", "load"}

\* main is in MCCRunner::shutdown.
ShuttingDown == main \in {"unload", "destroy", "stop", "join"}
-----------------------------------------------------------------------------
(***************************************************************************)
(* Squeue and the keyboard manager's thread.                               *)
(***************************************************************************)

\* Mutant: add does not signal.
PostSilently(m) ==
    /\ fifo' = Append(fifo, m)
    /\ UNCHANGED km

\* Post: Squeue::add, which wakes the thread if it waits.
Post(m) ==
    /\ fifo' = Append(fifo, m)
    /\ km' = IF km = "wait" THEN "woken" ELSE km

\* ThreadIf::Start.
StartManager ==
    /\ Up /\ main = "start"
    /\ main' = "load" /\ km' = "check"
    /\ UNCHANGED <<slot, mbStop, fifo, msg, handled, driver, clients, resources, events, crash>>

\* The head of the loop in thread().
CheckStop ==
    /\ Up /\ km = "check"
    /\ km' = IF mbStop THEN "ended" ELSE "get"
    /\ UNCHANGED <<main, slot, mbStop, fifo, msg, handled, driver, clients, resources,
                   events, crash>>

\* Mutant: the queue is read from its end.
GetLast ==
    /\ Up /\ km \in {"get", "woken"}
    /\ IF fifo = <<>>
       THEN km' = "wait" /\ UNCHANGED <<fifo, msg>>
       ELSE km' = "handle" /\ msg' = fifo[Len(fifo)] /\ fifo' = SubSeq(fifo, 1, Len(fifo) - 1)
    /\ UNCHANGED <<main, slot, mbStop, handled, driver, clients, resources, events, crash>>

\* Squeue::get under its mutex, from the start or when woken.
Get ==
    /\ Up /\ km \in {"get", "woken"}
    /\ IF fifo = <<>>
       THEN km' = "wait" /\ UNCHANGED <<fifo, msg>>
       ELSE km' = "handle" /\ msg' = Head(fifo) /\ fifo' = Tail(fifo)
    /\ UNCHANGED <<main, slot, mbStop, handled, driver, clients, resources, events, crash>>

(***************************************************************************)
(* MCCResourceManager as the manager's handler.                            *)
(***************************************************************************)

\* Mutant: 0 is taken for no keyboard.
HasKeyboardFromOne(k) == k # 0 /\ k \in Slot /\ slot[k] \notin {"empty", "open"}

\* m_keyboards[k] is not NULL; an index out of bounds finds no keyboard.
HasKeyboard(k) == k \in Slot /\ slot[k] \notin {"empty", "open"}

\* SendSwitch(0, m) and SendPtz(0, m) of the manager and of the driver.
SendToDriver(m) ==
    outq' = IF HasKeyboard(0) THEN [outq EXCEPT ![0] = Append(outq[0], m)] ELSE outq

\* MCCClientManager::Notify.
Notify(m) ==
    LET n == Notice(m)
    IN  /\ accepted' = n
        /\ IF SameNotice(lastNotice, n)
           THEN UNCHANGED <<lastNotice, told>>
           ELSE /\ lastNotice' = n
                /\ told' = [f \in Fd |-> IF f \in mConnFdList \cap open THEN n ELSE told[f]]
        /\ UNCHANGED <<open, mConnFdList>>

\* The command goes to the matrix and the clients are told; through an
\* mKeyboardManager or mClientManager that is not set yet the process ends.
Perform(m) ==
    /\ SendToDriver(m)
    /\ UNCHANGED <<rx, mLastMessage, registered, buf, cmd>>
    /\ IF ClientManagerSet
       THEN Notify(m) /\ UNCHANGED crash
       ELSE crash' = "unset" /\ UNCHANGED clients

\* Notify of the keyboard that asked, which only logs; there may be none.
Refuse(m) ==
    /\ crash' = IF HasKeyboard(m.kb) THEN crash ELSE "keyboard"
    /\ UNCHANGED <<driver, clients, resources>>

\* The results processSwitchMessage may have; REJECT always as the monitor
\* may be in use.
SwitchResults(m) ==
    CASE m.mon \in Monitor /\ m.cam[1] = MatrixId /\ m.cam[2] \in Camera -> {"ACCEPT", "REJECT"}
      [] m.mon \in Monitor /\ m.cam[1] \in Reachable -> {"PENDING", "REJECT"}
      [] OTHER -> {"REJECT"}

\* The results processPtzMessage may have: a camera of a matrix that is not
\* below this one is accepted.
PtzResults(cid) ==
    CASE cid[1] = MatrixId /\ cid[2] \in Camera -> {"ACCEPT", "REJECT"}
      [] cid[1] = MatrixId /\ cid[2] \notin Camera -> {"REJECT"}
      [] cid[1] \in Reachable -> {"PENDING"}
      [] OTHER -> {"ACCEPT"}

OnSwitch(m) ==
    \/ /\ "ACCEPT" \in SwitchResults(m)
       /\ Perform(m)
       /\ lastSwitch' = m.cam /\ UNCHANGED remote
    \/ /\ "PENDING" \in SwitchResults(m)
       /\ remote' = Append(remote, [event |-> m, keyboard |-> HasKeyboard(m.kb)])
       /\ UNCHANGED <<driver, clients, lastSwitch, crash>>
    \/ "REJECT" \in SwitchResults(m) /\ Refuse(m)

OnPtz(m) ==
    \/ /\ "ACCEPT" \in PtzResults(lastSwitch)
       /\ Perform([m EXCEPT !.cam = lastSwitch])
       /\ UNCHANGED resources
    \/ /\ "PENDING" \in PtzResults(lastSwitch)
       /\ UNCHANGED <<driver, clients, resources, crash>>
    \/ "REJECT" \in PtzResults(lastSwitch) /\ Refuse(m)

\* The body of the loop in thread().  A PTZ request to a matrix below gets no
\* answer that is understood (MatrixNetwork), so it leaves nothing here.
Handle ==
    /\ Up /\ km = "handle"
    /\ km' = "check"
    /\ handled' = Append(handled, msg)
    /\ CASE msg.type \in {"SWITCH", "Pin"} -> OnSwitch(msg)
         [] msg.type = "PTZ" -> OnPtz(msg)
         [] OTHER -> UNCHANGED <<driver, clients, resources, crash>>
    /\ UNCHANGED <<main, slot, mbStop, fifo, msg, events>>

\* onServerRxResponse on the agent server's thread: the answer to a SWITCH
\* names an input of this matrix.  A request without keyboard is forgotten.
Answer(i, ok, inport) ==
    LET x == remote[i]
    IN  /\ Up /\ ~ShuttingDown
        /\ remote' = SubSeq(remote, 1, i - 1) \o SubSeq(remote, i + 1, Len(remote))
        /\ IF ok /\ x.keyboard
           THEN /\ lastSwitch' = x.event.cam
                /\ SendToDriver([x.event EXCEPT !.type = "SWITCH", !.cam = <<MatrixId, inport>>])
           ELSE UNCHANGED <<lastSwitch, outq>>
        /\ UNCHANGED <<main, slot, manager, rx, mLastMessage, registered, buf, cmd, clients,
                       events, crash>>

\* onClientRxRequest on the agent client's thread: a PTZ request of the
\* parent that processLocalPtz has accepted.
ParentPtz(c, opt) ==
    /\ Up /\ ~ShuttingDown
    /\ events < MaxEvents /\ events' = events + 1
    /\ Perform([NewMessage EXCEPT !.type = "PTZ", !.cam = <<MatrixId, c>>, !.opt = opt,
                                  !.vstep = 32, !.hstep = 32])
    /\ UNCHANGED <<main, slot, manager, resources>>

\* The same for a SWITCH request that checkTrunk has found a trunk for.
ParentSwitch(c, outport) ==
    /\ Up /\ ~ShuttingDown
    /\ events < MaxEvents /\ events' = events + 1
    /\ Perform([NewMessage EXCEPT !.type = "SWITCH", !.cam = <<MatrixId, c>>, !.mon = outport])
    /\ UNCHANGED <<main, slot, manager, resources>>

(***************************************************************************)
(* The keyboard driver (MCCKeyboardJXJ) on the receivers of its two ports. *)
(***************************************************************************)

\* The receiver has found the first byte of a packet and waits for the rest.
RxBegin(k) ==
    /\ Up /\ slot[k] \in {"open", "loaded"} /\ ~rx[k]
    /\ events < MaxEvents /\ events' = events + 1
    /\ rx' = [rx EXCEPT ![k] = TRUE]
    /\ UNCHANGED <<main, slot, manager, mLastMessage, outq, registered, buf, cmd, clients,
                   resources, crash>>

\* OnRxKeyboardPacket: a message equal to the one before is dropped.  Until
\* SetId the keyboard's id is garbage.
OnRxKeyboardPacket(k, p, garbage) ==
    LET m == MessageFromPacket(p, IF slot[k] = "open" THEN garbage ELSE k, MatrixId)
    IN  /\ Up /\ rx[k]
        /\ rx' = [rx EXCEPT ![k] = FALSE]
        /\ IF m = mLastMessage[k]
           THEN UNCHANGED <<fifo, km, mLastMessage>>
           ELSE Post(m) /\ mLastMessage' = [mLastMessage EXCEPT ![k] = m]
        /\ UNCHANGED <<main, slot, mbStop, msg, handled, outq, registered, buf, cmd, clients,
                       resources, events, crash>>

\* OnRxMatrixPacket: the matrix asks this keyboard for a command.  The first
\* time it is answered with a registration; after that the next command, or
\* the last one again, is written.
OnRxMatrixPacket(k) ==
    /\ Up /\ slot[k] \in {"open", "loaded"}
    /\ registered' = TRUE
    /\ IF registered /\ outq[k] # <<>>
       THEN /\ cmd' = Head(outq[k])
            /\ outq' = [outq EXCEPT ![k] = Tail(outq[k])]
            /\ buf' = PacketFromMessage(buf, cmd')
       ELSE UNCHANGED <<cmd, outq, buf>>
    /\ UNCHANGED <<main, slot, manager, rx, mLastMessage, clients, resources, events, crash>>

(***************************************************************************)
(* The client manager on its server's thread.                              *)
(***************************************************************************)

OnNewConnection(f) ==
    /\ Up /\ ClientManagerSet
    /\ f \notin open
    /\ open' = open \cup {f} /\ mConnFdList' = mConnFdList \cup {f}
    /\ told' = [told EXCEPT ![f] = NoNotice]
    /\ UNCHANGED <<main, slot, manager, driver, lastNotice, accepted, resources, events, crash>>

OnDisconnect(f) ==
    /\ Up /\ f \in open
    /\ open' = open \ {f} /\ mConnFdList' = mConnFdList \ {f}
    /\ UNCHANGED <<main, slot, manager, driver, lastNotice, told, accepted, resources, events, crash>>

\* recv fails: the fd is closed and stays in the list.
OnExcept(f) ==
    /\ Up /\ f \in open
    /\ open' = open \ {f}
    /\ UNCHANGED <<main, slot, manager, driver, mConnFdList, lastNotice, told, accepted,
                   resources, events, crash>>

OnReadable(f, p) ==
    /\ Up /\ f \in open
    /\ events < MaxEvents /\ events' = events + 1
    /\ IF p.type = "other" THEN UNCHANGED <<fifo, km>> ELSE Post(MessageFromClient(p))
    /\ UNCHANGED <<main, slot, mbStop, msg, handled, driver, clients, resources, crash>>

(***************************************************************************)
(* The main thread: MCCRunner::run after Start of the manager ...          *)
(***************************************************************************)

lifeless == <<manager, driver, clients, resources, events>>

\* The next keyboard to be loaded.
Loading(k) ==
    /\ Up /\ main = "load" /\ k \in Enabled
    /\ \A j \in Enabled : j < k => slot[j] = "loaded"

\* MCCKeyboard::Load: the ports are open and their receivers run ...
OpenPorts(k) ==
    /\ Loading(k) /\ slot[k] = "empty"
    /\ slot' = [slot EXCEPT ![k] = "open"]
    /\ UNCHANGED <<main, lifeless, crash>>

\* ... before LoadKeyboard puts the keyboard into m_keyboards and sets its id.
SetId(k) ==
    /\ Loading(k) /\ slot[k] = "open"
    /\ slot' = [slot EXCEPT ![k] = "loaded"]
    /\ UNCHANGED <<main, lifeless, crash>>

\* A port cannot be opened; if it is the second, the first is closed again,
\* which waits for its receiver.  run returns, shutdown does nothing, the
\* program ends.
LoadFails(k) ==
    /\ Loading(k) /\ slot[k] \in {"empty", "open"} /\ ~rx[k] /\ k \in Broken
    /\ main' = "ended"
    /\ UNCHANGED <<slot, lifeless, crash>>

\* The client manager is created, made known and started.
SetClientManager ==
    /\ Up /\ main = "load"
    /\ \A k \in Enabled : slot[k] = "loaded"
    /\ main' = "running"
    /\ UNCHANGED <<slot, lifeless, crash>>

(***************************************************************************)
(* ... and MCCRunner::shutdown.                                            *)
(***************************************************************************)

\* A signal ends main's loop; shutdown deletes the resource manager first.
Shutdown ==
    /\ Up /\ main = "running"
    /\ main' = "unload"
    /\ UNCHANGED <<slot, lifeless, crash>>

\* Two signals, at any time.
Exit ==
    /\ Up
    /\ main' = "ended"
    /\ UNCHANGED <<slot, lifeless, crash>>

\* UnloadKeyboard of the destructor, keyboard after keyboard.  MCCKeyboard's
\* Unload deletes the matrix port and closes the keyboard's, ...
ClosePort(k) ==
    /\ Up /\ main = "unload" /\ slot[k] = "loaded"
    /\ \A j \in Slot : j < k => slot[j] = "empty"
    /\ slot' = [slot EXCEPT ![k] = "closing"]
    /\ UNCHANGED <<main, lifeless, crash>>

\* (the receiver of the matrix port asserts that it can read: not while its
\* port is being closed)
RxAssertFails(k) ==
    /\ Up /\ main = "unload" /\ slot[k] = "loaded"
    /\ \A j \in Slot : j < k => slot[j] = "empty"
    /\ crash' = "assert"
    /\ UNCHANGED <<main, slot, lifeless>>

\* ... joins the receiver, which does not come back from amid a packet, and
\* deletes the port.
DeletePort(k) ==
    /\ Up /\ main = "unload" /\ slot[k] = "closing" /\ ~rx[k]
    /\ slot' = [slot EXCEPT ![k] = "portGone"]
    /\ UNCHANGED <<main, lifeless, crash>>

\* Mutant: the query thread is stopped once all commands are sent.
StopQueryFlushed(k) ==
    /\ Up /\ main = "unload" /\ slot[k] = "portGone" /\ outq[k] = <<>>
    /\ slot' = [slot EXCEPT ![k] = "empty"]
    /\ UNCHANGED <<main, lifeless, crash>>

\* Only then the query thread, which writes to the port, is stopped.
StopQuery(k) ==
    /\ Up /\ main = "unload" /\ slot[k] = "portGone"
    /\ slot' = [slot EXCEPT ![k] = "empty"]
    /\ UNCHANGED <<main, lifeless, crash>>

KeyboardsUnloaded ==
    /\ Up /\ main = "unload" /\ \A k \in Slot : slot[k] = "empty"
    /\ main' = "destroy"
    /\ UNCHANGED <<slot, lifeless, crash>>

\* The members of the manager go before its base class stops the thread.
\* Destroying the condition blocks while the thread waits on it ...
DestroyQueue ==
    /\ Up /\ main = "destroy" /\ km # "wait"
    /\ main' = "stop"
    /\ UNCHANGED <<slot, lifeless, crash>>

\* ... or, with an older C library, fails, and the destructor aborts.
DestroyFails ==
    /\ Up /\ main = "destroy" /\ km = "wait"
    /\ crash' = "condition"
    /\ UNCHANGED <<main, slot, lifeless>>

\* Stop of ~ThreadIf: the flag, and the join.
StopManager ==
    /\ Up /\ main = "stop"
    /\ main' = "join" /\ mbStop' = TRUE
    /\ UNCHANGED <<slot, km, fifo, msg, handled, driver, clients, resources, events, crash>>

JoinManager ==
    /\ Up /\ main = "join" /\ km = "ended"
    /\ main' = "ended"
    /\ UNCHANGED <<slot, lifeless, crash>>

\* What a thread may touch after it was deleted: the manager's thread the
\* resource manager and the queue, a client's packet the queue, the query
\* thread its port.  It may also go well.
UseFreed ==
    /\ Up /\ ShuttingDown
    /\ \/ km = "handle"
       \/ main \in {"stop", "join"} /\ (km \in {"get", "woken"} \/ open # {})
       \/ \E k \in Slot : slot[k] = "portGone"
    /\ crash' = "freed"
    /\ UNCHANGED <<main, slot, lifeless>>
-----------------------------------------------------------------------------
ManagerStep == CheckStop \/ Get \/ Handle

MainStep ==
    \/ StartManager \/ SetClientManager
    \/ \E k \in Slot : OpenPorts(k) \/ SetId(k) \/ LoadFails(k)
    \/ \E k \in Slot : ClosePort(k) \/ DeletePort(k) \/ StopQuery(k)
    \/ KeyboardsUnloaded \/ DestroyQueue \/ StopManager \/ JoinManager

AgentStep ==
    \/ \E i \in 1..Len(remote), ok \in BOOLEAN, p \in Inport : Answer(i, ok, p)
    \/ \E c \in Camera, opt \in PtzRequest : ParentPtz(c, opt)
    \/ \E c \in Camera, o \in Outport : ParentSwitch(c, o)

DriverStep(k) ==
    \/ RxBegin(k) \/ OnRxMatrixPacket(k)
    \/ \E p \in KeyPacket, g \in InitId : OnRxKeyboardPacket(k, p, g)

ClientStep(f) ==
    \/ OnNewConnection(f) \/ OnDisconnect(f) \/ OnExcept(f)
    \/ \E p \in GuiPacket : OnReadable(f, p)

Next ==
    \/ ManagerStep \/ MainStep \/ AgentStep
    \/ Shutdown \/ Exit \/ DestroyFails \/ UseFreed
    \/ \E k \in Slot : DriverStep(k) \/ RxAssertFails(k)
    \/ \E f \in Fd : ClientStep(f)

Spec == Init /\ [][Next]_vars

\* The manager's thread and the main thread run.  Nothing is assumed of
\* operators, lines, clients and signals.
FairSpec == Spec /\ WF_vars(ManagerStep) /\ WF_vars(MainStep)
-----------------------------------------------------------------------------
(***************************************************************************)
(* Properties.                                                             *)
(***************************************************************************)

\* Every event posted by any thread is handled once and in the order of the
\* posts, whatever waits, wake-ups and calls from other threads come between
\* (Squeue::add and get, MCCKeyboardManager::thread).
Manager ==
    INSTANCE Dispatch WITH
        Event <- Messages,
        waiting <- IF km = "handle" THEN <<msg>> \o fifo ELSE fifo,
        done <- handled

DispatchedInOrder == Manager!Spec

\* As long as the process runs and is not being shut down, no event is left in
\* the queue: the signal of Squeue::add reaches a thread that waits.
EventsHandled ==
    [](Up /\ ~ShuttingDown) => (fifo # <<>> \/ km = "handle" ~> fifo = <<>> /\ km # "handle")

\* Once the client manager is set and until the shutdown begins, there is only
\* one way to crash: refusing an event of a keyboard that is not there
\* (onSwitch, onPtz: kb->Notify).  In particular what was posted while the
\* keyboards were being loaded does no harm later.
RunningNeverCrashes ==
    main = "running" /\ crash # "none" =>
        crash = "keyboard" /\ handled[Len(handled)].kb \notin Enabled

\* The packet the matrix is sent means what the command said, although its
\* buffer is never cleared: the same camera and monitor, at least the axes
\* that were asked for, each with its step, and no motion at all after a STOP
\* (buildPacketFromMessage, buildMessageFromPacket).
CommandOnWire ==
    LET d == MessageFromPacket(buf, cmd.kb, cmd.cam[1])
    IN  /\ cmd.type \in {"SWITCH", "PTZ"} => d.type = cmd.type /\ d.cam = cmd.cam
        /\ cmd.type = "SWITCH" => d.mon = cmd.mon
        /\ cmd.type = "PTZ" =>
              /\ cmd.opt \subseteq d.opt
              /\ cmd.opt = {} => d.opt = {}
              /\ cmd.opt \cap {"UP", "DOWN"} # {} => d.vstep = cmd.vstep
              /\ cmd.opt \cap {"LEFT", "RIGHT"} # {} => d.hstep = cmd.hstep

\* The clients agree: one that has been told anything knows whether the last
\* event was a SWITCH or a PTZ, which motion it asked for, and, for a SWITCH,
\* all of it, although notices are suppressed, connections fail and closed fds
\* stay in the list (Notify, onNewConnection, onExcept).
ClientsAgree ==
    \A f \in open : told[f] # NoNotice =>
        /\ told[f].type = accepted.type /\ told[f].opt = accepted.opt
        /\ accepted.type # "PTZ" => told[f] = accepted

\* Waiting for ever in the shutdown: for a receiver amid a packet, or for the
\* manager's thread, which waits for an event.
Stuck ==
    \/ main = "unload" /\ \E k \in Slot : slot[k] = "closing" /\ rx[k]
    \/ main \in {"destroy", "join"} /\ km = "wait"

\* A shutdown comes to an end, or it hangs in one of these two places: no
\* third thread can hold it up (Unload, ~Squeue, ~ThreadIf).
ShutdownEnds == [](ShuttingDown => (<>~Up) \/ <>[]Stuck)
=============================================================================
