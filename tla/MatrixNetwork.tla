----------------------------- MODULE MatrixNetwork -----------------------------
(***************************************************************************)
(* Switching cameras to monitors and moving their heads, across a tree of  *)
(* matrices: MCCResourceManager as the handler of keyboard events (onSwitch *)
(* and onPtz), of the requests that arrive from the parent and of the      *)
(* answers that arrive from the children.                                  *)
(*                                                                         *)
(* The connections are up and the tables are complete (Registry tells how  *)
(* they get so); a process that crashes stays down.  A handler is one      *)
(* step.  The heads of the cameras are PtzArbiter's.                       *)
(*                                                                         *)
(* The numbers of cameras, monitors and trunk ports are the numbers of the *)
(* inputs and outputs of the matrices, so cross[n] is the state of the     *)
(* video matrix that matrix n controls, and cables lead from its trunk     *)
(* outputs to inputs of its parent.                                        *)
(***************************************************************************)
EXTENDS Trunks, Sequences

CONSTANTS
    Node, Parent, Below,   \* the tree, as in Registry
    KeyboardOf,            \* KeyboardOf[n]: the keyboards of matrix n
    CameraOf, MonitorOf,   \* the keys of mCameras and mMonitors from the configuration
    TrunkOut,              \* TrunkOut[n][i]: mId, the output trunk i is connected to
    Outport,               \* Outport[n][i]: mOutport, the input of the parent it leads to
    Port,                  \* inputs and outputs, and local ids keyboards may ask for
    MaxMsg,                \* bound: requests sent in all; rand() never repeats an id
    Mortal,                \* bound: the matrices whose process may be stopped
    InitTtl                \* what MCCUser's constructor leaves in mExpireTime (garbage)

NoNode == -1
Children(n) == {c \in Node : Parent[c] = n}
Sub == {c \in Node : Parent[c] # NoNode}
Keyboard == UNION {KeyboardOf[n] : n \in Node}
MsgId == 1..MaxMsg

ASSUME NetworkAssumption ==
    /\ Node \subseteq Nat /\ Port \subseteq Nat \ {0}
    /\ 1 \in Port               \* __last_switch_cid starts with camera 1
    /\ KeyboardOf \in [Node -> SUBSET Nat] /\ MaxMsg \in Nat
    /\ CameraOf \in [Node -> SUBSET Port] /\ MonitorOf \in [Node -> SUBSET Port]
    /\ TrunkOut \in [Node -> [TrunkIndex -> Port]]
    /\ Outport \in [Node -> [TrunkIndex -> Port]]
    /\ TrunkUser = {u \in Node \X Keyboard : u[2] \in KeyboardOf[u[1]]}
    /\ Mortal \subseteq Node
    /\ InitTtl \subseteq Int

ASSUME NetworkTreeAssumption ==
    /\ Parent \in [Node -> Node \cup {NoNode}]
    /\ Below \in [Node -> SUBSET Node]
    /\ \A n, c \in Node : c \in Below[n] <=> Parent[c] = n \/ Parent[c] \in Below[n]
    /\ \A n, c \in Node : ~(c \in Below[n] /\ n \in Below[c])

VARIABLES
    alive,           \* alive[n]: the process runs
    linked,          \* linked[c]: c is in mChildMatrixs of its parent
    keys,            \* keys[n]: the keys of mCameras
    monitor,         \* monitor[n][m]: mUser of a Monitor, its keyboard and ttl
    trunks,          \* trunks[n]: mTrunks
    contexts,        \* contexts[n]: mProcessContexts
    last,            \* last[n]: __last_switch_cid
    cross,           \* cross[n][o]: the input switched to output o
    down, up,        \* down[c], up[c]: messages from and to the parent of c
    used,            \* the number of message ids given out
    promised         \* history: promised[n][m], what an answer has put on m

vars == <<alive, linked, keys, monitor, trunks, contexts, last, cross,
          down, up, used, promised>>

NoKey == -1
NoPort == 0

Requests ==
    [method : {"SWITCH", "PTZ"}, id : MsgId, from : Node, to : Node, kb : Keyboard, cam : Port]
Responses ==
    [method : {"SWITCH", "PTZ"}, id : MsgId, to : Node, code : {200, 400, 404},
     outport : Port \cup {NoPort}]

\* A ProcessContext; a relayed request has no keyboard.
Contexts == [method : {"SWITCH", "PTZ"}, kb : Keyboard \cup {NoKey}, cid : GlobalIds,
             mon : Port \cup {NoPort}]
NoContext == [method |-> "none", kb |-> NoKey, cid |-> NullID, mon |-> NoPort]
Relay(method) == [method |-> method, kb |-> NoKey, cid |-> NullID, mon |-> NoPort]

NoPromise == [cid |-> NullID, inport |-> NoPort]

TypeOK ==
    /\ alive \in [Node -> BOOLEAN] /\ linked \in [Node -> BOOLEAN]
    /\ keys \in [Node -> SUBSET Port]
    /\ monitor \in [Node -> [Port -> [user : Int, ttl : Int]]]
    /\ trunks \in [Node -> [TrunkIndex -> TrunkStates]]
    /\ contexts \in [Node -> [MsgId -> Contexts \cup {NoContext}]]
    /\ last \in [Node -> GlobalIds]
    /\ cross \in [Node -> [Port -> Port \cup {NoPort}]]
    /\ down \in [Node -> Seq(Requests)] /\ up \in [Node -> Seq(Responses)]
    /\ used \in 0..MaxMsg
    /\ promised \in [Node -> [Port -> [cid : GlobalIds, inport : Port \cup {NoPort}]]]
-----------------------------------------------------------------------------
\* initResource, and the static __last_switch_cid(0,1).
Init ==
    /\ alive = [n \in Node |-> TRUE]
    /\ linked = [n \in Node |-> n \in Sub]
    /\ keys = CameraOf
    /\ \E t \in InitTtl : monitor = [n \in Node |-> [m \in Port |-> [user |-> -1, ttl |-> t]]]
    /\ trunks = [n \in Node |-> [i \in TrunkIndex |-> IdleTrunk]]
    /\ contexts = [n \in Node |-> [x \in MsgId |-> NoContext]]
    /\ last = [n \in Node |-> <<0, 1>>]
    /\ cross = [n \in Node |-> [o \in Port |-> NoPort]]
    /\ down = [n \in Node |-> <<>>] /\ up = [n \in Node |-> <<>>]
    /\ used = 0
    /\ promised = [n \in Node |-> [m \in Port |-> NoPromise]]

\* matchMatrix: the child that leads to matrix m.
MatchMatrix(n, m) == {c \in Children(n) : linked[c] /\ (m = c \/ m \in Below[c])}

\* MCCAgentServer::Send and MCCAgentClient::Send; what is sent to a process
\* that is down is lost.
SentDown(q, c, r) == IF alive[c] THEN [q EXCEPT ![c] = Append(q[c], r)] ELSE q
SentUp(q, n, r) == IF n \in Sub /\ alive[Parent[n]] THEN [q EXCEPT ![n] = Append(q[n], r)] ELSE q

(***************************************************************************)
(* Keyboard events: onSwitch and onPtz, on the keyboard manager's thread.  *)
(* A refusal that changes nothing is not a step.                           *)
(***************************************************************************)

\* The first checks of processSwitchMessage: the monitor exists and is not
\* held by a greater keyboard.
MonitorFree(n, k, m) ==
    /\ m \in MonitorOf[n]
    /\ IsExpired(monitor[n][m].ttl) \/ monitor[n][m].user <= k

\* Mutant: the number of the camera is taken for one counted from zero.
SwitchLocalOffByOne(n, k, c, m) ==
    /\ alive[n] /\ MonitorFree(n, k, m)
    /\ c \in CameraOf[n]
    /\ monitor' = [monitor EXCEPT ![n][m] = [user |-> k, ttl |-> UpdatedExpire]]
    /\ cross' = [cross EXCEPT ![n][m] = c + 1]
    /\ last' = [last EXCEPT ![n] = <<n, c>>]
    /\ promised' = [promised EXCEPT ![n][m] = NoPromise]
    /\ UNCHANGED <<alive, linked, keys, trunks, contexts, down, up, used>>

\* A camera of this matrix.
SwitchLocal(n, k, c, m) ==
    /\ alive[n] /\ MonitorFree(n, k, m)
    /\ c \in CameraOf[n]
    /\ monitor' = [monitor EXCEPT ![n][m] = [user |-> k, ttl |-> UpdatedExpire]]
    /\ cross' = [cross EXCEPT ![n][m] = c]
    /\ last' = [last EXCEPT ![n] = <<n, c>>]
    /\ promised' = [promised EXCEPT ![n][m] = NoPromise]
    /\ UNCHANGED <<alive, linked, keys, trunks, contexts, down, up, used>>

\* Refused, but isCameraExist has put the key into mCameras by looking.
SwitchUnknown(n, k, c, m) ==
    /\ alive[n] /\ MonitorFree(n, k, m)
    /\ c \in Port \ CameraOf[n]
    /\ keys' = [keys EXCEPT ![n] = keys[n] \cup {c}]
    /\ UNCHANGED <<alive, linked, monitor, trunks, contexts, last, cross,
                   down, up, used, promised>>

\* Mutant: the request is sent a second time with the same id.
SwitchRemoteTwice(n, k, cid, m) ==
    LET r == [method |-> "SWITCH", id |-> used + 1, from |-> n,
              to |-> cid[1], kb |-> k, cam |-> cid[2]]
    IN  /\ alive[n] /\ MonitorFree(n, k, m)
        /\ cid[1] # n
        /\ used < MaxMsg
        /\ \E c \in MatchMatrix(n, cid[1]) : down' = SentDown(SentDown(down, c, r), c, r)
        /\ contexts' = [contexts EXCEPT ![n][used + 1] =
                           [method |-> "SWITCH", kb |-> k, cid |-> cid, mon |-> m]]
        /\ used' = used + 1
        /\ UNCHANGED <<alive, linked, keys, monitor, trunks, last, cross, up, promised>>

\* A camera below: the request is sent and the answer is awaited (PENDING).
\* The monitor is not touched.
SwitchRemote(n, k, cid, m) ==
    /\ alive[n] /\ MonitorFree(n, k, m)
    /\ cid[1] # n
    /\ used < MaxMsg
    /\ \E c \in MatchMatrix(n, cid[1]) :
          down' = SentDown(down, c, [method |-> "SWITCH", id |-> used + 1, from |-> n,
                                     to |-> cid[1], kb |-> k, cam |-> cid[2]])
    /\ contexts' = [contexts EXCEPT ![n][used + 1] =
                       [method |-> "SWITCH", kb |-> k, cid |-> cid, mon |-> m]]
    /\ used' = used + 1
    /\ UNCHANGED <<alive, linked, keys, monitor, trunks, last, cross, up,
                   promised>>

\* A PTZ event is for the camera that was switched last.  For one of this
\* matrix it comes to processLocalPtz, or mCameras[...] puts a missing key in.
PtzUnknown(n) ==
    /\ alive[n] /\ last[n][1] = n
    /\ last[n][2] \in Port \ CameraOf[n]
    /\ keys' = [keys EXCEPT ![n] = keys[n] \cup {last[n][2]}]
    /\ UNCHANGED <<alive, linked, monitor, trunks, contexts, last, cross,
                   down, up, used, promised>>

PtzRemote(n, k) ==
    /\ alive[n] /\ last[n][1] # n
    /\ used < MaxMsg
    /\ \E c \in MatchMatrix(n, last[n][1]) :
          down' = SentDown(down, c, [method |-> "PTZ", id |-> used + 1, from |-> n,
                                     to |-> last[n][1], kb |-> k, cam |-> last[n][2]])
    /\ contexts' = [contexts EXCEPT ![n][used + 1] =
                       [method |-> "PTZ", kb |-> k, cid |-> last[n], mon |-> NoPort]]
    /\ used' = used + 1
    /\ UNCHANGED <<alive, linked, keys, monitor, trunks, last, cross, up,
                   promised>>

(***************************************************************************)
(* Requests from the parent: onClientRxRequest, on the agent client's      *)
(* thread.  One recv may return several messages ("n" of them); the parser *)
(* sees the first only.                                                    *)
(***************************************************************************)

Rest(s, n) == SubSeq(s, n + 1, Len(s))

\* The first message of a recv of n on link c, if it is of that method.
Incoming(c, n, method) ==
    /\ alive[c]
    /\ n \in 1..Len(down[c])
    /\ Head(down[c]).method = method

\* The messages left on the links to and from c once n have been read and
\* the answer has been sent.
Answered(c, n, code, port) ==
    LET r == Head(down[c])
    IN  /\ down' = [down EXCEPT ![c] = Rest(down[c], n)]
        /\ up' = SentUp(up, c, [method |-> r.method, id |-> r.id, to |-> r.from,
                                code |-> code, outport |-> port])

Updated(c) == [i \in TrunkIndex |-> UpdateUsers(trunks[c][i])]

\* The trunk checkTrunk finds for the first message of link c.
TrunkFor(c) ==
    LET r == Head(down[c]) IN CheckTrunk(Updated(c), <<r.from, r.kb>>, <<r.to, r.cam>>)

\* Mutant: the handler returns without an answer.
TrunkBusySilent(c, n) ==
    /\ Incoming(c, n, "SWITCH")
    /\ TrunkFor(c) = NoTrunk
    /\ trunks' = [trunks EXCEPT ![c] = Updated(c)]
    /\ down' = [down EXCEPT ![c] = Rest(down[c], n)]
    /\ UNCHANGED <<alive, linked, keys, monitor, contexts, last, cross, up, used, promised>>

\* "Trunk Busy".
TrunkBusy(c, n) ==
    /\ Incoming(c, n, "SWITCH")
    /\ TrunkFor(c) = NoTrunk
    /\ trunks' = [trunks EXCEPT ![c] = Updated(c)]
    /\ Answered(c, n, 404, NoPort)
    /\ UNCHANGED <<alive, linked, keys, monitor, contexts, last, cross, used,
                   promised>>

\* The camera is a key of mCameras: the trunk is reserved and the camera is
\* switched to output number outport().
Grant(c, n) ==
    LET r == Head(down[c])
        i == TrunkFor(c)
    IN  /\ Incoming(c, n, "SWITCH")
        /\ i # NoTrunk
        /\ r.to = c /\ r.cam \in keys[c]
        /\ trunks' = [trunks EXCEPT ![c] =
                         [Updated(c) EXCEPT ![i] = Push(Updated(c)[i], <<r.from, r.kb>>, <<c, r.cam>>)]]
        /\ cross' = [cross EXCEPT ![c][Outport[c][i]] = r.cam]
        /\ Answered(c, n, 200, Outport[c][i])
        /\ UNCHANGED <<alive, linked, keys, monitor, contexts, last, used,
                       promised>>

\* "Camera Not Found" and "Matrix Not Found".
SwitchNotFound(c, n) ==
    LET r == Head(down[c])
        i == TrunkFor(c)
    IN  /\ Incoming(c, n, "SWITCH")
        /\ i # NoTrunk
        /\ IF r.to = c THEN r.cam \notin keys[c] ELSE MatchMatrix(c, r.to) = {}
        /\ trunks' = [trunks EXCEPT ![c] = Updated(c)]
        /\ Answered(c, n, 404, Outport[c][i])
        /\ UNCHANGED <<alive, linked, keys, monitor, contexts, last, cross, used,
                       promised>>

\* The process is gone, and with it what was on the way to it.
Crash(c) ==
    /\ alive' = [alive EXCEPT ![c] = FALSE]
    /\ down' = [d \in Node |-> IF d = c \/ Parent[d] = c THEN <<>> ELSE down[d]]
    /\ up' = [d \in Node |-> IF Parent[d] = c THEN <<>> ELSE up[d]]
    /\ UNCHANGED <<linked, keys, monitor, trunks, contexts, last, cross, used,
                   promised>>

\* Mutant: the request is relayed without a context for its answer.
RelaySwitchNoContext(c, n) ==
    LET r == Head(down[c])
    IN  /\ Incoming(c, n, "SWITCH")
        /\ TrunkFor(c) # NoTrunk
        /\ r.to # c
        /\ \E d \in MatchMatrix(c, r.to) :
              down' = SentDown([down EXCEPT ![c] = Rest(down[c], n)], d, r)
        /\ trunks' = [trunks EXCEPT ![c] = Updated(c)]
        /\ UNCHANGED <<alive, linked, keys, monitor, contexts, last, cross, up, used,
                       promised>>

\* A request for a matrix below: a context is created and the request goes
\* on.  A context that exists already would end the process (assert).
RelaySwitch(c, n) ==
    LET r == Head(down[c])
    IN  /\ Incoming(c, n, "SWITCH")
        /\ TrunkFor(c) # NoTrunk
        /\ r.to # c
        /\ \E d \in MatchMatrix(c, r.to) :
              IF contexts[c][r.id] # NoContext
              THEN Crash(c)
              ELSE /\ down' = SentDown([down EXCEPT ![c] = Rest(down[c], n)], d, r)
                   /\ contexts' = [contexts EXCEPT ![c][r.id] = Relay("SWITCH")]
                   /\ trunks' = [trunks EXCEPT ![c] = Updated(c)]
                   /\ UNCHANGED <<alive, linked, keys, monitor, last, cross, up, used,
                                  promised>>

\* A head of this matrix: what processLocalPtz decides is the answer.  A key
\* without a camera is a null pointer.
RxPtz(c, n) ==
    LET r == Head(down[c])
    IN  /\ Incoming(c, n, "PTZ")
        /\ r.to = c
        /\ IF r.cam \in keys[c] \ CameraOf[c]
           THEN Crash(c)
           ELSE /\ \E code \in (IF r.cam \in keys[c] THEN {200, 400} ELSE {404}) :
                      Answered(c, n, code, NoPort)
                /\ UNCHANGED <<alive, linked, keys, monitor, trunks, contexts, last, cross,
                               used, promised>>

\* A PTZ request for a matrix below: the context is created from a null
\* reference, which ends the process before anything is sent.
RelayPtz(c, n) ==
    LET r == Head(down[c])
    IN  /\ Incoming(c, n, "PTZ")
        /\ r.to # c
        /\ IF MatchMatrix(c, r.to) # {}
           THEN Crash(c)
           ELSE /\ Answered(c, n, 404, NoPort)
                /\ UNCHANGED <<alive, linked, keys, monitor, trunks, contexts, last,
                               cross, used, promised>>

(***************************************************************************)
(* Answers from a child: onServerRxResponse, on the agent server's thread. *)
(***************************************************************************)

\* The first message of a recv of n on link c, at the parent p.  Without a
\* context an answer is thrown away.
Answer(p, c, n, method) ==
    /\ Parent[c] = p /\ alive[p]
    /\ n \in 1..Len(up[c])
    /\ Head(up[c]).method = method

\* MCCAgentResponse::Parse refuses the answer to a PTZ request, so its
\* context stays.  (The message is then parsed as a request, which fails too
\* and leaves method() uninitialised: no value of it reaches the contexts.)
PtzAnswerLost(p, c, n) ==
    /\ Answer(p, c, n, "PTZ")
    /\ up' = [up EXCEPT ![c] = Rest(up[c], n)]
    /\ UNCHANGED <<alive, linked, keys, monitor, trunks, contexts, last, cross,
                   down, used, promised>>

\* Mutant: the camera's number is switched instead of the input it arrives on.
SwitchDoneCamera(p, c, n) ==
    LET r == Head(up[c])
        x == contexts[p][r.id]
    IN  /\ Answer(p, c, n, "SWITCH")
        /\ r.to = p /\ x # NoContext /\ r.code = 200
        /\ up' = [up EXCEPT ![c] = Rest(up[c], n)]
        /\ contexts' = [contexts EXCEPT ![p][r.id] = NoContext]
        /\ last' = [last EXCEPT ![p] = x.cid]
        /\ cross' = [cross EXCEPT ![p][x.mon] = x.cid[2]]
        /\ promised' = [promised EXCEPT ![p][x.mon] = [cid |-> x.cid, inport |-> r.outport]]
        /\ UNCHANGED <<alive, linked, keys, monitor, trunks, down, used>>

\* The answer to a request of this matrix: with 200, the monitor of the
\* request gets the input the answer names.
SwitchDone(p, c, n) ==
    LET r == Head(up[c])
        x == contexts[p][r.id]
    IN  /\ Answer(p, c, n, "SWITCH")
        /\ r.to = p
        /\ up' = [up EXCEPT ![c] = Rest(up[c], n)]
        /\ contexts' = [contexts EXCEPT ![p][r.id] = NoContext]
        /\ IF x # NoContext /\ r.code = 200
           THEN /\ last' = [last EXCEPT ![p] = x.cid]
                /\ cross' = [cross EXCEPT ![p][x.mon] = r.outport]
                /\ promised' = [promised EXCEPT ![p][x.mon] = [cid |-> x.cid, inport |-> r.outport]]
           ELSE UNCHANGED <<last, cross, promised>>
        /\ UNCHANGED <<alive, linked, keys, monitor, trunks, down, used>>

\* The answer to a relayed request goes on to the parent.  The loop over the
\* trunks is empty: nothing is switched here.
RelayAnswer(p, c, n) ==
    LET r == Head(up[c])
        rest == [up EXCEPT ![c] = Rest(up[c], n)]
    IN  /\ Answer(p, c, n, "SWITCH")
        /\ r.to # p
        /\ up' = IF contexts[p][r.id] # NoContext THEN SentUp(rest, p, r) ELSE rest
        /\ contexts' = [contexts EXCEPT ![p][r.id] = NoContext]
        /\ UNCHANGED <<alive, linked, keys, monitor, trunks, last, cross, down, used,
                       promised>>

\* The process is stopped.
Die(c) ==
    /\ c \in Mortal /\ alive[c]
    /\ Crash(c)

\* onDisconnect: the parent has read everything and then the end of file.
Unregister(c) ==
    /\ c \in Sub /\ alive[Parent[c]]
    /\ ~alive[c] /\ linked[c] /\ up[c] = <<>>
    /\ linked' = [linked EXCEPT ![c] = FALSE]
    /\ UNCHANGED <<alive, keys, monitor, trunks, contexts, last, cross, down, up,
                   used, promised>>

\* One tick of the clock.
Tick ==
    /\ monitor' = [n \in Node |-> [m \in Port |->
                      [monitor[n][m] EXCEPT !.ttl = Aged(monitor[n][m].ttl)]]]
    /\ trunks' = [n \in Node |-> [i \in TrunkIndex |-> AgedTrunk(trunks[n][i])]]
    /\ UNCHANGED <<alive, linked, keys, contexts, last, cross, down, up, used, promised>>
-----------------------------------------------------------------------------
KeyboardEvent(n, k) ==
    \/ \E m \in Port :
          \/ \E c \in Port : SwitchLocal(n, k, c, m) \/ SwitchUnknown(n, k, c, m)
          \/ \E cid \in Node \X Port : SwitchRemote(n, k, cid, m)
    \/ PtzUnknown(n) \/ PtzRemote(n, k)

RxRequest(c) ==
    \E n \in 1..Len(down[c]) :
        \/ TrunkBusy(c, n) \/ Grant(c, n) \/ SwitchNotFound(c, n) \/ RelaySwitch(c, n)
        \/ RxPtz(c, n) \/ RelayPtz(c, n)

RxResponse(c) ==
    \E n \in 1..Len(up[c]), p \in Node :
        PtzAnswerLost(p, c, n) \/ SwitchDone(p, c, n) \/ RelayAnswer(p, c, n)

Next ==
    \/ Tick
    \/ \E n \in Node : \E k \in KeyboardOf[n] : KeyboardEvent(n, k)
    \/ \E c \in Node : RxRequest(c) \/ RxResponse(c) \/ Die(c) \/ Unregister(c)

Spec == Init /\ [][Next]_vars

\* select and epoll report every message.
FairSpec == Spec /\ \A c \in Sub : WF_vars(RxRequest(c)) /\ WF_vars(RxResponse(c))
-----------------------------------------------------------------------------
(***************************************************************************)
(* Properties.                                                             *)
(***************************************************************************)

\* The SWITCH messages on the two directions of link c.
Requested(c) == {r \in {down[c][j] : j \in 1..Len(down[c])} : r.method = "SWITCH"}
Replied(c) == {r \in {up[c][j] : j \in 1..Len(up[c])} : r.method = "SWITCH"}

\* The matrices from the one that asked down to the parent of c.
PathTo(c, top) == {n \in Node : c \in Below[n] /\ (n = top \/ n \in Below[top])}

\* Every matrix a SWITCH has passed, and no other, has a context for its
\* answer: no answer is thrown away on its way up, through relays, answers
\* that overtake other requests, and messages that are lost in one recv
\* (processSwitchMessage, onClientRxRequest, onServerRxResponse).
PathRecorded ==
    \A c \in Sub :
        /\ \A r \in Requested(c) : \A n \in Node :
              contexts[n][r.id] # NoContext <=> n \in PathTo(c, r.from)
        /\ \A r \in Replied(c) : \A n \in Node :
              contexts[n][r.id] # NoContext <=> n \in PathTo(c, r.to)

\* The assertion against duplicate ids in the relay branch of
\* onClientRxRequest never ends the process: a SWITCH is no reason to crash.
SwitchNeverCrashes ==
    [][\A c \in Node : alive[c] /\ ~alive'[c] =>
         c \in Mortal \/ Head(down[c]).method = "PTZ"]_vars

\* The picture on input p of matrix n: the child and the trunk whose cable
\* leads there, and what is switched to that output.
Picture(n, p) ==
    {<<t[1], cross[t[1]][TrunkOut[t[1]][t[2]]]>> :
        t \in {w \in Children(n) \X TrunkIndex : Outport[w[1]][w[2]] = p}}

\* As long as a trunk stays reserved for a camera, the monitor that was
\* promised that camera on the trunk's input shows it: the switch at the
\* child, its answer and the switch at the parent agree, whatever happens
\* between them (onClientRxRequest, onServerRxResponse).
PictureArrives ==
    \A n \in Node : \A m \in MonitorOf[n] : \A c \in Children(n), i \in TrunkIndex :
        LET p == promised[n][m]
        IN  /\ p.cid[1] = c /\ p.inport = Outport[c][i]
            /\ trunks[c][i].cid = p.cid
            => cross[n][m] = p.inport /\ Picture(n, p.inport) = {p.cid}

\* A monitor has one user: while a keyboard's lease on it lasts, the answer to
\* a request of a smaller keyboard does not change its picture.
MonitorExclusive ==
    [][\A n \in Node : \A m \in MonitorOf[n] :
         cross'[n][m] # cross[n][m] /\ ~IsExpired(monitor[n][m].ttl) =>
             \A x \in MsgId :
                 contexts[n][x] # NoContext /\ contexts'[n][x] = NoContext =>
                     monitor[n][m].user <= contexts[n][x].kb]_vars

\* Where messages do not pile up on a connection and nobody crashes, every
\* SWITCH is answered in the end and no matrix keeps a context for it.
SwitchAnswered ==
    [](\A c \in Node : alive[c] /\ Len(down[c]) <= 1 /\ Len(up[c]) <= 1) =>
        \A x \in MsgId :
            used >= x ~> \A n \in Node : contexts[n][x].method # "SWITCH"
=============================================================================
