-------------------------- MODULE MatrixNetworkProofs --------------------------
(***************************************************************************)
(* What MatrixNetwork guarantees for any tree of matrices and any number   *)
(* of keyboards, trunks and requests.                                      *)
(***************************************************************************)
EXTENDS MatrixNetwork, TrunksProofs

-----------------------------------------------------------------------------
(***************************************************************************)
(* The type invariant.                                                     *)
(***************************************************************************)

\* A request names a keyboard of the matrix it is from, which is what makes
\* its user one of the users a trunk may have.
Asked == {r \in Requests : r.kb \in KeyboardOf[r.from]}

\* An id that names a matrix names a port there; __last_switch_cid is such an
\* id, and so is the camera of a context.
Named(cid) == cid[1] \in Node => cid[2] \in Port

NetType ==
    /\ TypeOK
    /\ down \in [Node -> Seq(Asked)]
    /\ \A n \in Node : Named(last[n])
    /\ \A n \in Node, x \in MsgId : Named(contexts[n][x].cid)

\* What the assumptions say of the tree.
LEMMA NetworkFacts ==
    /\ \A n \in Node : n \in Nat /\ n # -1 /\ n # NoNode
    /\ \A p \in Port : p \in Nat /\ p # 0
    /\ \A n \in Node : KeyboardOf[n] \subseteq Nat /\ KeyboardOf[n] \subseteq Keyboard
    /\ \A n \in Node : CameraOf[n] \subseteq Port /\ MonitorOf[n] \subseteq Port
    /\ \A n \in Node, i \in TrunkIndex : Outport[n][i] \in Port
    /\ NullID \in GlobalIds
BY NetworkAssumption DEF NoNode, Keyboard, NullID, GlobalIds

\* An entry of a table of every matrix.
LEMMA EntryType ==
    ASSUME NEW N, NEW X, NEW S, NEW f \in [N -> [X -> S]], NEW n \in N, NEW x, NEW v \in S
    PROVE  /\ [f EXCEPT ![n][x] = v] \in [N -> [X -> S]]
           /\ \A m \in N, y \in X :
                 [f EXCEPT ![n][x] = v][m][y] = IF m = n /\ y = x THEN v ELSE f[m][y]
OBVIOUS

\* recv takes the messages off the front.
LEMMA RestType ==
    ASSUME NEW S, NEW s \in Seq(S), NEW n \in 1..Len(s)
    PROVE  Rest(s, n) \in Seq(S) /\ Head(s) \in S
<1>1. Len(s) \in Nat /\ s # <<>>
  OBVIOUS
<1>2. \A i \in (n + 1)..Len(s) : s[i] \in S
  BY <1>1
<1> QED
  BY <1>1, <1>2 DEF Rest

\* send keeps the links well formed.
LEMMA SentType ==
    ASSUME NEW S, NEW Q \in [Node -> Seq(S)], NEW c \in Node, NEW r \in S
    PROVE  SentDown(Q, c, r) \in [Node -> Seq(S)] /\ SentUp(Q, c, r) \in [Node -> Seq(S)]
BY DEF SentDown, SentUp

\* matchMatrix finds a child, and only for a matrix of the tree.
LEMMA MatchFacts ==
    ASSUME NEW n \in Node, NEW m, NEW c \in MatchMatrix(n, m)
    PROVE  c \in Node /\ Parent[c] = n /\ c \in Sub /\ m \in Node /\ c \in Below[n]
BY NetworkTreeAssumption, NetworkFacts DEF MatchMatrix, Children, Sub

\* checkTrunk finds a trunk of the matrix for a request, or none.
LEMMA TrunkForFacts ==
    ASSUME NetType, NEW c \in Node, NEW n \in 1..Len(down[c])
    PROVE  /\ Updated(c) \in [TrunkIndex -> TrunkStates]
           /\ \A i \in TrunkIndex : Updated(c)[i].cid \in {trunks[c][i].cid, NullID}
           /\ Head(down[c]) \in Asked
           /\ <<Head(down[c]).from, Head(down[c]).kb>> \in TrunkUser
           /\ TrunkFor(c) # NoTrunk => TrunkFor(c) \in TrunkIndex
<1> DEFINE r == Head(down[c])
           u == <<r.from, r.kb>>
           cid == <<r.to, r.cam>>
<1>1. \A i \in TrunkIndex : trunks[c][i] \in TrunkStates
  BY DEF NetType, TypeOK
<1>2. \A i \in TrunkIndex : /\ UpdateUsers(trunks[c][i]) \in TrunkStates
                            /\ UpdateUsers(trunks[c][i]).cid \in {trunks[c][i].cid, NullID}
  BY <1>1, UpdateUsersFacts
<1>3. /\ Updated(c) \in [TrunkIndex -> TrunkStates]
      /\ \A i \in TrunkIndex : Updated(c)[i].cid \in {trunks[c][i].cid, NullID}
  BY <1>2 DEF Updated
<1>4. r \in Asked
  BY RestType DEF NetType
<1>5. /\ r.from \in Node /\ r.kb \in KeyboardOf[r.from] /\ r.kb \in Keyboard
      /\ r.to \in Node /\ r.cam \in Port
  BY <1>4 DEF Asked, Requests
<1>6. u \in TrunkUser
  BY <1>5, NetworkAssumption
<1>7. cid \in GlobalIds
  BY <1>5, NetworkFacts DEF GlobalIds
<1>8. TrunkFor(c) = CheckTrunk(Updated(c), u, cid)
  BY DEF TrunkFor
<1> HIDE DEF u, cid, r
<1>9. TrunkFor(c) # NoTrunk => TrunkFor(c) \in TrunkIndex
  BY <1>3, <1>6, <1>7, <1>8, CheckTrunkSound
<1> QED
  BY <1>3, <1>4, <1>6, <1>9 DEF u, r

\* The answer is a response.
LEMMA AnsweredType ==
    ASSUME NetType, NEW c \in Node, NEW n \in 1..Len(down[c]), NEW code \in {200, 400, 404},
           NEW port \in Port \cup {NoPort}, Answered(c, n, code, port)
    PROVE  down' \in [Node -> Seq(Asked)] /\ up' \in [Node -> Seq(Responses)]
<1> DEFINE r == Head(down[c])
           a == [method |-> r.method, id |-> r.id, to |-> r.from, code |-> code, outport |-> port]
<1>1. r \in Asked /\ Rest(down[c], n) \in Seq(Asked)
  BY RestType DEF NetType
<1>2. a \in Responses
  BY <1>1 DEF Asked, Requests, Responses
<1>3. down' = [down EXCEPT ![c] = Rest(down[c], n)] /\ up' = SentUp(up, c, a)
  BY DEF Answered
<1> HIDE DEF a, r
<1>4. down' \in [Node -> Seq(Asked)]
  BY <1>1, <1>3 DEF NetType
<1>5. up' \in [Node -> Seq(Responses)]
  BY <1>2, <1>3, SentType DEF NetType, TypeOK
<1> QED
  BY <1>4, <1>5

\* Links of requests that were asked are links of requests.
LEMMA AskedAreRequests ==
    ASSUME NEW D \in [Node -> Seq(Asked)]
    PROVE  D \in [Node -> Seq(Requests)]
<1>1. Asked \subseteq Requests
  BY DEF Asked
<1>2. \A s \in Seq(Asked) : s \in Seq(Requests)
  BY <1>1
<1> QED
  BY <1>2

\* Everything is well formed before the first request.
LEMMA NetTypeInit == Init => NetType
<1> SUFFICES ASSUME Init PROVE NetType
  OBVIOUS
<1>1. IdleTrunk \in TrunkStates
  BY NetworkFacts DEF IdleTrunk, TrunkStates
<1>2. trunks \in [Node -> [TrunkIndex -> TrunkStates]]
  BY <1>1 DEF Init
<1>3. monitor \in [Node -> [Port -> [user : Int, ttl : Int]]]
  BY NetworkAssumption DEF Init
<1>4. /\ contexts \in [Node -> [MsgId -> Contexts \cup {NoContext}]]
      /\ \A n \in Node, x \in MsgId : Named(contexts[n][x].cid)
  BY NetworkFacts DEF Init, NoContext, Named, NullID
<1>5. last \in [Node -> GlobalIds] /\ \A n \in Node : Named(last[n])
  BY NetworkAssumption DEF Init, Named, GlobalIds
<1>6. /\ cross \in [Node -> [Port -> Port \cup {NoPort}]]
      /\ promised \in [Node -> [Port -> [cid : GlobalIds, inport : Port \cup {NoPort}]]]
  BY NetworkFacts DEF Init, NoPromise
<1>7. /\ down \in [Node -> Seq(Asked)] /\ down \in [Node -> Seq(Requests)]
      /\ up \in [Node -> Seq(Responses)]
  BY DEF Init
<1>8. alive \in [Node -> BOOLEAN] /\ linked \in [Node -> BOOLEAN]
      /\ keys \in [Node -> SUBSET Port] /\ used \in 0..MaxMsg
  BY NetworkAssumption DEF Init
<1> QED
  BY <1>2, <1>3, <1>4, <1>5, <1>6, <1>7, <1>8 DEF NetType, TypeOK

\* createContext and erase.
LEMMA ContextType ==
    ASSUME NetType, NEW n \in Node, NEW id, NEW x \in Contexts \cup {NoContext}, Named(x.cid),
           contexts' = [contexts EXCEPT ![n][id] = x]
    PROVE  /\ contexts' \in [Node -> [MsgId -> Contexts \cup {NoContext}]]
           /\ \A m \in Node, y \in MsgId : Named(contexts'[m][y].cid)
<1>1. contexts \in [Node -> [MsgId -> Contexts \cup {NoContext}]]
  BY DEF NetType, TypeOK
<1>2. contexts' \in [Node -> [MsgId -> Contexts \cup {NoContext}]]
  BY <1>1, EntryType
<1>3. \A m \in Node, y \in MsgId :
        contexts'[m][y] = IF m = n /\ y = id THEN x ELSE contexts[m][y]
  BY <1>1, EntryType
<1>4. \A m \in Node, y \in MsgId : Named(contexts[m][y].cid)
  BY DEF NetType
<1> QED
  BY <1>2, <1>3, <1>4

\* A request for a camera below, and its context.
LEMMA SendRequestType ==
    ASSUME NetType, NEW n \in Node, NEW k \in KeyboardOf[n], NEW c \in Node,
           NEW method \in {"SWITCH", "PTZ"}, NEW cid \in Node \X Port,
           NEW mon \in Port \cup {NoPort}, used < MaxMsg,
           down' = SentDown(down, c, [method |-> method, id |-> used + 1, from |-> n,
                                      to |-> cid[1], kb |-> k, cam |-> cid[2]]),
           contexts' = [contexts EXCEPT ![n][used + 1] =
                           [method |-> method, kb |-> k, cid |-> cid, mon |-> mon]],
           used' = used + 1,
           UNCHANGED <<alive, linked, keys, monitor, trunks, last, cross, up, promised>>
    PROVE  NetType'
<1> DEFINE r == [method |-> method, id |-> used + 1, from |-> n, to |-> cid[1], kb |-> k,
                 cam |-> cid[2]]
           x == [method |-> method, kb |-> k, cid |-> cid, mon |-> mon]
<1>1. used + 1 \in MsgId /\ used' \in 0..MaxMsg
  BY NetworkAssumption DEF NetType, TypeOK, MsgId
<1>2. k \in Keyboard
  BY NetworkFacts
<1>3. r \in Asked
  BY <1>1, <1>2 DEF Asked, Requests
<1>4. x \in Contexts /\ x.cid = cid
  BY <1>2, NetworkFacts DEF Contexts, GlobalIds
<1>5. down' = SentDown(down, c, r) /\ contexts' = [contexts EXCEPT ![n][used + 1] = x]
  OBVIOUS
<1> HIDE DEF r, x
<1>6. down' \in [Node -> Seq(Asked)]
  <2>1. down \in [Node -> Seq(Asked)]
    BY DEF NetType
  <2>2. SentDown(down, c, r) \in [Node -> Seq(Asked)]
    BY <1>3, <2>1, SentType
  <2> QED BY <1>5, <2>2
<1>7. down' \in [Node -> Seq(Requests)]
  BY <1>6, AskedAreRequests
<1>8. /\ contexts' \in [Node -> [MsgId -> Contexts \cup {NoContext}]]
      /\ \A m \in Node, y \in MsgId : Named(contexts'[m][y].cid)
  <2>1. Named(x.cid)
    BY <1>4 DEF Named
  <2> QED BY <1>4, <1>5, <2>1, ContextType
<1> QED
  BY <1>1, <1>6, <1>7, <1>8 DEF NetType, TypeOK

\* onSwitch and onPtz keep everything well formed.
LEMMA KeyboardType ==
    ASSUME NetType, NEW n \in Node, NEW k \in KeyboardOf[n], KeyboardEvent(n, k)
    PROVE  NetType'
<1>1. ASSUME NEW m \in Port, NEW c \in Port, SwitchLocal(n, k, c, m)
      PROVE  NetType'
  <2>1. k \in Int /\ UpdatedExpire \in Int /\ c \in Int /\ n \in Int
    BY NetworkFacts, ExpireAssumption DEF UpdatedExpire
  <2>2. monitor' \in [Node -> [Port -> [user : Int, ttl : Int]]]
    BY <1>1, <2>1 DEF SwitchLocal, NetType, TypeOK
  <2>3. last' \in [Node -> GlobalIds] /\ \A j \in Node : Named(last'[j])
    <3>1. <<n, c>> \in GlobalIds /\ Named(<<n, c>>)
      BY <2>1 DEF GlobalIds, Named
    <3> QED BY <1>1, <3>1 DEF SwitchLocal, NetType, TypeOK
  <2>4. cross' \in [Node -> [Port -> Port \cup {NoPort}]]
    BY <1>1 DEF SwitchLocal, NetType, TypeOK
  <2>5. promised' \in [Node -> [Port -> [cid : GlobalIds, inport : Port \cup {NoPort}]]]
    <3>1. NoPromise \in [cid : GlobalIds, inport : Port \cup {NoPort}]
      BY NetworkFacts DEF NoPromise
    <3> QED BY <1>1, <3>1 DEF SwitchLocal, NetType, TypeOK
  <2> QED BY <1>1, <2>2, <2>3, <2>4, <2>5 DEF SwitchLocal, NetType, TypeOK
<1>2. ASSUME NEW m \in Port, NEW c \in Port, SwitchUnknown(n, k, c, m)
      PROVE  NetType'
  <2>1. keys' \in [Node -> SUBSET Port]
    BY <1>2 DEF SwitchUnknown, NetType, TypeOK
  <2> QED BY <1>2, <2>1 DEF SwitchUnknown, NetType, TypeOK
<1>3. ASSUME NEW m \in Port, NEW cid \in Node \X Port, SwitchRemote(n, k, cid, m)
      PROVE  NetType'
  <2>1. PICK c \in MatchMatrix(n, cid[1]) :
           down' = SentDown(down, c, [method |-> "SWITCH", id |-> used + 1, from |-> n,
                                      to |-> cid[1], kb |-> k, cam |-> cid[2]])
    BY <1>3 DEF SwitchRemote
  <2>2. c \in Node
    BY MatchFacts
  <2>3. /\ used < MaxMsg /\ used' = used + 1
        /\ contexts' = [contexts EXCEPT ![n][used + 1] =
                           [method |-> "SWITCH", kb |-> k, cid |-> cid, mon |-> m]]
        /\ UNCHANGED <<alive, linked, keys, monitor, trunks, last, cross, up, promised>>
    BY <1>3 DEF SwitchRemote
  <2> QED BY <2>1, <2>2, <2>3, SendRequestType
<1>4. CASE PtzUnknown(n)
  <2>1. keys' \in [Node -> SUBSET Port]
    BY <1>4 DEF PtzUnknown, NetType, TypeOK
  <2> QED BY <1>4, <2>1 DEF PtzUnknown, NetType, TypeOK
<1>5. CASE PtzRemote(n, k)
  <2>1. PICK c \in MatchMatrix(n, last[n][1]) :
           down' = SentDown(down, c, [method |-> "PTZ", id |-> used + 1, from |-> n,
                                      to |-> last[n][1], kb |-> k, cam |-> last[n][2]])
    BY <1>5 DEF PtzRemote
  <2>2. c \in Node /\ last[n][1] \in Node
    BY MatchFacts
  <2>3. last[n] \in Node \X Port
    BY <2>2 DEF NetType, TypeOK, Named, GlobalIds
  <2>4. /\ used < MaxMsg /\ used' = used + 1
        /\ contexts' = [contexts EXCEPT ![n][used + 1] =
                           [method |-> "PTZ", kb |-> k, cid |-> last[n], mon |-> NoPort]]
        /\ UNCHANGED <<alive, linked, keys, monitor, trunks, last, cross, up, promised>>
    BY <1>5 DEF PtzRemote
  <2> QED BY <2>1, <2>2, <2>3, <2>4, SendRequestType
<1> QED
  BY <1>1, <1>2, <1>3, <1>4, <1>5 DEF KeyboardEvent

\* So does the end of a process,
LEMMA CrashType ==
    ASSUME NetType, NEW c \in Node, Crash(c)
    PROVE  NetType'
<1>1. alive' \in [Node -> BOOLEAN]
  BY DEF Crash, NetType, TypeOK
<1>2. /\ down' \in [Node -> Seq(Asked)] /\ down' \in [Node -> Seq(Requests)]
      /\ up' \in [Node -> Seq(Responses)]
  BY DEF Crash, NetType, TypeOK
<1> QED
  BY <1>1, <1>2 DEF Crash, NetType, TypeOK

\* onClientRxRequest
LEMMA RequestType ==
    ASSUME NetType, NEW c \in Node, NEW n \in 1..Len(down[c]),
           \/ TrunkBusy(c, n) \/ Grant(c, n) \/ SwitchNotFound(c, n) \/ RelaySwitch(c, n)
           \/ RxPtz(c, n) \/ RelayPtz(c, n)
    PROVE  NetType'
<1> DEFINE r == Head(down[c])
           i == TrunkFor(c)
<1>1. /\ r \in Asked /\ r \in Requests
      /\ r.from \in Node /\ r.to \in Node /\ r.cam \in Port /\ r.id \in MsgId
  BY TrunkForFacts DEF Asked, Requests
<1>2. Updated(c) \in [TrunkIndex -> TrunkStates] /\ (i # NoTrunk => i \in TrunkIndex)
  BY TrunkForFacts
<1>3. ASSUME trunks' = [trunks EXCEPT ![c] = Updated(c)]
      PROVE  trunks' \in [Node -> [TrunkIndex -> TrunkStates]]
  BY <1>2, <1>3 DEF NetType, TypeOK
<1>4. ASSUME NEW code \in {200, 400, 404}, NEW port \in Port \cup {NoPort},
             Answered(c, n, code, port)
      PROVE  /\ down' \in [Node -> Seq(Asked)] /\ down' \in [Node -> Seq(Requests)]
             /\ up' \in [Node -> Seq(Responses)]
  BY <1>4, AnsweredType, AskedAreRequests
<1>5. CASE TrunkBusy(c, n)
  <2>1. trunks' \in [Node -> [TrunkIndex -> TrunkStates]]
    BY <1>3, <1>5 DEF TrunkBusy
  <2>2. Answered(c, n, 404, NoPort)
    BY <1>5 DEF TrunkBusy
  <2> QED BY <1>4, <1>5, <2>1, <2>2 DEF TrunkBusy, NetType, TypeOK
<1>6. CASE Grant(c, n)
  <2> HIDE DEF r, i
  <2> DEFINE t == Push(Updated(c)[i], <<r.from, r.kb>>, <<c, r.cam>>)
  <2>1. i \in TrunkIndex /\ Outport[c][i] \in Port
    BY <1>2, <1>6, NetworkFacts DEF Grant, i
  <2>2. t \in TrunkStates
    <3>1. <<r.from, r.kb>> \in TrunkUser /\ <<c, r.cam>> \in GlobalIds
      BY <1>1, TrunkForFacts, NetworkFacts DEF r, GlobalIds
    <3> QED BY <1>2, <2>1, <3>1, PushFacts
  <2>3. trunks' = [trunks EXCEPT ![c] = [Updated(c) EXCEPT ![i] = t]]
    BY <1>6 DEF Grant, i, r
  <2> HIDE DEF t
  <2>4. [Updated(c) EXCEPT ![i] = t] \in [TrunkIndex -> TrunkStates]
    BY <1>2, <2>2
  <2>5. trunks' \in [Node -> [TrunkIndex -> TrunkStates]]
    BY <2>3, <2>4 DEF NetType, TypeOK
  <2>6. Answered(c, n, 200, Outport[c][i])
    BY <1>6 DEF Grant, i
  <2>7. cross' \in [Node -> [Port -> Port \cup {NoPort}]]
    BY <1>1, <1>6 DEF Grant, r, NetType, TypeOK
  <2>8. UNCHANGED <<alive, linked, keys, monitor, contexts, last, used, promised>>
    BY <1>6 DEF Grant
  <2>9. /\ down' \in [Node -> Seq(Asked)] /\ down' \in [Node -> Seq(Requests)]
        /\ up' \in [Node -> Seq(Responses)]
    BY <1>4, <2>1, <2>6
  <2> QED BY <2>5, <2>7, <2>8, <2>9 DEF NetType, TypeOK
<1>7. CASE SwitchNotFound(c, n)
  <2>1. trunks' \in [Node -> [TrunkIndex -> TrunkStates]]
    BY <1>3, <1>7 DEF SwitchNotFound
  <2>2. Answered(c, n, 404, Outport[c][i]) /\ Outport[c][i] \in Port
    BY <1>2, <1>7, NetworkFacts DEF SwitchNotFound
  <2>3. UNCHANGED <<alive, linked, keys, monitor, contexts, last, cross, used, promised>>
    BY <1>7 DEF SwitchNotFound
  <2> HIDE DEF i, r
  <2>4. /\ down' \in [Node -> Seq(Asked)] /\ down' \in [Node -> Seq(Requests)]
        /\ up' \in [Node -> Seq(Responses)]
    BY <1>4, <2>2
  <2> QED BY <2>1, <2>3, <2>4 DEF NetType, TypeOK
<1>8. CASE RelaySwitch(c, n)
  <2>1. PICK d \in MatchMatrix(c, r.to) :
              IF contexts[c][r.id] # NoContext
              THEN Crash(c)
              ELSE /\ down' = SentDown([down EXCEPT ![c] = Rest(down[c], n)], d, r)
                   /\ contexts' = [contexts EXCEPT ![c][r.id] = Relay("SWITCH")]
                   /\ trunks' = [trunks EXCEPT ![c] = Updated(c)]
                   /\ UNCHANGED <<alive, linked, keys, monitor, last, cross, up, used, promised>>
    BY <1>8 DEF RelaySwitch
  <2>2. CASE contexts[c][r.id] # NoContext
    BY <2>1, <2>2, CrashType
  <2>3. CASE contexts[c][r.id] = NoContext
    <3> HIDE DEF r
    <3>1. d \in Node
      BY MatchFacts
    <3>2. [down EXCEPT ![c] = Rest(down[c], n)] \in [Node -> Seq(Asked)]
      BY RestType DEF NetType
    <3>3. down' \in [Node -> Seq(Asked)] /\ down' \in [Node -> Seq(Requests)]
      <4> DEFINE D == [down EXCEPT ![c] = Rest(down[c], n)]
      <4>1. down' = SentDown(D, d, r)
        BY <2>1, <2>3
      <4> HIDE DEF D
      <4>2. SentDown(D, d, r) \in [Node -> Seq(Asked)]
        BY <1>1, <3>1, <3>2, SentType DEF D
      <4> QED BY <4>1, <4>2, AskedAreRequests
    <3>4. Relay("SWITCH") \in Contexts /\ Named(Relay("SWITCH").cid)
      BY NetworkFacts DEF Relay, Contexts, Named, NullID
    <3>5. contexts' = [contexts EXCEPT ![c][r.id] = Relay("SWITCH")]
      BY <2>1, <2>3
    <3>6. /\ contexts' \in [Node -> [MsgId -> Contexts \cup {NoContext}]]
          /\ \A m \in Node, y \in MsgId : Named(contexts'[m][y].cid)
      BY <3>4, <3>5, ContextType
    <3>7. trunks' \in [Node -> [TrunkIndex -> TrunkStates]]
      BY <1>3, <2>1, <2>3
    <3> QED BY <2>1, <2>3, <3>3, <3>6, <3>7 DEF NetType, TypeOK
  <2> QED BY <2>2, <2>3
<1>9. CASE RxPtz(c, n)
  <2>1. CASE Crash(c)
    BY <2>1, CrashType
  <2>2. CASE ~Crash(c)
    <3>1. PICK code \in {200, 400, 404} : Answered(c, n, code, NoPort)
      BY <1>9, <2>2 DEF RxPtz
    <3>2. UNCHANGED <<alive, linked, keys, monitor, trunks, contexts, last, cross, used, promised>>
      BY <1>9, <2>2 DEF RxPtz
    <3>3. /\ down' \in [Node -> Seq(Asked)] /\ down' \in [Node -> Seq(Requests)]
          /\ up' \in [Node -> Seq(Responses)]
      BY <1>4, <3>1
    <3> QED BY <3>2, <3>3 DEF NetType, TypeOK
  <2> QED BY <2>1, <2>2
<1>10. CASE RelayPtz(c, n)
  <2>1. CASE Crash(c)
    BY <2>1, CrashType
  <2>2. CASE ~Crash(c)
    <3>1. Answered(c, n, 404, NoPort)
      BY <1>10, <2>2 DEF RelayPtz
    <3> QED BY <1>4, <1>10, <2>2, <3>1 DEF RelayPtz, NetType, TypeOK
  <2> QED BY <2>1, <2>2
<1> QED
  BY <1>5, <1>6, <1>7, <1>8, <1>9, <1>10

\* and onServerRxResponse.
LEMMA ResponseType ==
    ASSUME NetType, NEW c \in Node, NEW n \in 1..Len(up[c]), NEW p \in Node,
           PtzAnswerLost(p, c, n) \/ SwitchDone(p, c, n) \/ RelayAnswer(p, c, n)
    PROVE  NetType'
<1> DEFINE r == Head(up[c])
           x == contexts[p][r.id]
           rest == [up EXCEPT ![c] = Rest(up[c], n)]
<1>1. rest \in [Node -> Seq(Responses)] /\ r \in Responses
  BY RestType DEF NetType, TypeOK
<1>2. r.id \in MsgId /\ r.outport \in Port \cup {NoPort}
  BY <1>1 DEF Responses
<1>3. x \in Contexts \cup {NoContext} /\ Named(x.cid)
  BY <1>2 DEF NetType, TypeOK
<1>4. x.cid \in GlobalIds
  BY <1>3, NetworkFacts DEF Contexts, NoContext
<1> HIDE DEF r, x, rest
<1>5. ASSUME contexts' = [contexts EXCEPT ![p][r.id] = NoContext]
      PROVE  /\ contexts' \in [Node -> [MsgId -> Contexts \cup {NoContext}]]
             /\ \A m \in Node, y \in MsgId : Named(contexts'[m][y].cid)
  <2>1. Named(NoContext.cid)
    BY NetworkFacts DEF Named, NoContext, NullID
  <2> QED BY <1>2, <1>5, <2>1 DEF NetType, TypeOK
<1>6. CASE PtzAnswerLost(p, c, n)
  BY <1>1, <1>6 DEF PtzAnswerLost, rest, NetType, TypeOK
<1>7. CASE SwitchDone(p, c, n)
  <2>1. /\ up' = rest /\ contexts' = [contexts EXCEPT ![p][r.id] = NoContext]
        /\ IF x # NoContext /\ r.code = 200
           THEN /\ last' = [last EXCEPT ![p] = x.cid]
                /\ cross' = [cross EXCEPT ![p][x.mon] = r.outport]
                /\ promised' = [promised EXCEPT ![p][x.mon] = [cid |-> x.cid, inport |-> r.outport]]
           ELSE UNCHANGED <<last, cross, promised>>
        /\ UNCHANGED <<alive, linked, keys, monitor, trunks, down, used>>
    BY <1>7 DEF SwitchDone, rest, r, x
  <2>2. /\ last' \in [Node -> GlobalIds] /\ \A m \in Node : Named(last'[m])
        /\ cross' \in [Node -> [Port -> Port \cup {NoPort}]]
        /\ promised' \in [Node -> [Port -> [cid : GlobalIds, inport : Port \cup {NoPort}]]]
    <3>1. CASE x # NoContext /\ r.code = 200
      <4> DEFINE q == [cid |-> x.cid, inport |-> r.outport]
      <4>0. /\ last' = [last EXCEPT ![p] = x.cid]
            /\ cross' = [cross EXCEPT ![p][x.mon] = r.outport]
            /\ promised' = [promised EXCEPT ![p][x.mon] = q]
            /\ q \in [cid : GlobalIds, inport : Port \cup {NoPort}]
        BY <1>2, <1>4, <2>1, <3>1
      <4> HIDE DEF q
      <4>1. last' \in [Node -> GlobalIds] /\ \A m \in Node : Named(last'[m])
        BY <1>3, <1>4, <4>0 DEF NetType, TypeOK
      <4>2. cross' \in [Node -> [Port -> Port \cup {NoPort}]]
        BY <1>2, <4>0, EntryType DEF NetType, TypeOK
      <4>3. promised' \in [Node -> [Port -> [cid : GlobalIds, inport : Port \cup {NoPort}]]]
        BY <4>0, EntryType DEF NetType, TypeOK
      <4> QED BY <4>1, <4>2, <4>3
    <3>2. CASE ~(x # NoContext /\ r.code = 200)
      BY <2>1, <3>2 DEF NetType, TypeOK
    <3> QED BY <3>1, <3>2
  <2> QED BY <1>1, <1>5, <2>1, <2>2 DEF NetType, TypeOK
<1>8. CASE RelayAnswer(p, c, n)
  <2>1. /\ up' = IF x # NoContext THEN SentUp(rest, p, r) ELSE rest
        /\ contexts' = [contexts EXCEPT ![p][r.id] = NoContext]
        /\ UNCHANGED <<alive, linked, keys, monitor, trunks, last, cross, down, used, promised>>
    BY <1>8 DEF RelayAnswer, rest, r, x
  <2>2. up' \in [Node -> Seq(Responses)]
    BY <1>1, <2>1, SentType
  <2> QED BY <1>5, <2>1, <2>2 DEF NetType, TypeOK
<1> QED
  BY <1>6, <1>7, <1>8

\* No step leads out of the type.
LEMMA NetTypeStep ==
    ASSUME NetType, [Next]_vars
    PROVE  NetType'
<1>1. CASE Tick
  <2>1. \A n \in Node, m \in Port : Aged(monitor[n][m].ttl) \in Int
    BY DEF NetType, TypeOK, Aged, IsExpired
  <2>2. monitor' \in [Node -> [Port -> [user : Int, ttl : Int]]]
    <3>1. ASSUME NEW n \in Node, NEW m \in Port
          PROVE  [monitor[n][m] EXCEPT !.ttl = Aged(monitor[n][m].ttl)] \in [user : Int, ttl : Int]
      <4>1. monitor[n][m] \in [user : Int, ttl : Int]
        BY DEF NetType, TypeOK
      <4> QED BY <2>1, <4>1
    <3> QED BY <1>1, <3>1 DEF Tick
  <2>3. trunks' \in [Node -> [TrunkIndex -> TrunkStates]]
    BY <1>1, AgedTrunkFacts DEF Tick, NetType, TypeOK
  <2> QED BY <1>1, <2>2, <2>3 DEF Tick, NetType, TypeOK
<1>2. CASE \E n \in Node : \E k \in KeyboardOf[n] : KeyboardEvent(n, k)
  BY <1>2, KeyboardType
<1>3. ASSUME NEW c \in Node, RxRequest(c)
      PROVE  NetType'
  BY <1>3, RequestType DEF RxRequest
<1>4. ASSUME NEW c \in Node, RxResponse(c)
      PROVE  NetType'
  BY <1>4, ResponseType DEF RxResponse
<1>5. ASSUME NEW c \in Node, Die(c)
      PROVE  NetType'
  BY <1>5, CrashType DEF Die
<1>6. ASSUME NEW c \in Node, Unregister(c)
      PROVE  NetType'
  BY <1>6 DEF Unregister, NetType, TypeOK
<1>7. CASE UNCHANGED vars
  BY <1>7 DEF vars, NetType, TypeOK
<1> QED
  BY <1>1, <1>2, <1>3, <1>4, <1>5, <1>6, <1>7 DEF Next

\* So all states are well formed.
LEMMA NetTypeInvariant == Spec => []NetType
<1>1. NetType /\ [Next]_vars => NetType'
  BY NetTypeStep
<1> QED
  BY <1>1, NetTypeInit, PTL DEF Spec

\* Every variable keeps its type: in particular every request on its way is
\* for a port of a matrix of the tree, and the trunk checkTrunk returns is one
\* of the matrix's (processSwitchMessage, onClientRxRequest, checkTrunk).
THEOREM NetworkTypeCorrect == Spec => []TypeOK
BY NetTypeInvariant, PTL DEF NetType
-----------------------------------------------------------------------------
(***************************************************************************)
(* Ids on the links: none occurs twice.                                    *)
(***************************************************************************)

\* The messages of a queue.
Elems(s) == {s[j] : j \in 1..Len(s)}

\* Does a message with that id travel in one of the queues?
Carries(Q, x) == \E c \in Node : \E j \in 1..Len(Q[c]) : Q[c][j].id = x

\* No two messages of the queues have the same id.
Apart(Q) ==
    \A a, b \in Node : \A i \in 1..Len(Q[a]), j \in 1..Len(Q[b]) :
        Q[a][i].id = Q[b][j].id => a = b /\ i = j

\* A message on a link has an id that travels.
LEMMA ElemCarried ==
    ASSUME NEW Q, NEW c \in Node, NEW m \in Elems(Q[c])
    PROVE  Carries(Q, m.id)
BY DEF Elems, Carries

\* recv: the first message is gone for good, with the others it came with.
LEMMA Dropped ==
    ASSUME NEW S, NEW Q \in [Node -> Seq(S)], NEW c \in Node, NEW n \in 1..Len(Q[c]), Apart(Q)
    PROVE  LET P == [Q EXCEPT ![c] = Rest(Q[c], n)]
           IN  /\ Head(Q[c]) \in Elems(Q[c])
               /\ P \in [Node -> Seq(S)]
               /\ Apart(P) /\ ~Carries(P, Head(Q[c]).id)
               /\ \A x : Carries(P, x) => Carries(Q, x)
               /\ \A d \in Node : Elems(P[d]) \subseteq Elems(Q[d])
<1> DEFINE P == [Q EXCEPT ![c] = Rest(Q[c], n)]
<1>1. Len(Q[c]) \in Nat /\ Head(Q[c]) = Q[c][1] /\ 1 \in 1..Len(Q[c])
  OBVIOUS
<1>2. /\ Rest(Q[c], n) \in Seq(S)
      /\ Len(Rest(Q[c], n)) = Len(Q[c]) - n
      /\ \A i \in 1..(Len(Q[c]) - n) : Rest(Q[c], n)[i] = Q[c][i + n]
  <2>1. Rest(Q[c], n) \in Seq(S)
    BY RestType
  <2> QED BY <1>1, <2>1 DEF Rest
<1>3. P[c] = Rest(Q[c], n) /\ \A d \in Node : d # c => P[d] = Q[d]
  OBVIOUS
<1>4. P \in [Node -> Seq(S)]
  BY <1>2
<1> DEFINE sh(d) == IF d = c THEN n ELSE 0
<1> HIDE DEF P
<1>5. ASSUME NEW d \in Node, NEW i \in 1..Len(P[d])
      PROVE  i + sh(d) \in 1..Len(Q[d]) /\ P[d][i] = Q[d][i + sh(d)]
  <2>1. CASE d = c
    BY <1>1, <1>2, <1>3, <2>1
  <2>2. CASE d # c
    BY <1>3, <2>2
  <2> QED BY <2>1, <2>2
<1>6. \A d \in Node : \A i, j \in 1..Len(P[d]) : i + sh(d) = j + sh(d) => i = j
  BY <1>1
<1>7. \A i \in 1..Len(P[c]) : i + sh(c) # 1
  BY <1>1
<1> HIDE DEF sh
<1>8. Apart(P)
  <2> SUFFICES ASSUME NEW a \in Node, NEW b \in Node, NEW i \in 1..Len(P[a]),
                      NEW j \in 1..Len(P[b]), P[a][i].id = P[b][j].id
               PROVE  a = b /\ i = j
    BY DEF Apart
  <2>1. a = b /\ i + sh(a) = j + sh(b)
    <3> DEFINE k == i + sh(a)
               l == j + sh(b)
    <3>1. k \in 1..Len(Q[a]) /\ l \in 1..Len(Q[b]) /\ Q[a][k].id = Q[b][l].id
      BY <1>5
    <3> HIDE DEF k, l
    <3>2. a = b /\ k = l
      BY <3>1 DEF Apart
    <3> QED BY <3>2 DEF k, l
  <2> QED BY <1>6, <2>1
<1>9. ~Carries(P, Head(Q[c]).id)
  <2> SUFFICES ASSUME NEW d \in Node, NEW i \in 1..Len(P[d]), P[d][i].id = Q[c][1].id
               PROVE  FALSE
    BY <1>1 DEF Carries
  <2>1. d = c /\ i + sh(d) = 1
    <3> DEFINE k == i + sh(d)
    <3>1. k \in 1..Len(Q[d]) /\ Q[d][k].id = Q[c][1].id
      BY <1>5
    <3> HIDE DEF k
    <3>2. d = c /\ k = 1
      BY <1>1, <3>1 DEF Apart
    <3> QED BY <3>2 DEF k
  <2> QED BY <1>7, <2>1
<1>10. \A x : Carries(P, x) => Carries(Q, x)
  BY <1>5 DEF Carries
<1>11. \A d \in Node : Elems(P[d]) \subseteq Elems(Q[d])
  BY <1>5 DEF Elems
<1> QED
  BY <1>1, <1>4, <1>8, <1>9, <1>10, <1>11 DEF P, Elems

\* What P carries is what Q carries, and message r on link d.
Added(P, Q, d, r) ==
    /\ Apart(P)
    /\ \A x : Carries(P, x) => Carries(Q, x) \/ x = r.id
    /\ \A e \in Node : \A m \in Elems(P[e]) : m \in Elems(Q[e]) \/ (e = d /\ m = r)

\* send: a message with an id that does not travel yet.
LEMMA Appended ==
    ASSUME NEW S, NEW Q \in [Node -> Seq(S)], NEW d \in Node, NEW r \in S,
           Apart(Q), ~Carries(Q, r.id)
    PROVE  Added([Q EXCEPT ![d] = Append(Q[d], r)], Q, d, r) /\ Added(Q, Q, d, r)
<1> DEFINE P == [Q EXCEPT ![d] = Append(Q[d], r)]
<1>1. /\ Len(P[d]) = Len(Q[d]) + 1 /\ Len(Q[d]) \in Nat
      /\ P[d][Len(Q[d]) + 1] = r
      /\ \A i \in 1..Len(Q[d]) : P[d][i] = Q[d][i]
      /\ \A e \in Node : e # d => P[e] = Q[e]
  OBVIOUS
<1> HIDE DEF P
<1>2. ASSUME NEW e \in Node, NEW i \in 1..Len(P[e])
      PROVE  \/ i \in 1..Len(Q[e]) /\ P[e][i] = Q[e][i]
             \/ e = d /\ i = Len(Q[d]) + 1 /\ P[e][i] = r
  BY <1>1
<1>3. Apart(P)
  <2> SUFFICES ASSUME NEW a \in Node, NEW b \in Node, NEW i \in 1..Len(P[a]),
                      NEW j \in 1..Len(P[b]), P[a][i].id = P[b][j].id
               PROVE  a = b /\ i = j
    BY DEF Apart
  <2>1. \A e \in Node : \A k \in 1..Len(Q[e]) : Q[e][k].id # r.id
    BY DEF Carries
  <2>2. CASE i \in 1..Len(Q[a]) /\ P[a][i] = Q[a][i]
    <3>1. j \in 1..Len(Q[b]) /\ P[b][j] = Q[b][j]
      BY <1>2, <2>1, <2>2
    <3> QED BY <2>2, <3>1 DEF Apart
  <2>3. CASE a = d /\ i = Len(Q[d]) + 1 /\ P[a][i] = r
    <3>1. b = d /\ j = Len(Q[d]) + 1
      BY <1>2, <2>1, <2>3
    <3> QED BY <2>3, <3>1
  <2> QED BY <1>2, <2>2, <2>3
<1>4. \A x : Carries(P, x) => Carries(Q, x) \/ x = r.id
  BY <1>2 DEF Carries
<1>5. \A e \in Node : \A m \in Elems(P[e]) : m \in Elems(Q[e]) \/ (e = d /\ m = r)
  BY <1>2 DEF Elems
<1> QED
  BY <1>3, <1>4, <1>5 DEF Added, P

\* send, in either direction, adds one message.
LEMMA SentAdds ==
    ASSUME NEW S, NEW Q \in [Node -> Seq(S)], NEW d \in Node, NEW r \in S,
           Apart(Q), ~Carries(Q, r.id)
    PROVE  Added(SentDown(Q, d, r), Q, d, r) /\ Added(SentUp(Q, d, r), Q, d, r)
BY Appended DEF SentDown, SentUp

\* A crash: links lose all they carry.
LEMMA Cleared ==
    ASSUME NEW Q, NEW P, Apart(Q), \A d \in Node : P[d] = <<>> \/ P[d] = Q[d]
    PROVE  /\ Apart(P)
           /\ \A x : Carries(P, x) => Carries(Q, x)
           /\ \A d \in Node : Elems(P[d]) \subseteq Elems(Q[d])
<1>1. ASSUME NEW d \in Node, NEW i \in 1..Len(P[d])
      PROVE  P[d] = Q[d]
  <2>1. P[d] # <<>>
    OBVIOUS
  <2> QED BY <2>1
<1>2. Apart(P)
  BY <1>1 DEF Apart
<1>3. \A x : Carries(P, x) => Carries(Q, x)
  BY <1>1 DEF Carries
<1>4. \A d \in Node : Elems(P[d]) \subseteq Elems(Q[d])
  BY <1>1 DEF Elems
<1> QED
  BY <1>2, <1>3, <1>4
-----------------------------------------------------------------------------
(***************************************************************************)
(* Paths in the tree.                                                      *)
(***************************************************************************)

\* One link further down, the path has one matrix more.
LEMMA PathDown ==
    ASSUME NEW c \in Node, NEW d \in Node, NEW top \in Node, Parent[d] = c, c \in Below[top]
    PROVE  \A n \in Node : n \in PathTo(d, top) <=> n = c \/ n \in PathTo(c, top)
BY NetworkTreeAssumption DEF PathTo

\* A matrix is not on the path to its own link from the parent.
LEMMA PathSelf ==
    ASSUME NEW c \in Node, NEW top \in Node
    PROVE  c \notin PathTo(c, top)
BY NetworkTreeAssumption DEF PathTo

\* The path over one link.
LEMMA PathChild ==
    ASSUME NEW c \in Node, NEW n \in Node, Parent[c] = n
    PROVE  \A k \in Node : k \in PathTo(c, n) <=> k = n
BY NetworkTreeAssumption DEF PathTo
-----------------------------------------------------------------------------
(***************************************************************************)
(* The contexts on the path of every SWITCH.  PathRecorded alone is not    *)
(* inductive: a request that is relayed or an answer that comes back       *)
(* changes the contexts of its id, which would be wrong for a second       *)
(* message with that id, or for one that is still to be sent.              *)
(***************************************************************************)

\* With contexts C and u ids given out: the matrix that asked is above link c,
\* the id was given out, and for a SWITCH exactly the path has contexts.
OnPath(c, top, r, C, u) ==
    /\ c \in Below[top] /\ r.id <= u
    /\ r.method = "SWITCH" =>
          \A n \in Node : C[n][r.id] # NoContext <=> n \in PathTo(c, top)

Disjoint == \A x : ~(Carries(down, x) /\ Carries(up, x))

PathInv ==
    /\ \A c \in Node : \A r \in Elems(down[c]) : OnPath(c, r.from, r, contexts, used)
    /\ \A c \in Node : \A r \in Elems(up[c]) : OnPath(c, r.to, r, contexts, used)
    /\ \A n \in Node, x \in MsgId : x > used => contexts[n][x] = NoContext
    /\ Apart(down) /\ Apart(up) /\ Disjoint

\* The messages of a link are requests and responses.
LEMMA ElemTypes ==
    ASSUME NetType, NEW c \in Node
    PROVE  /\ \A r \in Elems(down[c]) : r \in Asked /\ r.id \in MsgId /\ r.from \in Node
           /\ \A r \in Elems(up[c]) : r \in Responses /\ r.id \in MsgId /\ r.to \in Node
<1>1. \A r \in Elems(down[c]) : r \in Asked
  BY DEF NetType, Elems
<1>2. \A r \in Elems(up[c]) : r \in Responses
  BY DEF NetType, TypeOK, Elems
<1> QED
  BY <1>1, <1>2 DEF Asked, Requests, Responses

\* A step that changes the contexts of id x at most ...
SameBut(x) == \A n \in Node, y \in MsgId : y # x => contexts'[n][y] = contexts[n][y]

\* ... after which every message is an old one with another id or on its path.
MovedOnly(x) ==
    \A c \in Node :
        /\ \A m \in Elems(down'[c]) :
              (m \in Elems(down[c]) /\ m.id # x) \/ OnPath(c, m.from, m, contexts', used')
        /\ \A m \in Elems(up'[c]) :
              (m \in Elems(up[c]) /\ m.id # x) \/ OnPath(c, m.to, m, contexts', used')

\* Such a step keeps the paths.
LEMMA PathStep ==
    ASSUME NetType, NetType', PathInv, NEW x \in Int, used <= used', x <= used',
           SameBut(x), MovedOnly(x), Apart(down'), Apart(up'), Disjoint'
    PROVE  PathInv'
<1>0. used \in Int /\ used' \in Int /\ MsgId \subseteq Int
  BY DEF NetType, TypeOK, MsgId
<1>1. ASSUME NEW c \in Node, NEW top, NEW m, m.id \in MsgId, m.id # x,
             OnPath(c, top, m, contexts, used)
      PROVE  OnPath(c, top, m, contexts', used')
  <2>1. \A n \in Node : contexts'[n][m.id] = contexts[n][m.id]
    BY <1>1 DEF SameBut
  <2>2. m.id <= used'
    <3>1. m.id <= used /\ m.id \in Int
      BY <1>0, <1>1 DEF OnPath
    <3> QED BY <1>0, <3>1
  <2> QED BY <1>1, <2>1, <2>2 DEF OnPath
<1>2. \A c \in Node : \A r \in Elems(down'[c]) : OnPath(c, r.from, r, contexts', used')
  BY <1>1, ElemTypes DEF PathInv, MovedOnly
<1>3. \A c \in Node : \A r \in Elems(up'[c]) : OnPath(c, r.to, r, contexts', used')
  BY <1>1, ElemTypes DEF PathInv, MovedOnly
<1>4. \A n \in Node, y \in MsgId : y > used' => contexts'[n][y] = NoContext
  <2> SUFFICES ASSUME NEW n \in Node, NEW y \in MsgId, y > used'
               PROVE  contexts'[n][y] = NoContext
    OBVIOUS
  <2>1. y # x /\ y > used
    BY <1>0
  <2> QED BY <2>1 DEF PathInv, SameBut
<1> QED
  BY <1>2, <1>3, <1>4 DEF PathInv

\* A step that touches neither links, contexts nor ids keeps the paths.
LEMMA PathSame ==
    ASSUME PathInv, UNCHANGED <<down, up, contexts, used>>
    PROVE  PathInv'
BY DEF PathInv, Disjoint

\* A new request: its id is greater than all ids before.
LEMMA PathAsk ==
    ASSUME NetType, NetType', PathInv, NEW n \in Node, NEW c \in Node, Parent[c] = n,
           NEW r \in Asked, NEW y \in Contexts, r.id = used + 1, r.from = n,
           used < MaxMsg, used' = used + 1, UNCHANGED up,
           down' = SentDown(down, c, r),
           contexts' = [contexts EXCEPT ![n][used + 1] = y]
    PROVE  PathInv'
<1>1. used \in Nat /\ used + 1 \in MsgId
  BY NetworkAssumption DEF NetType, TypeOK, MsgId
<1>2. /\ down \in [Node -> Seq(Asked)]
      /\ contexts \in [Node -> [MsgId -> Contexts \cup {NoContext}]]
  BY DEF NetType, TypeOK
<1>3. \A m \in Node, x \in MsgId :
        contexts'[m][x] = IF m = n /\ x = used + 1 THEN y ELSE contexts[m][x]
  BY <1>2, EntryType
<1>4. \A x : Carries(down, x) \/ Carries(up, x) => x \in Int /\ x <= used
  <2>1. \A d \in Node : \A j \in 1..Len(down[d]) : down[d][j] \in Elems(down[d])
    BY DEF Elems
  <2>2. \A d \in Node : \A j \in 1..Len(up[d]) : up[d][j] \in Elems(up[d])
    BY DEF Elems
  <2>3. \A d \in Node : \A m \in Elems(down[d]) : m.id <= used /\ m.id \in Int
    BY ElemTypes DEF PathInv, OnPath, MsgId
  <2>4. \A d \in Node : \A m \in Elems(up[d]) : m.id <= used /\ m.id \in Int
    BY ElemTypes DEF PathInv, OnPath, MsgId
  <2> QED BY <2>1, <2>2, <2>3, <2>4 DEF Carries
<1>5. ~Carries(down, used + 1) /\ ~Carries(up, used + 1)
  <2>1. ~(used + 1 <= used)
    BY <1>1
  <2> QED BY <1>4, <2>1
<1>6. Added(down', down, c, r)
  BY <1>2, <1>5, SentAdds DEF PathInv
<1>7. OnPath(c, r.from, r, contexts', used')
  <2>1. c \in Below[n]
    BY NetworkTreeAssumption
  <2>2. y # NoContext
    BY DEF Contexts, NoContext
  <2>3. \A k \in Node : contexts[k][used + 1] = NoContext
    <3>1. used + 1 > used
      BY <1>1
    <3> QED BY <1>1, <3>1 DEF PathInv
  <2>4. \A k \in Node : contexts'[k][r.id] # NoContext <=> k \in PathTo(c, n)
    BY <1>1, <1>3, <2>2, <2>3, PathChild
  <2> QED BY <1>1, <2>1, <2>4 DEF OnPath
<1>8. \A d \in Node : \A m \in Elems(down[d]) \cup Elems(up[d]) : m.id # used + 1
  BY <1>5, ElemCarried
<1>9. \A x : Carries(down', x) => Carries(down, x) \/ x = used + 1
  BY <1>6 DEF Added
<1>10. Disjoint'
  BY <1>5, <1>9 DEF PathInv, Disjoint
<1>11. MovedOnly(used + 1)
  <2>1. \A d \in Node : \A m \in Elems(down'[d]) :
           (m \in Elems(down[d]) /\ m.id # used + 1) \/ OnPath(d, m.from, m, contexts', used')
    BY <1>6, <1>7, <1>8 DEF Added
  <2> QED BY <1>8, <2>1 DEF MovedOnly
<1>12. SameBut(used + 1)
  BY <1>3 DEF SameBut
<1>13. Apart(down') /\ Apart(up')
  BY <1>6 DEF Added, PathInv
<1>14. used + 1 \in Int /\ used <= used' /\ used + 1 <= used'
  BY <1>1
<1> QED
  BY <1>10, <1>11, <1>12, <1>13, <1>14, PathStep

\* Once the first messages of a request link are read: the first one's id is
\* gone from all links, whatever it was.
ReadFacts(c, r, D) ==
    /\ r \in Asked /\ r.id \in MsgId /\ r.id \in Int /\ r.from \in Node
    /\ r.id <= used
    /\ OnPath(c, r.from, r, contexts, used)
    /\ D \in [Node -> Seq(Asked)] /\ Apart(D)
    /\ ~Carries(D, r.id) /\ ~Carries(up, r.id)
    /\ \A x : ~(Carries(D, x) /\ Carries(up, x))
    /\ \A d \in Node : \A m \in Elems(D[d]) : m \in Elems(down[d]) /\ m.id # r.id
    /\ \A d \in Node : \A m \in Elems(up[d]) : m.id # r.id

\* A request that is read leaves its link, and every other stays on its path.
LEMMA ReadRequest ==
    ASSUME NetType, PathInv, NEW c \in Node, NEW n \in 1..Len(down[c])
    PROVE  ReadFacts(c, Head(down[c]), [down EXCEPT ![c] = Rest(down[c], n)])
<1> DEFINE r == Head(down[c])
           D == [down EXCEPT ![c] = Rest(down[c], n)]
<1>1. down \in [Node -> Seq(Asked)] /\ Apart(down) /\ Disjoint
  BY DEF NetType, PathInv
<1>2. /\ r \in Elems(down[c]) /\ D \in [Node -> Seq(Asked)] /\ Apart(D) /\ ~Carries(D, r.id)
      /\ \A x : Carries(D, x) => Carries(down, x)
      /\ \A d \in Node : Elems(D[d]) \subseteq Elems(down[d])
  BY <1>1, Dropped
<1> HIDE DEF r, D
<1>3. r \in Asked /\ r.id \in MsgId /\ r.from \in Node /\ r.id \in Int
  BY <1>2, ElemTypes DEF MsgId
<1>4. OnPath(c, r.from, r, contexts, used) /\ r.id <= used
  BY <1>2 DEF PathInv, OnPath
<1>5. ~Carries(up, r.id)
  BY <1>1, <1>2, ElemCarried DEF Disjoint
<1>6. \A d \in Node : \A m \in Elems(D[d]) : m.id # r.id
  BY <1>2, ElemCarried
<1>7. \A d \in Node : \A m \in Elems(up[d]) : m.id # r.id
  BY <1>5, ElemCarried
<1>8. \A x : ~(Carries(D, x) /\ Carries(up, x))
  BY <1>1, <1>2 DEF Disjoint
<1> QED
  BY <1>2, <1>3, <1>4, <1>5, <1>6, <1>7, <1>8 DEF r, D, ReadFacts

\* A request turns into its answer on the same link.
LEMMA PathAnswer ==
    ASSUME NetType, NetType', PathInv, NEW c \in Node, NEW n \in 1..Len(down[c]),
           NEW code \in {200, 400, 404}, NEW port \in Port \cup {NoPort},
           Answered(c, n, code, port), UNCHANGED <<contexts, used>>
    PROVE  PathInv'
<1> DEFINE r == Head(down[c])
           D == [down EXCEPT ![c] = Rest(down[c], n)]
           a == [method |-> r.method, id |-> r.id, to |-> r.from, code |-> code, outport |-> port]
<1>1. ReadFacts(c, r, D)
  BY ReadRequest
<1>2. down' = D /\ up' = SentUp(up, c, a)
  BY DEF Answered
<1> HIDE DEF r, D
<1>3. a \in Responses /\ a.id = r.id /\ a.to = r.from /\ a.method = r.method
  BY <1>1 DEF ReadFacts, Asked, Requests, Responses
<1> HIDE DEF a
<1>4. Added(up', up, c, a)
  <2>1. up \in [Node -> Seq(Responses)] /\ Apart(up)
    BY DEF NetType, TypeOK, PathInv
  <2>2. ~Carries(up, a.id)
    BY <1>1, <1>3 DEF ReadFacts
  <2>3. Added(SentUp(up, c, a), up, c, a)
    BY <1>3, <2>1, <2>2, SentAdds
  <2> QED BY <1>2, <2>3
<1>5. OnPath(c, a.to, a, contexts', used')
  BY <1>1, <1>3 DEF ReadFacts, OnPath
<1>6. \A x : Carries(up', x) => Carries(up, x) \/ x = r.id
  BY <1>3, <1>4 DEF Added
<1>7. Disjoint'
  BY <1>1, <1>2, <1>6 DEF ReadFacts, Disjoint
<1>8. MovedOnly(r.id)
  <2>1. \A d \in Node : \A m \in Elems(up'[d]) :
           (m \in Elems(up[d]) /\ m.id # r.id) \/ OnPath(d, m.to, m, contexts', used')
    <3>1. \A d \in Node : \A m \in Elems(up[d]) : m.id # r.id
      BY <1>1 DEF ReadFacts
    <3> QED BY <1>4, <1>5, <3>1 DEF Added
  <2> QED BY <1>1, <1>2, <2>1 DEF ReadFacts, MovedOnly
<1>9. SameBut(r.id)
  BY DEF SameBut
<1>10. Apart(down') /\ Apart(up')
  BY <1>1, <1>2, <1>4 DEF ReadFacts, Added
<1>11. used <= used' /\ r.id <= used' /\ r.id \in Int
  BY <1>1 DEF ReadFacts, NetType, TypeOK
<1> QED
  BY <1>7, <1>8, <1>9, <1>10, <1>11, PathStep

\* A SWITCH goes on to a child, and its context stays behind.
LEMMA PathRelay ==
    ASSUME NetType, NetType', PathInv, NEW c \in Node, NEW n \in 1..Len(down[c]), NEW d \in Node,
           Parent[d] = c, Head(down[c]).method = "SWITCH",
           down' = SentDown([down EXCEPT ![c] = Rest(down[c], n)], d, Head(down[c])),
           contexts' = [contexts EXCEPT ![c][Head(down[c]).id] = Relay("SWITCH")],
           UNCHANGED <<up, used>>
    PROVE  PathInv'
<1> DEFINE r == Head(down[c])
           D == [down EXCEPT ![c] = Rest(down[c], n)]
<1>0. ReadFacts(c, r, D)
  BY ReadRequest
<1>2. /\ down' = SentDown(D, d, r) /\ r.method = "SWITCH"
      /\ contexts' = [contexts EXCEPT ![c][r.id] = Relay("SWITCH")]
  OBVIOUS
<1> HIDE DEF r, D
<1>1. /\ r \in Asked /\ r.id \in MsgId /\ r.id \in Int /\ r.id <= used /\ r.from \in Node
      /\ OnPath(c, r.from, r, contexts, used)
      /\ D \in [Node -> Seq(Asked)] /\ Apart(D) /\ ~Carries(D, r.id) /\ ~Carries(up, r.id)
      /\ \A x : ~(Carries(D, x) /\ Carries(up, x))
      /\ \A e \in Node : \A m \in Elems(D[e]) : m \in Elems(down[e]) /\ m.id # r.id
      /\ \A e \in Node : \A m \in Elems(up[e]) : m.id # r.id
  BY <1>0 DEF ReadFacts
<1>3. \A k \in Node, y \in MsgId :
        contexts'[k][y] = IF k = c /\ y = r.id THEN Relay("SWITCH") ELSE contexts[k][y]
  <2>1. contexts \in [Node -> [MsgId -> Contexts \cup {NoContext}]]
    BY DEF NetType, TypeOK
  <2>2. Relay("SWITCH") \in Contexts \cup {NoContext}
    BY NetworkFacts DEF Relay, Contexts
  <2> QED BY <1>2, <2>1, <2>2, EntryType
<1>4. Added(down', D, d, r)
  BY <1>1, <1>2, SentAdds
<1>5. OnPath(d, r.from, r, contexts', used')
  <2>1. c \in Below[r.from] /\ \A k \in Node : contexts[k][r.id] # NoContext <=> k \in PathTo(c, r.from)
    BY <1>1, <1>2 DEF OnPath
  <2>2. d \in Below[r.from]
    BY <1>1, <2>1, NetworkTreeAssumption
  <2>3. Relay("SWITCH") # NoContext
    BY DEF Relay, NoContext
  <2>4. \A k \in Node : k \in PathTo(d, r.from) <=> k = c \/ k \in PathTo(c, r.from)
    BY <1>1, <2>1, PathDown
  <2>5. \A k \in Node : contexts'[k][r.id] # NoContext <=> k \in PathTo(d, r.from)
    BY <1>1, <1>3, <2>1, <2>3, <2>4
  <2> QED BY <1>1, <2>2, <2>5 DEF OnPath
<1>6. \A x : Carries(down', x) => Carries(D, x) \/ x = r.id
  BY <1>4 DEF Added
<1>7. Disjoint'
  BY <1>1, <1>6 DEF Disjoint
<1>8. MovedOnly(r.id)
  <2>1. \A e \in Node : \A m \in Elems(down'[e]) :
           (m \in Elems(down[e]) /\ m.id # r.id) \/ OnPath(e, m.from, m, contexts', used')
    BY <1>1, <1>4, <1>5 DEF Added
  <2> QED BY <1>1, <2>1 DEF MovedOnly
<1>9. SameBut(r.id)
  BY <1>3 DEF SameBut
<1>10. Apart(down') /\ Apart(up')
  BY <1>4 DEF Added, PathInv
<1>11. used <= used' /\ r.id <= used'
  BY <1>1 DEF NetType, TypeOK
<1> QED
  BY <1>1, <1>7, <1>8, <1>9, <1>10, <1>11, PathStep

\* The same for a link of answers.
LEMMA ReadResponse ==
    ASSUME NetType, PathInv, NEW c \in Node, NEW n \in 1..Len(up[c])
    PROVE  LET r == Head(up[c])
               U == [up EXCEPT ![c] = Rest(up[c], n)]
           IN  /\ r \in Responses /\ r.id \in MsgId /\ r.id \in Int /\ r.to \in Node
               /\ r.id <= used
               /\ OnPath(c, r.to, r, contexts, used)
               /\ U \in [Node -> Seq(Responses)] /\ Apart(U)
               /\ ~Carries(U, r.id) /\ ~Carries(down, r.id)
               /\ \A x : ~(Carries(down, x) /\ Carries(U, x))
               /\ \A d \in Node : \A m \in Elems(U[d]) : m \in Elems(up[d]) /\ m.id # r.id
               /\ \A d \in Node : \A m \in Elems(down[d]) : m.id # r.id
<1> DEFINE r == Head(up[c])
           U == [up EXCEPT ![c] = Rest(up[c], n)]
<1>1. up \in [Node -> Seq(Responses)] /\ Apart(up) /\ Disjoint
  BY DEF NetType, TypeOK, PathInv
<1>2. /\ r \in Elems(up[c]) /\ U \in [Node -> Seq(Responses)] /\ Apart(U) /\ ~Carries(U, r.id)
      /\ \A x : Carries(U, x) => Carries(up, x)
      /\ \A d \in Node : Elems(U[d]) \subseteq Elems(up[d])
  BY <1>1, Dropped
<1> HIDE DEF r, U
<1>3. r \in Responses /\ r.id \in MsgId /\ r.to \in Node /\ r.id \in Int
  BY <1>2, ElemTypes DEF MsgId
<1>4. OnPath(c, r.to, r, contexts, used) /\ r.id <= used
  BY <1>2 DEF PathInv, OnPath
<1>5. ~Carries(down, r.id)
  BY <1>1, <1>2, ElemCarried DEF Disjoint
<1>6. \A d \in Node : \A m \in Elems(U[d]) : m.id # r.id
  BY <1>2, ElemCarried
<1>7. \A d \in Node : \A m \in Elems(down[d]) : m.id # r.id
  BY <1>5, ElemCarried
<1>8. \A x : ~(Carries(down, x) /\ Carries(U, x))
  BY <1>1, <1>2 DEF Disjoint
<1> QED
  BY <1>2, <1>3, <1>4, <1>5, <1>6, <1>7, <1>8 DEF r, U

\* An answer has arrived or is thrown away: contexts of its id no longer
\* matter.
LEMMA PathDone ==
    ASSUME NetType, NetType', PathInv, NEW c \in Node, NEW n \in 1..Len(up[c]),
           up' = [up EXCEPT ![c] = Rest(up[c], n)],
           SameBut(Head(up[c]).id), UNCHANGED <<down, used>>
    PROVE  PathInv'
<1> DEFINE r == Head(up[c])
<1>1. /\ r.id \in Int /\ r.id <= used /\ Apart(up') /\ Disjoint'
      /\ \A d \in Node : \A m \in Elems(up'[d]) : m \in Elems(up[d]) /\ m.id # r.id
      /\ \A d \in Node : \A m \in Elems(down[d]) : m.id # r.id
  BY ReadResponse DEF Disjoint
<1> HIDE DEF r
<1>2. MovedOnly(r.id)
  BY <1>1 DEF MovedOnly
<1>3. used <= used' /\ r.id <= used'
  BY <1>1 DEF NetType, TypeOK
<1>4. SameBut(r.id) /\ Apart(down')
  BY DEF r, PathInv
<1> QED
  BY <1>1, <1>2, <1>3, <1>4, PathStep

\* An answer goes on to the parent, and its context goes.
LEMMA PathBack ==
    ASSUME NetType, NetType', PathInv, NEW c \in Node, NEW n \in 1..Len(up[c]), NEW p \in Node,
           Parent[c] = p, Head(up[c]).method = "SWITCH", Head(up[c]).to # p,
           up' = SentUp([up EXCEPT ![c] = Rest(up[c], n)], p, Head(up[c])),
           contexts' = [contexts EXCEPT ![p][Head(up[c]).id] = NoContext],
           UNCHANGED <<down, used>>
    PROVE  PathInv'
<1> DEFINE r == Head(up[c])
           U == [up EXCEPT ![c] = Rest(up[c], n)]
<1>1. /\ r \in Responses /\ r.id \in MsgId /\ r.id \in Int /\ r.id <= used /\ r.to \in Node
      /\ OnPath(c, r.to, r, contexts, used)
      /\ U \in [Node -> Seq(Responses)] /\ Apart(U) /\ ~Carries(U, r.id) /\ ~Carries(down, r.id)
      /\ \A x : ~(Carries(down, x) /\ Carries(U, x))
      /\ \A d \in Node : \A m \in Elems(U[d]) : m \in Elems(up[d]) /\ m.id # r.id
      /\ \A d \in Node : \A m \in Elems(down[d]) : m.id # r.id
  BY ReadResponse
<1>2. /\ up' = SentUp(U, p, r) /\ r.method = "SWITCH" /\ r.to # p
      /\ contexts' = [contexts EXCEPT ![p][r.id] = NoContext]
  OBVIOUS
<1> HIDE DEF r, U
<1>3. \A k \in Node, y \in MsgId :
        contexts'[k][y] = IF k = p /\ y = r.id THEN NoContext ELSE contexts[k][y]
  <2>1. contexts \in [Node -> [MsgId -> Contexts \cup {NoContext}]]
    BY DEF NetType, TypeOK
  <2> QED BY <1>2, <2>1, EntryType
<1>4. Added(up', U, p, r)
  <2>1. Added(SentUp(U, p, r), U, p, r)
    BY <1>1, SentAdds
  <2> QED BY <1>2, <2>1
<1>5. OnPath(p, r.to, r, contexts', used')
  <2>1. c \in Below[r.to] /\ \A k \in Node : contexts[k][r.id] # NoContext <=> k \in PathTo(c, r.to)
    BY <1>1, <1>2 DEF OnPath
  <2>2. p \in Below[r.to]
    BY <1>1, <1>2, <2>1, NetworkTreeAssumption
  <2>3. \A k \in Node : k \in PathTo(c, r.to) <=> k = p \/ k \in PathTo(p, r.to)
    BY <1>1, <2>2, PathDown
  <2>4. p \notin PathTo(p, r.to)
    BY <1>1, PathSelf
  <2>5. \A k \in Node : contexts'[k][r.id] # NoContext <=> k \in PathTo(p, r.to)
    BY <1>1, <1>3, <2>1, <2>3, <2>4
  <2> QED BY <1>1, <2>2, <2>5 DEF OnPath
<1>6. \A x : Carries(up', x) => Carries(U, x) \/ x = r.id
  BY <1>4 DEF Added
<1>7. Disjoint'
  BY <1>1, <1>6 DEF Disjoint
<1>8. MovedOnly(r.id)
  <2>1. \A d \in Node : \A m \in Elems(up'[d]) :
           (m \in Elems(up[d]) /\ m.id # r.id) \/ OnPath(d, m.to, m, contexts', used')
    BY <1>1, <1>4, <1>5 DEF Added
  <2> QED BY <1>1, <2>1 DEF MovedOnly
<1>9. SameBut(r.id)
  BY <1>3 DEF SameBut
<1>10. Apart(down') /\ Apart(up')
  BY <1>4 DEF Added, PathInv
<1>11. used <= used' /\ r.id <= used'
  BY <1>1 DEF NetType, TypeOK
<1> QED
  BY <1>1, <1>7, <1>8, <1>9, <1>10, <1>11, PathStep

\* A crash takes the messages of its links with it.
LEMMA PathCrash ==
    ASSUME PathInv, NEW c \in Node, Crash(c)
    PROVE  PathInv'
<1>1. /\ \A d \in Node : down'[d] = <<>> \/ down'[d] = down[d]
      /\ \A d \in Node : up'[d] = <<>> \/ up'[d] = up[d]
      /\ UNCHANGED <<contexts, used>>
  BY DEF Crash
<1>2. /\ Apart(down') /\ \A x : Carries(down', x) => Carries(down, x)
      /\ \A d \in Node : Elems(down'[d]) \subseteq Elems(down[d])
  BY <1>1, Cleared DEF PathInv
<1>3. /\ Apart(up') /\ \A x : Carries(up', x) => Carries(up, x)
      /\ \A d \in Node : Elems(up'[d]) \subseteq Elems(up[d])
  BY <1>1, Cleared DEF PathInv
<1> QED
  BY <1>1, <1>2, <1>3 DEF PathInv, Disjoint

\* The first message of a link never finds a context at the matrix below the
\* link: that matrix is not above itself.
LEMMA RelayFresh ==
    ASSUME NetType, PathInv, NEW c \in Node, NEW n \in 1..Len(down[c]),
           Head(down[c]).method = "SWITCH"
    PROVE  contexts[c][Head(down[c]).id] = NoContext
<1> DEFINE r == Head(down[c])
           D == [down EXCEPT ![c] = Rest(down[c], n)]
<1>1. ReadFacts(c, r, D) /\ r.method = "SWITCH"
  BY ReadRequest
<1> HIDE DEF r, D
<1>2. c \notin PathTo(c, r.from)
  BY <1>1, PathSelf DEF ReadFacts
<1>3. contexts[c][r.id] = NoContext
  BY <1>1, <1>2 DEF ReadFacts, OnPath
<1> QED
  BY <1>3 DEF r

\* onSwitch and onPtz keep the paths.
LEMMA KeyboardPath ==
    ASSUME NetType, NetType', PathInv, NEW n \in Node, NEW k \in KeyboardOf[n],
           KeyboardEvent(n, k)
    PROVE  PathInv'
<1>0. k \in Keyboard
  BY NetworkFacts
<1>1. ASSUME NEW m \in Port, NEW c \in Port, SwitchLocal(n, k, c, m) \/ SwitchUnknown(n, k, c, m)
      PROVE  PathInv'
  BY <1>1, PathSame DEF SwitchLocal, SwitchUnknown
<1>2. CASE PtzUnknown(n)
  BY <1>2, PathSame DEF PtzUnknown
<1>3. ASSUME NEW method \in {"SWITCH", "PTZ"}, NEW cid \in Node \X Port,
             NEW mon \in Port \cup {NoPort}, NEW c \in MatchMatrix(n, cid[1]),
             used < MaxMsg, used' = used + 1, UNCHANGED up,
             down' = SentDown(down, c, [method |-> method, id |-> used + 1, from |-> n,
                                        to |-> cid[1], kb |-> k, cam |-> cid[2]]),
             contexts' = [contexts EXCEPT ![n][used + 1] =
                             [method |-> method, kb |-> k, cid |-> cid, mon |-> mon]]
      PROVE  PathInv'
  <2> DEFINE r == [method |-> method, id |-> used + 1, from |-> n, to |-> cid[1], kb |-> k,
                   cam |-> cid[2]]
             x == [method |-> method, kb |-> k, cid |-> cid, mon |-> mon]
  <2>1. used + 1 \in MsgId
    BY <1>3, NetworkAssumption DEF NetType, TypeOK, MsgId
  <2>2. r \in Asked /\ r.id = used + 1 /\ r.from = n
    BY <1>0, <2>1 DEF Asked, Requests
  <2>3. x \in Contexts
    BY <1>0, NetworkFacts DEF Contexts, GlobalIds
  <2>4. c \in Node /\ Parent[c] = n
    BY <1>3, MatchFacts
  <2>5. down' = SentDown(down, c, r) /\ contexts' = [contexts EXCEPT ![n][used + 1] = x]
    BY <1>3
  <2>6. used < MaxMsg /\ used' = used + 1 /\ UNCHANGED up
    BY <1>3
  <2> HIDE DEF r, x
  <2> QED BY <2>2, <2>3, <2>4, <2>5, <2>6, PathAsk
<1>4. ASSUME NEW m \in Port, NEW cid \in Node \X Port, SwitchRemote(n, k, cid, m)
      PROVE  PathInv'
  <2>1. PICK c \in MatchMatrix(n, cid[1]) :
           down' = SentDown(down, c, [method |-> "SWITCH", id |-> used + 1, from |-> n,
                                      to |-> cid[1], kb |-> k, cam |-> cid[2]])
    BY <1>4 DEF SwitchRemote
  <2>2. /\ used < MaxMsg /\ used' = used + 1 /\ UNCHANGED up
        /\ contexts' = [contexts EXCEPT ![n][used + 1] =
                           [method |-> "SWITCH", kb |-> k, cid |-> cid, mon |-> m]]
    BY <1>4 DEF SwitchRemote
  <2> QED BY <1>3, <2>1, <2>2
<1>5. CASE PtzRemote(n, k)
  <2>1. PICK c \in MatchMatrix(n, last[n][1]) :
           down' = SentDown(down, c, [method |-> "PTZ", id |-> used + 1, from |-> n,
                                      to |-> last[n][1], kb |-> k, cam |-> last[n][2]])
    BY <1>5 DEF PtzRemote
  <2>2. last[n][1] \in Node
    BY MatchFacts
  <2>3. last[n] \in Node \X Port
    BY <2>2 DEF NetType, TypeOK, Named, GlobalIds
  <2>4. /\ used < MaxMsg /\ used' = used + 1 /\ UNCHANGED up
        /\ contexts' = [contexts EXCEPT ![n][used + 1] =
                           [method |-> "PTZ", kb |-> k, cid |-> last[n], mon |-> NoPort]]
    BY <1>5 DEF PtzRemote
  <2> QED BY <1>3, <2>1, <2>3, <2>4
<1> QED
  BY <1>1, <1>2, <1>4, <1>5 DEF KeyboardEvent

\* So does onClientRxRequest
LEMMA RequestPath ==
    ASSUME NetType, NetType', PathInv, NEW c \in Node, NEW n \in 1..Len(down[c]),
           \/ TrunkBusy(c, n) \/ Grant(c, n) \/ SwitchNotFound(c, n) \/ RelaySwitch(c, n)
           \/ RxPtz(c, n) \/ RelayPtz(c, n)
    PROVE  PathInv'
<1>1. \A i \in TrunkIndex : Outport[c][i] \in Port \cup {NoPort}
  BY NetworkFacts
<1>2. TrunkFor(c) # NoTrunk => TrunkFor(c) \in TrunkIndex
  BY TrunkForFacts
<1>3. CASE TrunkBusy(c, n)
  <2>1. Answered(c, n, 404, NoPort) /\ UNCHANGED <<contexts, used>>
    BY <1>3 DEF TrunkBusy
  <2> QED BY <2>1, PathAnswer
<1>4. CASE Grant(c, n)
  <2>1. /\ Answered(c, n, 200, Outport[c][TrunkFor(c)]) /\ UNCHANGED <<contexts, used>>
        /\ TrunkFor(c) # NoTrunk
    BY <1>4 DEF Grant
  <2> QED BY <1>1, <1>2, <2>1, PathAnswer
<1>5. CASE SwitchNotFound(c, n)
  <2>1. /\ Answered(c, n, 404, Outport[c][TrunkFor(c)]) /\ UNCHANGED <<contexts, used>>
        /\ TrunkFor(c) # NoTrunk
    BY <1>5 DEF SwitchNotFound
  <2> QED BY <1>1, <1>2, <2>1, PathAnswer
<1>6. CASE RelaySwitch(c, n)
  <2>1. Head(down[c]).method = "SWITCH"
    BY <1>6 DEF RelaySwitch, Incoming
  <2>2. contexts[c][Head(down[c]).id] = NoContext
    BY <2>1, RelayFresh
  <2>3. PICK d \in MatchMatrix(c, Head(down[c]).to) :
           /\ down' = SentDown([down EXCEPT ![c] = Rest(down[c], n)], d, Head(down[c]))
           /\ contexts' = [contexts EXCEPT ![c][Head(down[c]).id] = Relay("SWITCH")]
           /\ UNCHANGED <<up, used>>
    BY <1>6, <2>2 DEF RelaySwitch
  <2>4. d \in Node /\ Parent[d] = c
    BY MatchFacts
  <2> QED BY <2>1, <2>3, <2>4, PathRelay
<1>7. CASE RxPtz(c, n)
  <2>1. CASE Crash(c)
    BY <2>1, PathCrash
  <2>2. CASE ~Crash(c)
    <3>1. PICK code \in {200, 400, 404} : Answered(c, n, code, NoPort)
      BY <1>7, <2>2 DEF RxPtz
    <3>2. UNCHANGED <<contexts, used>>
      BY <1>7, <2>2 DEF RxPtz
    <3> QED BY <3>1, <3>2, PathAnswer
  <2> QED BY <2>1, <2>2
<1>8. CASE RelayPtz(c, n)
  <2>1. CASE Crash(c)
    BY <2>1, PathCrash
  <2>2. CASE ~Crash(c)
    <3>1. Answered(c, n, 404, NoPort) /\ UNCHANGED <<contexts, used>>
      BY <1>8, <2>2 DEF RelayPtz
    <3> QED BY <3>1, PathAnswer
  <2> QED BY <2>1, <2>2
<1> QED
  BY <1>3, <1>4, <1>5, <1>6, <1>7, <1>8

\* and onServerRxResponse.
LEMMA ResponsePath ==
    ASSUME NetType, NetType', PathInv, NEW c \in Node, NEW n \in 1..Len(up[c]), NEW p \in Node,
           PtzAnswerLost(p, c, n) \/ SwitchDone(p, c, n) \/ RelayAnswer(p, c, n)
    PROVE  PathInv'
<1>1. ASSUME NEW x, contexts' = [contexts EXCEPT ![p][x] = NoContext]
      PROVE  SameBut(x)
  <2>1. contexts \in [Node -> [MsgId -> Contexts \cup {NoContext}]]
    BY DEF NetType, TypeOK
  <2>2. \A m \in Node, y \in MsgId :
          contexts'[m][y] = IF m = p /\ y = x THEN NoContext ELSE contexts[m][y]
    BY <1>1, <2>1, EntryType
  <2> QED BY <2>2 DEF SameBut
<1>2. CASE PtzAnswerLost(p, c, n)
  <2>1. /\ up' = [up EXCEPT ![c] = Rest(up[c], n)] /\ SameBut(Head(up[c]).id)
        /\ UNCHANGED <<down, used>>
    BY <1>2 DEF PtzAnswerLost, SameBut
  <2> QED BY <2>1, PathDone
<1>3. CASE SwitchDone(p, c, n)
  <2>1. /\ up' = [up EXCEPT ![c] = Rest(up[c], n)]
        /\ contexts' = [contexts EXCEPT ![p][Head(up[c]).id] = NoContext]
        /\ UNCHANGED <<down, used>>
    BY <1>3 DEF SwitchDone
  <2>2. SameBut(Head(up[c]).id)
    BY <1>1, <2>1
  <2> QED BY <2>1, <2>2, PathDone
<1>4. CASE RelayAnswer(p, c, n)
  <2>1. /\ up' = IF contexts[p][Head(up[c]).id] # NoContext
                 THEN SentUp([up EXCEPT ![c] = Rest(up[c], n)], p, Head(up[c]))
                 ELSE [up EXCEPT ![c] = Rest(up[c], n)]
        /\ contexts' = [contexts EXCEPT ![p][Head(up[c]).id] = NoContext]
        /\ UNCHANGED <<down, used>>
        /\ Parent[c] = p /\ Head(up[c]).method = "SWITCH" /\ Head(up[c]).to # p
    BY <1>4 DEF RelayAnswer, Answer
  <2>2. SameBut(Head(up[c]).id)
    BY <1>1, <2>1
  <2>3. CASE contexts[p][Head(up[c]).id] # NoContext
    BY <2>1, <2>3, PathBack
  <2>4. CASE contexts[p][Head(up[c]).id] = NoContext
    BY <2>1, <2>2, <2>4, PathDone
  <2> QED BY <2>3, <2>4
<1> QED
  BY <1>2, <1>3, <1>4

\* No step leads out of the invariant.
LEMMA PathInvStep ==
    ASSUME NetType, NetType', PathInv, [Next]_vars
    PROVE  PathInv'
<1>1. CASE Tick
  BY <1>1, PathSame DEF Tick
<1>2. ASSUME NEW n \in Node, NEW k \in KeyboardOf[n], KeyboardEvent(n, k)
      PROVE  PathInv'
  BY <1>2, KeyboardPath
<1>3. ASSUME NEW c \in Node, RxRequest(c)
      PROVE  PathInv'
  BY <1>3, RequestPath DEF RxRequest
<1>4. ASSUME NEW c \in Node, RxResponse(c)
      PROVE  PathInv'
  BY <1>4, ResponsePath DEF RxResponse
<1>5. ASSUME NEW c \in Node, Die(c)
      PROVE  PathInv'
  BY <1>5, PathCrash DEF Die
<1>6. ASSUME NEW c \in Node, Unregister(c)
      PROVE  PathInv'
  BY <1>6, PathSame DEF Unregister
<1>7. CASE UNCHANGED vars
  BY <1>7, PathSame DEF vars
<1> QED
  BY <1>1, <1>2, <1>3, <1>4, <1>5, <1>6, <1>7 DEF Next

\* So every message is on its path in all states.
LEMMA PathInvariant == Spec => [](NetType /\ PathInv)
<1>1. Init => PathInv
  <2> SUFFICES ASSUME Init PROVE PathInv
    OBVIOUS
  <2>1. \A c \in Node : down[c] = <<>> /\ up[c] = <<>>
    BY DEF Init
  <2>2. \A n \in Node, x \in MsgId : contexts[n][x] = NoContext
    BY DEF Init
  <2>3. \A c \in Node : Elems(down[c]) = {} /\ Elems(up[c]) = {}
    BY <2>1 DEF Elems
  <2>4. Apart(down) /\ Apart(up) /\ Disjoint
    BY <2>1 DEF Apart, Disjoint, Carries
  <2> QED BY <2>2, <2>3, <2>4 DEF PathInv
<1>2. NetType /\ PathInv /\ NetType' /\ [Next]_vars => PathInv'
  BY PathInvStep
<1>3. Spec => []NetType
  BY NetTypeInvariant
<1> QED
  BY <1>1, <1>2, <1>3, PTL DEF Spec

\* PathRecorded: exactly the matrices a SWITCH or its answer has passed keep a
\* context for it, whatever is relayed, lost or overtaken
\* (processSwitchMessage, onClientRxRequest, onServerRxResponse).
THEOREM EveryPathRecorded == Spec => []PathRecorded
<1>1. PathInv => PathRecorded
  <2> SUFFICES ASSUME PathInv, NEW c \in Sub
               PROVE  /\ \A r \in Requested(c) : \A n \in Node :
                            contexts[n][r.id] # NoContext <=> n \in PathTo(c, r.from)
                      /\ \A r \in Replied(c) : \A n \in Node :
                            contexts[n][r.id] # NoContext <=> n \in PathTo(c, r.to)
    BY DEF PathRecorded
  <2>1. c \in Node
    BY DEF Sub
  <2>2. \A r \in Requested(c) : r \in Elems(down[c]) /\ r.method = "SWITCH"
    BY DEF Requested, Elems
  <2>3. \A r \in Replied(c) : r \in Elems(up[c]) /\ r.method = "SWITCH"
    BY DEF Replied, Elems
  <2> QED BY <2>1, <2>2, <2>3 DEF PathInv, OnPath
<1> QED
  BY <1>1, PathInvariant, PTL

\* SwitchNeverCrashes: the assertion of createContext in the relay branch of
\* onClientRxRequest holds whenever it is reached.
THEOREM RelayAssertionHolds == Spec => SwitchNeverCrashes
<1>1. ASSUME NetType, PathInv, [Next]_vars, NEW c \in Node, alive[c], ~alive'[c]
      PROVE  c \in Mortal \/ Head(down[c]).method = "PTZ"
  <2>1. alive \in [Node -> BOOLEAN]
    BY <1>1 DEF NetType, TypeOK
  <2>2. \A d \in Node : Crash(d) => d = c
    BY <1>1, <2>1 DEF Crash
  <2>3. alive' # alive
    BY <1>1
  <2>4. ~Tick /\ ~UNCHANGED vars
    BY <2>3 DEF Tick, vars
  <2>5. ~\E n \in Node : \E k \in KeyboardOf[n] : KeyboardEvent(n, k)
    <3>1. ASSUME NEW n, NEW k, NEW m, NEW x
          PROVE  ~SwitchLocal(n, k, x, m) /\ ~SwitchUnknown(n, k, x, m) /\ ~SwitchRemote(n, k, x, m)
      BY <2>3 DEF SwitchLocal, SwitchUnknown, SwitchRemote
    <3>2. ASSUME NEW n, NEW k
          PROVE  ~PtzUnknown(n) /\ ~PtzRemote(n, k)
      BY <2>3 DEF PtzUnknown, PtzRemote
    <3> QED BY <3>1, <3>2 DEF KeyboardEvent
  <2>6. PICK d \in Node : RxRequest(d) \/ RxResponse(d) \/ Die(d) \/ Unregister(d)
    BY <1>1, <2>4, <2>5 DEF Next
  <2>7. ~RxResponse(d) /\ ~Unregister(d)
    BY <2>3 DEF RxResponse, PtzAnswerLost, SwitchDone, RelayAnswer, Unregister
  <2>8. CASE Die(d)
    BY <2>2, <2>8 DEF Die
  <2>9. CASE RxRequest(d)
    <3>1. PICK n \in 1..Len(down[d]) :
             \/ TrunkBusy(d, n) \/ Grant(d, n) \/ SwitchNotFound(d, n) \/ RelaySwitch(d, n)
             \/ RxPtz(d, n) \/ RelayPtz(d, n)
      BY <2>9 DEF RxRequest
    <3>2. ~TrunkBusy(d, n) /\ ~Grant(d, n) /\ ~SwitchNotFound(d, n)
      BY <2>3 DEF TrunkBusy, Grant, SwitchNotFound
    <3>3. ~RelaySwitch(d, n)
      <4> SUFFICES ASSUME RelaySwitch(d, n) PROVE FALSE
        OBVIOUS
      <4>1. Head(down[d]).method = "SWITCH"
        BY DEF RelaySwitch, Incoming
      <4>2. contexts[d][Head(down[d]).id] = NoContext
        BY <1>1, <4>1, RelayFresh
      <4> QED BY <2>3, <4>2 DEF RelaySwitch
    <3>4. Head(down[d]).method = "PTZ" /\ Crash(d)
      BY <2>3, <3>1, <3>2, <3>3 DEF RxPtz, RelayPtz, Incoming
    <3> QED BY <2>2, <3>4
  <2> QED BY <2>6, <2>7, <2>8, <2>9
<1> DEFINE Safe == \A c \in Node : alive[c] /\ ~alive'[c] =>
                      c \in Mortal \/ Head(down[c]).method = "PTZ"
<1>2. NetType /\ PathInv /\ [Next]_vars => [Safe]_vars
  BY <1>1
<1>3. Spec => [][Safe]_vars
  <2> HIDE DEF Safe
  <2> QED BY <1>2, PathInvariant, PTL DEF Spec
<1> QED
  BY <1>3 DEF SwitchNeverCrashes

-----------------------------------------------------------------------------
(***************************************************************************)
(* The picture of a remote camera.  The code switches at the child to the  *)
(* output with the number of the parent's input, and hands that number to  *)
(* the parent; nothing keeps two cables of a parent, or a cable and a      *)
(* monitor, apart but the configuration.                                   *)
(***************************************************************************)

\* What a configuration must say for pictures to arrive: both ends of a trunk
\* have the same number, no two trunks lead to one input of a parent, and no
\* monitor hangs on the output of a trunk.
Wired ==
    /\ \A c \in Sub, i \in TrunkIndex :
          TrunkOut[c][i] = Outport[c][i] /\ Outport[c][i] \notin MonitorOf[c]
    /\ \A c, d \in Sub, i, j \in TrunkIndex :
          Parent[c] = Parent[d] /\ Outport[c][i] = Outport[d][j] => c = d /\ i = j

\* A reserved trunk carries the camera it is reserved for.
CamerasCarried ==
    \A c \in Sub, i \in TrunkIndex :
        trunks[c][i].cid = NullID \/ trunks[c][i].cid = <<c, cross[c][Outport[c][i]]>>

\* A context is for a monitor of the matrix, or for none.
MonitorsAsked ==
    \A n \in Node, x \in MsgId : contexts[n][x].mon \in MonitorOf[n] \cup {NoPort}

\* A monitor shows the input it was promised.
PromisesKept ==
    \A n \in Node : \A m \in MonitorOf[n] :
        promised[n][m] = NoPromise \/ cross[n][m] = promised[n][m].inport

PictureInv == CamerasCarried /\ MonitorsAsked /\ PromisesKept

\* A step that switches nothing and reserves no trunk.
TrunksKept ==
    \A c \in Sub, i \in TrunkIndex : trunks'[c][i].cid \in {trunks[c][i].cid, NullID}

\* A step that switches nothing breaks no promise.
LEMMA NothingSwitched ==
    ASSUME PictureInv, TrunksKept, MonitorsAsked', UNCHANGED <<cross, promised>>
    PROVE  PictureInv'
<1>1. CamerasCarried'
  BY DEF PictureInv, CamerasCarried, TrunksKept
<1> QED
  BY <1>1 DEF PictureInv, PromisesKept

\* updateUsers only releases trunks.
LEMMA UpdatedKept ==
    ASSUME NetType, NEW c \in Node, NEW n \in 1..Len(down[c]),
           trunks' = [trunks EXCEPT ![c] = Updated(c)]
    PROVE  TrunksKept
<1>1. \A i \in TrunkIndex : Updated(c)[i].cid \in {trunks[c][i].cid, NullID}
  BY TrunkForFacts
<1>2. \A d \in Sub : d \in Node
  BY DEF Sub
<1>3. \A d \in Node : trunks'[d] = IF d = c THEN Updated(c) ELSE trunks[d]
  BY DEF NetType, TypeOK
<1> QED
  BY <1>1, <1>2, <1>3 DEF TrunksKept

\* Contexts stay about monitors of their matrix if the new one is.
LEMMA ContextAsked ==
    ASSUME NetType, PictureInv, NEW n \in Node, NEW id, NEW x \in Contexts \cup {NoContext},
           x.mon \in MonitorOf[n] \cup {NoPort},
           contexts' = [contexts EXCEPT ![n][id] = x]
    PROVE  MonitorsAsked'
<1>1. contexts \in [Node -> [MsgId -> Contexts \cup {NoContext}]]
  BY DEF NetType, TypeOK
<1>2. \A m \in Node, y \in MsgId :
        contexts'[m][y] = IF m = n /\ y = id THEN x ELSE contexts[m][y]
  BY <1>1, EntryType
<1> QED
  BY <1>2 DEF PictureInv, MonitorsAsked

\* onSwitch and onPtz keep the promises.
LEMMA KeyboardPicture ==
    ASSUME Wired, NetType, PictureInv, NEW n \in Node, NEW k \in KeyboardOf[n],
           KeyboardEvent(n, k)
    PROVE  PictureInv'
<1>0. k \in Keyboard
  BY NetworkFacts
<1>1. ASSUME NEW m \in Port, NEW c \in Port, SwitchLocal(n, k, c, m)
      PROVE  PictureInv'
  <2>1. /\ m \in MonitorOf[n] /\ UNCHANGED <<trunks, contexts>>
        /\ cross' = [cross EXCEPT ![n][m] = c]
        /\ promised' = [promised EXCEPT ![n][m] = NoPromise]
    BY <1>1 DEF SwitchLocal, MonitorFree
  <2>2. \A d \in Node, o \in Port : cross'[d][o] = IF d = n /\ o = m THEN c ELSE cross[d][o]
    BY <2>1, EntryType DEF NetType, TypeOK
  <2>3. \A d \in Node, o \in Port :
          promised'[d][o] = IF d = n /\ o = m THEN NoPromise ELSE promised[d][o]
    <3>1. NoPromise \in [cid : GlobalIds, inport : Port \cup {NoPort}]
      BY NetworkFacts DEF NoPromise
    <3>2. promised \in [Node -> [Port -> [cid : GlobalIds, inport : Port \cup {NoPort}]]]
      BY DEF NetType, TypeOK
    <3> QED BY <2>1, <3>1, <3>2, EntryType
  <2>4. \A d \in Sub, i \in TrunkIndex :
          d \in Node /\ Outport[d][i] \in Port /\ Outport[d][i] \notin MonitorOf[d]
    BY NetworkFacts DEF Wired, Sub
  <2>5. CamerasCarried'
    <3>1. \A d \in Sub, i \in TrunkIndex : cross'[d][Outport[d][i]] = cross[d][Outport[d][i]]
      BY <2>1, <2>2, <2>4
    <3> QED BY <2>1, <3>1 DEF PictureInv, CamerasCarried
  <2>6. PromisesKept'
    <3>1. \A d \in Node : \A o \in MonitorOf[d] : o \in Port
      BY NetworkFacts
    <3> QED BY <2>2, <2>3, <3>1 DEF PictureInv, PromisesKept
  <2> QED BY <2>1, <2>5, <2>6 DEF PictureInv, MonitorsAsked
<1>2. ASSUME NEW m \in Port, NEW c \in Port, SwitchUnknown(n, k, c, m)
      PROVE  PictureInv'
  <2>1. UNCHANGED <<trunks, contexts, cross, promised>>
    BY <1>2 DEF SwitchUnknown
  <2> QED BY <2>1, NothingSwitched DEF TrunksKept, PictureInv, MonitorsAsked
<1>3. ASSUME NEW x, x \in Contexts, x.mon \in MonitorOf[n] \cup {NoPort},
             contexts' = [contexts EXCEPT ![n][used + 1] = x],
             UNCHANGED <<trunks, cross, promised>>
      PROVE  PictureInv'
  <2>1. MonitorsAsked'
    BY <1>3, ContextAsked
  <2> QED BY <1>3, <2>1, NothingSwitched DEF TrunksKept
<1>4. ASSUME NEW m \in Port, NEW cid \in Node \X Port, SwitchRemote(n, k, cid, m)
      PROVE  PictureInv'
  <2> DEFINE x == [method |-> "SWITCH", kb |-> k, cid |-> cid, mon |-> m]
  <2>1. x \in Contexts
    BY <1>0, NetworkFacts DEF Contexts, GlobalIds
  <2>2. x.mon \in MonitorOf[n]
    BY <1>4 DEF SwitchRemote, MonitorFree
  <2>3. /\ contexts' = [contexts EXCEPT ![n][used + 1] = x]
        /\ UNCHANGED <<trunks, cross, promised>>
    BY <1>4 DEF SwitchRemote
  <2> HIDE DEF x
  <2> QED BY <1>3, <2>1, <2>2, <2>3
<1>5. CASE PtzUnknown(n)
  <2>1. UNCHANGED <<trunks, contexts, cross, promised>>
    BY <1>5 DEF PtzUnknown
  <2> QED BY <2>1, NothingSwitched DEF TrunksKept, PictureInv, MonitorsAsked
<1>6. CASE PtzRemote(n, k)
  <2> DEFINE x == [method |-> "PTZ", kb |-> k, cid |-> last[n], mon |-> NoPort]
  <2>1. x \in Contexts
    BY <1>0 DEF Contexts, NetType, TypeOK
  <2>2. x.mon = NoPort
    OBVIOUS
  <2>3. /\ contexts' = [contexts EXCEPT ![n][used + 1] = x]
        /\ UNCHANGED <<trunks, cross, promised>>
    BY <1>6 DEF PtzRemote
  <2> HIDE DEF x
  <2> QED BY <1>3, <2>1, <2>2, <2>3
<1> QED
  BY <1>1, <1>2, <1>4, <1>5, <1>6 DEF KeyboardEvent

\* A trunk that is granted carries its camera from then on.
LEMMA GrantPicture ==
    ASSUME Wired, NetType, PathInv, PictureInv, NEW c \in Node, NEW n \in 1..Len(down[c]),
           Grant(c, n)
    PROVE  PictureInv'
<1> DEFINE r == Head(down[c])
           i == TrunkFor(c)
           u == <<r.from, r.kb>>
           D == [down EXCEPT ![c] = Rest(down[c], n)]
           t == Push(Updated(c)[i], u, <<c, r.cam>>)
<1>1. /\ i # NoTrunk /\ UNCHANGED <<contexts, promised>>
      /\ trunks' = [trunks EXCEPT ![c] = [Updated(c) EXCEPT ![i] = t]]
      /\ cross' = [cross EXCEPT ![c][Outport[c][i]] = r.cam]
  BY DEF Grant
<1>2. ReadFacts(c, r, D)
  BY ReadRequest
<1>3. /\ Updated(c) \in [TrunkIndex -> TrunkStates]
      /\ \A j \in TrunkIndex : Updated(c)[j].cid \in {trunks[c][j].cid, NullID}
      /\ r \in Asked /\ u \in TrunkUser /\ (i # NoTrunk => i \in TrunkIndex)
  BY TrunkForFacts
<1> HIDE DEF r, i, u, D
<1>4. c \in Sub
  <2>1. r.from \in Node /\ c \in Below[r.from]
    BY <1>2 DEF ReadFacts, OnPath
  <2>2. Parent[c] \in Node
    BY <2>1, NetworkTreeAssumption
  <2> QED BY <2>2, NetworkFacts DEF Sub
<1>5. i \in TrunkIndex /\ Outport[c][i] \in Port /\ r.cam \in Port
  BY <1>1, <1>3, NetworkFacts DEF Asked, Requests
<1>6. t \in TrunkStates /\ t.cid = <<c, r.cam>>
  <2>1. <<c, r.cam>> \in GlobalIds /\ Updated(c)[i] \in TrunkStates
    BY <1>3, <1>5, NetworkFacts DEF GlobalIds
  <2> QED BY <1>3, <2>1, PushFacts
<1> HIDE DEF t
<1>7. \A d \in Node, o \in Port :
        cross'[d][o] = IF d = c /\ o = Outport[c][i] THEN r.cam ELSE cross[d][o]
  <2>1. cross \in [Node -> [Port -> Port \cup {NoPort}]]
    BY DEF NetType, TypeOK
  <2>2. r.cam \in Port \cup {NoPort}
    BY <1>5
  <2> QED BY <1>1, <2>1, <2>2, EntryType
<1>8. \A d \in Node, j \in TrunkIndex :
        trunks'[d][j] = IF d = c THEN IF j = i THEN t ELSE Updated(c)[j] ELSE trunks[d][j]
  BY <1>1, <1>3, <1>5, <1>6 DEF NetType, TypeOK
<1>9. CamerasCarried'
  <2> SUFFICES ASSUME NEW d \in Sub, NEW j \in TrunkIndex
               PROVE  \/ trunks'[d][j].cid = NullID
                      \/ trunks'[d][j].cid = <<d, cross'[d][Outport[d][j]]>>
    BY DEF CamerasCarried
  <2>1. d \in Node /\ Outport[d][j] \in Port
    BY NetworkFacts DEF Sub
  <2>2. \/ trunks[d][j].cid = NullID
        \/ trunks[d][j].cid = <<d, cross[d][Outport[d][j]]>>
    BY DEF PictureInv, CamerasCarried
  <2>3. CASE d = c /\ j = i
    <3>1. trunks'[c][i] = t /\ cross'[c][Outport[c][i]] = r.cam
      BY <1>5, <1>7, <1>8
    <3> QED BY <1>6, <2>3, <3>1
  <2>4. CASE d = c /\ j # i
    <3>1. Outport[c][j] # Outport[c][i]
      BY <1>4, <1>5, <2>4 DEF Wired
    <3>2. cross'[d][Outport[d][j]] = cross[d][Outport[d][j]]
      BY <1>7, <2>1, <2>4, <3>1
    <3>3. trunks'[d][j] = Updated(c)[j] /\ Updated(c)[j].cid \in {trunks[d][j].cid, NullID}
      BY <1>3, <1>8, <2>1, <2>4
    <3> QED BY <2>2, <3>2, <3>3
  <2>5. CASE d # c
    BY <1>7, <1>8, <2>1, <2>2, <2>5
  <2> QED BY <2>3, <2>4, <2>5
<1>10. PromisesKept'
  <2>1. Outport[c][i] \notin MonitorOf[c]
    BY <1>4, <1>5 DEF Wired
  <2>2. \A d \in Node : \A o \in MonitorOf[d] : o \in Port /\ cross'[d][o] = cross[d][o]
    BY <1>7, <2>1, NetworkFacts
  <2> QED BY <1>1, <2>2 DEF PictureInv, PromisesKept
<1> QED
  BY <1>1, <1>9, <1>10 DEF PictureInv, MonitorsAsked

\* onClientRxRequest keeps the promises.
LEMMA RequestPicture ==
    ASSUME Wired, NetType, PathInv, PictureInv, NEW c \in Node, NEW n \in 1..Len(down[c]),
           \/ TrunkBusy(c, n) \/ Grant(c, n) \/ SwitchNotFound(c, n) \/ RelaySwitch(c, n)
           \/ RxPtz(c, n) \/ RelayPtz(c, n)
    PROVE  PictureInv'
<1>1. ASSUME UNCHANGED <<trunks, contexts, cross, promised>>
      PROVE  PictureInv'
  BY <1>1, NothingSwitched DEF TrunksKept, PictureInv, MonitorsAsked
<1>2. ASSUME trunks' = [trunks EXCEPT ![c] = Updated(c)], UNCHANGED <<contexts, cross, promised>>
      PROVE  PictureInv'
  <2>1. TrunksKept
    BY <1>2, UpdatedKept
  <2> QED BY <1>2, <2>1, NothingSwitched DEF PictureInv, MonitorsAsked
<1>3. CASE TrunkBusy(c, n) \/ SwitchNotFound(c, n)
  BY <1>2, <1>3 DEF TrunkBusy, SwitchNotFound
<1>4. CASE Grant(c, n)
  BY <1>4, GrantPicture
<1>5. CASE RelaySwitch(c, n)
  <2>1. CASE contexts[c][Head(down[c]).id] # NoContext
    BY <1>1, <1>5, <2>1 DEF RelaySwitch, Crash
  <2>2. CASE contexts[c][Head(down[c]).id] = NoContext
    <3>1. /\ contexts' = [contexts EXCEPT ![c][Head(down[c]).id] = Relay("SWITCH")]
          /\ trunks' = [trunks EXCEPT ![c] = Updated(c)]
          /\ UNCHANGED <<cross, promised>>
      BY <1>5, <2>2 DEF RelaySwitch
    <3>2. Relay("SWITCH") \in Contexts /\ Relay("SWITCH").mon = NoPort
      BY NetworkFacts DEF Relay, Contexts
    <3>3. MonitorsAsked'
      BY <3>1, <3>2, ContextAsked
    <3>4. TrunksKept
      BY <3>1, UpdatedKept
    <3> QED BY <3>1, <3>3, <3>4, NothingSwitched
  <2> QED BY <2>1, <2>2
<1>6. CASE RxPtz(c, n) \/ RelayPtz(c, n)
  BY <1>1, <1>6 DEF RxPtz, RelayPtz, Crash
<1> QED
  BY <1>3, <1>4, <1>5, <1>6

\* An answer switches the input its trunk leads to.
LEMMA ResponsePicture ==
    ASSUME Wired, NetType, PictureInv, NEW c \in Node, NEW n \in 1..Len(up[c]), NEW p \in Node,
           PtzAnswerLost(p, c, n) \/ SwitchDone(p, c, n) \/ RelayAnswer(p, c, n)
    PROVE  PictureInv'
<1> DEFINE r == Head(up[c])
           x == contexts[p][r.id]
<1>1. r \in Responses
  BY RestType DEF NetType, TypeOK
<1>2. r.id \in MsgId /\ r.outport \in Port \cup {NoPort}
  BY <1>1 DEF Responses
<1>3. x \in Contexts \cup {NoContext} /\ x.mon \in MonitorOf[p] \cup {NoPort}
  BY <1>2 DEF NetType, TypeOK, PictureInv, MonitorsAsked
<1>4. x.cid \in GlobalIds
  BY <1>3, NetworkFacts DEF Contexts, NoContext
<1>5. ASSUME contexts' = [contexts EXCEPT ![p][r.id] = NoContext]
      PROVE  MonitorsAsked'
  <2>1. NoContext.mon = NoPort
    BY DEF NoContext
  <2> QED BY <1>5, <2>1, ContextAsked
<1>6. ASSUME UNCHANGED <<trunks, cross, promised>>, MonitorsAsked'
      PROVE  PictureInv'
  BY <1>6, NothingSwitched DEF TrunksKept
<1>7. CASE PtzAnswerLost(p, c, n)
  <2>1. UNCHANGED <<trunks, contexts, cross, promised>>
    BY <1>7 DEF PtzAnswerLost
  <2> QED BY <1>6, <2>1 DEF PictureInv, MonitorsAsked
<1>8. CASE RelayAnswer(p, c, n)
  <2>1. /\ contexts' = [contexts EXCEPT ![p][r.id] = NoContext]
        /\ UNCHANGED <<trunks, cross, promised>>
    BY <1>8 DEF RelayAnswer
  <2> QED BY <1>5, <1>6, <2>1
<1>9. CASE SwitchDone(p, c, n)
  <2>1. /\ contexts' = [contexts EXCEPT ![p][r.id] = NoContext]
        /\ UNCHANGED trunks
    BY <1>9 DEF SwitchDone
  <2>2. CASE ~(x # NoContext /\ r.code = 200)
    <3>1. UNCHANGED <<cross, promised>>
      BY <1>9, <2>2 DEF SwitchDone
    <3> QED BY <1>5, <1>6, <2>1, <3>1
  <2>3. CASE x # NoContext /\ r.code = 200
    <3> DEFINE q == [cid |-> x.cid, inport |-> r.outport]
    <3>1. /\ cross' = [cross EXCEPT ![p][x.mon] = r.outport]
          /\ promised' = [promised EXCEPT ![p][x.mon] = q]
      BY <1>9, <2>3 DEF SwitchDone
    <3> HIDE DEF r, x
    <3>2. q \in [cid : GlobalIds, inport : Port \cup {NoPort}] /\ q.inport = r.outport
      BY <1>2, <1>4
    <3> HIDE DEF q
    <3>3. \A d \in Node, o \in Port :
            cross'[d][o] = IF d = p /\ o = x.mon THEN r.outport ELSE cross[d][o]
      <4>1. cross \in [Node -> [Port -> Port \cup {NoPort}]]
        BY DEF NetType, TypeOK
      <4> QED BY <1>2, <3>1, <4>1, EntryType
    <3>4. \A d \in Node, o \in Port :
            promised'[d][o] = IF d = p /\ o = x.mon THEN q ELSE promised[d][o]
      <4>1. promised \in [Node -> [Port -> [cid : GlobalIds, inport : Port \cup {NoPort}]]]
        BY DEF NetType, TypeOK
      <4> QED BY <3>1, <3>2, <4>1, EntryType
    <3>5. \A d \in Sub, i \in TrunkIndex : cross'[d][Outport[d][i]] = cross[d][Outport[d][i]]
      <4>1. \A d \in Sub, i \in TrunkIndex :
              /\ d \in Node /\ Outport[d][i] \in Port
              /\ Outport[d][i] \notin MonitorOf[d] /\ Outport[d][i] # NoPort
        BY NetworkFacts DEF Wired, Sub, NoPort
      <4> QED BY <1>3, <3>3, <4>1
    <3>6. CamerasCarried'
      BY <2>1, <3>5 DEF PictureInv, CamerasCarried
    <3>7. PromisesKept'
      <4>1. \A d \in Node : \A o \in MonitorOf[d] : o \in Port
        BY NetworkFacts
      <4> QED BY <3>2, <3>3, <3>4, <4>1 DEF PictureInv, PromisesKept
    <3>8. MonitorsAsked'
      BY <1>5, <2>1
    <3> QED BY <3>6, <3>7, <3>8 DEF PictureInv
  <2> QED BY <2>2, <2>3
<1> QED
  BY <1>7, <1>8, <1>9

\* No step leads out of the invariant.
LEMMA PictureStep ==
    ASSUME Wired, NetType, PathInv, PictureInv, [Next]_vars
    PROVE  PictureInv'
<1>1. ASSUME UNCHANGED <<trunks, contexts, cross, promised>>
      PROVE  PictureInv'
  BY <1>1, NothingSwitched DEF TrunksKept, PictureInv, MonitorsAsked
<1>2. CASE Tick
  <2>1. TrunksKept
    <3>1. \A d \in Sub, i \in TrunkIndex : d \in Node /\ trunks[d][i] \in TrunkStates
      BY DEF Sub, NetType, TypeOK
    <3>2. \A d \in Sub, i \in TrunkIndex : trunks'[d][i] = AgedTrunk(trunks[d][i])
      BY <1>2, <3>1 DEF Tick
    <3> QED BY <3>1, <3>2, AgedTrunkFacts DEF TrunksKept
  <2>2. UNCHANGED <<contexts, cross, promised>>
    BY <1>2 DEF Tick
  <2> QED BY <2>1, <2>2, NothingSwitched DEF PictureInv, MonitorsAsked
<1>3. ASSUME NEW n \in Node, NEW k \in KeyboardOf[n], KeyboardEvent(n, k)
      PROVE  PictureInv'
  BY <1>3, KeyboardPicture
<1>4. ASSUME NEW c \in Node, RxRequest(c)
      PROVE  PictureInv'
  BY <1>4, RequestPicture DEF RxRequest
<1>5. ASSUME NEW c \in Node, RxResponse(c)
      PROVE  PictureInv'
  BY <1>5, ResponsePicture DEF RxResponse
<1>6. ASSUME NEW c \in Node, Die(c) \/ Unregister(c)
      PROVE  PictureInv'
  BY <1>1, <1>6 DEF Die, Crash, Unregister
<1>7. CASE UNCHANGED vars
  BY <1>1, <1>7 DEF vars
<1> QED
  BY <1>2, <1>3, <1>4, <1>5, <1>6, <1>7 DEF Next

\* PictureArrives: in a network that is wired as the code takes it to be, the
\* switch at the child, its answer and the switch at the parent agree as long
\* as the trunk stays reserved, whatever runs in between (onClientRxRequest,
\* onServerRxResponse).
THEOREM PicturesArrive ==
    ASSUME Wired
    PROVE  Spec => []PictureArrives
<1>1. Init => PictureInv
  <2> SUFFICES ASSUME Init PROVE PictureInv
    OBVIOUS
  <2>1. CamerasCarried
    <3>1. \A c \in Sub, i \in TrunkIndex : c \in Node /\ trunks[c][i].cid = NullID
      BY DEF Init, Sub, IdleTrunk
    <3> QED BY <3>1 DEF CamerasCarried
  <2>2. MonitorsAsked
    BY DEF Init, MonitorsAsked, NoContext
  <2>3. PromisesKept
    BY NetworkFacts DEF Init, PromisesKept
  <2> QED BY <2>1, <2>2, <2>3 DEF PictureInv
<1>2. NetType /\ PathInv /\ PictureInv /\ [Next]_vars => PictureInv'
  BY PictureStep
<1>3. NetType /\ PictureInv => PictureArrives
  <2> SUFFICES ASSUME NetType, PictureInv, NEW n \in Node, NEW m \in MonitorOf[n],
                      NEW c \in Children(n), NEW i \in TrunkIndex,
                      promised[n][m].cid[1] = c, promised[n][m].inport = Outport[c][i],
                      trunks[c][i].cid = promised[n][m].cid
               PROVE  /\ cross[n][m] = promised[n][m].inport
                      /\ Picture(n, promised[n][m].inport) = {promised[n][m].cid}
    BY DEF PictureArrives
  <2> DEFINE p == promised[n][m]
  <2>1. c \in Node /\ Parent[c] = n /\ c \in Sub /\ c # -1
    BY NetworkFacts DEF Children, Sub
  <2>2. p.cid # NullID
    BY <2>1 DEF NullID
  <2>3. cross[n][m] = p.inport
    BY <2>2 DEF PictureInv, PromisesKept, NoPromise
  <2>4. p.cid = <<c, cross[c][Outport[c][i]]>>
    BY <2>1, <2>2 DEF PictureInv, CamerasCarried
  <2> DEFINE W == {w \in Children(n) \X TrunkIndex : Outport[w[1]][w[2]] = p.inport}
  <2>5. \A d \in Children(n) : d \in Sub /\ Parent[d] = n
    BY NetworkFacts DEF Children, Sub
  <2>6. W = {<<c, i>>}
    <3>1. <<c, i>> \in W
      OBVIOUS
    <3>2. \A w \in W : w = <<c, i>>
      BY <2>1, <2>5 DEF Wired
    <3> QED BY <3>1, <3>2
  <2>7. Picture(n, p.inport) = {<<t[1], cross[t[1]][TrunkOut[t[1]][t[2]]]>> : t \in W}
    BY DEF Picture
  <2> HIDE DEF W
  <2>8. Picture(n, p.inport) = {<<c, cross[c][TrunkOut[c][i]]>>}
    BY <2>6, <2>7
  <2>9. TrunkOut[c][i] = Outport[c][i]
    BY <2>1 DEF Wired
  <2> QED BY <2>3, <2>4, <2>8, <2>9
<1> QED
  BY <1>1, <1>2, <1>3, PathInvariant, PTL DEF Spec
=============================================================================
