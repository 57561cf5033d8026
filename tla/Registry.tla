------------------------------- MODULE Registry -------------------------------
(***************************************************************************)
(* How the matrices of a tree learn to reach each other.                   *)
(*                                                                         *)
(* The agent client of a matrix keeps a TCP connection to its parent.      *)
(* Once connected it sends a REGISTER with the matrices below it; the      *)
(* agent server of the parent records the sender, the fd of the connection *)
(* and those ids in mChildMatrixs, and tells its own parent in turn.       *)
(* Requests travel down the tree along these tables (matchMatrix).         *)
(*                                                                         *)
(* A process may die at any moment and be started again; its sockets are   *)
(* then closed by the kernel.  With Aborts, a connection may also end with *)
(* a reset (a killed process with unread data, a broken line).             *)
(***************************************************************************)
EXTENDS Integers, Sequences

CONSTANTS
    Node,            \* matrix ids
    Parent,          \* Parent[n]: the matrix at ParentNodeIP, NoNode at Level 0
    Below,           \* Below[n]: the matrices below n
    Fd,              \* file descriptors accept may return
    MaxConn,         \* bound: connections a matrix opens to its parent
    LateStart,       \* bound: matrices whose AsyncTCPClient::Start may return late
    MaxFault,        \* bound: deaths of processes and resets of connections
    Aborts           \* may a connection end with a reset?

NoNode == -1
NoFd == -1

Children(n) == {c \in Node : Parent[c] = n}

ASSUME RegistryAssumption ==
    /\ Node \subseteq Nat /\ Fd \subseteq Nat
    /\ LateStart \subseteq Node
    /\ MaxConn \in Nat /\ MaxFault \in Nat
    /\ Aborts \in BOOLEAN

ASSUME TreeAssumption ==
    /\ Parent \in [Node -> Node \cup {NoNode}]
    /\ Below \in [Node -> SUBSET Node]
    /\ \A n \in Node : Below[n] = UNION {{c} \cup Below[c] : c \in Children(n)}
    /\ \A n \in Node : n \notin Below[n]

ConnIdx == 1..MaxConn

\* The matrices with an agent client (mLevel # 0).
Sub == {c \in Node : Parent[c] # NoNode}

VARIABLES
    up,              \* up[n]: the process runs
    table,           \* table[n]: mChildMatrixs
    isConnected,     \* isConnected[n]: misClientConnected
    mState,          \* mState[n]: state of the AsyncTCPClient
    starting,        \* starting[n]: AsyncTCPClient::Start has not returned yet
    pc,              \* pc[n]: where the agent client's thread is
    draft,           \* draft[n]: the children of the REGISTER it has built
    conns,           \* conns[n]: connections opened so far, the last is mFd
    sock,            \* sock[n][k]: connection k of n, seen by its parent
    faults,          \* deaths and resets so far
    rung             \* rung[n]: epoll has an event of the listening socket to report

vars == <<up, table, isConnected, mState, starting, pc, draft, conns, sock, faults, rung>>
client == <<isConnected, mState, starting, pc, draft, conns>>

\* A MatrixInfo; only matrices in the map have an fd.
Entries == [fd : Fd \cup {NoFd}, kids : SUBSET Node]
NoEntry == [fd |-> NoFd, kids |-> {}]
EmptyTable == [c \in Node |-> NoEntry]
Registered(n) == {c \in Node : table[n][c] # NoEntry}

\* A connection: the fd the parent accepted it as, the REGISTERs on the way,
\* and how the child's end is: live, closed (fin) or reset (rst); "none" once
\* the parent has closed it.
Socks == [fd : Fd \cup {NoFd}, msgs : Seq(SUBSET Node), end : {"none", "live", "fin", "rst"}]
NoSock == [fd |-> NoFd, msgs |-> <<>>, end |-> "none"]
NewSock == [fd |-> NoFd, msgs |-> <<>>, end |-> "live"]

\* The connections ss with connection k of c replaced.
Put(ss, c, k, s) == [ss EXCEPT ![c] = [ss[c] EXCEPT ![k] = s]]

TypeOK ==
    /\ up \in [Node -> BOOLEAN]
    /\ table \in [Node -> [Node -> Entries]]
    /\ isConnected \in [Node -> BOOLEAN]
    /\ mState \in [Node -> {"DISCONNECTED", "STARTED", "CONNECTED"}]
    /\ starting \in [Node -> BOOLEAN]
    /\ pc \in [Node -> {"connect", "build", "send", "read"}]
    /\ draft \in [Node -> SUBSET Node]
    /\ conns \in [Node -> 0..MaxConn]
    /\ sock \in [Node -> [ConnIdx -> Socks]]
    /\ faults \in 0..MaxFault
    /\ rung \in [Node -> BOOLEAN]
-----------------------------------------------------------------------------
\* Every matrix has been started and none is connected yet; one that is
\* started later is like one that has not got to connect() yet.
Init ==
    /\ up = [n \in Node |-> TRUE]
    /\ table = [n \in Node |-> EmptyTable]
    /\ isConnected = [n \in Node |-> FALSE]
    /\ starting = [n \in Node |-> n \in Sub \cap LateStart]
    /\ mState = [n \in Node |-> IF starting[n] THEN "DISCONNECTED" ELSE "STARTED"]
    /\ pc = [n \in Node |-> "connect"]
    /\ draft = [n \in Node |-> {}]
    /\ conns = [n \in Node |-> 0]
    /\ sock = [n \in Node |-> [k \in ConnIdx |-> NoSock]]
    /\ faults = 0
    /\ rung = [n \in Node |-> FALSE]

(***************************************************************************)
(* Processes and connections.                                              *)
(***************************************************************************)

\* MCCResourceManager::init.  The server listens before the client is started.
Boot(n) ==
    /\ ~up[n]
    /\ up' = [up EXCEPT ![n] = TRUE]
    /\ starting' = [starting EXCEPT ![n] = n \in Sub \cap LateStart]
    /\ mState' = [mState EXCEPT ![n] = IF starting'[n] THEN mState[n] ELSE "STARTED"]
    /\ UNCHANGED <<table, isConnected, pc, draft, conns, sock, faults, rung>>

\* The process ends and its memory is gone: the next life begins with what the
\* constructors set.  The kernel closes its connections: the parent will read
\* an end of file, the connections of its children are no more.
Die(n) ==
    /\ up[n]
    /\ faults < MaxFault
    /\ faults' = faults + 1
    /\ up' = [up EXCEPT ![n] = FALSE]
    /\ sock' = [c \in Node |-> [k \in ConnIdx |->
                  CASE c = n /\ sock[c][k].end = "live" -> [sock[c][k] EXCEPT !.end = "fin"]
                    [] Parent[c] = n -> NoSock
                    [] OTHER -> sock[c][k]]]
    /\ table' = [table EXCEPT ![n] = EmptyTable]
    /\ isConnected' = [isConnected EXCEPT ![n] = FALSE]
    /\ mState' = [mState EXCEPT ![n] = "DISCONNECTED"]
    /\ starting' = [starting EXCEPT ![n] = FALSE]
    /\ pc' = [pc EXCEPT ![n] = "connect"]
    /\ draft' = [draft EXCEPT ![n] = {}]
    /\ rung' = [rung EXCEPT ![n] = FALSE]
    /\ UNCHANGED conns

\* A connection is reset instead.
Abort(c, k) ==
    /\ Aborts
    /\ faults < MaxFault
    /\ faults' = faults + 1
    /\ sock[c][k].end = "live"
    /\ sock' = Put(sock, c, k, [sock[c][k] EXCEPT !.end = "rst"])
    /\ UNCHANGED <<up, table, client, rung>>

(***************************************************************************)
(* The agent client (AsyncTCPClient::thread, MCCAgentClient).              *)
(***************************************************************************)

Alive(c) == conns[c] > 0 /\ sock[c][conns[c]].end = "live"

\* AsyncTCPClient::Send on the current connection: nothing is sent unless
\* mState is CONNECTED, and what is sent on a dead connection is lost.
Sent(ss, c, kids) ==
    LET s == ss[c][conns[c]]
    IN  IF mState[c] = "CONNECTED" /\ Alive(c)
        THEN Put(ss, c, conns[c], [s EXCEPT !.msgs = Append(s.msgs, kids)])
        ELSE ss

\* Mutant: the fds are listed instead of the ids.
BuildRegisterFds(tab) ==
    {tab[c].fd : c \in {d \in Node : tab[d] # NoEntry}} \cup UNION {tab[c].kids : c \in Node}

\* Mutant: the list of one child also holds that child's parent.
BuildRegisterAll(tab) ==
    IF \E c \in Node : tab[c] # NoEntry THEN Node ELSE {}

\* buildRegister: the children and everything they have registered.
BuildRegister(tab) ==
    {c \in Node : tab[c] # NoEntry} \cup UNION {tab[c].kids : c \in Node}

\* The assignment that ends AsyncTCPClient::Start.  The thread already runs,
\* and may have set CONNECTED before.
StartReturns(c) ==
    /\ up[c] /\ starting[c]
    /\ starting' = [starting EXCEPT ![c] = FALSE]
    /\ mState' = [mState EXCEPT ![c] = "STARTED"]
    /\ UNCHANGED <<up, table, isConnected, pc, draft, conns, sock, faults, rung>>

\* connect() succeeds as soon as the parent listens.  A failed connect is
\* tried again after two seconds, a stuttering step.
Connect(c) ==
    /\ up[c] /\ up[Parent[c]]
    /\ pc[c] = "connect"
    /\ conns[c] < MaxConn
    /\ conns' = [conns EXCEPT ![c] = conns[c] + 1]
    /\ sock' = Put(sock, c, conns[c] + 1, NewSock)
    /\ mState' = [mState EXCEPT ![c] = "CONNECTED"]
    /\ pc' = [pc EXCEPT ![c] = "build"]
    /\ rung' = [rung EXCEPT ![Parent[c]] = TRUE]
    /\ UNCHANGED <<up, table, isConnected, starting, draft, faults>>

\* onClientConnected reads mChildMatrixs without its mutex ...
OnClientConnected(c) ==
    /\ up[c]
    /\ pc[c] = "build"
    /\ isConnected' = [isConnected EXCEPT ![c] = TRUE]
    /\ draft' = [draft EXCEPT ![c] = BuildRegister(table[c])]
    /\ pc' = [pc EXCEPT ![c] = "send"]
    /\ UNCHANGED <<up, table, mState, starting, conns, sock, faults, rung>>

\* Mutant: the matrix registers only if it has children to announce.
SendRegisterNonempty(c) ==
    /\ up[c]
    /\ pc[c] = "send"
    /\ sock' = IF draft[c] = {} THEN sock ELSE Sent(sock, c, draft[c])
    /\ pc' = [pc EXCEPT ![c] = "read"]
    /\ draft' = [draft EXCEPT ![c] = {}]
    /\ UNCHANGED <<up, table, isConnected, mState, starting, conns, faults, rung>>

\* ... and sends what it read, in a step of its own: the server's thread may
\* have sent a newer REGISTER in between.
SendRegister(c) ==
    /\ up[c]
    /\ pc[c] = "send"
    /\ sock' = Sent(sock, c, draft[c])
    /\ pc' = [pc EXCEPT ![c] = "read"]
    /\ draft' = [draft EXCEPT ![c] = {}]
    /\ UNCHANGED <<up, table, isConnected, mState, starting, conns, faults, rung>>

\* The inner loop ends when Start overwrote mState: the thread opens another
\* connection and forgets the one it has.
ForgetConnection(c) ==
    /\ up[c]
    /\ pc[c] = "read"
    /\ mState[c] # "CONNECTED"
    /\ pc' = [pc EXCEPT ![c] = "connect"]
    /\ UNCHANGED <<up, table, isConnected, mState, starting, draft, conns, sock, faults, rung>>

\* recv returns 0 or fails: onClientDisconnected, and a new connection.
OnClientDisconnected(c) ==
    /\ up[c]
    /\ pc[c] = "read"
    /\ mState[c] = "CONNECTED"
    /\ ~Alive(c)
    /\ isConnected' = [isConnected EXCEPT ![c] = FALSE]
    /\ mState' = [mState EXCEPT ![c] = "DISCONNECTED"]
    /\ pc' = [pc EXCEPT ![c] = "connect"]
    /\ UNCHANGED <<up, table, starting, draft, conns, sock, faults, rung>>

(***************************************************************************)
(* The agent server of the parent (AsyncTCPServer::thread, MCCAgentServer).*)
(***************************************************************************)

\* The fds in use by the connections p has accepted.
Used(p) == {sock[c][k].fd : c \in Children(p), k \in ConnIdx}

\* Events of one child are served in the order they became ready: an end of
\* file before anything that arrived on a later connection.
Ready(c, k) ==
    /\ up[Parent[c]]
    /\ sock[c][k].end # "none"
    /\ \A j \in 1..(k - 1) : sock[c][j].end # "fin"

\* The listening socket is edge triggered and one event leads to one accept:
\* of connections that arrive before epoll_wait returns, one is accepted and
\* the others wait for the next event.  A child's connections are accepted in
\* the order they were opened; accept returns the smallest fd not in use.
OnNewConnection(c, k, f) ==
    /\ up[Parent[c]] /\ rung[Parent[c]]
    /\ sock[c][k].end # "none"
    /\ sock[c][k].fd = NoFd
    /\ \A j \in 1..(k - 1) : sock[c][j].end # "none" => sock[c][j].fd # NoFd
    /\ f \in Fd \ Used(Parent[c])
    /\ \A g \in Fd \ Used(Parent[c]) : f <= g
    /\ sock' = Put(sock, c, k, [sock[c][k] EXCEPT !.fd = f])
    /\ rung' = [rung EXCEPT ![Parent[c]] = FALSE]
    /\ UNCHANGED <<up, table, client, faults>>

\* onRegister on the map of the parent.  Every REGISTER has expire 60, so the
\* branch for expire <= 0 is never taken.  An entry that exists keeps its fd;
\* clearChildren erases while it iterates, so some old ids ("left") may stay.
Register(tab, c, f, kids, left) ==
    [tab EXCEPT ![c] =
        IF tab[c] = NoEntry THEN [fd |-> f, kids |-> kids]
                            ELSE [tab[c] EXCEPT !.kids = kids \cup left]]

\* recv returns a REGISTER of c.  One recv may return several messages that
\* were sent in a row ("n" of them); the parser sees the first only.  With
\* the map changed, the parent registers again with its own parent.
OnRegister(c, k, left, n) ==
    LET p == Parent[c]
        s == sock[c][k]
        tab == Register(table[p], c, s.fd, Head(s.msgs), left)
        rest == SubSeq(s.msgs, n + 1, Len(s.msgs))
        taken == Put(sock, c, k, [s EXCEPT !.msgs = rest])
    IN  /\ Ready(c, k)
        /\ s.fd # NoFd
        /\ s.msgs # <<>>
        /\ n \in 1..Len(s.msgs)
        /\ table' = [table EXCEPT ![p] = tab]
        /\ sock' = IF p \in Sub /\ isConnected[p] THEN Sent(taken, p, BuildRegister(tab))
                                                  ELSE taken
        /\ UNCHANGED <<up, client, faults, rung>>

\* Mutant: the connection is closed and the map keeps the entry.
OnDisconnectKeep(c, k, gone) ==
    /\ Ready(c, k)
    /\ sock[c][k].fd # NoFd /\ sock[c][k].msgs = <<>> /\ sock[c][k].end = "fin"
    /\ gone = {}
    /\ sock' = Put(sock, c, k, NoSock)
    /\ UNCHANGED <<up, table, client, faults, rung>>

\* Mutant: every entry up to the one with the fd is erased.
OnDisconnectAll(c, k, gone) ==
    /\ Ready(c, k)
    /\ sock[c][k].fd # NoFd /\ sock[c][k].msgs = <<>> /\ sock[c][k].end = "fin"
    /\ gone = {}
    /\ table' = [table EXCEPT ![Parent[c]] = EmptyTable]
    /\ sock' = Put(sock, c, k, NoSock)
    /\ UNCHANGED <<up, client, faults, rung>>

\* recv returns 0: onDisconnect erases the entry with that fd, then the fd is
\* closed.  Nothing is sent up the tree.  The loop goes on from the erased
\* element, so of several entries with the fd it surely erases the first.
OnDisconnect(c, k, gone) ==
    LET p == Parent[c]
        f == sock[c][k].fd
        match == {d \in Registered(p) : table[p][d].fd = f}
    IN  /\ Ready(c, k)
        /\ f # NoFd
        /\ sock[c][k].msgs = <<>>
        /\ sock[c][k].end = "fin"
        /\ gone \subseteq match
        /\ \A d \in match : (\A e \in match : d <= e) => d \in gone
        /\ table' = [table EXCEPT ![p] = [d \in Node |-> IF d \in gone THEN NoEntry
                                                                       ELSE table[p][d]]]
        /\ sock' = Put(sock, c, k, NoSock)
        /\ UNCHANGED <<up, client, faults, rung>>

\* recv fails: the fd is closed and onExcept logs it; the entry stays.
OnExcept(c, k) ==
    /\ Ready(c, k)
    /\ sock[c][k].fd # NoFd
    /\ sock[c][k].end = "rst"
    /\ sock' = Put(sock, c, k, NoSock)
    /\ UNCHANGED <<up, table, client, faults, rung>>
-----------------------------------------------------------------------------
ClientStep(c) ==
    \/ Connect(c) \/ OnClientConnected(c) \/ SendRegister(c)
    \/ ForgetConnection(c) \/ OnClientDisconnected(c)

ServerStep(c) ==
    \E k \in ConnIdx :
        \/ \E f \in Fd : OnNewConnection(c, k, f)
        \/ \E left \in SUBSET table[Parent[c]][c].kids, n \in 1..Len(sock[c][k].msgs) :
              OnRegister(c, k, left, n)
        \/ \E gone \in SUBSET Registered(Parent[c]) : OnDisconnect(c, k, gone)
        \/ OnExcept(c, k)

Next ==
    \/ \E n \in Node : Boot(n) \/ Die(n)
    \/ \E c \in Sub : StartReturns(c) \/ ClientStep(c) \/ ServerStep(c)
    \/ \E c \in Sub, k \in ConnIdx : Abort(c, k)

Spec == Init /\ [][Next]_vars

\* The threads run, and epoll reports every connection that is ready.  A
\* process need not be started again.
FairSpec ==
    /\ Spec
    /\ \A c \in Sub : /\ WF_vars(StartReturns(c))
                      /\ WF_vars(ClientStep(c))
                      /\ WF_vars(ServerStep(c))
-----------------------------------------------------------------------------
(***************************************************************************)
(* Properties.                                                             *)
(***************************************************************************)

\* The tables lead down the tree: an entry is a child and the ids it has
\* registered are below it.  So matchMatrix passes a request to the one child
\* that leads to its matrix, and no request can travel in a circle, however
\* old the table is (onRegister, buildRegister).
RoutesLeadDown ==
    \A p \in Node : \A c \in Registered(p) :
        c \in Children(p) /\ table[p][c].kids \subseteq Below[c]

\* mFd is "the fd of the TCP connection with the child": what is sent to an
\* entry's fd goes to that child and to nobody else, through any sequence of
\* restarts and reconnections (onRegister, onDisconnect).
EntryFdIsChilds ==
    \A p \in Node : \A c \in Registered(p) :
        \E k \in ConnIdx : sock[c][k].end # "none" /\ sock[c][k].fd = table[p][c].fd

\* What is sent to a child's entry never reaches another child.
FdNeverAnothers ==
    \A p \in Node : \A c \in Registered(p) : \A d \in Children(p) \ {c} :
        \A k \in ConnIdx : sock[d][k].fd # table[p][c].fd

\* A child leaves the map only when the connection it registered on has ended:
\* another child's end of file never unregisters it.
EntryEndsWithConnection ==
    [][\A p \in Node : \A c \in Registered(p) :
         (up[p] /\ up'[p] /\ table'[p][c] = NoEntry) =>
             \E k \in ConnIdx : /\ sock[c][k].fd = table[p][c].fd
                                /\ sock[c][k].end = "fin"]_vars

\* A matrix that keeps running below a parent that keeps running is
\* registered there in the end, and stays so, or its connection stays in the
\* queue of the listening socket: nothing else keeps a child out.
ChildIsRegistered ==
    \A c \in Sub :
        <>[](up[c] /\ up[Parent[c]]) =>
            \/ <>[](c \in Registered(Parent[c]))
            \/ <>[](\E k \in ConnIdx : sock[c][k].end = "live" /\ sock[c][k].fd = NoFd)

\* Nothing is on the way and every matrix is connected.
Settled ==
    /\ \A n \in Node : up[n]
    /\ \A c \in Sub : /\ pc[c] = "read" /\ mState[c] = "CONNECTED" /\ Alive(c)
                      /\ \A k \in ConnIdx : sock[c][k].msgs = <<>>

\* mChildset holds "all the matrices below the child": once everything is
\* connected and delivered, the whole tree can be reached from the top.
SubtreesKnown ==
    Settled => \A p \in Node : \A c \in Children(p) : Below[c] \subseteq table[p][c].kids
=============================================================================
