---------------------------- MODULE RegistryProofs ----------------------------
(***************************************************************************)
(* What Registry guarantees for every tree, every number of restarts and   *)
(* every interleaving: the routing tables lead down the tree, and as long  *)
(* as connections are closed and never reset, an entry's fd is a           *)
(* connection of the child it is about.                                    *)
(***************************************************************************)
EXTENDS Registry, SequenceTheorems, TLAPS

SockTable == [Node -> [ConnIdx -> Socks]]

\* Put replaces one connection.
LEMMA PutFacts ==
    ASSUME NEW ss \in SockTable, NEW c \in Node, NEW k \in ConnIdx, NEW s \in Socks
    PROVE  /\ Put(ss, c, k, s) \in SockTable
           /\ Put(ss, c, k, s)[c][k] = s
           /\ \A d \in Node, j \in ConnIdx :
                 d # c \/ j # k => Put(ss, c, k, s)[d][j] = ss[d][j]
<1> DEFINE r == [ss[c] EXCEPT ![k] = s]
<1>1. ss[c] \in [ConnIdx -> Socks]
  BY DEF SockTable
<1>2. r \in [ConnIdx -> Socks] /\ r[k] = s /\ \A j \in ConnIdx : j # k => r[j] = ss[c][j]
  <2> HIDE DEF Socks
  <2> QED BY <1>1
<1>3. Put(ss, c, k, s) = [ss EXCEPT ![c] = r]
  BY DEF Put
<1> HIDE DEF r
<1> QED
  BY <1>2, <1>3 DEF SockTable
-----------------------------------------------------------------------------
(***************************************************************************)
(* The tables lead down the tree.  RoutesLeadDown is inductive together    *)
(* with the same statement about what is on its way to a table: the        *)
(* REGISTERs in the connections and the one a thread has built.            *)
(***************************************************************************)
TableSound(p, tab) ==
    \A c \in Node : tab[c] # NoEntry => c \in Children(p) /\ tab[c].kids \subseteq Below[c]

SockSound(c, s) == \A i \in 1..Len(s.msgs) : s.msgs[i] \subseteq Below[c]

MessagesSound ==
    \A c \in Node : /\ draft[c] \subseteq Below[c]
                    /\ \A k \in ConnIdx : SockSound(c, sock[c][k])

RoutesInv == TypeOK /\ RoutesLeadDown /\ MessagesSound

\* RoutesLeadDown, table by table.
LEMMA RoutesAreTables == RoutesLeadDown <=> \A p \in Node : TableSound(p, table[p])
BY DEF RoutesLeadDown, TableSound, Registered

\* A connection with one more message, or with its first ones taken off.
LEMMA AppendSock ==
    ASSUME NEW c \in Node, NEW s \in Socks, SockSound(c, s), NEW kids \in SUBSET Below[c]
    PROVE  LET t == [s EXCEPT !.msgs = Append(s.msgs, kids)]
           IN  t \in Socks /\ SockSound(c, t) /\ t.fd = s.fd /\ t.end = s.end
<1>1. kids \in SUBSET Node /\ s.msgs \in Seq(SUBSET Node)
  BY TreeAssumption DEF Socks
<1> DEFINE q == Append(s.msgs, kids)
<1>2. /\ q \in Seq(SUBSET Node)
      /\ Len(q) = Len(s.msgs) + 1
      /\ \A i \in 1..Len(s.msgs) : q[i] = s.msgs[i]
      /\ q[Len(q)] = kids
  BY <1>1, AppendProperties
<1>3. \A i \in 1..Len(q) : q[i] \subseteq Below[c]
  BY <1>1, <1>2 DEF SockSound
<1> HIDE DEF q
<1> QED
  BY <1>2, <1>3 DEF Socks, SockSound

\* A recv that takes n messages leaves sound ones behind.
LEMMA TakeSock ==
    ASSUME NEW c \in Node, NEW s \in Socks, SockSound(c, s), NEW n \in 1..Len(s.msgs)
    PROVE  LET t == [s EXCEPT !.msgs = SubSeq(s.msgs, n + 1, Len(s.msgs))]
           IN  t \in Socks /\ SockSound(c, t) /\ t.fd = s.fd /\ t.end = s.end
<1>1. s.msgs \in Seq(SUBSET Node) /\ Len(s.msgs) \in Nat
  BY DEF Socks
<1> DEFINE q == SubSeq(s.msgs, n + 1, Len(s.msgs))
<1>2. /\ q \in Seq(SUBSET Node)
      /\ \A i \in 1..Len(q) : i + n \in 1..Len(s.msgs) /\ q[i] = s.msgs[i + n]
  BY <1>1, SubSeqProperties
<1>3. \A i \in 1..Len(q) : q[i] \subseteq Below[c]
  BY <1>2 DEF SockSound
<1>4. [s EXCEPT !.msgs = SubSeq(s.msgs, n + 1, Len(s.msgs))] = [s EXCEPT !.msgs = q]
  OBVIOUS
<1> HIDE DEF q
<1>5. LET t == [s EXCEPT !.msgs = q]
      IN  t \in Socks /\ SockSound(c, t) /\ t.fd = s.fd /\ t.end = s.end
  BY <1>2, <1>3 DEF Socks, SockSound
<1> QED
  BY <1>4, <1>5, Zenon

\* Sending keeps the connections sound and touches no fd and no end.
LEMMA SentFacts ==
    ASSUME TypeOK, NEW ss \in SockTable, NEW c \in Node, NEW kids \in SUBSET Below[c],
           \A d \in Node, j \in ConnIdx : SockSound(d, ss[d][j])
    PROVE  /\ Sent(ss, c, kids) \in SockTable
           /\ \A d \in Node, j \in ConnIdx :
                 /\ SockSound(d, Sent(ss, c, kids)[d][j])
                 /\ Sent(ss, c, kids)[d][j].fd = ss[d][j].fd
                 /\ Sent(ss, c, kids)[d][j].end = ss[d][j].end
<1>1. CASE mState[c] = "CONNECTED" /\ Alive(c)
  <2> DEFINE k == conns[c]
             s == ss[c][k]
             t == [s EXCEPT !.msgs = Append(s.msgs, kids)]
  <2>1. k \in ConnIdx
    BY <1>1, RegistryAssumption DEF Alive, TypeOK, ConnIdx
  <2>2. s \in Socks
    BY <2>1 DEF SockTable
  <2>3. t \in Socks /\ SockSound(c, t) /\ t.fd = s.fd /\ t.end = s.end
    BY <2>1, <2>2, AppendSock
  <2>4. Sent(ss, c, kids) = Put(ss, c, k, t)
    BY <1>1 DEF Sent
  <2> HIDE DEF t, k
  <2> QED
    BY <2>1, <2>3, <2>4, PutFacts
<1>2. CASE ~(mState[c] = "CONNECTED" /\ Alive(c))
  BY <1>2 DEF Sent
<1> QED
  BY <1>1, <1>2

\* A REGISTER lists matrices below its sender.
LEMMA BuildRegisterFacts ==
    ASSUME NEW p \in Node, NEW tab \in [Node -> Entries], TableSound(p, tab)
    PROVE  BuildRegister(tab) \in SUBSET Below[p]
<1>1. ASSUME NEW c \in Node, tab[c] # NoEntry
      PROVE  {c} \cup tab[c].kids \subseteq Below[p]
  BY <1>1, TreeAssumption DEF TableSound
<1>2. \A c \in Node : tab[c] = NoEntry => tab[c].kids = {}
  BY DEF NoEntry
<1> QED
  BY <1>1, <1>2 DEF BuildRegister

\* onRegister keeps the map sound.
LEMMA RegisterFacts ==
    ASSUME NEW p \in Node, NEW tab \in [Node -> Entries], TableSound(p, tab),
           NEW c \in Children(p), NEW f \in Fd, NEW kids \in SUBSET Below[c],
           NEW left \in SUBSET tab[c].kids
    PROVE  /\ Register(tab, c, f, kids, left) \in [Node -> Entries]
           /\ TableSound(p, Register(tab, c, f, kids, left))
<1>1. c \in Node /\ kids \in SUBSET Node
  BY TreeAssumption DEF Children
<1>2. tab[c] \in Entries
  BY <1>1
<1> DEFINE e == IF tab[c] = NoEntry THEN [fd |-> f, kids |-> kids]
                                    ELSE [tab[c] EXCEPT !.kids = kids \cup left]
<1>3. e \in Entries
  BY <1>1, <1>2 DEF Entries
<1>4. e.kids \subseteq Below[c]
  <2>1. CASE tab[c] = NoEntry
    BY <2>1
  <2>2. CASE tab[c] # NoEntry
    BY <2>2, <1>1, <1>2 DEF TableSound, Entries
  <2> QED BY <2>1, <2>2
<1>5. Register(tab, c, f, kids, left) = [tab EXCEPT ![c] = e]
  BY DEF Register
<1> HIDE DEF e
<1> QED
  BY <1>1, <1>3, <1>4, <1>5 DEF TableSound

\* onRegister touches one entry; a new entry gets the fd, an old one keeps its.
LEMMA RegisterFds ==
    ASSUME NEW tab \in [Node -> Entries], NEW c \in Node, NEW f, NEW kids, NEW left
    PROVE  LET new == Register(tab, c, f, kids, left)
           IN  /\ \A d \in Node : d # c => new[d] = tab[d]
               /\ tab[c] = NoEntry => new[c].fd = f
               /\ tab[c] # NoEntry => new[c].fd = tab[c].fd
<1>1. tab[c] \in Entries
  OBVIOUS
<1> QED
  BY <1>1 DEF Register, Entries

\* The connections as onRegister leaves them.
LEMMA OnRegisterFacts ==
    ASSUME RoutesInv, NEW c \in Sub, NEW k \in ConnIdx,
           NEW left \in SUBSET table[Parent[c]][c].kids,
           NEW n \in 1..Len(sock[c][k].msgs), OnRegister(c, k, left, n)
    PROVE  LET p == Parent[c]
               kids == Head(sock[c][k].msgs)
           IN  /\ p \in Node /\ c \in Children(p)
               /\ sock[c][k].fd \in Fd
               /\ kids \in SUBSET Below[c]
               /\ table' = [table EXCEPT ![p] = Register(table[p], c, sock[c][k].fd, kids, left)]
               /\ sock' \in SockTable
               /\ \A d \in Node, j \in ConnIdx :
                     /\ SockSound(d, sock'[d][j])
                     /\ sock'[d][j].fd = sock[d][j].fd
                     /\ sock'[d][j].end = sock[d][j].end
<1> DEFINE p == Parent[c]
           s == sock[c][k]
           kids == Head(s.msgs)
           tab == Register(table[p], c, s.fd, kids, left)
           t == [s EXCEPT !.msgs = SubSeq(s.msgs, n + 1, Len(s.msgs))]
           taken == Put(sock, c, k, t)
<1>1. p \in Node /\ c \in Children(p) /\ c \in Node
  BY TreeAssumption DEF Sub, Children
<1>2. /\ sock \in SockTable /\ s \in Socks
      /\ \A d \in Node, j \in ConnIdx : SockSound(d, sock[d][j])
  BY <1>1 DEF RoutesInv, TypeOK, MessagesSound, SockTable
<1>3. s.fd \in Fd /\ s.msgs # <<>>
  BY <1>2 DEF OnRegister, Socks
<1>4. kids \in SUBSET Below[c]
  <2>1. s.msgs \in Seq(SUBSET Node) /\ SockSound(c, s)
    BY <1>1, <1>2 DEF Socks
  <2>2. kids = s.msgs[1] /\ 1 \in 1..Len(s.msgs)
    BY <1>3, <2>1
  <2> QED BY <2>1, <2>2 DEF SockSound
<1>5. /\ tab \in [Node -> Entries]
      /\ TableSound(p, tab)
  <2>1. table[p] \in [Node -> Entries] /\ TableSound(p, table[p])
    BY <1>1, RoutesAreTables DEF RoutesInv, TypeOK
  <2> QED BY <1>1, <1>3, <1>4, <2>1, RegisterFacts
<1>6. t \in Socks /\ SockSound(c, t) /\ t.fd = s.fd /\ t.end = s.end
  BY <1>1, <1>2, TakeSock
<1>7. /\ taken \in SockTable
      /\ \A d \in Node, j \in ConnIdx :
            /\ SockSound(d, taken[d][j])
            /\ taken[d][j].fd = sock[d][j].fd
            /\ taken[d][j].end = sock[d][j].end
  <2> HIDE DEF t
  <2>1. /\ taken \in SockTable
        /\ taken[c][k] = t
        /\ \A d \in Node, j \in ConnIdx : d # c \/ j # k => taken[d][j] = sock[d][j]
    BY <1>1, <1>2, <1>6, PutFacts
  <2> HIDE DEF taken
  <2> QED BY <1>2, <1>6, <2>1
<1>8. /\ table' = [table EXCEPT ![p] = tab]
      /\ sock' = IF p \in Sub /\ isConnected[p] THEN Sent(taken, p, BuildRegister(tab))
                                                ELSE taken
  BY DEF OnRegister
<1>9. BuildRegister(tab) \in SUBSET Below[p]
  BY <1>1, <1>5, BuildRegisterFacts
<1> HIDE DEF taken, tab
<1>10. /\ sock' \in SockTable
       /\ \A d \in Node, j \in ConnIdx :
            /\ SockSound(d, sock'[d][j])
            /\ sock'[d][j].fd = sock[d][j].fd
            /\ sock'[d][j].end = sock[d][j].end
  <2>1. CASE p \in Sub /\ isConnected[p]
    BY <2>1, <1>1, <1>7, <1>8, <1>9, SentFacts DEF RoutesInv
  <2>2. CASE ~(p \in Sub /\ isConnected[p])
    BY <2>2, <1>7, <1>8
  <2> QED BY <2>1, <2>2
<1> QED
  BY <1>1, <1>3, <1>4, <1>8, <1>10 DEF tab

\* Every step keeps the tables and the messages sound.
LEMMA RoutesStep ==
    ASSUME RoutesInv, [Next]_vars
    PROVE  RoutesInv'
<1> USE DEF RoutesInv
<1>1. /\ sock \in SockTable
      /\ \A d \in Node, j \in ConnIdx : sock[d][j] \in Socks /\ SockSound(d, sock[d][j])
      /\ \A p \in Node : table[p] \in [Node -> Entries] /\ TableSound(p, table[p])
  BY RoutesAreTables DEF TypeOK, MessagesSound, SockTable
<1>2. NoSock \in Socks /\ \A c \in Node : SockSound(c, NoSock)
  BY DEF NoSock, Socks, SockSound
<1>3. Sub \subseteq Node
  BY DEF Sub
<1>4. EmptyTable \in [Node -> Entries] /\ \A p \in Node : TableSound(p, EmptyTable)
  BY DEF EmptyTable, Entries, NoEntry, TableSound
\* A step that replaces one connection and leaves the tables and drafts alone.
<1>5. ASSUME NEW c \in Node, NEW k \in ConnIdx, NEW s \in Socks, SockSound(c, s),
             sock' = Put(sock, c, k, s)
      PROVE  sock' \in SockTable /\ \A d \in Node, j \in ConnIdx : SockSound(d, sock'[d][j])
  <2>1. /\ sock' \in SockTable
        /\ sock'[c][k] = s
        /\ \A d \in Node, j \in ConnIdx : d # c \/ j # k => sock'[d][j] = sock[d][j]
    BY <1>1, <1>5, PutFacts
  <2> QED BY <1>1, <1>5, <2>1
<1>6. ASSUME NEW n \in Node, Boot(n) PROVE RoutesInv'
  BY <1>6 DEF Boot, TypeOK, RoutesLeadDown, Registered, MessagesSound
<1>7. ASSUME NEW n \in Node, Die(n) PROVE RoutesInv'
  <2>1. ASSUME NEW d \in Node, NEW j \in ConnIdx
        PROVE  sock'[d][j] \in Socks /\ SockSound(d, sock'[d][j])
    <3>1. \/ sock'[d][j] = [sock[d][j] EXCEPT !.end = "fin"]
          \/ sock'[d][j] = NoSock
          \/ sock'[d][j] = sock[d][j]
      BY <1>7 DEF Die
    <3>2. /\ [sock[d][j] EXCEPT !.end = "fin"] \in Socks
          /\ SockSound(d, [sock[d][j] EXCEPT !.end = "fin"])
      BY <1>1 DEF Socks, SockSound
    <3> QED BY <3>1, <3>2, <1>1, <1>2
  <2>2. sock' \in SockTable
    BY <1>7, <2>1 DEF Die, SockTable
  <2>3. \A p \in Node : table'[p] \in [Node -> Entries] /\ TableSound(p, table'[p])
    BY <1>1, <1>4, <1>7 DEF Die, TypeOK
  <2>4. RoutesLeadDown'
    BY <2>3 DEF RoutesLeadDown, TableSound, Registered
  <2>5. TypeOK'
    <3>1. table' \in [Node -> [Node -> Entries]]
      BY <1>7, <1>4 DEF Die, TypeOK
    <3>2. faults' \in 0..MaxFault
      BY <1>7, RegistryAssumption DEF Die, TypeOK
    <3> QED BY <1>7, <2>2, <3>1, <3>2 DEF Die, TypeOK, SockTable
  <2>6. MessagesSound'
    BY <1>7, <2>1 DEF Die, MessagesSound, TypeOK
  <2> QED BY <2>4, <2>5, <2>6
<1>8. ASSUME NEW c \in Sub, StartReturns(c) PROVE RoutesInv'
  BY <1>8, <1>3 DEF StartReturns, TypeOK, RoutesLeadDown, Registered, MessagesSound
<1>9. ASSUME NEW c \in Sub, Connect(c) PROVE RoutesInv'
  <2>1. conns[c] + 1 \in ConnIdx
    BY <1>9, <1>3, RegistryAssumption DEF Connect, TypeOK, ConnIdx
  <2>2. NewSock \in Socks /\ SockSound(c, NewSock)
    BY DEF NewSock, Socks, SockSound
  <2>3. sock' \in SockTable /\ \A d \in Node, j \in ConnIdx : SockSound(d, sock'[d][j])
    BY <1>3, <1>5, <1>9, <2>1, <2>2 DEF Connect
  <2>4. conns' \in [Node -> 0..MaxConn]
    <3>1. conns[c] + 1 \in 0..MaxConn
      BY <2>1 DEF ConnIdx
    <3> QED BY <1>9, <3>1 DEF Connect, TypeOK
  <2> QED
    BY <1>9, <2>3, <2>4
       DEF Connect, TypeOK, SockTable, RoutesLeadDown, Registered, MessagesSound
<1>10. ASSUME NEW c \in Sub, OnClientConnected(c) PROVE RoutesInv'
  <2>1. BuildRegister(table[c]) \in SUBSET Below[c] /\ Below[c] \in SUBSET Node
    BY <1>1, <1>3, BuildRegisterFacts, TreeAssumption
  <2> QED
    BY <1>3, <1>10, <2>1
       DEF OnClientConnected, TypeOK, RoutesLeadDown, Registered, MessagesSound
<1>11. ASSUME NEW c \in Sub, SendRegister(c) PROVE RoutesInv'
  <2>1. sock' \in SockTable /\ \A d \in Node, j \in ConnIdx : SockSound(d, sock'[d][j])
    <3>1. draft[c] \in SUBSET Below[c]
      BY <1>3 DEF MessagesSound
    <3> QED BY <1>1, <1>3, <1>11, <3>1, SentFacts DEF SendRegister
  <2> QED
    BY <1>11, <2>1
       DEF SendRegister, TypeOK, SockTable, RoutesLeadDown, Registered, MessagesSound
<1>12. ASSUME NEW c \in Sub, ForgetConnection(c) \/ OnClientDisconnected(c) PROVE RoutesInv'
  <2>1. CASE ForgetConnection(c)
    BY <2>1, <1>3 DEF ForgetConnection, TypeOK, RoutesLeadDown, Registered, MessagesSound
  <2>2. CASE OnClientDisconnected(c)
    BY <2>2, <1>3 DEF OnClientDisconnected, TypeOK, RoutesLeadDown, Registered, MessagesSound
  <2> QED BY <1>12, <2>1, <2>2
<1>13. ASSUME NEW c \in Sub, NEW k \in ConnIdx, NEW f \in Fd, OnNewConnection(c, k, f)
       PROVE  RoutesInv'
  <2>1. /\ [sock[c][k] EXCEPT !.fd = f] \in Socks
        /\ SockSound(c, [sock[c][k] EXCEPT !.fd = f])
    BY <1>1, <1>3 DEF Socks, SockSound
  <2>2. sock' \in SockTable /\ \A d \in Node, j \in ConnIdx : SockSound(d, sock'[d][j])
    BY <1>3, <1>5, <1>13, <2>1 DEF OnNewConnection
  <2> QED
    BY <1>13, <2>2
       DEF OnNewConnection, client, TypeOK, SockTable, RoutesLeadDown, Registered, MessagesSound
<1>14. ASSUME NEW c \in Sub, NEW k \in ConnIdx, NEW left \in SUBSET table[Parent[c]][c].kids,
              NEW n \in 1..Len(sock[c][k].msgs), OnRegister(c, k, left, n)
       PROVE  RoutesInv'
  <2> DEFINE p == Parent[c]
             kids == Head(sock[c][k].msgs)
             tab == Register(table[p], c, sock[c][k].fd, kids, left)
  <2>1. /\ p \in Node /\ c \in Children(p)
        /\ sock[c][k].fd \in Fd
        /\ kids \in SUBSET Below[c]
        /\ table' = [table EXCEPT ![p] = tab]
        /\ sock' \in SockTable
        /\ \A d \in Node, j \in ConnIdx : SockSound(d, sock'[d][j])
    BY <1>14, OnRegisterFacts
  <2>2. tab \in [Node -> Entries] /\ TableSound(p, tab)
    BY <1>1, <2>1, RegisterFacts
  <2> HIDE DEF tab, p
  <2>3. /\ table' \in [Node -> [Node -> Entries]]
        /\ \A q \in Node : TableSound(q, table'[q])
    BY <1>1, <2>1, <2>2 DEF TypeOK
  <2>4. RoutesLeadDown'
    BY <2>3 DEF RoutesLeadDown, TableSound, Registered
  <2>5. TypeOK'
    BY <1>14, <2>1, <2>3 DEF OnRegister, client, TypeOK, SockTable
  <2>6. MessagesSound'
    BY <1>14, <2>1 DEF OnRegister, client, MessagesSound
  <2> QED BY <2>4, <2>5, <2>6
<1>15. ASSUME NEW c \in Sub, NEW k \in ConnIdx, NEW gone, OnDisconnect(c, k, gone)
       PROVE  RoutesInv'
  <2> DEFINE p == Parent[c]
             tab == [d \in Node |-> IF d \in gone THEN NoEntry ELSE table[p][d]]
  <2>1. sock' \in SockTable /\ \A d \in Node, j \in ConnIdx : SockSound(d, sock'[d][j])
    BY <1>2, <1>3, <1>5, <1>15 DEF OnDisconnect
  <2>2. p \in Node
    BY TreeAssumption DEF Sub
  <2>3. tab \in [Node -> Entries] /\ TableSound(p, tab)
    <3>1. NoEntry \in Entries
      BY DEF NoEntry, Entries
    <3> QED BY <1>1, <2>2, <3>1 DEF TableSound
  <2>4. table' = [table EXCEPT ![p] = tab]
    BY <1>15 DEF OnDisconnect
  <2> HIDE DEF tab, p
  <2>5. /\ table' \in [Node -> [Node -> Entries]]
        /\ \A q \in Node : TableSound(q, table'[q])
    BY <1>1, <2>2, <2>3, <2>4 DEF TypeOK
  <2>6. RoutesLeadDown'
    BY <2>5 DEF RoutesLeadDown, TableSound, Registered
  <2>7. TypeOK'
    BY <1>15, <2>1, <2>5 DEF OnDisconnect, client, TypeOK, SockTable
  <2>8. MessagesSound'
    BY <1>15, <2>1 DEF OnDisconnect, client, MessagesSound
  <2> QED BY <2>6, <2>7, <2>8
<1>16. ASSUME NEW c \in Sub, NEW k \in ConnIdx, OnExcept(c, k) PROVE RoutesInv'
  <2>1. sock' \in SockTable /\ \A d \in Node, j \in ConnIdx : SockSound(d, sock'[d][j])
    BY <1>2, <1>3, <1>5, <1>16 DEF OnExcept
  <2> QED
    BY <1>16, <2>1
       DEF OnExcept, client, TypeOK, SockTable, RoutesLeadDown, Registered, MessagesSound
<1>17. ASSUME NEW c \in Sub, NEW k \in ConnIdx, Abort(c, k) PROVE RoutesInv'
  <2>1. /\ [sock[c][k] EXCEPT !.end = "rst"] \in Socks
        /\ SockSound(c, [sock[c][k] EXCEPT !.end = "rst"])
    BY <1>1, <1>3 DEF Socks, SockSound
  <2>2. sock' \in SockTable /\ \A d \in Node, j \in ConnIdx : SockSound(d, sock'[d][j])
    BY <1>3, <1>5, <1>17, <2>1 DEF Abort
  <2>3. faults' \in 0..MaxFault
    BY <1>17, RegistryAssumption DEF Abort, TypeOK
  <2> QED
    BY <1>17, <2>2, <2>3
       DEF Abort, client, TypeOK, SockTable, RoutesLeadDown, Registered, MessagesSound
<1>18. CASE UNCHANGED vars
  BY <1>18 DEF vars, TypeOK, RoutesLeadDown, Registered, MessagesSound
<1> QED
  BY <1>6, <1>7, <1>8, <1>9, <1>10, <1>11, <1>12, <1>13, <1>14, <1>15, <1>16, <1>17, <1>18
     DEF Next, ClientStep, ServerStep

\* Before anything is registered there is nothing to lead astray.
LEMMA RoutesInit == Init => RoutesInv
<1> SUFFICES ASSUME Init PROVE RoutesInv
  OBVIOUS
<1>1. NoSock \in Socks /\ \A c \in Node : SockSound(c, NoSock)
  BY DEF NoSock, Socks, SockSound
<1>2. EmptyTable \in [Node -> Entries] /\ \A p \in Node : TableSound(p, EmptyTable)
  BY DEF EmptyTable, Entries, NoEntry, TableSound
<1>3. TypeOK
  BY <1>1, <1>2, RegistryAssumption DEF Init, TypeOK
<1>4. RoutesLeadDown
  BY <1>2, RoutesAreTables DEF Init
<1>5. MessagesSound
  BY <1>1 DEF Init, MessagesSound
<1> QED
  BY <1>3, <1>4, <1>5 DEF RoutesInv

\* Through any sequence of REGISTERs, deaths, restarts and resets, the tables
\* and the REGISTERs on the way only name matrices below the ones they are
\* about: onRegister and buildRegister keep each other honest.
THEOREM RoutesInvariant == Spec => []RoutesInv
BY RoutesInit, RoutesStep, PTL DEF Spec

\* Type correctness: however the processes die, restart and reconnect, tables,
\* connections and threads stay well formed.
THEOREM RegistryTypeCorrect == Spec => []TypeOK
BY RoutesInvariant, PTL DEF RoutesInv

\* For every tree and with any faults, resets and late starts included,
\* matchMatrix never leads a request out of the subtree of its destination's
\* ancestors.
THEOREM RoutesLeadDownHolds == Spec => []RoutesLeadDown
BY RoutesInvariant, PTL DEF RoutesInv
-----------------------------------------------------------------------------
(***************************************************************************)
(* Whose connection an entry's fd is.  Without resets an fd is closed only *)
(* after the entry that names it is gone; since open fds are distinct, the *)
(* end of file of one child touches no entry of another.                   *)
(***************************************************************************)
Open(c, k) == sock[c][k].end # "none" /\ sock[c][k].fd # NoFd

FdsDistinct ==
    \A c, d \in Node : \A j, k \in ConnIdx :
        (Parent[c] = Parent[d] /\ Open(c, k) /\ Open(d, j) /\ sock[c][k].fd = sock[d][j].fd)
            => c = d /\ k = j

\* Only closed connections have no fd although they had one, and no
\* connection has been reset.
CleanSocks ==
    \A c \in Node, k \in ConnIdx :
        /\ sock[c][k].end # "rst"
        /\ sock[c][k].end = "none" => sock[c][k].fd = NoFd

EntriesHaveFds == \A p \in Node : \A c \in Registered(p) : table[p][c].fd # NoFd

\* A connection not opened yet is not there.
FreshSocks == \A c \in Node, k \in ConnIdx : k > conns[c] => sock[c][k].end = "none"

FdInv == EntryFdIsChilds /\ FdsDistinct /\ CleanSocks /\ EntriesHaveFds /\ FreshSocks

\* Under FdInv only c's own entry can name the fd of a connection of c.
LEMMA OnlyOwnEntry ==
    ASSUME RoutesInv, FdInv, NEW c \in Sub, NEW k \in ConnIdx, Open(c, k),
           NEW d \in Registered(Parent[c]), table[Parent[c]][d].fd = sock[c][k].fd
    PROVE  d = c
<1>1. Parent[c] \in Node /\ d \in Node /\ c \in Node
  BY TreeAssumption DEF Sub, Registered
<1>2. d \in Children(Parent[c])
  BY <1>1 DEF RoutesInv, RoutesLeadDown
<1>3. PICK j \in ConnIdx : sock[d][j].end # "none" /\ sock[d][j].fd = table[Parent[c]][d].fd
  BY <1>1 DEF FdInv, EntryFdIsChilds
<1>4. Open(d, j)
  BY <1>3 DEF Open
<1> QED
  BY <1>1, <1>2, <1>3, <1>4 DEF FdInv, FdsDistinct, Children

\* A step that touches no fd and no end keeps what concerns connections only.
LEMMA SameEnds ==
    ASSUME FdInv, UNCHANGED conns,
           \A d \in Node, j \in ConnIdx : /\ sock'[d][j].fd = sock[d][j].fd
                                          /\ sock'[d][j].end = sock[d][j].end
    PROVE  FdsDistinct' /\ CleanSocks' /\ FreshSocks'
<1>1. \A d \in Node, j \in ConnIdx : Open(d, j)' <=> Open(d, j)
  BY DEF Open
<1>2. FdsDistinct'
  BY <1>1 DEF FdInv, FdsDistinct
<1> QED
  BY <1>2 DEF FdInv, CleanSocks, FreshSocks

\* Without resets every step keeps FdInv.
LEMMA FdStep ==
    ASSUME ~Aborts, RoutesInv, FdInv, [Next]_vars
    PROVE  FdInv'
<1>1. Sub \subseteq Node
  BY DEF Sub
<1>2. sock \in SockTable /\ \A d \in Node, j \in ConnIdx : sock[d][j] \in Socks
  BY DEF RoutesInv, TypeOK, SockTable
<1>3. CASE UNCHANGED <<sock, table, conns>>
  BY <1>3 DEF FdInv, EntryFdIsChilds, FdsDistinct, CleanSocks, EntriesHaveFds, FreshSocks,
              Registered, Open
<1>4. ASSUME NEW n \in Node, Die(n) PROVE FdInv'
  <2>1. ASSUME NEW d \in Node, NEW j \in ConnIdx
        PROVE  /\ Parent[d] # n => /\ sock'[d][j].fd = sock[d][j].fd
                                   /\ sock'[d][j].end = "none" <=> sock[d][j].end = "none"
                                   /\ sock'[d][j].end = "rst" <=> sock[d][j].end = "rst"
               /\ Parent[d] = n => \/ sock'[d][j].fd = NoFd /\ sock'[d][j].end = "none"
                                   \/ /\ sock'[d][j].fd = sock[d][j].fd
                                      /\ sock'[d][j].end = "fin" /\ sock[d][j].end = "live"
    <3>1. sock'[d][j] = CASE d = n /\ sock[d][j].end = "live" -> [sock[d][j] EXCEPT !.end = "fin"]
                          [] Parent[d] = n -> NoSock
                          [] OTHER -> sock[d][j]
      BY <1>4 DEF Die
    <3>2. /\ [sock[d][j] EXCEPT !.end = "fin"].fd = sock[d][j].fd
          /\ [sock[d][j] EXCEPT !.end = "fin"].end = "fin"
      BY <1>2 DEF Socks
    <3>3. NoSock.fd = NoFd /\ NoSock.end = "none"
      BY DEF NoSock
    <3> QED BY <3>1, <3>2, <3>3
  <2>2. \A d \in Node, j \in ConnIdx : Open(d, j)' => Open(d, j) /\ sock'[d][j].fd = sock[d][j].fd
    BY <2>1 DEF Open
  <2>3. FdsDistinct'
    BY <2>2 DEF FdInv, FdsDistinct
  <2>4. CleanSocks'
    BY <2>1 DEF FdInv, CleanSocks
  <2>5. FreshSocks'
    BY <1>4, <2>1 DEF FdInv, FreshSocks, Die
  <2>6. ASSUME NEW p \in Node, NEW c \in Registered(p)'
        PROVE  p # n /\ c \in Registered(p) /\ table'[p][c] = table[p][c] /\ c \in Children(p)
    <3>1. p # n
      BY <1>4, <2>6 DEF Die, Registered, EmptyTable, RoutesInv, TypeOK
    <3>2. table'[p] = table[p]
      BY <1>4, <3>1 DEF Die, RoutesInv, TypeOK
    <3> QED BY <2>6, <3>1, <3>2 DEF Registered, RoutesInv, RoutesLeadDown
  <2>7. EntriesHaveFds'
    BY <2>6 DEF FdInv, EntriesHaveFds
  <2>8. EntryFdIsChilds'
    <3>1. ASSUME NEW p \in Node, NEW c \in Registered(p)'
          PROVE  \E k \in ConnIdx : sock'[c][k].end # "none" /\ sock'[c][k].fd = table'[p][c].fd
      <4>1. PICK k \in ConnIdx : sock[c][k].end # "none" /\ sock[c][k].fd = table[p][c].fd
        BY <2>6, <3>1 DEF FdInv, EntryFdIsChilds
      <4>2. c \in Node /\ Parent[c] # n
        BY <2>6, <3>1 DEF Children
      <4> QED BY <2>1, <2>6, <4>1, <4>2
    <3> QED BY <3>1 DEF EntryFdIsChilds
  <2> QED BY <2>3, <2>4, <2>5, <2>7, <2>8 DEF FdInv
<1>5. ASSUME NEW c \in Sub, Connect(c) PROVE FdInv'
  <2> DEFINE m == conns[c] + 1
  <2>1. m \in ConnIdx /\ conns[c] \in Nat
    BY <1>1, <1>5, RegistryAssumption DEF Connect, RoutesInv, TypeOK, ConnIdx
  <2>2. sock[c][m].end = "none"
    BY <1>1, <2>1 DEF FdInv, FreshSocks
  <2>3. /\ sock'[c][m] = NewSock
        /\ \A d \in Node, j \in ConnIdx : d # c \/ j # m => sock'[d][j] = sock[d][j]
    <3>1. NewSock \in Socks
      BY DEF NewSock, Socks
    <3> QED BY <1>1, <1>2, <1>5, <2>1, <3>1, PutFacts DEF Connect
  <2>4. NewSock.fd = NoFd /\ NewSock.end = "live"
    BY DEF NewSock
  <2> HIDE DEF m
  <2>5. \A d \in Node, j \in ConnIdx : Open(d, j)' => Open(d, j) /\ sock'[d][j].fd = sock[d][j].fd
    BY <2>3, <2>4 DEF Open
  <2>6. FdsDistinct'
    BY <2>5 DEF FdInv, FdsDistinct
  <2>7. CleanSocks'
    BY <2>3, <2>4 DEF FdInv, CleanSocks
  <2>8. FreshSocks'
    <3>1. ASSUME NEW d \in Node, NEW j \in ConnIdx, j > conns'[d]
          PROVE  (d # c \/ j # m) /\ j > conns[d]
      BY <1>1, <1>5, <2>1, <3>1, RegistryAssumption
         DEF Connect, RoutesInv, TypeOK, ConnIdx, m
    <3> QED BY <2>3, <3>1 DEF FdInv, FreshSocks
  <2>9. UNCHANGED table
    BY <1>5 DEF Connect
  <2>10. EntriesHaveFds'
    BY <2>9 DEF FdInv, EntriesHaveFds, Registered
  <2>11. EntryFdIsChilds'
    <3>1. ASSUME NEW p \in Node, NEW d \in Registered(p), NEW k \in ConnIdx,
                 sock[d][k].end # "none", sock[d][k].fd = table[p][d].fd
          PROVE  sock'[d][k] = sock[d][k]
      BY <2>2, <2>3, <3>1 DEF Registered
    <3> QED BY <2>9, <3>1 DEF FdInv, EntryFdIsChilds, Registered
  <2> QED BY <2>6, <2>7, <2>8, <2>10, <2>11 DEF FdInv
<1>6. ASSUME NEW c \in Sub, SendRegister(c) PROVE FdInv'
  <2>1. \A d \in Node, j \in ConnIdx : /\ sock'[d][j].fd = sock[d][j].fd
                                       /\ sock'[d][j].end = sock[d][j].end
    <3>1. /\ draft[c] \in SUBSET Below[c] /\ TypeOK
          /\ \A d \in Node, j \in ConnIdx : SockSound(d, sock[d][j])
      BY <1>1 DEF RoutesInv, MessagesSound
    <3> QED BY <1>1, <1>2, <1>6, <3>1, SentFacts DEF SendRegister
  <2>2. UNCHANGED <<table, conns>>
    BY <1>6 DEF SendRegister
  <2>3. EntryFdIsChilds' /\ EntriesHaveFds'
    BY <2>1, <2>2 DEF FdInv, EntryFdIsChilds, EntriesHaveFds, Registered
  <2> QED BY <2>1, <2>2, <2>3, SameEnds DEF FdInv
<1>7. ASSUME NEW c \in Sub, NEW k \in ConnIdx, NEW f \in Fd, OnNewConnection(c, k, f)
      PROVE  FdInv'
  <2> DEFINE s == [sock[c][k] EXCEPT !.fd = f]
  <2>1. s \in Socks /\ s.fd = f /\ s.end = sock[c][k].end
    BY <1>1, <1>2 DEF Socks
  <2>2. sock' = Put(sock, c, k, s)
    BY <1>7 DEF OnNewConnection
  <2> HIDE DEF s
  <2>3. /\ sock'[c][k] = s
        /\ \A d \in Node, j \in ConnIdx : d # c \/ j # k => sock'[d][j] = sock[d][j]
    BY <1>1, <1>2, <2>1, <2>2, PutFacts
  <2>4. /\ sock[c][k].end # "none" /\ sock[c][k].fd = NoFd
        /\ f \notin Used(Parent[c]) /\ UNCHANGED <<table, conns>>
    BY <1>7 DEF OnNewConnection, client
  <2>5. FdsDistinct'
    <3>1. \A d \in Node, j \in ConnIdx : Parent[d] = Parent[c] => sock[d][j].fd # f
      BY <2>4 DEF Used, Children
    <3>2. \A d \in Node, j \in ConnIdx : d # c \/ j # k => (Open(d, j)' <=> Open(d, j))
      BY <2>3 DEF Open
    <3> QED BY <1>1, <2>1, <2>3, <3>1, <3>2 DEF FdInv, FdsDistinct
  <2>6. CleanSocks' /\ FreshSocks'
    BY <1>1, <2>1, <2>3, <2>4 DEF FdInv, CleanSocks, FreshSocks
  <2>7. EntriesHaveFds'
    BY <2>4 DEF FdInv, EntriesHaveFds, Registered
  <2>8. EntryFdIsChilds'
    <3>1. ASSUME NEW p \in Node, NEW d \in Registered(p), NEW j \in ConnIdx,
                 sock[d][j].end # "none", sock[d][j].fd = table[p][d].fd
          PROVE  sock'[d][j] = sock[d][j]
      BY <2>3, <2>4, <3>1 DEF Registered, FdInv, EntriesHaveFds
    <3> QED BY <2>4, <3>1 DEF FdInv, EntryFdIsChilds, Registered
  <2> QED BY <2>5, <2>6, <2>7, <2>8 DEF FdInv
<1>8. ASSUME NEW c \in Sub, NEW k \in ConnIdx, NEW left \in SUBSET table[Parent[c]][c].kids,
             NEW n \in 1..Len(sock[c][k].msgs), OnRegister(c, k, left, n)
      PROVE  FdInv'
  <2> DEFINE p == Parent[c]
             tab == Register(table[p], c, sock[c][k].fd, Head(sock[c][k].msgs), left)
  <2>1. /\ p \in Node /\ c \in Children(p) /\ c \in Node
        /\ sock[c][k].fd \in Fd
        /\ Head(sock[c][k].msgs) \in SUBSET Below[c]
        /\ table' = [table EXCEPT ![p] = tab]
        /\ \A d \in Node, j \in ConnIdx : /\ sock'[d][j].fd = sock[d][j].fd
                                          /\ sock'[d][j].end = sock[d][j].end
    BY <1>1, <1>8, OnRegisterFacts
  <2>2. table[p] \in [Node -> Entries] /\ TableSound(p, table[p])
    BY <2>1, RoutesAreTables DEF RoutesInv, TypeOK
  <2>3. /\ \A d \in Node : d # c => tab[d] = table[p][d]
        /\ table[p][c] = NoEntry => tab[c].fd = sock[c][k].fd
        /\ table[p][c] # NoEntry => tab[c].fd = table[p][c].fd
    <3>1. c \in Node
      BY <2>1
    <3> HIDE DEF p
    <3> QED BY <2>2, <3>1, RegisterFds
  <2>4. /\ sock[c][k].end # "none" /\ sock[c][k].fd # NoFd /\ UNCHANGED conns
    BY <1>8 DEF OnRegister, Ready, client
  <2> HIDE DEF tab, p
  <2>5. /\ table'[p] = tab
        /\ \A q \in Node : q # p => table'[q] = table[q]
    BY <2>1 DEF RoutesInv, TypeOK
  <2>6. ASSUME NEW q \in Node, NEW d \in Registered(q)'
        PROVE  \/ d \in Registered(q) /\ table'[q][d].fd = table[q][d].fd
               \/ q = p /\ d = c /\ table'[q][d].fd = sock[c][k].fd
    BY <2>3, <2>5, <2>6 DEF Registered
  <2>7. EntriesHaveFds'
    BY <2>4, <2>6 DEF FdInv, EntriesHaveFds
  <2>8. EntryFdIsChilds'
    <3>1. ASSUME NEW q \in Node, NEW d \in Registered(q)'
          PROVE  \E j \in ConnIdx : sock'[d][j].end # "none" /\ sock'[d][j].fd = table'[q][d].fd
      <4>1. d \in Node
        BY <3>1 DEF Registered
      <4>2. CASE d \in Registered(q) /\ table'[q][d].fd = table[q][d].fd
        <5>1. PICK j \in ConnIdx : sock[d][j].end # "none" /\ sock[d][j].fd = table[q][d].fd
          BY <4>2 DEF FdInv, EntryFdIsChilds
        <5> QED BY <2>1, <4>1, <4>2, <5>1
      <4>3. CASE q = p /\ d = c /\ table'[q][d].fd = sock[c][k].fd
        BY <2>1, <2>4, <4>3
      <4> QED BY <2>6, <3>1, <4>2, <4>3
    <3> QED BY <3>1 DEF EntryFdIsChilds
  <2> QED BY <2>1, <2>4, <2>7, <2>8, SameEnds DEF FdInv
<1>9. ASSUME NEW c \in Sub, NEW k \in ConnIdx, NEW gone, OnDisconnect(c, k, gone)
      PROVE  FdInv'
  <2> DEFINE p == Parent[c]
             f == sock[c][k].fd
             match == {d \in Registered(p) : table[p][d].fd = f}
  <2>1. /\ f # NoFd /\ sock[c][k].end = "fin" /\ UNCHANGED conns
        /\ gone \subseteq match
        /\ \A d \in match : (\A e \in match : d <= e) => d \in gone
        /\ table' = [table EXCEPT ![p] = [d \in Node |-> IF d \in gone THEN NoEntry
                                                                       ELSE table[p][d]]]
        /\ sock' = Put(sock, c, k, NoSock)
    BY <1>9 DEF OnDisconnect, client
  <2>2. p \in Node /\ c \in Node /\ Open(c, k)
    BY <2>1, TreeAssumption DEF Sub, Open
  <2>3. match \subseteq {c}
    BY <2>2, OnlyOwnEntry
  <2>4. gone = match
    <3>1. c \in match => c <= c
      BY <2>2, RegistryAssumption
    <3> HIDE DEF match
    <3> QED BY <2>1, <2>3, <3>1
  <2>5. NoSock \in Socks /\ NoSock.end = "none" /\ NoSock.fd = NoFd
    BY DEF NoSock, Socks
  <2>6. /\ sock'[c][k] = NoSock
        /\ \A d \in Node, j \in ConnIdx : d # c \/ j # k => sock'[d][j] = sock[d][j]
    <3>1. sock' = Put(sock, c, k, NoSock)
      BY <2>1
    <3>2. c \in Node
      BY <2>2
    <3> QED BY <1>2, <2>5, <3>1, <3>2, PutFacts
  <2>7. ASSUME NEW q \in Node, NEW d \in Registered(q)'
        PROVE  /\ d \in Registered(q) /\ table'[q][d] = table[q][d]
               /\ q = p => table[q][d].fd # f
    BY <2>1, <2>2, <2>4, <2>7 DEF Registered, RoutesInv, TypeOK
  <2> HIDE DEF match
  <2>8. FdsDistinct'
    <3>1. \A d \in Node, j \in ConnIdx : Open(d, j)' => Open(d, j) /\ sock'[d][j].fd = sock[d][j].fd
      BY <2>5, <2>6 DEF Open
    <3> QED BY <3>1 DEF FdInv, FdsDistinct
  <2>9. CleanSocks' /\ FreshSocks'
    BY <2>1, <2>5, <2>6 DEF FdInv, CleanSocks, FreshSocks
  <2>10. EntriesHaveFds'
    BY <2>7 DEF FdInv, EntriesHaveFds
  <2>11. EntryFdIsChilds'
    <3>1. ASSUME NEW q \in Node, NEW d \in Registered(q)'
          PROVE  \E j \in ConnIdx : sock'[d][j].end # "none" /\ sock'[d][j].fd = table'[q][d].fd
      <4>1. PICK j \in ConnIdx : sock[d][j].end # "none" /\ sock[d][j].fd = table[q][d].fd
        BY <2>7, <3>1 DEF FdInv, EntryFdIsChilds
      <4>2. d \in Node /\ d \in Children(q)
        BY <2>7, <3>1 DEF Registered, RoutesInv, RoutesLeadDown
      <4>3. d # c \/ j # k
        BY <2>7, <3>1, <4>1, <4>2 DEF Children
      <4> QED BY <2>6, <2>7, <3>1, <4>1, <4>2, <4>3
    <3> QED BY <3>1 DEF EntryFdIsChilds
  <2> QED BY <2>8, <2>9, <2>10, <2>11 DEF FdInv
<1>10. ASSUME NEW c \in Sub, NEW k \in ConnIdx, OnExcept(c, k) PROVE FALSE
  BY <1>1, <1>10 DEF OnExcept, FdInv, CleanSocks
<1>11. ASSUME NEW c \in Sub, NEW k \in ConnIdx, Abort(c, k) PROVE FALSE
  BY <1>11 DEF Abort
<1>12. ASSUME NEW n \in Node, Boot(n) PROVE FdInv'
  BY <1>3, <1>12 DEF Boot
<1>13. ASSUME NEW c \in Sub,
              StartReturns(c) \/ OnClientConnected(c) \/ ForgetConnection(c)
                              \/ OnClientDisconnected(c)
       PROVE  FdInv'
  BY <1>3, <1>13 DEF StartReturns, OnClientConnected, ForgetConnection, OnClientDisconnected
<1>14. CASE UNCHANGED vars
  BY <1>3, <1>14 DEF vars
<1> QED
  BY <1>4, <1>5, <1>6, <1>7, <1>8, <1>9, <1>10, <1>11, <1>12, <1>13, <1>14
     DEF Next, ClientStep, ServerStep

\* Initially there is no connection and no entry.
LEMMA FdInit == Init => FdInv
<1> SUFFICES ASSUME Init PROVE FdInv
  OBVIOUS
<1>1. \A c \in Node, k \in ConnIdx : sock[c][k].end = "none" /\ sock[c][k].fd = NoFd
  BY DEF Init, NoSock
<1>2. \A p \in Node : Registered(p) = {}
  BY DEF Init, EmptyTable, Registered
<1>3. FdsDistinct
  BY <1>1 DEF FdsDistinct, Open
<1>4. CleanSocks /\ FreshSocks
  BY <1>1 DEF CleanSocks, FreshSocks
<1> QED
  BY <1>2, <1>3, <1>4 DEF FdInv, EntryFdIsChilds, EntriesHaveFds

\* As long as no connection is reset, what a matrix sends to a registered
\* child's fd goes to that child, whatever dies and restarts in between.
THEOREM EntryFdIsChildsHolds ==
    ASSUME ~Aborts
    PROVE  Spec => []EntryFdIsChilds
<1>1. RoutesInv /\ FdInv /\ [Next]_vars => FdInv'
  BY FdStep
<1>2. FdInv => EntryFdIsChilds
  BY DEF FdInv
<1> QED
  BY <1>1, <1>2, FdInit, RoutesInvariant, PTL DEF Spec

\* As long as no connection is reset, a child is unregistered only by the end
\* of file of its own connection.
THEOREM EntryEndsWithConnectionHolds ==
    ASSUME ~Aborts
    PROVE  Spec => EntryEndsWithConnection
<1> DEFINE Ends == \A p \in Node : \A c \in Registered(p) :
                     (up[p] /\ up'[p] /\ table'[p][c] = NoEntry) =>
                         \E k \in ConnIdx : /\ sock[c][k].fd = table[p][c].fd
                                            /\ sock[c][k].end = "fin"
<1>1. RoutesInv /\ FdInv /\ [Next]_vars => FdInv'
  BY FdStep
<1>2. RoutesInv /\ FdInv /\ [Next]_vars => [Ends]_vars
  <2> SUFFICES ASSUME RoutesInv, FdInv, [Next]_vars PROVE Ends \/ UNCHANGED vars
    OBVIOUS
  <2>1. CASE UNCHANGED table
    BY <2>1 DEF Registered
  <2>2. ASSUME NEW n \in Node, Die(n) PROVE Ends
    BY <2>2 DEF Die, Registered, RoutesInv, TypeOK
  <2>3. ASSUME NEW c \in Sub, NEW k \in ConnIdx,
               NEW left \in SUBSET table[Parent[c]][c].kids,
               NEW n \in 1..Len(sock[c][k].msgs), OnRegister(c, k, left, n)
        PROVE  Ends
    <3> DEFINE p == Parent[c]
               tab == Register(table[p], c, sock[c][k].fd, Head(sock[c][k].msgs), left)
    <3>1. /\ p \in Node /\ c \in Children(p)
          /\ sock[c][k].fd \in Fd
          /\ Head(sock[c][k].msgs) \in SUBSET Below[c]
          /\ table' = [table EXCEPT ![p] = tab]
      BY <2>3, OnRegisterFacts
    <3>2. table[p] \in [Node -> Entries] /\ TableSound(p, table[p])
      BY <3>1, RoutesAreTables DEF RoutesInv, TypeOK
    <3>3. /\ \A d \in Node : d # c => tab[d] = table[p][d]
          /\ table[p][c] = NoEntry => tab[c].fd = sock[c][k].fd
          /\ table[p][c] # NoEntry => tab[c].fd = table[p][c].fd
      <4>1. c \in Node
        BY DEF Sub
      <4> HIDE DEF p
      <4> QED BY <3>2, <4>1, RegisterFds
    <3> HIDE DEF tab, p
    <3>4. c \in Registered(p) => table[p][c].fd # NoFd
      BY <3>1 DEF FdInv, EntriesHaveFds
    <3>5. NoEntry.fd = NoFd
      BY DEF NoEntry
    <3>6. ASSUME NEW q \in Node, NEW d \in Registered(q) PROVE table'[q][d] # NoEntry
      <4>1. CASE q # p
        BY <3>1, <3>6, <4>1 DEF Registered, RoutesInv, TypeOK
      <4>2. CASE q = p
        BY <3>1, <3>3, <3>4, <3>5, <3>6, <4>2 DEF Registered, RoutesInv, TypeOK
      <4> QED BY <4>1, <4>2
    <3> QED BY <3>6
  <2>4. ASSUME NEW c \in Sub, NEW k \in ConnIdx, NEW gone, OnDisconnect(c, k, gone)
        PROVE  Ends
    <3> DEFINE p == Parent[c]
    <3>1. /\ sock[c][k].fd # NoFd /\ sock[c][k].end = "fin"
          /\ \A d \in gone : d \in Registered(p) /\ table[p][d].fd = sock[c][k].fd
          /\ table' = [table EXCEPT ![p] = [d \in Node |-> IF d \in gone THEN NoEntry
                                                                         ELSE table[p][d]]]
      BY <2>4 DEF OnDisconnect
    <3>2. Open(c, k)
      BY <3>1 DEF Open
    <3>3. \A d \in gone : d = c
      BY <3>1, <3>2, OnlyOwnEntry
    <3> QED BY <3>1, <3>3 DEF Registered, RoutesInv, TypeOK
  <2>5. ASSUME NEW c \in Sub,
               \/ StartReturns(c) \/ ClientStep(c)
               \/ \E k \in ConnIdx : Abort(c, k) \/ OnExcept(c, k)
                                     \/ \E f \in Fd : OnNewConnection(c, k, f)
        PROVE  UNCHANGED table
    BY <2>5 DEF StartReturns, ClientStep, Connect, OnClientConnected, SendRegister,
                ForgetConnection, OnClientDisconnected, Abort, OnExcept, OnNewConnection
  <2>6. ASSUME NEW n \in Node, Boot(n) PROVE UNCHANGED table
    BY <2>6 DEF Boot
  <2>7. UNCHANGED vars => UNCHANGED table
    BY DEF vars
  <2> QED
    BY <2>1, <2>2, <2>3, <2>4, <2>5, <2>6, <2>7 DEF Next, ServerStep
<1> QED
  BY <1>1, <1>2, FdInit, RoutesInvariant, PTL DEF Spec, EntryEndsWithConnection
=============================================================================
