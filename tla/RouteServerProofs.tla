-------------------------- MODULE RouteServerProofs --------------------------
(***************************************************************************)
(* Proofs about RouteServer, for every number of client processes,         *)
(* workers, descriptors and addresses.                                     *)
(***************************************************************************)
EXTENDS RouteServer, FiniteSetTheorems, WellFoundedInduction, TLAPS

-----------------------------------------------------------------------------
(* The inductive invariant *)

\* A thread that works on a client_t has an address, and a token names a descriptor.
PointersInv ==
    /\ main.at # "wait" => main.obj \in Objs
    /\ \A w \in Workers : worker[w].at # "pop" => worker[w].obj \in Objs
    /\ token \in [Procs -> Fds \cup {NULL}]

\* Nothing of a connection exists before connect(), a child connects after its main
\* connection, and only a main connection talks to do_login.
ClientInv ==
    /\ \A c \in Conns : peer[c] = "off" => /\ cst[c] \in {"connect", "gone"}
                                           /\ c \notin backlog
                                           /\ \A f \in Fds : sock[f] # c
    /\ \A p \in Procs : peer[<<p, "main">>] = "off" => /\ peer[<<p, "child">>] = "off"
                                                       /\ token[p] = NULL
    /\ \A c \in Conns : cst[c] \in {"login", "salt", "passwd"} => c[2] = "main"
    /\ \A c \in Conns : \A k \in DOMAIN inbox[c] : inbox[c][k] = "passwd" => c[2] = "main"

\* A client_t of the table, and one nobody is told about.
Live(o)  == heap[o].live /\ heap[o].fd \in Fds
Quiet(o) == heap[o].fd \notin epoll \cup evs

\* Workers that have something left to do with their client, and those that have
\* freed it.
Busy(w)  == /\ worker[w].at # "pop"
            /\ worker[w].at = "finish" => worker[w].todo # << >>
Freed(w) == /\ worker[w].at = "finish"
            /\ worker[w].todo \in {<<"close", "epoll_add">>, <<"epoll_del", "close", "epoll_add">>}

\* What can be left to do before a freed client_t is used.
TodoInv == \A w \in Workers : worker[w].at = "finish" =>
               worker[w].todo \in {<< >>, Rearm, Leave, Transfer,
                                   <<"del_client", "close", "epoll_add">>,
                                   <<"close", "epoll_add">>, <<"epoll_del", "close", "epoll_add">>}

\* Table, descriptors and events agree.
EntryInv ==
    /\ \A f \in Fds : table[f] # NULL => heap[table[f]].live /\ heap[table[f]].fd = f /\ sock[f] # NULL
    /\ \A o \in Objs : Live(o) => table[heap[o].fd] = o
    /\ \A f \in epoll \cup (evs \cap Fds) : table[f] # NULL

\* Whoever works on a client_t has a live one the event loop does not watch ...
HoldInv ==
    /\ main.at # "wait" => /\ Live(main.obj)
                           /\ heap[main.obj].fd \notin evs
                           /\ main.at = "register" => heap[main.obj].fd \notin epoll
    /\ \A k \in DOMAIN queue : Live(queue[k].obj) /\ Quiet(queue[k].obj)
    /\ \A w \in Workers : Busy(w) => IF Freed(w) THEN ~heap[worker[w].obj].live
                                                 ELSE Live(worker[w].obj) /\ Quiet(worker[w].obj)

\* ... and works on it alone.
AloneInv ==
    /\ main.at # "wait" => /\ \A k \in DOMAIN queue : queue[k].obj # main.obj
                           /\ \A w \in Workers : Busy(w) => worker[w].obj # main.obj
    /\ \A k, l \in DOMAIN queue : queue[k].obj = queue[l].obj => k = l
    /\ \A k \in DOMAIN queue, w \in Workers : Busy(w) => worker[w].obj # queue[k].obj
    /\ \A v, w \in Workers : Busy(v) /\ Busy(w) /\ worker[v].obj = worker[w].obj => v = w

\* Open descriptors without an entry are about to be closed by a worker each.
Orphans   == {f \in Fds : sock[f] # NULL /\ table[f] = NULL}
Closers   == {w \in Workers : Freed(w)}
OrphanInv == Cardinality(Orphans) <= Cardinality(Closers)

\* Whose connection a busy worker serves.
Served(w) == sock[heap[worker[w].obj].fd]

\* The user a login has verified, the descriptor a token names and the client_t a
\* token leads to are those of the process that asked.
IdentityInv ==
    /\ SessionIdentity
    /\ \A w \in Workers : worker[w].at = "init" => worker[w].user = Served(w)[1]
    /\ \A p \in Procs : token[p] # NULL /\ peer[<<p, "main">>] = "open" => sock[token[p]] = <<p, "main">>
    /\ \A w \in Workers :
          /\ worker[w].at = "copy" /\ worker[w].ref # NULL
          /\ peer[<<Served(w)[1], "main">>] = "open"
          /\ heap[worker[w].ref].live
          => /\ heap[worker[w].ref].fd \in Fds
             /\ sock[heap[worker[w].ref].fd] = <<Served(w)[1], "main">>

Base  == TypeOK /\ PointersInv /\ ClientInv
Sound == TodoInv /\ EntryInv /\ HoldInv /\ AloneInv /\ OrphanInv /\ IdentityInv
IInv  == Base /\ (~dangling => Sound)

-----------------------------------------------------------------------------
(* Types *)

States     == {"connect", "login", "salt", "passwd", "verdict", "ready",
               "token", "xfer", "busy", "refused", "gone"}
Calls      == {"epoll_add", "epoll_del", "del_client", "close"}
ClientType == [live : BOOLEAN, fd : Fds \cup {Garbage}, user : Users]
TaskType   == [obj : Objs, cmd : Messages]
MainType   == [at : {"wait", "register", "dispatch"}, obj : Objs \cup {NULL}, cmd : Messages]
WorkerType == [at : {"pop", "handle", "passwd", "init", "copy", "finish"},
               obj : Objs \cup {NULL}, cmd : Messages, ref : Objs \cup {NULL}, user : Users,
               todo : Seq(Calls)]

PeerTypes   == /\ peer \in [Conns -> {"off", "open", "reset", "closed"}]
               /\ cst \in [Conns -> States]
               /\ shorts \in [Conns -> 0..MaxShort]
               /\ backlog \subseteq Conns
               /\ inbox \in [Conns -> Seq(Messages)]
TokenTypes  == token \in [Procs -> Fds \cup {NULL}]
KernelTypes == /\ sock \in [Fds -> Conns \cup {NULL}]
               /\ epoll \subseteq {f \in Fds : sock[f] # NULL}
TableTypes  == /\ heap \in [Objs -> ClientType]
               /\ table \in [Fds -> Objs \cup {NULL}]
LoopTypes   == /\ evs \subseteq Fds \cup {Listen}
               /\ main \in MainType
               /\ main.at # "wait" => main.obj \in Objs
               /\ queue \in Seq(TaskType)
PoolTypes   == /\ worker \in [Workers -> WorkerType]
               /\ \A w \in Workers : worker[w].at # "pop" => worker[w].obj \in Objs
               /\ up \in BOOLEAN
               /\ dangling \in BOOLEAN
Types == PeerTypes /\ TokenTypes /\ KernelTypes /\ TableTypes /\ LoopTypes /\ PoolTypes

LEMMA TypesAre == Types <=> TypeOK /\ PointersInv
BY DEF Types, PeerTypes, TokenTypes, KernelTypes, TableTypes, LoopTypes, PoolTypes, TypeOK, PointersInv,
       States, Calls, ClientType, TaskType, MainType, WorkerType

LEMMA ConnParts ==
    /\ \A c \in Conns : c[1] \in Procs /\ c[2] \in {"main", "child"} /\ c = <<c[1], c[2]>>
    /\ \A p \in Procs : <<p, "main">> \in Conns /\ <<p, "child">> \in Conns
    /\ NULL \notin Conns /\ NULL \notin Procs /\ NULL \notin Objs /\ NULL \notin Fds
BY RouteAssumption DEF Conns, Fds

LEMMA FdFacts == Garbage \notin Fds /\ Listen \notin Fds /\ Fds \subseteq Nat
BY RouteAssumption DEF Fds, Garbage, Listen

LEMMA LeastOf ==
    ASSUME NEW T \in SUBSET Nat, T # {}
    PROVE  \E m \in T : \A n \in T : m <= n
<1>1. \E m \in T : \A n \in T : ~ (<<n, m>> \in OpToRel(<, Nat))
  BY WFMin, NatLessThanWellFounded
<1>2. PICK m \in T : \A n \in T : ~ (<<n, m>> \in OpToRel(<, Nat))
  BY <1>1
<1>3. \A n \in T : ~ (n < m)
  BY <1>2 DEF OpToRel
<1> QED
  BY <1>3

\* accept returns the least free descriptor.
LEMMA FreeFd ==
    ASSUME NEW S \in SUBSET Fds, S # {}
    PROVE  Min(S) \in S
<1>1. \E m \in S : \A n \in S : m <= n
  BY LeastOf, FdFacts
<1> QED
  BY <1>1 DEF Min

\* The worker's record after a step that keeps its task.
Moved(w, a, r, u, t) ==
    /\ \A v \in Workers : v # w => worker'[v] = worker[v]
    /\ worker'[w].at = a /\ worker'[w].obj = worker[w].obj /\ worker'[w].cmd = worker[w].cmd
    /\ worker'[w].ref = r /\ worker'[w].user = u /\ worker'[w].todo = t

LEMMA ReturnsMoves ==
    ASSUME PoolTypes, NEW w \in Workers, worker[w].at # "pop", NEW ops \in Seq(Calls), Returns(w, ops)
    PROVE  /\ Moved(w, "finish", worker[w].ref, worker[w].user, ops)
           /\ worker' \in [Workers -> WorkerType]
           /\ \A v \in Workers : worker'[v].at # "pop" => worker'[v].obj \in Objs
BY DEF PoolTypes, WorkerType, Returns, Moved

LEMMA ListsTyped == Rearm \in Seq(Calls) /\ Leave \in Seq(Calls) /\ Transfer \in Seq(Calls) /\ << >> \in Seq(Calls)
BY DEF Rearm, Leave, Transfer, Calls

\* Answering a client moves it from the state it waits in.
LEMMA AnswerFacts ==
    ASSUME PeerTypes, KernelTypes, NEW f, NEW from \in States, NEW st \in States, Answer(f, from, st)
    PROVE  /\ cst' \in [Conns -> States]
           /\ \A c \in Conns : cst'[c] = cst[c] \/ (cst[c] = from /\ cst'[c] = st)
<1>1. Target(f) \in Conns \cup {NULL}
  BY DEF Target, KernelTypes
<1>2. cst \in [Conns -> States]
  BY DEF PeerTypes
<1> QED
  BY <1>1, <1>2 DEF Answer

\* hashmap_put and hashmap_delete.
LEMMA PutTyped ==
    ASSUME TableTypes, NEW f \in Fds, NEW o \in Objs
    PROVE  TablePut(f, o) \in [Fds -> Objs \cup {NULL}]
BY DEF TableTypes, TablePut

LEMMA DeleteTyped ==
    ASSUME TableTypes, NEW f \in Fds \cup {Garbage}, TableDelete(f)
    PROVE  TableTypes'
<1>1. PICK left \in {f, Garbage} : heap' = IF f \in Fds /\ table[f] # NULL
                  THEN [heap EXCEPT ![table[f]].live = FALSE, ![table[f]].fd = left]
                  ELSE heap
  BY DEF TableDelete
<1>2. heap' \in [Objs -> ClientType]
  BY <1>1 DEF TableTypes, ClientType
<1> QED
  BY <1>2 DEF TableTypes, TableDelete

LEMMA TypesNext ==
    ASSUME Types, [Next]_vars PROVE Types'
<1>a. PeerTypes /\ TokenTypes /\ KernelTypes /\ TableTypes /\ LoopTypes /\ PoolTypes
  BY DEF Types
<1>p. ASSUME UNCHANGED <<peer, cst, shorts, backlog, inbox>> PROVE PeerTypes'
  BY <1>a, <1>p DEF PeerTypes
<1>t. ASSUME UNCHANGED token PROVE TokenTypes'
  BY <1>a, <1>t DEF TokenTypes
<1>k. ASSUME UNCHANGED kernelVars PROVE KernelTypes'
  BY <1>a, <1>k DEF KernelTypes, kernelVars
<1>h. ASSUME UNCHANGED tableVars PROVE TableTypes'
  BY <1>a, <1>h DEF TableTypes, tableVars
<1>l. ASSUME UNCHANGED <<evs, main, queue>> PROVE LoopTypes'
  BY <1>a, <1>l DEF LoopTypes
<1>w. ASSUME UNCHANGED worker, up' \in BOOLEAN, dangling' \in BOOLEAN PROVE PoolTypes'
  BY <1>a, <1>w DEF PoolTypes
<1>v. ASSUME worker' \in [Workers -> WorkerType], \A v \in Workers : worker'[v].at # "pop" => worker'[v].obj \in Objs,
             up' = up, dangling' \in BOOLEAN
      PROVE  PoolTypes'
  BY <1>a, <1>v DEF PoolTypes
<1>d. up \in BOOLEAN /\ dangling \in BOOLEAN
  BY <1>a DEF PoolTypes
<1>1. ASSUME NEW c \in Conns, Connect(c) PROVE Types'
  <2>1. PeerTypes'
    BY <1>1, <1>a DEF Connect, PeerTypes, States
  <2> QED
    BY <1>1, <1>t, <1>k, <1>h, <1>l, <1>w, <1>d, <2>1 DEF Connect, Types
<1>2. ASSUME NEW c \in Conns, Send(c) PROVE Types'
  <2>1. Sends[cst[c]] \in Messages /\ After[cst[c]] \in States
    BY <1>2 DEF Send, Sends, After, Messages, States
  <2>2. PeerTypes'
    BY <1>2, <1>a, <2>1 DEF Send, PeerTypes
  <2> QED
    BY <1>2, <1>t, <1>k, <1>h, <1>l, <1>w, <1>d, <2>2 DEF Send, Types
<1>3. ASSUME NEW c \in Conns, SendShort(c) PROVE Types'
  <2>1. PeerTypes'
    BY <1>3, <1>a, RouteAssumption DEF SendShort, PeerTypes, Messages
  <2> QED
    BY <1>3, <1>t, <1>k, <1>h, <1>l, <1>w, <1>d, <2>1 DEF SendShort, Types
<1>4. ASSUME NEW c \in Conns, ChildCloses(c) PROVE Types'
  <2>1. PeerTypes'
    BY <1>4, <1>a DEF ChildCloses, PeerTypes, States
  <2> QED
    BY <1>4, <1>t, <1>k, <1>h, <1>l, <1>w, <1>d, <2>1 DEF ChildCloses, Types
<1>5. ASSUME NEW p \in Procs, NEW how \in {"reset", "closed"}, NEW last \in {<< >>, <<"exit">>},
             ProcEnds(p, how, last)
      PROVE  Types'
  <2>1. last \in Seq(Messages) /\ <<p, "main">> \in Conns
    <3>1. "exit" \in Messages
      BY DEF Messages
    <3>2. <<"exit">> \in Seq(Messages) /\ << >> \in Seq(Messages)
      BY <3>1
    <3> QED
      BY <3>2, ConnParts
  <2>2. inbox' \in [Conns -> Seq(Messages)]
    BY <1>5, <1>a, <2>1 DEF ProcEnds, PeerTypes
  <2>3. PeerTypes'
    BY <1>5, <1>a, <2>2 DEF ProcEnds, PeerTypes, States
  <2> QED
    BY <1>5, <1>t, <1>k, <1>h, <1>l, <1>w, <1>d, <2>3 DEF ProcEnds, Types
<1>6. CASE EpollWait
  <2>1. LoopTypes'
    BY <1>6, <1>a DEF EpollWait, LoopTypes, KernelTypes
  <2> QED
    BY <1>6, <1>p, <1>t, <1>k, <1>h, <1>w, <1>d, <2>1 DEF EpollWait, clientVars, Types
<1>7. ASSUME NEW c \in Conns, NEW o \in Objs, Accept(c, o) PROVE Types'
  <2>1. PICK fd \in Fds : /\ sock[fd] = NULL /\ sock' = [sock EXCEPT ![fd] = c]
                          /\ heap' = [heap EXCEPT ![o] = [live |-> TRUE, fd |-> fd, user |-> NULL]]
                          /\ table' = TablePut(fd, o)
    BY <1>7, FreeFd DEF Accept
  <2>2. PeerTypes'
    BY <1>7, <1>a DEF Accept, PeerTypes
  <2>3. KernelTypes'
    BY <1>7, <1>a, <2>1, ConnParts DEF Accept, KernelTypes
  <2>4. TableTypes'
    <3>1. heap' \in [Objs -> ClientType]
      BY <1>a, <2>1 DEF TableTypes, ClientType, Users
    <3> QED
      BY <1>a, <2>1, <3>1, PutTyped DEF TableTypes
  <2>5. LoopTypes'
    BY <1>7, <1>a DEF Accept, LoopTypes, MainType, Messages
  <2>6. dangling' \in BOOLEAN
    BY <1>7, <1>d DEF Accept, Referenced
  <2> QED
    BY <1>7, <1>t, <1>w, <1>d, <2>2, <2>3, <2>4, <2>5, <2>6 DEF Accept, Types
<1>8. ASSUME NEW o \in Objs, AcceptFails(o) PROVE Types'
  <2>1. TableTypes'
    BY <1>8, <1>a DEF AcceptFails, TableTypes, ClientType, Users
  <2>2. LoopTypes'
    BY <1>8, <1>a DEF AcceptFails, LoopTypes
  <2>3. dangling' \in BOOLEAN
    BY <1>8, <1>d DEF AcceptFails, Referenced
  <2> QED
    BY <1>8, <1>p, <1>t, <1>k, <1>w, <1>d, <2>1, <2>2, <2>3 DEF AcceptFails, clientVars, Types
<1>9. CASE Register
  <2>1. KernelTypes'
    BY <1>9, <1>a DEF Register, KernelTypes
  <2>2. LoopTypes'
    BY <1>9, <1>a DEF Register, LoopTypes, IdleMain, MainType, Messages
  <2> QED
    BY <1>9, <1>p, <1>t, <1>h, <1>w, <1>d, <2>1, <2>2 DEF Register, clientVars, Types
<1>10. ASSUME NEW f \in Fds, EventForNobody(f) PROVE Types'
  BY <1>10, <1>p, <1>t, <1>k, <1>h, <1>l, <1>w, <1>d DEF EventForNobody, clientVars, Types
<1>11. ASSUME NEW f \in Fds, RecvCmd(f) PROVE Types'
  <2>1. sock[f] \in Conns \cup {NULL} /\ table[f] \in Objs
    BY <1>11, <1>a DEF RecvCmd, KernelTypes, TableTypes
  <2>2. PeerTypes'
    <3>1. inbox' \in [Conns -> Seq(Messages)]
      <4>1. \/ inbox' = inbox
            \/ sock[f] \in Conns /\ inbox[sock[f]] # << >> /\ inbox' = [inbox EXCEPT ![sock[f]] = Tail(@)]
        BY <1>11, <2>1 DEF RecvCmd
      <4>2. \A c \in Conns : inbox[c] \in Seq(Messages)
        BY <1>a DEF PeerTypes
      <4>3. \A c \in Conns : inbox[c] # << >> => Tail(inbox[c]) \in Seq(Messages)
        BY <4>2
      <4> QED
        BY <1>a, <4>1, <4>3 DEF PeerTypes
    <3>2. peer' \in [Conns -> {"off", "open", "reset", "closed"}]
      BY <1>11, <1>a, <2>1 DEF RecvCmd, PeerTypes
    <3> QED
      BY <1>11, <1>a, <3>1, <3>2 DEF RecvCmd, PeerTypes
  <2>3. main'.at # "wait" => main'.obj \in Objs
    BY <1>11, <1>a, <2>1 DEF RecvCmd, PeerTypes, MainType, Messages
  <2>4. LoopTypes'
    <3>1. main' \in MainType
      BY <1>11, <1>a, <2>1 DEF RecvCmd, PeerTypes, MainType, Messages
    <3> QED
      BY <1>11, <1>a, <2>3, <3>1 DEF RecvCmd, LoopTypes
  <2> QED
    BY <1>11, <1>t, <1>k, <1>h, <1>w, <1>d, <2>2, <2>4 DEF RecvCmd, Types
<1>12. ASSUME NEW f \in Fds, Disconnect(f) PROVE Types'
  <2>1. KernelTypes'
    BY <1>12, <1>a DEF Disconnect, KernelTypes
  <2>2. TableTypes'
    BY <1>12, <1>a, DeleteTyped DEF Disconnect
  <2>3. LoopTypes'
    BY <1>12, <1>a DEF Disconnect, LoopTypes
  <2> QED
    BY <1>12, <1>p, <1>t, <1>w, <1>d, <2>1, <2>2, <2>3 DEF Disconnect, clientVars, Types
<1>13. CASE Dispatch
  <2>1. main.obj \in Objs /\ main.cmd \in Messages
    BY <1>13, <1>a DEF Dispatch, LoopTypes, MainType
  <2>2. KernelTypes'
    BY <1>13, <1>a DEF Dispatch, KernelTypes
  <2>3. TableTypes'
    BY <1>13, <1>a, <2>1, PutTyped DEF Dispatch, TableTypes
  <2>4. LoopTypes'
    <3>1. [obj |-> main.obj, cmd |-> main.cmd] \in TaskType
      BY <2>1 DEF TaskType
    <3>2. queue' \in Seq(TaskType)
      BY <1>13, <1>a, <3>1 DEF Dispatch, LoopTypes
    <3> QED
      BY <1>13, <1>a, <3>2 DEF Dispatch, LoopTypes, IdleMain, MainType, Messages
  <2>5. dangling' \in BOOLEAN
    BY <1>13, <1>d DEF Dispatch
  <2> QED
    BY <1>13, <1>p, <1>t, <1>w, <1>d, <2>2, <2>3, <2>4, <2>5 DEF Dispatch, clientVars, Types
<1>14. ASSUME NEW w \in Workers, Pop(w) PROVE Types'
  <2>1. queue \in Seq(TaskType) /\ queue # << >>
    BY <1>14, <1>a DEF Pop, LoopTypes
  <2>2. Head(queue) \in TaskType /\ Tail(queue) \in Seq(TaskType)
    BY <2>1
  <2>3. LoopTypes'
    BY <1>14, <1>a, <2>2 DEF Pop, LoopTypes
  <2>4. [at |-> "handle", obj |-> Head(queue).obj, cmd |-> Head(queue).cmd, ref |-> NULL, user |-> NULL, todo |-> << >>] \in WorkerType
    BY <2>2, ListsTyped DEF TaskType, WorkerType, Users
  <2>5. worker' \in [Workers -> WorkerType]
    BY <1>14, <1>a, <2>4 DEF Pop, PoolTypes
  <2>6. \A v \in Workers : worker'[v].at # "pop" => worker'[v].obj \in Objs
    BY <1>14, <1>a, <2>2 DEF Pop, PoolTypes, TaskType
  <2> QED
    BY <1>14, <1>p, <1>t, <1>k, <1>h, <1>v, <1>d, <2>3, <2>5, <2>6 DEF Pop, clientVars, Types
<1>u. ASSUME NEW w \in Workers, Uses(w) PROVE dangling' \in BOOLEAN
  BY <1>u, <1>d DEF Uses
<1>15. ASSUME NEW w \in Workers, DoShort(w) \/ DoExit(w) \/ DoTransfer(w) PROVE Types'
  <2>1. PICK ops \in {Rearm, Leave, Transfer} : Returns(w, ops) /\ worker[w].at = "handle"
    BY <1>15 DEF DoShort, DoExit, DoTransfer
  <2>2. /\ worker' \in [Workers -> WorkerType]
        /\ \A v \in Workers : worker'[v].at # "pop" => worker'[v].obj \in Objs
    BY <1>a, <2>1, ReturnsMoves, ListsTyped
  <2>3. dangling' \in BOOLEAN
    BY <1>15, <1>u, <1>d DEF DoShort, DoExit, DoTransfer
  <2> QED
    BY <1>15, <1>p, <1>t, <1>k, <1>h, <1>l, <1>v, <2>2, <2>3 DEF DoShort, DoExit, DoTransfer, clientVars, Types
<1>16. ASSUME NEW w \in Workers, DoLoginUnknown(w) \/ DoTokenExpired(w) PROVE Types'
  <2>1. PICK ops \in {Rearm, Leave} : Returns(w, ops) /\ worker[w].at = "handle"
    BY <1>16 DEF DoLoginUnknown, DoTokenExpired
  <2>2. /\ worker' \in [Workers -> WorkerType]
        /\ \A v \in Workers : worker'[v].at # "pop" => worker'[v].obj \in Objs
    BY <1>a, <2>1, ReturnsMoves, ListsTyped
  <2>3. dangling' \in BOOLEAN
    BY <1>16, <1>u DEF DoLoginUnknown, DoTokenExpired
  <2>4. PICK from \in States : Answer(heap[worker[w].obj].fd, from, "refused")
    BY <1>16 DEF DoLoginUnknown, DoTokenExpired, States
  <2>5. cst' \in [Conns -> States]
    <3>1. "refused" \in States
      BY DEF States
    <3> QED
      BY <1>a, <2>4, <3>1, AnswerFacts
  <2>6. PeerTypes'
    BY <1>16, <1>a, <2>5 DEF DoLoginUnknown, DoTokenExpired, PeerTypes
  <2> QED
    BY <1>16, <1>t, <1>k, <1>h, <1>l, <1>v, <2>2, <2>3, <2>6 DEF DoLoginUnknown, DoTokenExpired, Types
<1>17. ASSUME NEW w \in Workers, DoLogin(w) PROVE Types'
  <2>1. /\ worker' \in [Workers -> WorkerType]
        /\ \A v \in Workers : worker'[v].at # "pop" => worker'[v].obj \in Objs
    BY <1>17, <1>a DEF DoLogin, PoolTypes, WorkerType
  <2>2. cst' \in [Conns -> States]
    <3>1. "salt" \in States /\ "passwd" \in States /\ Answer(heap[worker[w].obj].fd, "salt", "passwd")
      BY <1>17 DEF States, DoLogin
    <3> QED
      BY <1>a, <3>1, AnswerFacts
  <2>3. PeerTypes'
    BY <1>17, <1>a, <2>2 DEF DoLogin, PeerTypes
  <2> QED
    BY <1>17, <1>u, <1>t, <1>k, <1>h, <1>l, <1>v, <2>1, <2>3 DEF DoLogin, Types
<1>18. ASSUME NEW w \in Workers, DoLoginPasswd(w) PROVE Types'
  <2> DEFINE f == heap[worker[w].obj].fd
             c == Target(f)
  <2>1. /\ c \in Conns \cup {NULL}
        /\ "verdict" \in States /\ "ready" \in States /\ "refused" \in States
    BY <1>a DEF Target, KernelTypes, States
  <2>a. c # NULL => f \in Fds
    BY DEF Target
  <2>2. worker[w].at = "passwd" /\ Uses(w) /\ UNCHANGED <<peer, shorts, backlog, kernelVars, tableVars, evs, main, queue, up>>
    BY <1>18 DEF DoLoginPasswd
  <2>3. CASE /\ c # NULL /\ inbox[c] # << >>
             /\ inbox' = [inbox EXCEPT ![c] = Tail(@)]
             /\ token' = [token EXCEPT ![c[1]] = f]
             /\ Answer(f, "verdict", "ready")
             /\ worker' = [worker EXCEPT ![w].at = "init", ![w].user = c[1]]
    <3>1. c[1] \in Procs /\ c \in Conns
      BY <2>1, <2>3, ConnParts
    <3>2. TokenTypes'
      BY <1>a, <2>a, <2>3, <3>1 DEF TokenTypes
    <3>3. /\ worker' \in [Workers -> WorkerType]
          /\ \A v \in Workers : worker'[v].at # "pop" => worker'[v].obj \in Objs
      BY <1>a, <2>2, <2>3, <3>1, ZenonT(40) DEF PoolTypes, WorkerType, Users
    <3>4. cst' \in [Conns -> States]
      BY <1>a, <2>1, <2>3, AnswerFacts
    <3>5. inbox' \in [Conns -> Seq(Messages)]
      <4>1. inbox \in [Conns -> Seq(Messages)]
        BY <1>a DEF PeerTypes
      <4> HIDE DEF c, f
      <4>2. Tail(inbox[c]) \in Seq(Messages)
        BY <2>3, <3>1, <4>1
      <4>3. inbox' = [inbox EXCEPT ![c] = Tail(inbox[c])]
        BY <2>3
      <4> QED
        BY <3>1, <4>1, <4>2, <4>3
    <3>6. PeerTypes'
      BY <1>a, <2>2, <3>4, <3>5 DEF PeerTypes
    <3> QED
      BY <1>u, <1>k, <1>h, <1>l, <1>v, <2>2, <3>2, <3>3, <3>6 DEF Types
  <2>4. CASE /\ c # NULL /\ inbox[c] # << >>
             /\ inbox' = [inbox EXCEPT ![c] = Tail(@)]
             /\ Answer(f, "verdict", "refused")
             /\ Returns(w, Rearm)
             /\ UNCHANGED token
    <3>1. c \in Conns
      BY <2>1, <2>4
    <3>3. /\ worker' \in [Workers -> WorkerType]
          /\ \A v \in Workers : worker'[v].at # "pop" => worker'[v].obj \in Objs
      BY <1>a, <2>2, <2>4, ReturnsMoves, ListsTyped
    <3>4. cst' \in [Conns -> States]
      BY <1>a, <2>1, <2>4, AnswerFacts
    <3>5. inbox' \in [Conns -> Seq(Messages)]
      BY <1>a, <2>4, <3>1 DEF PeerTypes
    <3>6. PeerTypes'
      BY <1>a, <2>2, <3>4, <3>5 DEF PeerTypes
    <3> QED
      BY <1>u, <1>t, <1>k, <1>h, <1>l, <1>v, <2>2, <2>4, <3>3, <3>6 DEF Types
  <2>5. CASE Returns(w, Rearm) /\ UNCHANGED <<inbox, token, cst>>
    <3>3. /\ worker' \in [Workers -> WorkerType]
          /\ \A v \in Workers : worker'[v].at # "pop" => worker'[v].obj \in Objs
      BY <1>a, <2>2, <2>5, ReturnsMoves, ListsTyped
    <3> QED
      BY <1>u, <1>p, <1>t, <1>k, <1>h, <1>l, <1>v, <2>2, <2>5, <3>3 DEF Types
  <2> QED
    BY <1>18, <2>3, <2>4, <2>5 DEF DoLoginPasswd
<1>19. ASSUME NEW w \in Workers, DoLoginInit(w) PROVE Types'
  <2>1. /\ worker' \in [Workers -> WorkerType]
        /\ \A v \in Workers : worker'[v].at # "pop" => worker'[v].obj \in Objs
    BY <1>19, <1>a, ReturnsMoves, ListsTyped DEF DoLoginInit
  <2>2. worker[w].obj \in Objs /\ worker[w].user \in Users
    BY <1>19, <1>a DEF DoLoginInit, PoolTypes, WorkerType
  <2>3. TableTypes'
    BY <1>19, <1>a, <2>2 DEF DoLoginInit, TableTypes, ClientType
  <2> QED
    BY <1>19, <1>u, <1>p, <1>t, <1>k, <1>l, <1>v, <2>1, <2>3 DEF DoLoginInit, clientVars, Types
<1>20. ASSUME NEW w \in Workers, NEW p \in Procs, DoToken(w, p) PROVE Types'
  <2>1. table[token[p]] \in Objs \cup {NULL}
    BY <1>20, <1>a DEF DoToken, TokenTypes, TableTypes
  <2>2. /\ worker' \in [Workers -> WorkerType]
        /\ \A v \in Workers : worker'[v].at # "pop" => worker'[v].obj \in Objs
    BY <1>20, <1>a, <2>1, ZenonT(40) DEF DoToken, PoolTypes, WorkerType
  <2>3. cst' \in [Conns -> States]
    <3>1. "verdict" \in States /\ "xfer" \in States /\ Answer(heap[worker[w].obj].fd, "verdict", "xfer")
      BY <1>20 DEF States, DoToken
    <3> QED
      BY <1>a, <3>1, AnswerFacts
  <2>4. PeerTypes'
    BY <1>20, <1>a, <2>3 DEF DoToken, PeerTypes
  <2> QED
    BY <1>20, <1>u, <1>t, <1>k, <1>h, <1>l, <1>v, <2>2, <2>4 DEF DoToken, Types
<1>21. ASSUME NEW w \in Workers, DoTokenNobody(w) PROVE Types'
  BY <1>21, <1>p, <1>t, <1>k, <1>h, <1>l, <1>w, <1>d DEF DoTokenNobody, clientVars, Types
<1>22. ASSUME NEW w \in Workers, DoTokenCopy(w) PROVE Types'
  <2>1. /\ worker' \in [Workers -> WorkerType]
        /\ \A v \in Workers : worker'[v].at # "pop" => worker'[v].obj \in Objs
    BY <1>22, <1>a, ReturnsMoves, ListsTyped DEF DoTokenCopy
  <2>2. worker[w].obj \in Objs /\ worker[w].ref \in Objs
    BY <1>22, <1>a DEF DoTokenCopy, PoolTypes, WorkerType
  <2>3. TableTypes'
    <3>1. heap' \in [Objs -> ClientType]
      BY <1>22, <1>a, <2>2 DEF DoTokenCopy, TableTypes, ClientType
    <3> QED
      BY <1>22, <1>a, <2>2, <3>1, PutTyped DEF DoTokenCopy, TableTypes
  <2>4. dangling' \in BOOLEAN
    BY <1>22, <1>d DEF DoTokenCopy
  <2> QED
    BY <1>22, <1>p, <1>t, <1>k, <1>l, <1>v, <2>1, <2>3, <2>4 DEF DoTokenCopy, clientVars, Types
<1>23. ASSUME NEW w \in Workers, Finish(w) PROVE Types'
  <2> DEFINE f == heap[worker[w].obj].fd
  <2>1. /\ worker' \in [Workers -> WorkerType]
        /\ \A v \in Workers : worker'[v].at # "pop" => worker'[v].obj \in Objs
    <3>1. worker[w].todo \in Seq(Calls) /\ worker[w].todo # << >> /\ worker' = [worker EXCEPT ![w].todo = Tail(@)]
      BY <1>23, <1>a DEF Finish, PoolTypes, WorkerType
    <3>2. Tail(worker[w].todo) \in Seq(Calls)
      BY <3>1
    <3> QED
      BY <1>a, <3>1, <3>2 DEF PoolTypes, WorkerType
  <2>2. worker[w].obj \in Objs
    BY <1>23, <1>a DEF Finish, PoolTypes
  <2>3. f \in Fds \cup {Garbage}
    BY <1>a, <2>2 DEF TableTypes, ClientType
  <2>4. /\ Uses(w) /\ UNCHANGED <<clientVars, evs, main, queue, up>>
        /\ \/ epoll' = (IF Target(f) # NULL THEN epoll \cup {f} ELSE epoll) /\ UNCHANGED <<sock, tableVars>>
           \/ epoll' = epoll \ {f} /\ UNCHANGED <<sock, tableVars>>
           \/ /\ epoll' = epoll \ {f} /\ sock' = (IF f \in Fds THEN [sock EXCEPT ![f] = NULL] ELSE sock)
              /\ UNCHANGED tableVars
           \/ TableDelete(f) /\ UNCHANGED kernelVars
    BY <1>23 DEF Finish
  <2>5. KernelTypes'
    BY <1>a, <2>4 DEF KernelTypes, Target, kernelVars
  <2>6. TableTypes'
    BY <1>a, <1>h, <2>3, <2>4, DeleteTyped
  <2> QED
    BY <1>u, <1>p, <1>t, <1>l, <1>v, <2>1, <2>4, <2>5, <2>6 DEF clientVars, Types
<1>24. ASSUME NEW w \in Workers, NextTask(w) PROVE Types'
  <2>1. IdleWorker \in WorkerType
    BY ListsTyped DEF IdleWorker, WorkerType, Users, Messages
  <2>2. /\ worker' \in [Workers -> WorkerType]
        /\ \A v \in Workers : worker'[v].at # "pop" => worker'[v].obj \in Objs
    BY <1>24, <1>a, <2>1 DEF NextTask, PoolTypes, IdleWorker
  <2> QED
    BY <1>24, <1>p, <1>t, <1>k, <1>h, <1>l, <1>v, <1>d, <2>2 DEF NextTask, clientVars, Types
<1>25. CASE UNCHANGED vars
  BY <1>25, <1>p, <1>t, <1>k, <1>h, <1>l, <1>w, <1>d DEF vars, kernelVars, tableVars, Types
<1> QED
  BY <1>1, <1>2, <1>3, <1>4, <1>5, <1>6, <1>7, <1>8, <1>9, <1>10, <1>11, <1>12, <1>13, <1>14, <1>15, <1>16,
     <1>17, <1>18, <1>19, <1>20, <1>21, <1>22, <1>23, <1>24, <1>25
     DEF Next, ClientStep, MainStep, WorkerStep

-----------------------------------------------------------------------------
(* The clients' side *)

\* Everything but connect() leaves an unborn connection alone.
LEMMA ClientKeeps ==
    ASSUME Types, ClientInv,
           \A c \in Conns : peer'[c] = "off" <=> peer[c] = "off",
           \A c \in Conns : peer[c] = "off" => cst'[c] \in {cst[c], "gone"},
           backlog' \subseteq backlog,
           \A f \in Fds : sock'[f] \in {sock[f], NULL} \cup backlog,
           \A p \in Procs : token'[p] = token[p] \/ peer[<<p, "main">>] # "off",
           \A c \in Conns : cst'[c] \in {"login", "salt", "passwd"} => cst[c] \in {"login", "salt", "passwd"},
           \A c \in Conns : \A k \in DOMAIN inbox'[c] : inbox'[c][k] = "passwd" => c[2] = "main"
    PROVE  ClientInv'
<1>1. \A c \in Conns : peer'[c] = "off" => /\ cst'[c] \in {"connect", "gone"}
                                           /\ c \notin backlog'
                                           /\ \A f \in Fds : sock'[f] # c
  BY ConnParts DEF ClientInv
<1>2. \A p \in Procs : peer'[<<p, "main">>] = "off" => /\ peer'[<<p, "child">>] = "off"
                                                       /\ token'[p] = NULL
  BY ConnParts DEF ClientInv
<1>3. \A c \in Conns : cst'[c] \in {"login", "salt", "passwd"} => c[2] = "main"
  BY DEF ClientInv
<1> QED
  BY <1>1, <1>2, <1>3 DEF ClientInv

\* What a message that is read or added changes in an inbox.
LEMMA TailOnly ==
    ASSUME NEW s \in Seq(Messages), s # << >>
    PROVE  \A k \in DOMAIN Tail(s) : \E l \in DOMAIN s : Tail(s)[k] = s[l]
<1>1. /\ DOMAIN s = 1..Len(s) /\ Len(s) \in Nat
      /\ DOMAIN Tail(s) = 1..(Len(s) - 1)
      /\ \A k \in 1..(Len(s) - 1) : Tail(s)[k] = s[k + 1]
  OBVIOUS
<1>2. \A k \in 1..(Len(s) - 1) : k + 1 \in 1..Len(s)
  BY <1>1
<1> QED
  BY <1>1, <1>2

LEMMA AppendOnly ==
    ASSUME NEW s \in Seq(Messages), NEW m \in Messages
    PROVE  \A k \in DOMAIN Append(s, m) : Append(s, m)[k] = m \/ (k \in DOMAIN s /\ Append(s, m)[k] = s[k])
<1>1. /\ DOMAIN s = 1..Len(s) /\ Len(s) \in Nat
      /\ DOMAIN Append(s, m) = 1..(Len(s) + 1)
      /\ \A k \in 1..Len(s) : Append(s, m)[k] = s[k]
      /\ Append(s, m)[Len(s) + 1] = m
  OBVIOUS
<1>2. \A k \in 1..(Len(s) + 1) : k \in 1..Len(s) \/ k = Len(s) + 1
  BY <1>1
<1> QED
  BY <1>1, <1>2

LEMMA ClientNext ==
    ASSUME Types, ClientInv, [Next]_vars PROVE ClientInv'
<1>a. PeerTypes /\ TokenTypes /\ KernelTypes /\ TableTypes /\ LoopTypes /\ PoolTypes
  BY DEF Types
<1>b. /\ \A c \in Conns : inbox[c] \in Seq(Messages)
      /\ \A f \in Fds : sock[f] \in Conns \cup {NULL}
      /\ DOMAIN peer = Conns /\ DOMAIN cst = Conns /\ DOMAIN inbox = Conns /\ DOMAIN sock = Fds /\ DOMAIN token = Procs
  BY <1>a DEF PeerTypes, KernelTypes, TokenTypes
<1>i. \A c \in Conns : \A k \in DOMAIN inbox[c] : inbox[c][k] = "passwd" => c[2] = "main"
  BY DEF ClientInv
\* Reading one message of c's inbox.
<1>r. ASSUME NEW c \in Conns, inbox[c] # << >>, inbox' = [inbox EXCEPT ![c] = Tail(@)]
      PROVE  \A d \in Conns : \A k \in DOMAIN inbox'[d] : inbox'[d][k] = "passwd" => d[2] = "main"
  <2> SUFFICES ASSUME NEW d \in Conns, NEW k \in DOMAIN inbox'[d], inbox'[d][k] = "passwd" PROVE d[2] = "main"
    OBVIOUS
  <2>1. CASE d = c
    <3>1. inbox'[d] = Tail(inbox[c])
      BY <1>b, <1>r, <2>1
    <3>2. PICK l \in DOMAIN inbox[c] : Tail(inbox[c])[k] = inbox[c][l]
      BY <1>b, <1>r, <3>1, TailOnly
    <3> QED
      BY <1>i, <2>1, <3>1, <3>2
  <2>2. CASE d # c
    BY <1>b, <1>i, <1>r, <2>2
  <2> QED
    BY <2>1, <2>2
\* Adding one to it.
<1>s. ASSUME NEW c \in Conns, NEW m \in Messages, m = "passwd" => c[2] = "main",
             inbox' = [inbox EXCEPT ![c] = Append(@, m)]
      PROVE  \A d \in Conns : \A k \in DOMAIN inbox'[d] : inbox'[d][k] = "passwd" => d[2] = "main"
  <2> SUFFICES ASSUME NEW d \in Conns, NEW k \in DOMAIN inbox'[d], inbox'[d][k] = "passwd" PROVE d[2] = "main"
    OBVIOUS
  <2>1. CASE d = c
    <3>1. inbox'[d] = Append(inbox[c], m)
      BY <1>b, <1>s, <2>1
    <3>2. Append(inbox[c], m)[k] = m \/ (k \in DOMAIN inbox[c] /\ Append(inbox[c], m)[k] = inbox[c][k])
      BY <1>b, <3>1, AppendOnly
    <3> QED
      BY <1>i, <1>s, <2>1, <3>1, <3>2
  <2>2. CASE d # c
    BY <1>b, <1>i, <1>s, <2>2
  <2> QED
    BY <2>1, <2>2
<1>q. ASSUME UNCHANGED <<peer, cst, token, backlog, inbox>>, \A f \in Fds : sock'[f] \in {sock[f], NULL}
      PROVE  ClientInv'
  BY <1>i, <1>q, ClientKeeps
\* An answer that does not invite to log in.
<1>w. ASSUME UNCHANGED <<peer, token, backlog, sock>>, NEW f, NEW from \in {"salt", "verdict"},
             NEW st \in {"refused", "ready", "xfer", "passwd"}, st = "passwd" => from = "salt",
             Answer(f, from, st),
             \A c \in Conns : \A k \in DOMAIN inbox'[c] : inbox'[c][k] = "passwd" => c[2] = "main"
      PROVE  ClientInv'
  <2>1. \A c \in Conns : cst'[c] = cst[c] \/ (cst[c] = from /\ cst'[c] = st)
    <3>1. from \in States /\ st \in States
      BY DEF States
    <3> QED
      BY <1>a, <1>w, <3>1, AnswerFacts
  <2>2. \A c \in Conns : peer[c] = "off" => cst'[c] = cst[c]
    BY <2>1 DEF ClientInv
  <2>3. \A c \in Conns : cst'[c] \in {"login", "salt", "passwd"} => cst[c] \in {"login", "salt", "passwd"}
    BY <1>w, <2>1
  <2> QED
    BY <1>w, <2>2, <2>3, ClientKeeps
<1>1. ASSUME NEW c \in Conns, Connect(c) PROVE ClientInv'
  <2>1. /\ peer' = [peer EXCEPT ![c] = "open"] /\ backlog' = backlog \cup {c}
        /\ cst' = [cst EXCEPT ![c] = IF c[2] = "main" THEN "login" ELSE "token"]
        /\ c[2] = "child" => cst[<<c[1], "main">>] = "ready"
        /\ UNCHANGED <<token, inbox, sock>>
    BY <1>1 DEF Connect, kernelVars
  <2>2. \A d \in Conns : peer'[d] = "off" => /\ cst'[d] \in {"connect", "gone"} /\ d \notin backlog'
                                             /\ \A f \in Fds : sock'[f] # d
    BY <1>b, <2>1 DEF ClientInv
  <2>3. \A p \in Procs : peer'[<<p, "main">>] = "off" => peer'[<<p, "child">>] = "off" /\ token'[p] = NULL
    <3> SUFFICES ASSUME NEW p \in Procs, peer'[<<p, "main">>] = "off"
                 PROVE  peer'[<<p, "child">>] = "off" /\ token'[p] = NULL
      OBVIOUS
    <3>1. <<p, "main">> \in Conns /\ <<p, "child">> \in Conns /\ <<p, "main">> # c /\ peer[<<p, "main">>] = "off"
      BY <1>b, <2>1, ConnParts
    <3>2. cst[<<p, "main">>] # "ready" /\ peer[<<p, "child">>] = "off" /\ token[p] = NULL
      BY <3>1 DEF ClientInv
    <3>3. <<p, "child">> # c
      BY <2>1, <3>2
    <3> QED
      BY <1>b, <2>1, <3>1, <3>2, <3>3
  <2>4. \A d \in Conns : cst'[d] \in {"login", "salt", "passwd"} => d[2] = "main"
    BY <1>b, <2>1 DEF ClientInv
  <2> QED
    BY <1>i, <2>1, <2>2, <2>3, <2>4 DEF ClientInv
<1>2. ASSUME NEW c \in Conns, Send(c) PROVE ClientInv'
  <2>1. /\ cst[c] \in {"login", "passwd", "token", "xfer"} /\ peer[c] = "open"
        /\ Sends[cst[c]] \in Messages /\ (Sends[cst[c]] = "passwd" => cst[c] = "passwd")
        /\ After[cst[c]] \in {"salt", "verdict", "busy"} /\ (After[cst[c]] = "salt" => cst[c] = "login")
    BY <1>2 DEF Send, Sends, After, Messages
  <2>2. Sends[cst[c]] = "passwd" => c[2] = "main"
    BY <2>1 DEF ClientInv
  <2>3. \A d \in Conns : \A k \in DOMAIN inbox'[d] : inbox'[d][k] = "passwd" => d[2] = "main"
    BY <1>2, <1>s, <2>1, <2>2 DEF Send
  <2>4. \A d \in Conns : cst'[d] = cst[d] \/ (d = c /\ cst'[d] = After[cst[c]])
    BY <1>2, <1>b DEF Send
  <2>5. /\ \A d \in Conns : peer[d] = "off" => cst'[d] \in {cst[d], "gone"}
        /\ \A d \in Conns : cst'[d] \in {"login", "salt", "passwd"} => cst[d] \in {"login", "salt", "passwd"}
    BY <2>1, <2>4
  <2> QED
    BY <1>2, <2>3, <2>5, ClientKeeps DEF Send, kernelVars
<1>3. ASSUME NEW c \in Conns, SendShort(c) PROVE ClientInv'
  <2>1. "short" \in Messages
    BY DEF Messages
  <2>2. \A d \in Conns : \A k \in DOMAIN inbox'[d] : inbox'[d][k] = "passwd" => d[2] = "main"
    BY <1>3, <1>s, <2>1 DEF SendShort
  <2> QED
    BY <1>3, <2>2, ClientKeeps DEF SendShort, kernelVars
<1>4. ASSUME NEW c \in Conns, ChildCloses(c) PROVE ClientInv'
  <2>1. /\ \A d \in Conns : peer'[d] = "off" <=> peer[d] = "off"
        /\ \A d \in Conns : cst'[d] \in {cst[d], "gone"}
    BY <1>4, <1>b DEF ChildCloses
  <2> QED
    BY <1>4, <1>i, <2>1, ClientKeeps DEF ChildCloses, kernelVars
<1>5. ASSUME NEW p \in Procs, NEW how \in {"reset", "closed"}, NEW last \in {<< >>, <<"exit">>},
             ProcEnds(p, how, last)
      PROVE  ClientInv'
  <2>1. /\ \A d \in Conns : peer'[d] = "off" <=> peer[d] = "off"
        /\ \A d \in Conns : cst'[d] \in {cst[d], "gone"}
    BY <1>5 DEF ProcEnds
  <2>2. <<p, "main">> \in Conns /\ "exit" \in Messages
    BY ConnParts DEF Messages
  <2>3. inbox' = [inbox EXCEPT ![<<p, "main">>] = @ \o last]
    BY <1>5 DEF ProcEnds
  <2>4. \A d \in Conns : \A k \in DOMAIN inbox'[d] : inbox'[d][k] = "passwd" => d[2] = "main"
    <3>1. \A d \in Conns : d # <<p, "main">> => inbox'[d] = inbox[d]
      BY <1>b, <2>2, <2>3
    <3> QED
      BY <1>i, <3>1
  <2> QED
    BY <1>5, <2>1, <2>4, ClientKeeps DEF ProcEnds, kernelVars
<1>6. CASE EpollWait \/ Register \/ Dispatch \/ (\E o \in Objs : AcceptFails(o)) \/ (\E f \in Fds : EventForNobody(f))
  BY <1>6, <1>q DEF EpollWait, Register, Dispatch, AcceptFails, EventForNobody, clientVars, kernelVars
<1>7. ASSUME NEW c \in Conns, NEW o \in Objs, Accept(c, o) PROVE ClientInv'
  <2>1. PICK fd : sock' = [sock EXCEPT ![fd] = c]
    BY <1>7 DEF Accept
  <2>2. \A f \in Fds : sock'[f] \in {sock[f]} \cup backlog
    BY <1>7, <1>b, <2>1 DEF Accept
  <2> QED
    BY <1>7, <1>i, <2>2, ClientKeeps DEF Accept
<1>11. ASSUME NEW f \in Fds, RecvCmd(f) PROVE ClientInv'
  <2>1. \/ sock[f] \in Conns /\ inbox[sock[f]] # << >> /\ inbox' = [inbox EXCEPT ![sock[f]] = Tail(@)]
        \/ inbox' = inbox
    BY <1>11, <1>b DEF RecvCmd
  <2>2. \A d \in Conns : \A k \in DOMAIN inbox'[d] : inbox'[d][k] = "passwd" => d[2] = "main"
    BY <1>i, <1>r, <2>1
  <2>3. \A d \in Conns : peer'[d] = "off" <=> peer[d] = "off"
    BY <1>11, <1>b DEF RecvCmd
  <2> QED
    BY <1>11, <2>2, <2>3, ClientKeeps DEF RecvCmd, kernelVars
<1>12. ASSUME NEW f \in Fds, Disconnect(f) PROVE ClientInv'
  BY <1>12, <1>b, <1>q DEF Disconnect, clientVars
<1>15. ASSUME NEW w \in Workers, Pop(w) \/ DoShort(w) \/ DoExit(w) \/ DoTransfer(w) \/ DoLoginInit(w)
                                 \/ DoTokenNobody(w) \/ DoTokenCopy(w) \/ NextTask(w)
       PROVE  ClientInv'
  BY <1>15, <1>q DEF Pop, DoShort, DoExit, DoTransfer, DoLoginInit, DoTokenNobody, DoTokenCopy, NextTask, clientVars, kernelVars
<1>16. ASSUME NEW w \in Workers, DoLoginUnknown(w) \/ DoTokenExpired(w) \/ DoLogin(w) \/ (\E p \in Procs : DoToken(w, p))
       PROVE  ClientInv'
  <2>1. /\ UNCHANGED <<peer, token, backlog, sock, inbox>>
        /\ \E from \in {"salt", "verdict"}, st \in {"refused", "ready", "xfer", "passwd"} :
              (st = "passwd" => from = "salt") /\ Answer(heap[worker[w].obj].fd, from, st)
    BY <1>16 DEF DoLoginUnknown, DoTokenExpired, DoLogin, DoToken, kernelVars
  <2> QED
    BY <1>i, <1>w, <2>1
<1>18. ASSUME NEW w \in Workers, DoLoginPasswd(w) PROVE ClientInv'
  <2> DEFINE f == heap[worker[w].obj].fd
             c == Target(f)
  <2>1. /\ c \in Conns \cup {NULL}
        /\ c # NULL => f \in Fds /\ sock[f] = c
    BY <1>b DEF Target
  <2>2. UNCHANGED <<peer, backlog, sock>>
    BY <1>18 DEF DoLoginPasswd, kernelVars
  <2>3. CASE /\ c # NULL /\ inbox[c] # << >>
             /\ inbox' = [inbox EXCEPT ![c] = Tail(@)]
             /\ token' = [token EXCEPT ![c[1]] = f]
             /\ Answer(f, "verdict", "ready")
    <3>1. c \in Conns /\ c[1] \in Procs /\ c = <<c[1], c[2]>> /\ c[2] \in {"main", "child"} /\ peer[c] # "off"
      BY <2>1, <2>3, ConnParts DEF ClientInv
    <3>2. peer[<<c[1], "main">>] # "off"
      BY <3>1 DEF ClientInv
    <3>3. \A p \in Procs : token'[p] = token[p] \/ peer[<<p, "main">>] # "off"
      BY <1>b, <2>3, <3>1, <3>2
    <3>4. \A d \in Conns : cst'[d] = cst[d] \/ (cst[d] = "verdict" /\ cst'[d] = "ready")
      <4>1. "verdict" \in States /\ "ready" \in States
        BY DEF States
      <4> QED
        BY <1>a, <2>3, <4>1, AnswerFacts
    <3>5. \A d \in Conns : peer[d] = "off" => cst'[d] = cst[d]
      BY <3>4 DEF ClientInv
    <3>6. \A d \in Conns : \A k \in DOMAIN inbox'[d] : inbox'[d][k] = "passwd" => d[2] = "main"
      BY <1>r, <2>3, <3>1
    <3>7. \A d \in Conns : cst'[d] \in {"login", "salt", "passwd"} => cst[d] \in {"login", "salt", "passwd"}
      BY <3>4
    <3> QED
      BY <2>2, <3>3, <3>5, <3>6, <3>7, ClientKeeps
  <2>4. CASE /\ c # NULL /\ inbox[c] # << >>
             /\ inbox' = [inbox EXCEPT ![c] = Tail(@)]
             /\ Answer(f, "verdict", "refused")
             /\ UNCHANGED token
    <3>1. c \in Conns
      BY <2>1, <2>4
    <3>2. \A d \in Conns : \A k \in DOMAIN inbox'[d] : inbox'[d][k] = "passwd" => d[2] = "main"
      BY <1>r, <2>4, <3>1
    <3> QED
      BY <1>w, <2>2, <2>4, <3>2
  <2>5. CASE UNCHANGED <<inbox, token, cst>>
    BY <1>q, <2>2, <2>5
  <2> QED
    BY <1>18, <2>3, <2>4, <2>5 DEF DoLoginPasswd
<1>23. ASSUME NEW w \in Workers, Finish(w) PROVE ClientInv'
  <2>1. UNCHANGED <<peer, cst, token, backlog, inbox>>
    BY <1>23 DEF Finish, clientVars
  <2>2. sock' = sock \/ sock' = [sock EXCEPT ![heap[worker[w].obj].fd] = NULL]
    BY <1>23 DEF Finish, kernelVars
  <2>3. \A f \in Fds : sock'[f] \in {sock[f], NULL}
    BY <1>b, <2>2
  <2> QED
    BY <1>q, <2>1, <2>3
<1>25. CASE UNCHANGED vars
  BY <1>25, <1>q DEF vars
<1> QED
  BY <1>1, <1>2, <1>3, <1>4, <1>5, <1>6, <1>7, <1>11, <1>12, <1>15, <1>16, <1>18, <1>23, <1>25
     DEF Next, ClientStep, MainStep, WorkerStep

-----------------------------------------------------------------------------
(* The server's side, up to the first use of a freed client_t *)

Exact == TodoInv /\ EntryInv /\ HoldInv /\ AloneInv /\ OrphanInv

\* The lists of calls a worker can be left with.
AfterFree == {<<"close", "epoll_add">>, <<"epoll_del", "close", "epoll_add">>}
Returned  == {Rearm, Leave, Transfer}
Half      == <<"del_client", "close", "epoll_add">>

LEMMA Lists ==
    /\ \A t \in Returned \cup AfterFree \cup {Half} : t # << >>
    /\ \A t \in Returned \cup {Half} : t \notin AfterFree
    /\ Head(Rearm) = "epoll_add" /\ Tail(Rearm) = << >>
    /\ Head(Leave) = "epoll_del" /\ Tail(Leave) = Half
    /\ Head(Transfer) = "del_client" /\ Tail(Transfer) \in AfterFree
    /\ Head(Half) = "del_client" /\ Tail(Half) \in AfterFree
<1>1. /\ Len(Rearm) = 1 /\ Len(Leave) = 4 /\ Len(Transfer) = 4 /\ Len(Half) = 3
      /\ Len(<<"close", "epoll_add">>) = 2 /\ Len(<<"epoll_del", "close", "epoll_add">>) = 3 /\ Len(<< >>) = 0
      /\ Half[1] = "del_client" /\ <<"epoll_del", "close", "epoll_add">>[1] = "epoll_del"
  BY DEF Rearm, Leave, Transfer, Half
<1>2. \A t \in Returned \cup AfterFree \cup {Half} : t # << >>
  BY <1>1 DEF Returned, AfterFree
<1>3. \A t \in Returned \cup {Half} : t \notin AfterFree
  BY <1>1 DEF Returned, AfterFree
<1>4. /\ Head(Rearm) = "epoll_add" /\ Head(Leave) = "epoll_del" /\ Head(Transfer) = "del_client" /\ Head(Half) = "del_client"
  BY DEF Rearm, Leave, Transfer, Half
<1>5. Tail(Rearm) = << >> /\ Tail(Leave) = Half
  BY DEF Rearm, Leave, Half
<1>6. Tail(Transfer) = <<"epoll_del", "close", "epoll_add">> /\ Tail(Half) = <<"close", "epoll_add">>
  BY DEF Transfer, Half
<1> QED
  BY <1>2, <1>3, <1>4, <1>5, <1>6 DEF AfterFree

\* A client_t nobody refers to is in nobody's hands.
LEMMA NotHeld ==
    ASSUME Types, NEW o \in Objs, ~Referenced(o)
    PROVE  /\ main.at = "dispatch" => main.obj # o
           /\ \A k \in DOMAIN queue : queue[k].obj # o
           /\ \A w \in Workers : Busy(w) => worker[w].obj # o
           /\ \A w \in Workers : worker[w].at = "copy" => worker[w].ref # o
<1>1. IsFiniteSet(HeldInQueue(o)) /\ IsFiniteSet(HeldByWorkers(o))
  <2>1. HeldInQueue(o) \subseteq 1..Len(queue) /\ Len(queue) \in Nat
    BY DEF HeldInQueue, Types, LoopTypes
  <2>2. IsFiniteSet(1..Len(queue))
    BY <2>1, FS_Interval
  <2>3. HeldByWorkers(o) \subseteq Workers /\ IsFiniteSet(Workers)
    BY RouteAssumption DEF HeldByWorkers
  <2> QED
    BY <2>1, <2>2, <2>3, FS_Subset
<1>2. Cardinality(HeldInQueue(o)) \in Nat /\ Cardinality(HeldByWorkers(o)) \in Nat
  BY <1>1, FS_CardinalityType
<1>3. ~(Holders(o) > 0) /\ \A w \in Workers : ~(worker[w].at = "copy" /\ worker[w].ref = o)
  BY DEF Referenced
<1>4. ~HeldByMain(o) /\ Cardinality(HeldInQueue(o)) = 0 /\ Cardinality(HeldByWorkers(o)) = 0
  BY <1>2, <1>3 DEF Holders
<1>5. HeldInQueue(o) = {} /\ HeldByWorkers(o) = {}
  BY <1>1, <1>4, FS_EmptySet
<1>6. \A w \in Workers : Busy(w) /\ worker[w].obj = o => w \in HeldByWorkers(o)
  BY DEF Busy, HeldByWorkers
<1>7. \A k \in DOMAIN queue : queue[k].obj = o => k \in HeldInQueue(o)
  BY DEF HeldInQueue
<1> QED
  BY <1>3, <1>4, <1>5, <1>6, <1>7 DEF HeldByMain

LEMMA ExactTypes ==
    ASSUME Types
    PROVE  /\ \A w \in Workers : worker[w].at # "pop" => worker[w].obj \in Objs
           /\ main.at # "wait" => main.obj \in Objs
           /\ \A k \in DOMAIN queue : queue[k].obj \in Objs
           /\ \A f \in Fds : table[f] \in Objs \cup {NULL} /\ sock[f] \in Conns \cup {NULL}
           /\ DOMAIN heap = Objs /\ DOMAIN table = Fds /\ DOMAIN sock = Fds
           /\ epoll \subseteq Fds /\ evs \subseteq Fds \cup {Listen}
           /\ \A f \in epoll : sock[f] # NULL
           /\ NULL \notin Objs /\ NULL \notin Conns
           /\ \A w \in Workers : Busy(w) => worker[w].obj \in Objs
           /\ \A w \in Workers : Freed(w) => Busy(w)
<1>1. \A k \in DOMAIN queue : queue[k] \in TaskType
  BY DEF Types, LoopTypes
<1>2. \A w \in Workers : Freed(w) => Busy(w)
  BY Lists DEF Freed, Busy, AfterFree
<1> QED
  BY <1>1, <1>2, ConnParts DEF Types, PoolTypes, LoopTypes, TableTypes, KernelTypes, TaskType, Busy

\* Two live client_t have two descriptors.
LEMMA OneEach ==
    ASSUME EntryInv, NEW o \in Objs, NEW q \in Objs, Live(o), Live(q), heap[o].fd = heap[q].fd
    PROVE  o = q
BY DEF EntryInv

LEMMA ServerStill ==
    ASSUME Exact, UNCHANGED <<heap, table, sock, epoll, evs, main, queue, worker>>
    PROVE  Exact'
BY DEF Exact, TodoInv, EntryInv, HoldInv, AloneInv, OrphanInv, Orphans, Closers, Live, Quiet, Busy, Freed

\* A worker goes on with the client it has.
LEMMA BusyStays ==
    ASSUME Types, Exact, NEW w \in Workers, Busy(w), ~Freed(w),
           \A o \in Objs : heap'[o].live = heap[o].live /\ heap'[o].fd = heap[o].fd,
           UNCHANGED <<table, sock, epoll, evs, main, queue>>,
           \A v \in Workers : v # w => worker'[v] = worker[v],
           worker'[w].obj = worker[w].obj,
           worker'[w].at # "pop",
           worker'[w].at = "finish" => worker'[w].todo \in Returned \cup {Half}
    PROVE  Exact'
<1>1. /\ \A v \in Workers : Busy(v)' <=> Busy(v)
      /\ \A v \in Workers : Freed(v)' <=> Freed(v)
      /\ \A v \in Workers : worker'[v].obj = worker[v].obj
  BY Lists DEF Busy, Freed, AfterFree
<1>2. \A o \in Objs : (Live(o)' <=> Live(o)) /\ (Quiet(o)' <=> Quiet(o))
  BY DEF Live, Quiet
<1>3. TodoInv'
  BY DEF Exact, TodoInv, Returned, Half
<1>4. EntryInv'
  BY <1>2, ExactTypes DEF Exact, EntryInv
<1>5. HoldInv'
  BY <1>1, <1>2, ExactTypes DEF Exact, HoldInv
<1>6. AloneInv'
  BY <1>1 DEF Exact, AloneInv
<1>7. OrphanInv'
  BY <1>1 DEF Exact, OrphanInv, Orphans, Closers
<1> QED
  BY <1>3, <1>4, <1>5, <1>6, <1>7 DEF Exact

LEMMA ExactEpollWait ==
    ASSUME Types, Exact, EpollWait PROVE Exact'
<1>1. /\ main.at = "wait" /\ evs' \subseteq epoll \cup {Listen}
      /\ UNCHANGED <<heap, table, sock, epoll, main, queue, worker>>
  BY DEF EpollWait, kernelVars, tableVars
<1>2. /\ \A o \in Objs : (Live(o)' <=> Live(o)) /\ (Live(o) /\ Quiet(o) => Quiet(o)')
      /\ \A w \in Workers : (Busy(w)' <=> Busy(w)) /\ (Freed(w)' <=> Freed(w))
  BY <1>1, FdFacts DEF Live, Quiet, Busy, Freed
<1>3. EntryInv'
  BY <1>1, <1>2, FdFacts DEF Exact, EntryInv
<1>4. HoldInv'
  BY <1>1, <1>2, ExactTypes DEF Exact, HoldInv
<1>5. TodoInv' /\ AloneInv' /\ OrphanInv'
  BY <1>1, <1>2 DEF Exact, TodoInv, AloneInv, OrphanInv, Orphans, Closers
<1> QED
  BY <1>3, <1>4, <1>5 DEF Exact

LEMMA ExactAccept ==
    ASSUME Types, Exact, NEW c \in Conns, NEW o \in Objs, Accept(c, o), ~dangling'
    PROVE  Exact' /\ ~dangling
<1>1. PICK fd \in Fds : /\ sock[fd] = NULL /\ sock' = [sock EXCEPT ![fd] = c]
                        /\ heap' = [heap EXCEPT ![o] = [live |-> TRUE, fd |-> fd, user |-> NULL]]
                        /\ table' = TablePut(fd, o)
  BY FreeFd DEF Accept
<1>2. /\ ~Referenced(o) /\ ~dangling /\ ~heap[o].live /\ main.at = "wait"
      /\ main' = [at |-> "register", obj |-> o, cmd |-> "none"] /\ evs' = evs \ {Listen}
      /\ UNCHANGED <<epoll, queue, worker>>
  BY DEF Accept
<1>3. table[fd] = NULL /\ fd \notin epoll /\ fd \notin evs
  BY <1>1, ExactTypes DEF Exact, EntryInv
<1>4. table' = [table EXCEPT ![fd] = o]
  BY <1>1, <1>3 DEF TablePut
<1>5. /\ \A q \in Objs : q # o => heap'[q] = heap[q]
      /\ heap'[o].live /\ heap'[o].fd = fd
      /\ \A f \in Fds : f # fd => table'[f] = table[f] /\ sock'[f] = sock[f]
      /\ table'[fd] = o /\ sock'[fd] = c
  BY <1>1, <1>4, ExactTypes
<1>6. /\ \A k \in DOMAIN queue : queue[k].obj # o
      /\ \A w \in Workers : Busy(w) => worker[w].obj # o
  BY <1>2, NotHeld
<1>7. /\ \A w \in Workers : (Busy(w)' <=> Busy(w)) /\ (Freed(w)' <=> Freed(w))
      /\ \A q \in Objs : q # o => (Live(q)' <=> Live(q)) /\ (Quiet(q) => Quiet(q)')
      /\ Live(o)' /\ \A q \in Objs : Live(q) => q # o /\ heap[q].fd # fd
  BY <1>2, <1>3, <1>5, ExactTypes DEF Busy, Freed, Live, Quiet, Exact, EntryInv
<1>8. EntryInv'
  <2>1. \A f \in Fds : table'[f] # NULL => heap'[table'[f]].live /\ heap'[table'[f]].fd = f /\ sock'[f] # NULL
    <3> SUFFICES ASSUME NEW f \in Fds, table'[f] # NULL
                 PROVE  heap'[table'[f]].live /\ heap'[table'[f]].fd = f /\ sock'[f] # NULL
      OBVIOUS
    <3>1. CASE f = fd
      BY <1>5, <3>1, ExactTypes
    <3>2. CASE f # fd
      BY <1>2, <1>5, <3>2, ExactTypes DEF Exact, EntryInv
    <3> QED
      BY <3>1, <3>2
  <2>2. \A q \in Objs : Live(q)' => table'[heap'[q].fd] = q
    BY <1>5, <1>7 DEF Exact, EntryInv, Live
  <2>3. \A f \in epoll' \cup (evs' \cap Fds) : table'[f] # NULL
    BY <1>2, <1>3, <1>5, ExactTypes DEF Exact, EntryInv
  <2> QED
    BY <2>1, <2>2, <2>3 DEF EntryInv
<1>9. HoldInv'
  <2>1. /\ Live(main.obj)' /\ heap'[main'.obj].fd \notin evs' /\ heap'[main'.obj].fd \notin epoll'
    BY <1>2, <1>3, <1>5, <1>7 DEF Live
  <2>2. \A k \in DOMAIN queue' : Live(queue[k].obj)' /\ Quiet(queue[k].obj)'
    <3> SUFFICES ASSUME NEW k \in DOMAIN queue PROVE Live(queue[k].obj)' /\ Quiet(queue[k].obj)'
      BY <1>2
    <3>1. PICK q \in Objs : q = queue[k].obj /\ q = queue'[k].obj /\ q # o /\ Live(q) /\ Quiet(q)
      BY <1>2, <1>6, ExactTypes DEF Exact, HoldInv
    <3> QED
      BY <1>7, <3>1 DEF Live, Quiet
  <2>3. \A w \in Workers : Busy(w)' => IF Freed(w)' THEN ~heap'[worker'[w].obj].live
                                                    ELSE Live(worker[w].obj)' /\ Quiet(worker[w].obj)'
    <3> SUFFICES ASSUME NEW w \in Workers, Busy(w)
                 PROVE  IF Freed(w) THEN ~heap'[worker'[w].obj].live
                                    ELSE Live(worker[w].obj)' /\ Quiet(worker[w].obj)'
      BY <1>7
    <3>1. PICK q \in Objs : q = worker[w].obj /\ q = worker'[w].obj /\ q # o
                            /\ IF Freed(w) THEN ~heap[q].live ELSE Live(q) /\ Quiet(q)
      BY <1>2, <1>6, ExactTypes DEF Exact, HoldInv
    <3> QED
      BY <1>5, <1>7, <3>1 DEF Live, Quiet
  <2> QED
    BY <1>2, <2>1, <2>2, <2>3 DEF HoldInv
<1>10. TodoInv' /\ AloneInv'
  BY <1>2, <1>6, <1>7 DEF Exact, TodoInv, AloneInv
<1>11. OrphanInv'
  <2>1. Orphans' = Orphans
    BY <1>1, <1>3, <1>5, ExactTypes DEF Orphans
  <2>2. Closers' = Closers
    BY <1>7 DEF Closers
  <2> QED
    BY <2>1, <2>2 DEF Exact, OrphanInv
<1> QED
  BY <1>2, <1>8, <1>9, <1>10, <1>11 DEF Exact

LEMMA ExactAcceptFails ==
    ASSUME Types, Exact, NEW o \in Objs, AcceptFails(o), ~dangling'
    PROVE  Exact' /\ ~dangling
<1>2. /\ ~Referenced(o) /\ ~dangling /\ ~heap[o].live /\ main.at = "wait" /\ evs' = evs \ {Listen}
      /\ heap' = [heap EXCEPT ![o] = [live |-> TRUE, fd |-> Garbage, user |-> NULL]]
      /\ UNCHANGED <<table, sock, epoll, main, queue, worker>>
  BY DEF AcceptFails, kernelVars
<1>5. (\A q \in Objs : q # o => heap'[q] = heap[q]) /\ heap'[o].fd = Garbage
  BY <1>2, ExactTypes
<1>6. /\ \A k \in DOMAIN queue : queue[k].obj # o
      /\ \A w \in Workers : Busy(w) => worker[w].obj # o
      /\ \A f \in Fds : table[f] # o
  BY <1>2, NotHeld, ConnParts DEF Exact, EntryInv
<1>7. /\ \A w \in Workers : (Busy(w)' <=> Busy(w)) /\ (Freed(w)' <=> Freed(w))
      /\ \A q \in Objs : q # o => (Live(q)' <=> Live(q)) /\ (Quiet(q) => Quiet(q)')
      /\ ~Live(o)' /\ ~Live(o)
  BY <1>2, <1>5, FdFacts DEF Busy, Freed, Live, Quiet
<1>8. EntryInv'
  <2>1. \A q \in Objs : Live(q)' => table'[heap'[q].fd] = q
    BY <1>2, <1>5, <1>7 DEF Exact, EntryInv
  <2> QED
    BY <1>2, <1>5, <1>6, <2>1, ExactTypes DEF Exact, EntryInv
<1>9. HoldInv'
  <2>2. \A k \in DOMAIN queue' : Live(queue[k].obj)' /\ Quiet(queue[k].obj)'
    <3> SUFFICES ASSUME NEW k \in DOMAIN queue PROVE Live(queue[k].obj)' /\ Quiet(queue[k].obj)'
      BY <1>2
    <3>1. PICK q \in Objs : q = queue[k].obj /\ q = queue'[k].obj /\ q # o /\ Live(q) /\ Quiet(q)
      BY <1>2, <1>6, ExactTypes DEF Exact, HoldInv
    <3> QED
      BY <1>7, <3>1 DEF Live, Quiet
  <2>3. \A w \in Workers : Busy(w)' => IF Freed(w)' THEN ~heap'[worker'[w].obj].live
                                                    ELSE Live(worker[w].obj)' /\ Quiet(worker[w].obj)'
    <3> SUFFICES ASSUME NEW w \in Workers, Busy(w)
                 PROVE  IF Freed(w) THEN ~heap'[worker'[w].obj].live
                                    ELSE Live(worker[w].obj)' /\ Quiet(worker[w].obj)'
      BY <1>7
    <3>1. PICK q \in Objs : q = worker[w].obj /\ q = worker'[w].obj /\ q # o
                            /\ IF Freed(w) THEN ~heap[q].live ELSE Live(q) /\ Quiet(q)
      BY <1>2, <1>6, ExactTypes DEF Exact, HoldInv
    <3> QED
      BY <1>5, <1>7, <3>1 DEF Live, Quiet
  <2> QED
    BY <1>2, <2>2, <2>3 DEF HoldInv
<1>10. TodoInv' /\ AloneInv' /\ OrphanInv'
  BY <1>2, <1>7 DEF Exact, TodoInv, AloneInv, OrphanInv, Orphans, Closers
<1> QED
  BY <1>2, <1>8, <1>9, <1>10 DEF Exact

\* epoll_add of a descriptor whose client_t nobody else has.
LEMMA Watched ==
    ASSUME Types, Exact, NEW o \in Objs, Live(o), heap[o].fd \notin evs,
           UNCHANGED <<heap, table, sock, evs>>, epoll' = epoll \cup {heap[o].fd}
    PROVE  /\ EntryInv'
           /\ \A q \in Objs : Live(q)' <=> Live(q)
           /\ \A q \in Objs : Live(q) /\ Quiet(q) /\ q # o => Quiet(q)'
<1>1. \A q \in Objs : Live(q)' <=> Live(q)
  BY DEF Live
<1>2. \A q \in Objs : Live(q) /\ Quiet(q) /\ q # o => Quiet(q)'
  BY OneEach DEF Quiet, Exact
<1>3. table[heap[o].fd] # NULL
  BY ExactTypes DEF Exact, EntryInv
<1> QED
  BY <1>1, <1>2, <1>3 DEF Exact, EntryInv

LEMMA ExactRegister ==
    ASSUME Types, Exact, Register PROVE Exact'
<1>1. /\ main.at = "register" /\ main' = IdleMain
      /\ epoll' = epoll \cup ({heap[main.obj].fd} \cap {f \in Fds : sock[f] # NULL})
      /\ UNCHANGED <<heap, table, sock, evs, queue, worker>>
  BY DEF Register, tableVars
<1>2. main.obj \in Objs /\ Live(main.obj) /\ heap[main.obj].fd \notin evs
  BY <1>1, ExactTypes DEF Exact, HoldInv
<1>3. epoll' = epoll \cup {heap[main.obj].fd}
  BY <1>1, <1>2, ExactTypes DEF Exact, EntryInv, Live
<1>4. /\ EntryInv'
      /\ \A q \in Objs : Live(q)' <=> Live(q)
      /\ \A q \in Objs : Live(q) /\ Quiet(q) /\ q # main.obj => Quiet(q)'
  BY <1>1, <1>2, <1>3, Watched
<1>5. \A w \in Workers : (Busy(w)' <=> Busy(w)) /\ (Freed(w)' <=> Freed(w))
  BY <1>1 DEF Busy, Freed
<1>6. main'.at = "wait"
  BY <1>1 DEF IdleMain
<1>7. HoldInv'
  <2>1. \A k \in DOMAIN queue : queue[k].obj # main.obj
    BY <1>1 DEF Exact, AloneInv
  <2>2. \A w \in Workers : Busy(w) => worker[w].obj # main.obj
    BY <1>1 DEF Exact, AloneInv
  <2>3. \A k \in DOMAIN queue' : Live(queue[k].obj)' /\ Quiet(queue[k].obj)'
    <3> SUFFICES ASSUME NEW k \in DOMAIN queue PROVE Live(queue[k].obj)' /\ Quiet(queue[k].obj)'
      BY <1>1
    <3>1. PICK q \in Objs : q = queue[k].obj /\ q = queue'[k].obj /\ q # main.obj /\ Live(q) /\ Quiet(q)
      BY <1>1, <2>1, ExactTypes DEF Exact, HoldInv
    <3> QED
      BY <1>4, <3>1 DEF Live, Quiet
  <2>4. \A w \in Workers : Busy(w)' => IF Freed(w)' THEN ~heap'[worker'[w].obj].live
                                                    ELSE Live(worker[w].obj)' /\ Quiet(worker[w].obj)'
    <3> SUFFICES ASSUME NEW w \in Workers, Busy(w)
                 PROVE  IF Freed(w) THEN ~heap'[worker'[w].obj].live
                                    ELSE Live(worker[w].obj)' /\ Quiet(worker[w].obj)'
      BY <1>5
    <3>1. PICK q \in Objs : q = worker[w].obj /\ q = worker'[w].obj /\ q # main.obj
                            /\ IF Freed(w) THEN ~heap[q].live ELSE Live(q) /\ Quiet(q)
      BY <1>1, <2>2, ExactTypes DEF Exact, HoldInv
    <3> QED
      BY <1>1, <1>4, <3>1 DEF Live, Quiet
  <2> QED
    BY <1>6, <2>3, <2>4 DEF HoldInv
<1>8. TodoInv' /\ AloneInv' /\ OrphanInv'
  BY <1>1, <1>5, <1>6 DEF Exact, TodoInv, AloneInv, OrphanInv, Orphans, Closers
<1> QED
  BY <1>4, <1>7, <1>8 DEF Exact

\* Nobody works on the client_t of an event.
LEMMA EventFree ==
    ASSUME Types, Exact, NEW f \in evs \cap Fds, table[f] # NULL
    PROVE  /\ table[f] \in Objs /\ Live(table[f]) /\ heap[table[f]].fd = f /\ sock[f] # NULL
           /\ \A k \in DOMAIN queue : queue[k].obj # table[f]
           /\ \A w \in Workers : Busy(w) => worker[w].obj # table[f]
<1>1. table[f] \in Objs /\ Live(table[f]) /\ heap[table[f]].fd = f /\ sock[f] # NULL /\ ~Quiet(table[f])
  BY ExactTypes DEF Exact, EntryInv, Live, Quiet
<1>2. \A k \in DOMAIN queue : queue[k].obj # table[f]
  BY <1>1 DEF Exact, HoldInv
<1>3. \A w \in Workers : Busy(w) => worker[w].obj # table[f]
  BY <1>1 DEF Exact, HoldInv, Live
<1> QED
  BY <1>1, <1>2, <1>3

LEMMA ExactRecvCmd ==
    ASSUME Types, Exact, NEW f \in Fds, RecvCmd(f) PROVE Exact'
<1>1. /\ f \in evs \cap Fds /\ table[f] # NULL /\ evs' = evs \ {f}
      /\ main'.at = "dispatch" /\ main'.obj = table[f]
      /\ UNCHANGED <<heap, table, sock, epoll, queue, worker>>
  BY DEF RecvCmd, kernelVars, tableVars
<1>2. /\ table[f] \in Objs /\ Live(table[f]) /\ heap[table[f]].fd = f
      /\ \A k \in DOMAIN queue : queue[k].obj # table[f]
      /\ \A w \in Workers : Busy(w) => worker[w].obj # table[f]
  BY <1>1, EventFree
<1>3. /\ \A q \in Objs : (Live(q)' <=> Live(q)) /\ (Quiet(q) => Quiet(q)')
      /\ \A w \in Workers : (Busy(w)' <=> Busy(w)) /\ (Freed(w)' <=> Freed(w))
  BY <1>1 DEF Live, Quiet, Busy, Freed
<1>4. EntryInv'
  BY <1>1, <1>3 DEF Exact, EntryInv
<1>5. HoldInv'
  <2>1. /\ Live(main.obj)' /\ heap'[main'.obj].fd \notin evs'
    BY <1>1, <1>2 DEF Live
  <2>3. \A k \in DOMAIN queue' : Live(queue[k].obj)' /\ Quiet(queue[k].obj)'
    BY <1>1, <1>3, ExactTypes DEF Exact, HoldInv
  <2>4. \A w \in Workers : Busy(w)' => IF Freed(w)' THEN ~heap'[worker'[w].obj].live
                                                    ELSE Live(worker[w].obj)' /\ Quiet(worker[w].obj)'
    BY <1>1, <1>3, ExactTypes DEF Exact, HoldInv
  <2> QED
    BY <1>1, <2>1, <2>3, <2>4 DEF HoldInv
<1>6. TodoInv' /\ AloneInv' /\ OrphanInv'
  BY <1>1, <1>2, <1>3 DEF Exact, TodoInv, AloneInv, OrphanInv, Orphans, Closers
<1> QED
  BY <1>4, <1>5, <1>6 DEF Exact

\* del_client frees the entry's client_t, and nobody's but that one.
LEMMA Deleted ==
    ASSUME Types, Exact, NEW f \in Fds, table[f] # NULL, TableDelete(f)
    PROVE  /\ ~heap'[table[f]].live
           /\ \A q \in Objs : q # table[f] => heap'[q] = heap[q]
           /\ table'[f] = NULL
           /\ \A g \in Fds : g # f => table'[g] = table[g] /\ table[g] # table[f]
<1>1. table[f] \in Objs
  BY ExactTypes
<1>2. PICK left \in {f, Garbage} : heap' = [heap EXCEPT ![table[f]].live = FALSE, ![table[f]].fd = left]
  BY DEF TableDelete
<1>3. heap[table[f]] \in ClientType
  BY <1>1 DEF Types, TableTypes
<1>4. ~heap'[table[f]].live /\ \A q \in Objs : q # table[f] => heap'[q] = heap[q]
  BY <1>1, <1>2, <1>3, ExactTypes DEF ClientType
<1>5. table' = [table EXCEPT ![f] = NULL]
  BY DEF TableDelete
<1>6. \A g \in Fds : g # f => table[g] # table[f]
  BY DEF Exact, EntryInv
<1> QED
  BY <1>4, <1>5, <1>6, ExactTypes

LEMMA ExactDisconnect ==
    ASSUME Types, Exact, NEW f \in Fds, Disconnect(f) PROVE Exact'
<1>1. /\ f \in evs \cap Fds /\ table[f] # NULL /\ evs' = evs \ {f} /\ epoll' = epoll \ {f}
      /\ main.at = "wait" /\ sock' = [sock EXCEPT ![f] = NULL] /\ TableDelete(f)
      /\ UNCHANGED <<main, queue, worker>>
  BY DEF Disconnect
<1>2. PICK o \in Objs : /\ table[f] = o /\ heap[o].fd = f
                        /\ \A k \in DOMAIN queue : queue[k].obj # o
                        /\ \A w \in Workers : Busy(w) => worker[w].obj # o
  BY <1>1, EventFree
<1>3. /\ ~heap'[o].live
      /\ \A q \in Objs : q # o => heap'[q] = heap[q]
      /\ table'[f] = NULL /\ sock'[f] = NULL
      /\ \A g \in Fds : g # f => table'[g] = table[g] /\ table[g] # o /\ sock'[g] = sock[g]
  BY <1>1, <1>2, Deleted, ExactTypes
<1>4. /\ \A q \in Objs : q # o => (Live(q)' <=> Live(q)) /\ (Quiet(q) => Quiet(q)')
      /\ ~Live(o)'
      /\ \A w \in Workers : (Busy(w)' <=> Busy(w)) /\ (Freed(w)' <=> Freed(w))
  BY <1>1, <1>3 DEF Live, Quiet, Busy, Freed
<1>5. EntryInv'
  <2>1. \A g \in Fds : table'[g] # NULL => heap'[table'[g]].live /\ heap'[table'[g]].fd = g /\ sock'[g] # NULL
    BY <1>3, ExactTypes DEF Exact, EntryInv
  <2>2. \A q \in Objs : Live(q)' => table'[heap'[q].fd] = q
    <3> SUFFICES ASSUME NEW q \in Objs, Live(q)' PROVE table'[heap'[q].fd] = q
      OBVIOUS
    <3>1. q # o /\ Live(q) /\ heap'[q] = heap[q]
      BY <1>3, <1>4
    <3>2. table[heap[q].fd] = q /\ heap[q].fd # f /\ heap[q].fd \in Fds
      BY <1>2, <3>1 DEF Exact, EntryInv, Live
    <3> QED
      BY <1>3, <3>1, <3>2
  <2>3. \A g \in epoll' \cup (evs' \cap Fds) : table'[g] # NULL
    BY <1>1, <1>3, ExactTypes DEF Exact, EntryInv
  <2> QED
    BY <2>1, <2>2, <2>3 DEF EntryInv
<1>6. HoldInv'
  <2>1. \A k \in DOMAIN queue' : Live(queue[k].obj)' /\ Quiet(queue[k].obj)'
    <3> SUFFICES ASSUME NEW k \in DOMAIN queue PROVE Live(queue[k].obj)' /\ Quiet(queue[k].obj)'
      BY <1>1
    <3>1. PICK q \in Objs : q = queue[k].obj /\ q = queue'[k].obj /\ q # o /\ Live(q) /\ Quiet(q)
      BY <1>1, <1>2, ExactTypes DEF Exact, HoldInv
    <3> QED
      BY <1>4, <3>1 DEF Live, Quiet
  <2>2. \A w \in Workers : Busy(w)' => IF Freed(w)' THEN ~heap'[worker'[w].obj].live
                                                    ELSE Live(worker[w].obj)' /\ Quiet(worker[w].obj)'
    <3> SUFFICES ASSUME NEW w \in Workers, Busy(w)
                 PROVE  IF Freed(w) THEN ~heap'[worker'[w].obj].live
                                    ELSE Live(worker[w].obj)' /\ Quiet(worker[w].obj)'
      BY <1>4
    <3>1. PICK q \in Objs : q = worker[w].obj /\ q = worker'[w].obj /\ q # o
                            /\ IF Freed(w) THEN ~heap[q].live ELSE Live(q) /\ Quiet(q)
      BY <1>1, <1>2, ExactTypes DEF Exact, HoldInv
    <3> QED
      BY <1>3, <1>4, <3>1 DEF Live, Quiet
  <2> QED
    BY <1>1, <2>1, <2>2 DEF HoldInv
<1>7. TodoInv' /\ AloneInv'
  BY <1>1, <1>4 DEF Exact, TodoInv, AloneInv
<1>8. OrphanInv'
  <2>1. Orphans' = Orphans
    BY <1>1, <1>3 DEF Orphans
  <2>2. Closers' = Closers
    BY <1>4 DEF Closers
  <2> QED
    BY <2>1, <2>2 DEF Exact, OrphanInv
<1> QED
  BY <1>5, <1>6, <1>7, <1>8 DEF Exact

LEMMA ExactDispatch ==
    ASSUME Types, Exact, Dispatch PROVE Exact'
<1>1. /\ main.at = "dispatch" /\ main' = IdleMain
      /\ table' = IF heap[main.obj].fd \in Fds THEN TablePut(heap[main.obj].fd, main.obj) ELSE table
      /\ epoll' = epoll \ {heap[main.obj].fd}
      /\ queue' = Append(queue, [obj |-> main.obj, cmd |-> main.cmd])
      /\ UNCHANGED <<sock, heap, evs, worker>>
  BY DEF Dispatch
<1>2. PICK o \in Objs : o = main.obj /\ Live(o) /\ heap[o].fd \notin evs
  BY <1>1, ExactTypes DEF Exact, HoldInv
<1>3. table[heap[o].fd] = o /\ UNCHANGED table
  BY <1>1, <1>2, ExactTypes DEF TablePut, Exact, EntryInv
<1>4. /\ \A q \in Objs : (Live(q)' <=> Live(q)) /\ (Quiet(q) => Quiet(q)')
      /\ \A w \in Workers : (Busy(w)' <=> Busy(w)) /\ (Freed(w)' <=> Freed(w))
      /\ Quiet(o)'
  BY <1>1, <1>2 DEF Live, Quiet, Busy, Freed
<1>5. main'.at = "wait"
  BY <1>1 DEF IdleMain
<1>6. \A k \in DOMAIN queue' : \/ k \in DOMAIN queue /\ queue'[k] = queue[k]
                               \/ k = Len(queue) + 1 /\ queue'[k].obj = o
  <2>1. queue \in Seq(TaskType) /\ [obj |-> main.obj, cmd |-> main.cmd] \in TaskType
    BY <1>1, <1>2 DEF Types, LoopTypes, TaskType, MainType
  <2> HIDE DEF TaskType
  <2> QED
    BY <1>1, <1>2, <2>1
<1>7. EntryInv'
  BY <1>1, <1>3, <1>4 DEF Exact, EntryInv
<1>8. HoldInv'
  <2>1. \A k \in DOMAIN queue' : Live(queue[k].obj)' /\ Quiet(queue[k].obj)'
    <3> SUFFICES ASSUME NEW k \in DOMAIN queue' PROVE Live(queue[k].obj)' /\ Quiet(queue[k].obj)'
      OBVIOUS
    <3>1. PICK q \in Objs : q = queue'[k].obj /\ Live(q) /\ Quiet(q)'
      BY <1>2, <1>4, <1>6, ExactTypes DEF Exact, HoldInv
    <3> QED
      BY <1>4, <3>1 DEF Live, Quiet
  <2>2. \A w \in Workers : Busy(w)' => IF Freed(w)' THEN ~heap'[worker'[w].obj].live
                                                    ELSE Live(worker[w].obj)' /\ Quiet(worker[w].obj)'
    BY <1>1, <1>4, ExactTypes DEF Exact, HoldInv
  <2> QED
    BY <1>5, <2>1, <2>2 DEF HoldInv
<1>9. AloneInv'
  <2>1. \A k \in DOMAIN queue : queue[k].obj # o
    BY <1>1, <1>2 DEF Exact, AloneInv
  <2>2. \A w \in Workers : Busy(w) => worker[w].obj # o
    BY <1>1, <1>2 DEF Exact, AloneInv
  <2>3. \A k, l \in DOMAIN queue' : queue'[k].obj = queue'[l].obj => k = l
    BY <1>6, <2>1 DEF Exact, AloneInv
  <2>4. \A k \in DOMAIN queue', w \in Workers : Busy(w)' => worker'[w].obj # queue'[k].obj
    BY <1>1, <1>4, <1>6, <2>2 DEF Exact, AloneInv
  <2>5. \A v, w \in Workers : Busy(v)' /\ Busy(w)' /\ worker'[v].obj = worker'[w].obj => v = w
    BY <1>1, <1>4 DEF Exact, AloneInv
  <2> QED
    BY <1>5, <2>3, <2>4, <2>5 DEF AloneInv
<1>10. TodoInv' /\ OrphanInv'
  BY <1>1, <1>3, <1>4 DEF Exact, TodoInv, OrphanInv, Orphans, Closers
<1> QED
  BY <1>7, <1>8, <1>9, <1>10 DEF Exact

\* The queue after pop.
LEMMA QueueTail ==
    ASSUME Types, queue # << >>, queue' = Tail(queue)
    PROVE  /\ 1 \in DOMAIN queue /\ Head(queue) = queue[1]
           /\ \A k \in DOMAIN queue' : k \in Nat /\ k # 0 /\ k + 1 \in DOMAIN queue /\ queue'[k] = queue[k + 1]
BY DEF Types, LoopTypes

LEMMA ExactPop ==
    ASSUME Types, Exact, NEW w \in Workers, Pop(w) PROVE Exact'
<1>1. /\ worker[w].at = "pop" /\ queue # << >> /\ queue' = Tail(queue)
      /\ worker' = [worker EXCEPT ![w] = [at |-> "handle", obj |-> Head(queue).obj, cmd |-> Head(queue).cmd,
                                          ref |-> NULL, user |-> NULL, todo |-> << >>]]
      /\ UNCHANGED <<heap, table, sock, epoll, evs, main>>
  BY DEF Pop, kernelVars, tableVars
<1>2. /\ 1 \in DOMAIN queue
      /\ \A k \in DOMAIN queue' : k \in Nat /\ k # 0 /\ k + 1 \in DOMAIN queue /\ queue'[k] = queue[k + 1]
  BY <1>1, QueueTail
<1>3. PICK o \in Objs : o = queue[1].obj /\ Live(o) /\ Quiet(o)
  BY <1>2, ExactTypes DEF Exact, HoldInv
<1>4. /\ \A v \in Workers : v # w => worker'[v] = worker[v]
      /\ worker'[w].at = "handle" /\ worker'[w].obj = o
  <2>1. DOMAIN worker = Workers
    BY DEF Types, PoolTypes
  <2> QED
    BY <1>1, <1>3, <2>1, QueueTail
<1>5. /\ \A q \in Objs : (Live(q)' <=> Live(q)) /\ (Quiet(q)' <=> Quiet(q))
      /\ \A v \in Workers : v # w => (Busy(v)' <=> Busy(v)) /\ (Freed(v)' <=> Freed(v))
      /\ Busy(w)' /\ ~Freed(w)' /\ ~Busy(w) /\ ~Freed(w)
  BY <1>1, <1>4 DEF Live, Quiet, Busy, Freed
<1>6. EntryInv' /\ TodoInv'
  BY <1>1, <1>4, <1>5 DEF Exact, EntryInv, TodoInv
<1>7. HoldInv'
  <2>1. \A k \in DOMAIN queue' : Live(queue[k].obj)' /\ Quiet(queue[k].obj)'
    <3> SUFFICES ASSUME NEW k \in DOMAIN queue' PROVE Live(queue[k].obj)' /\ Quiet(queue[k].obj)'
      OBVIOUS
    <3>1. PICK q \in Objs : q = queue'[k].obj /\ Live(q) /\ Quiet(q)
      BY <1>2, ExactTypes DEF Exact, HoldInv
    <3> QED
      BY <1>5, <3>1 DEF Live, Quiet
  <2>2. \A v \in Workers : Busy(v)' => IF Freed(v)' THEN ~heap'[worker'[v].obj].live
                                                    ELSE Live(worker[v].obj)' /\ Quiet(worker[v].obj)'
    <3> SUFFICES ASSUME NEW v \in Workers, Busy(v)'
                 PROVE  IF Freed(v)' THEN ~heap'[worker'[v].obj].live
                                     ELSE Live(worker[v].obj)' /\ Quiet(worker[v].obj)'
      OBVIOUS
    <3>1. PICK q \in Objs : q = worker'[v].obj /\ IF Freed(v)' THEN ~heap[q].live ELSE Live(q) /\ Quiet(q)
      BY <1>3, <1>4, <1>5, ExactTypes DEF Exact, HoldInv
    <3> QED
      BY <1>1, <1>5, <3>1 DEF Live, Quiet
  <2>3. main'.at # "wait" => Live(main.obj)'
    BY <1>1, <1>5, ExactTypes DEF Exact, HoldInv
  <2> QED
    BY <1>1, <2>1, <2>2, <2>3 DEF Exact, HoldInv
<1>8. AloneInv'
  <2>1. \A k \in DOMAIN queue' : queue'[k].obj # o
    BY <1>2, <1>3 DEF Exact, AloneInv
  <2>2. \A v \in Workers : Busy(v) => worker[v].obj # o
    BY <1>2, <1>3 DEF Exact, AloneInv
  <2>3. main.at # "wait" => main.obj # o
    BY <1>2, <1>3 DEF Exact, AloneInv
  <2>4. main'.at # "wait" => /\ \A k \in DOMAIN queue' : queue'[k].obj # main'.obj
                             /\ \A v \in Workers : Busy(v)' => worker'[v].obj # main'.obj
    BY <1>1, <1>2, <1>4, <1>5, <2>3 DEF Exact, AloneInv
  <2>5. \A k, l \in DOMAIN queue' : queue'[k].obj = queue'[l].obj => k = l
    BY <1>2 DEF Exact, AloneInv
  <2>6. \A k \in DOMAIN queue', v \in Workers : Busy(v)' => worker'[v].obj # queue'[k].obj
    BY <1>2, <1>4, <1>5, <2>1 DEF Exact, AloneInv
  <2>7. \A u, v \in Workers : Busy(u)' /\ Busy(v)' /\ worker'[u].obj = worker'[v].obj => u = v
    BY <1>4, <1>5, <2>2 DEF Exact, AloneInv
  <2> QED
    BY <2>4, <2>5, <2>6, <2>7 DEF AloneInv
<1>9. OrphanInv'
  <2>1. Orphans' = Orphans /\ Closers' = Closers
    BY <1>1, <1>5 DEF Orphans, Closers
  <2> QED
    BY <2>1 DEF Exact, OrphanInv
<1> QED
  BY <1>6, <1>7, <1>8, <1>9 DEF Exact

\* A worker that has nothing left to do with its client lets the pointer go.
LEMMA ExactRelease ==
    ASSUME Types, Exact, NEW w \in Workers, ~Freed(w), ~Busy(w)', ~Freed(w)', TodoInv',
           UNCHANGED <<heap, table, sock, evs, main, queue>>, EntryInv',
           \A v \in Workers : v # w => worker'[v] = worker[v],
           \A q \in Objs : Live(q) /\ Quiet(q) /\ (Busy(w) => q # worker[w].obj) => Quiet(q)',
           main.at = "register" => heap[main.obj].fd \notin epoll'
    PROVE  Exact'
<1>1. /\ \A q \in Objs : Live(q)' <=> Live(q)
      /\ \A v \in Workers : v # w => (Busy(v)' <=> Busy(v)) /\ (Freed(v)' <=> Freed(v))
  BY DEF Live, Busy, Freed
<1>2. HoldInv'
  <2>1. \A k \in DOMAIN queue' : Live(queue[k].obj)' /\ Quiet(queue[k].obj)'
    <3> SUFFICES ASSUME NEW k \in DOMAIN queue PROVE Live(queue[k].obj)' /\ Quiet(queue[k].obj)'
      OBVIOUS
    <3>1. PICK q \in Objs : /\ q = queue[k].obj /\ q = queue'[k].obj /\ Live(q) /\ Quiet(q)
                            /\ Busy(w) => q # worker[w].obj
      BY ExactTypes DEF Exact, HoldInv, AloneInv
    <3> QED
      BY <1>1, <3>1 DEF Live, Quiet
  <2>2. \A v \in Workers : Busy(v)' => IF Freed(v)' THEN ~heap'[worker'[v].obj].live
                                                    ELSE Live(worker[v].obj)' /\ Quiet(worker[v].obj)'
    <3> SUFFICES ASSUME NEW v \in Workers, v # w, Busy(v)
                 PROVE  IF Freed(v) THEN ~heap'[worker'[v].obj].live
                                    ELSE Live(worker[v].obj)' /\ Quiet(worker[v].obj)'
      BY <1>1
    <3>1. PICK q \in Objs : /\ q = worker[v].obj /\ q = worker'[v].obj
                            /\ IF Freed(v) THEN ~heap[q].live ELSE Live(q) /\ Quiet(q)
                            /\ Busy(w) => q # worker[w].obj
      BY ExactTypes DEF Exact, HoldInv, AloneInv
    <3> QED
      BY <1>1, <3>1 DEF Live, Quiet
  <2>3. main'.at # "wait" => Live(main.obj)'
    BY <1>1, ExactTypes DEF Exact, HoldInv
  <2> QED
    BY <2>1, <2>2, <2>3 DEF Exact, HoldInv
<1>3. AloneInv'
  BY <1>1 DEF Exact, AloneInv
<1>4. OrphanInv'
  <2>1. Orphans' = Orphans /\ Closers' = Closers
    BY <1>1 DEF Orphans, Closers
  <2> QED
    BY <2>1 DEF Exact, OrphanInv
<1> QED
  BY <1>2, <1>3, <1>4 DEF Exact

LEMMA ExactNextTask ==
    ASSUME Types, Exact, NEW w \in Workers, NextTask(w) PROVE Exact'
<1>1. /\ worker[w].at = "finish" /\ worker[w].todo = << >>
      /\ worker' = [worker EXCEPT ![w] = IdleWorker]
      /\ UNCHANGED <<heap, table, sock, epoll, evs, main, queue>>
  BY DEF NextTask, kernelVars, tableVars
<1>2. (\A v \in Workers : v # w => worker'[v] = worker[v]) /\ worker'[w].at = "pop"
  BY <1>1 DEF Types, PoolTypes, IdleWorker
<1>3. ~Freed(w) /\ ~Busy(w)' /\ ~Freed(w)'
  BY <1>1, <1>2, Lists DEF Freed, Busy, AfterFree
<1>4. TodoInv' /\ EntryInv'
  BY <1>1, <1>2 DEF Exact, TodoInv, EntryInv, Live
<1>5. \A q \in Objs : Quiet(q) => Quiet(q)'
  BY <1>1 DEF Quiet
<1>6. main.at = "register" => heap[main.obj].fd \notin epoll'
  BY <1>1 DEF Exact, HoldInv
<1> QED
  BY <1>1, <1>2, <1>3, <1>4, <1>5, <1>6, ExactRelease

\* A worker frees its client: its descriptor loses the entry, and the worker is the
\* one that will close it.
LEMMA ExactFree ==
    ASSUME Types, Exact, NEW w \in Workers, Busy(w), ~Freed(w), NEW o \in Objs, o = worker[w].obj,
           NEW f \in Fds, f = heap[o].fd, TableDelete(f),
           UNCHANGED <<sock, epoll, evs, main, queue>>,
           \A v \in Workers : v # w => worker'[v] = worker[v],
           worker'[w].obj = o, worker'[w].at = "finish", worker'[w].todo \in AfterFree
    PROVE  Exact'
<1>1. Live(o) /\ Quiet(o) /\ table[f] = o /\ sock[f] # NULL /\ table[f] # NULL
  BY ExactTypes DEF Exact, HoldInv, EntryInv
<1>2. /\ ~heap'[o].live
      /\ \A q \in Objs : q # o => heap'[q] = heap[q]
      /\ table'[f] = NULL
      /\ \A g \in Fds : g # f => table'[g] = table[g] /\ table[g] # o
  BY <1>1, Deleted
<1>3. /\ \A q \in Objs : q # o => (Live(q)' <=> Live(q)) /\ (Quiet(q) => Quiet(q)')
      /\ ~Live(o)'
      /\ \A v \in Workers : v # w => (Busy(v)' <=> Busy(v)) /\ (Freed(v)' <=> Freed(v))
      /\ Busy(w)' /\ Freed(w)'
  BY <1>2, Lists DEF Live, Quiet, Busy, Freed, AfterFree
<1>4. /\ \A k \in DOMAIN queue : queue[k].obj # o
      /\ \A v \in Workers : v # w /\ Busy(v) => worker[v].obj # o
      /\ main.at # "wait" => main.obj # o
  BY DEF Exact, AloneInv
<1>5. TodoInv'
  BY DEF Exact, TodoInv, AfterFree
<1>6. EntryInv'
  <2>1. \A g \in Fds : table'[g] # NULL => heap'[table'[g]].live /\ heap'[table'[g]].fd = g /\ sock'[g] # NULL
    BY <1>2, ExactTypes DEF Exact, EntryInv
  <2>2. \A q \in Objs : Live(q)' => table'[heap'[q].fd] = q
    <3> SUFFICES ASSUME NEW q \in Objs, Live(q)' PROVE table'[heap'[q].fd] = q
      OBVIOUS
    <3>1. q # o /\ Live(q) /\ heap'[q] = heap[q]
      BY <1>2, <1>3
    <3>2. table[heap[q].fd] = q /\ heap[q].fd # f /\ heap[q].fd \in Fds
      BY <1>1, <3>1 DEF Exact, EntryInv, Live
    <3> QED
      BY <1>2, <3>1, <3>2
  <2>3. \A g \in epoll' \cup (evs' \cap Fds) : table'[g] # NULL
    <3>1. f \notin epoll \cup evs
      BY <1>1 DEF Quiet
    <3> QED
      BY <1>2, <3>1, ExactTypes DEF Exact, EntryInv
  <2> QED
    BY <2>1, <2>2, <2>3 DEF EntryInv
<1>7. HoldInv'
  <2>1. \A k \in DOMAIN queue' : Live(queue[k].obj)' /\ Quiet(queue[k].obj)'
    <3> SUFFICES ASSUME NEW k \in DOMAIN queue PROVE Live(queue[k].obj)' /\ Quiet(queue[k].obj)'
      OBVIOUS
    <3>1. PICK q \in Objs : q = queue[k].obj /\ q = queue'[k].obj /\ q # o /\ Live(q) /\ Quiet(q)
      BY <1>4, ExactTypes DEF Exact, HoldInv
    <3> QED
      BY <1>3, <3>1 DEF Live, Quiet
  <2>2. \A v \in Workers : Busy(v)' => IF Freed(v)' THEN ~heap'[worker'[v].obj].live
                                                    ELSE Live(worker[v].obj)' /\ Quiet(worker[v].obj)'
    <3> SUFFICES ASSUME NEW v \in Workers, v # w, Busy(v)
                 PROVE  IF Freed(v) THEN ~heap'[worker'[v].obj].live
                                    ELSE Live(worker[v].obj)' /\ Quiet(worker[v].obj)'
      BY <1>2, <1>3
    <3>1. PICK q \in Objs : q = worker[v].obj /\ q = worker'[v].obj /\ q # o
                            /\ IF Freed(v) THEN ~heap[q].live ELSE Live(q) /\ Quiet(q)
      BY <1>4, ExactTypes DEF Exact, HoldInv
    <3> QED
      BY <1>2, <1>3, <3>1 DEF Live, Quiet
  <2>3. main'.at # "wait" => /\ Live(main.obj)' /\ heap'[main'.obj].fd \notin evs'
                             /\ main'.at = "register" => heap'[main'.obj].fd \notin epoll'
    <3> SUFFICES ASSUME main.at # "wait"
                 PROVE  /\ Live(main.obj)' /\ heap'[main'.obj].fd \notin evs'
                        /\ main'.at = "register" => heap'[main'.obj].fd \notin epoll'
      OBVIOUS
    <3>1. PICK q \in Objs : /\ q = main.obj /\ q = main'.obj /\ q # o /\ Live(q) /\ heap[q].fd \notin evs
                            /\ main.at = "register" => heap[q].fd \notin epoll
      BY <1>4, ExactTypes DEF Exact, HoldInv
    <3> QED
      BY <1>2, <1>3, <3>1 DEF Live
  <2> QED
    BY <2>1, <2>2, <2>3 DEF HoldInv
<1>8. AloneInv'
  <2>1. \A v \in Workers : (Busy(v)' <=> Busy(v)) /\ worker'[v].obj = worker[v].obj
    BY <1>3
  <2> QED
    BY <2>1 DEF Exact, AloneInv
<1>9. OrphanInv'
  <2>1. Orphans' = Orphans \cup {f} /\ Closers' = Closers \cup {w} /\ w \notin Closers
    BY <1>1, <1>2, <1>3 DEF Orphans, Closers
  <2>2. IsFiniteSet(Orphans) /\ IsFiniteSet(Closers)
    <3>1. Orphans \subseteq Fds /\ Closers \subseteq Workers /\ IsFiniteSet(Workers)
      BY RouteAssumption DEF Orphans, Closers
    <3>2. IsFiniteSet(Fds)
      <4>1. 1 \in Int /\ NFds \in Int
        BY RouteAssumption
      <4>2. IsFiniteSet(1..NFds)
        BY ONLY <4>1, FS_Interval
      <4> QED
        BY <4>2 DEF Fds
    <3> QED
      BY <3>1, <3>2, FS_Subset
  <2>3. Cardinality(Closers \cup {w}) = Cardinality(Closers) + 1
    BY <2>1, <2>2, FS_AddElement
  <2>4. Cardinality(Orphans \cup {f}) \in {Cardinality(Orphans), Cardinality(Orphans) + 1}
    <3>1. CASE f \in Orphans
      <4>1. Orphans \cup {f} = Orphans
        BY <3>1
      <4> QED
        BY <4>1
    <3>2. CASE f \notin Orphans
      BY <2>2, <3>2, FS_AddElement
    <3> QED
      BY <3>1, <3>2
  <2>5. Cardinality(Orphans) \in Nat /\ Cardinality(Closers) \in Nat
    BY <2>2, FS_CardinalityType
  <2>6. Cardinality(Orphans) <= Cardinality(Closers)
    BY DEF Exact, OrphanInv
  <2>7. Cardinality(Orphans \cup {f}) <= Cardinality(Closers \cup {w})
    BY <2>3, <2>4, <2>5, <2>6
  <2> QED
    BY <2>1, <2>7 DEF OrphanInv
<1> QED
  BY <1>5, <1>6, <1>7, <1>8, <1>9 DEF Exact

LEMMA ExactFinish ==
    ASSUME Types, Exact, NEW w \in Workers, Finish(w), ~dangling' PROVE Exact'
<1>1. /\ worker[w].at = "finish" /\ worker[w].todo # << >>
      /\ worker' = [worker EXCEPT ![w].todo = Tail(@)]
      /\ ~dangling /\ heap[worker[w].obj].live
      /\ UNCHANGED <<evs, main, queue>>
  BY DEF Finish, Uses
<1>2. Busy(w) /\ ~Freed(w)
  BY <1>1 DEF Busy, Exact, HoldInv
<1>3. PICK o \in Objs, f \in Fds :
         o = worker[w].obj /\ f = heap[o].fd /\ Live(o) /\ Quiet(o) /\ table[f] = o /\ sock[f] # NULL
  BY <1>2, ExactTypes DEF Exact, HoldInv, EntryInv, Live
<1>4. /\ \A v \in Workers : v # w => worker'[v] = worker[v]
      /\ worker'[w].obj = o /\ worker'[w].at = "finish" /\ worker'[w].todo = Tail(worker[w].todo)
  BY <1>1, <1>3 DEF Types, PoolTypes, WorkerType
<1>5. worker[w].todo \in {Rearm, Leave, Transfer, Half}
  BY <1>1, <1>2 DEF Exact, TodoInv, Freed, Half
<1>6. CASE worker[w].todo = Rearm
  <2>1. UNCHANGED <<sock, heap, table>> /\ epoll' = epoll \cup {f} /\ worker'[w].todo = << >>
    BY <1>3, <1>4, <1>6, Lists, ConnParts DEF Finish, tableVars, Target
  <2>2. /\ EntryInv'
        /\ \A q \in Objs : Live(q) /\ Quiet(q) /\ q # o => Quiet(q)'
    BY <1>1, <1>3, <2>1, Watched DEF Quiet
  <2>3. ~Busy(w)' /\ ~Freed(w)'
    BY <1>4, <2>1, Lists DEF Busy, Freed, AfterFree
  <2>4. TodoInv'
    BY <1>4, <2>1 DEF Exact, TodoInv
  <2>5. main.at = "register" => heap[main.obj].fd \notin epoll'
    <3> SUFFICES ASSUME main.at = "register" PROVE heap[main.obj].fd \notin epoll'
      OBVIOUS
    <3>1. main.obj \in Objs /\ Live(main.obj) /\ heap[main.obj].fd \notin epoll /\ main.obj # o
      BY <1>2, <1>3, ExactTypes DEF Exact, HoldInv, AloneInv
    <3>2. heap[main.obj].fd # f
      BY <1>3, <3>1, OneEach DEF Exact
    <3> QED
      BY <2>1, <3>1, <3>2
  <2> QED
    BY <1>1, <1>2, <1>3, <1>4, <2>1, <2>2, <2>3, <2>4, <2>5, ExactRelease
<1>7. CASE worker[w].todo = Leave
  <2>1. UNCHANGED <<sock, heap, table>> /\ epoll' = epoll \ {f} /\ worker'[w].todo = Half
    BY <1>3, <1>4, <1>7, Lists DEF Finish, tableVars
  <2>2. UNCHANGED epoll
    BY <1>3, <2>1 DEF Quiet
  <2> QED
    BY <1>1, <1>2, <1>3, <1>4, <2>1, <2>2, BusyStays
<1>8. CASE worker[w].todo \in {Transfer, Half}
  <2>1. TableDelete(f) /\ UNCHANGED <<sock, epoll>> /\ worker'[w].todo \in AfterFree
    BY <1>3, <1>4, <1>8, Lists DEF Finish, kernelVars
  <2> QED
    BY <1>1, <1>2, <1>3, <1>4, <2>1, ExactFree
<1> QED
  BY <1>5, <1>6, <1>7, <1>8

\* Once a freed client_t has been used nothing more is claimed.
LEMMA StillSound ==
    ASSUME [Next]_vars, ~dangling' PROVE ~dangling
<1>1. ASSUME NEW c \in Conns, ClientStep(c) PROVE ~dangling
  BY <1>1 DEF ClientStep, Connect, Send, SendShort, ChildCloses
<1>2. ASSUME NEW p \in Procs, NEW how \in {"reset", "closed"}, NEW last \in {<< >>, <<"exit">>},
             ProcEnds(p, how, last)
      PROVE  ~dangling
  BY <1>2 DEF ProcEnds
<1>3. CASE MainStep
  BY <1>3 DEF MainStep, EpollWait, Accept, AcceptFails, Register, EventForNobody, RecvCmd, Disconnect, Dispatch
<1>4. ASSUME NEW w \in Workers, WorkerStep(w) PROVE ~dangling
  <2>1. CASE Pop(w) \/ DoExit(w) \/ DoTokenNobody(w) \/ NextTask(w)
    BY <2>1 DEF Pop, DoExit, DoTokenNobody, NextTask
  <2>2. CASE DoShort(w) \/ DoTransfer(w) \/ DoLoginUnknown(w) \/ DoLogin(w) \/ DoLoginInit(w) \/ DoTokenExpired(w)
    BY <2>2 DEF DoShort, DoTransfer, DoLoginUnknown, DoLogin, DoLoginInit, DoTokenExpired, Uses
  <2>3. CASE DoLoginPasswd(w) \/ (\E p \in Procs : DoToken(w, p)) \/ DoTokenCopy(w) \/ Finish(w)
    BY <2>3 DEF DoLoginPasswd, DoToken, DoTokenCopy, Finish, Uses
  <2> QED
    BY <1>4, <2>1, <2>2, <2>3 DEF WorkerStep
<1>5. CASE UNCHANGED vars
  BY <1>5 DEF vars
<1> QED
  BY <1>1, <1>2, <1>3, <1>4, <1>5 DEF Next

\* The steps of a handler, between Pop and the calls that are left.
Handler(w) == \/ DoShort(w) \/ DoExit(w) \/ DoTransfer(w)
              \/ DoLoginUnknown(w) \/ DoLogin(w) \/ DoLoginPasswd(w) \/ DoLoginInit(w)
              \/ DoTokenExpired(w) \/ (\E p \in Procs : DoToken(w, p)) \/ DoTokenCopy(w)

\* A handler keeps its task; the only heap field it writes is the user of its client_t.
LEMMA HandlerFacts ==
    ASSUME Types, NEW w \in Workers, Handler(w)
    PROVE  /\ worker[w].at \in {"handle", "passwd", "init", "copy"} /\ worker[w].obj \in Objs
           /\ \A v \in Workers : v # w => worker'[v] = worker[v]
           /\ worker'[w].obj = worker[w].obj
           /\ worker'[w].at \in {"passwd", "init", "copy", "finish"}
           /\ worker'[w].at = "finish" => worker'[w].todo \in Returned
           /\ UNCHANGED <<sock, epoll, evs, main, queue>>
           /\ \A o \in Objs : heap'[o].live = heap[o].live /\ heap'[o].fd = heap[o].fd
           /\ \A o \in Objs : o # worker[w].obj => heap'[o].user = heap[o].user
           /\ ~DoTokenCopy(w) => UNCHANGED table
<1>a. /\ PoolTypes /\ heap \in [Objs -> ClientType]
      /\ worker \in [Workers -> WorkerType] /\ worker[w] \in WorkerType
      /\ \A v \in Workers : worker[v].at # "pop" => worker[v].obj \in Objs
  BY DEF Types, PoolTypes, TableTypes
<1>b. \A o \in Objs : heap[o] \in ClientType
  BY <1>a
<1> DEFINE Done == /\ \A v \in Workers : v # w => worker'[v] = worker[v]
                   /\ worker'[w].obj = worker[w].obj
                   /\ worker'[w].at \in {"passwd", "init", "copy", "finish"}
                   /\ worker'[w].at = "finish" => worker'[w].todo \in Returned
<1>r. ASSUME worker[w].at # "pop", NEW ops \in Returned, Returns(w, ops) PROVE Done
  <2>1. ops \in Seq(Calls)
    BY ListsTyped DEF Returned
  <2> QED
    BY <1>a, <1>r, <2>1, ReturnsMoves DEF Moved
<1>l. Rearm \in Returned /\ Leave \in Returned /\ Transfer \in Returned
  BY DEF Returned
<1>1. CASE DoShort(w) \/ DoExit(w) \/ DoTransfer(w)
  <2>1. Done
    BY <1>1, <1>r, <1>l DEF DoShort, DoExit, DoTransfer
  <2> QED
    BY <1>1, <1>a, <2>1 DEF DoShort, DoExit, DoTransfer, kernelVars, tableVars
<1>2. CASE DoLoginUnknown(w) \/ DoTokenExpired(w)
  <2>1. Done
    BY <1>2, <1>r, <1>l DEF DoLoginUnknown, DoTokenExpired
  <2> QED
    BY <1>2, <1>a, <2>1 DEF DoLoginUnknown, DoTokenExpired, kernelVars, tableVars
<1>3. CASE DoLogin(w)
  <2>1. Done
    BY <1>3, <1>a DEF DoLogin, WorkerType
  <2> QED
    BY <1>3, <1>a, <2>1 DEF DoLogin, kernelVars, tableVars
<1>4. CASE DoLoginPasswd(w)
  <2>1. \/ worker' = [worker EXCEPT ![w].at = "init", ![w].user = Target(heap[worker[w].obj].fd)[1]]
        \/ Returns(w, Rearm)
    BY <1>4 DEF DoLoginPasswd
  <2>2. worker[w].at = "passwd" /\ UNCHANGED <<sock, epoll, evs, main, queue, heap, table>>
    BY <1>4 DEF DoLoginPasswd, kernelVars, tableVars
  <2>3. ASSUME Returns(w, Rearm) PROVE Done
    BY <1>r, <1>l, <2>2, <2>3
  <2>4. ASSUME worker' = [worker EXCEPT ![w].at = "init", ![w].user = Target(heap[worker[w].obj].fd)[1]] PROVE Done
    BY <1>a, <2>4 DEF WorkerType
  <2>5. Done
    BY <2>1, <2>3, <2>4
  <2> QED
    BY <1>a, <2>2, <2>5
<1>5. CASE DoLoginInit(w)
  <2>1. Done
    BY <1>5, <1>r, <1>l DEF DoLoginInit
  <2>2. /\ worker[w].at = "init" /\ heap' = [heap EXCEPT ![worker[w].obj].user = worker[w].user]
        /\ UNCHANGED <<sock, epoll, evs, main, queue, table>>
    BY <1>5 DEF DoLoginInit, kernelVars
  <2>3. worker[w].obj \in Objs
    BY <1>a, <2>2
  <2>4. /\ \A o \in Objs : heap'[o].live = heap[o].live /\ heap'[o].fd = heap[o].fd
        /\ \A o \in Objs : o # worker[w].obj => heap'[o].user = heap[o].user
    BY <1>a, <1>b, <2>2, <2>3 DEF ClientType
  <2> QED
    BY <2>1, <2>2, <2>3, <2>4
<1>6. ASSUME NEW p \in Procs, DoToken(w, p) PROVE Done /\ worker[w].at = "handle" /\ UNCHANGED <<sock, epoll, evs, main, queue, heap, table>>
  <2>1. Done
    BY <1>6, <1>a DEF DoToken, WorkerType
  <2> QED
    BY <1>6, <2>1 DEF DoToken, kernelVars, tableVars
<1>7. CASE DoTokenCopy(w)
  <2>1. Done
    BY <1>7, <1>r, <1>l DEF DoTokenCopy
  <2>2. /\ worker[w].at = "copy" /\ heap' = [heap EXCEPT ![worker[w].obj].user = heap[worker[w].ref].user]
        /\ UNCHANGED <<sock, epoll, evs, main, queue>>
    BY <1>7 DEF DoTokenCopy, kernelVars
  <2>3. worker[w].obj \in Objs
    BY <1>a, <2>2
  <2>4. /\ \A o \in Objs : heap'[o].live = heap[o].live /\ heap'[o].fd = heap[o].fd
        /\ \A o \in Objs : o # worker[w].obj => heap'[o].user = heap[o].user
    BY <1>a, <1>b, <2>2, <2>3 DEF ClientType
  <2> QED
    BY <1>7, <2>1, <2>2, <2>3, <2>4
<1> QED
  BY <1>1, <1>2, <1>3, <1>4, <1>5, <1>6, <1>7, <1>a DEF Handler

LEMMA ExactHandler ==
    ASSUME Types, Exact, NEW w \in Workers, Handler(w), ~dangling' PROVE Exact'
<1>1. /\ worker[w].at \in {"handle", "passwd", "init", "copy"}
      /\ \A v \in Workers : v # w => worker'[v] = worker[v]
      /\ worker'[w].obj = worker[w].obj
      /\ worker'[w].at \in {"passwd", "init", "copy", "finish"}
      /\ worker'[w].at = "finish" => worker'[w].todo \in Returned
      /\ UNCHANGED <<sock, epoll, evs, main, queue>>
      /\ \A o \in Objs : heap'[o].live = heap[o].live /\ heap'[o].fd = heap[o].fd
      /\ ~DoTokenCopy(w) => UNCHANGED table
  BY HandlerFacts
<1>2. Busy(w) /\ ~Freed(w)
  BY <1>1 DEF Busy, Freed
<1>3. ASSUME DoTokenCopy(w) PROVE UNCHANGED table
  <2>1. /\ worker[w].ref # NULL /\ heap[worker[w].ref].live
        /\ table' = IF heap[worker[w].ref].fd \in Fds THEN TablePut(heap[worker[w].ref].fd, worker[w].ref) ELSE table
    BY <1>3 DEF DoTokenCopy
  <2>2. worker[w].ref \in Objs
    BY <2>1 DEF Types, PoolTypes, WorkerType
  <2>3. heap[worker[w].ref].fd \in Fds => table[heap[worker[w].ref].fd] = worker[w].ref
    BY <2>1, <2>2 DEF Exact, EntryInv, Live
  <2> QED
    BY <2>1, <2>3 DEF TablePut
<1>4. UNCHANGED <<table, sock, epoll, evs, main, queue>>
  BY <1>1, <1>3
<1> QED
  BY <1>1, <1>2, <1>4, BusyStays

LEMMA ExactNext ==
    ASSUME Types, Exact, [Next]_vars, ~dangling' PROVE Exact'
<1>1. ASSUME NEW c \in Conns, ClientStep(c) PROVE Exact'
  BY <1>1, ServerStill DEF ClientStep, Connect, Send, SendShort, ChildCloses, kernelVars, tableVars
<1>2. ASSUME NEW p \in Procs, NEW how \in {"reset", "closed"}, NEW last \in {<< >>, <<"exit">>},
             ProcEnds(p, how, last)
      PROVE  Exact'
  BY <1>2, ServerStill DEF ProcEnds, kernelVars, tableVars
<1>3. ASSUME NEW f \in Fds, EventForNobody(f) PROVE Exact'
  BY <1>3, ServerStill DEF EventForNobody, kernelVars, tableVars
<1>4. CASE MainStep
  BY <1>3, <1>4, ExactEpollWait, ExactAccept, ExactAcceptFails, ExactRegister, ExactRecvCmd, ExactDisconnect, ExactDispatch
     DEF MainStep
<1>5. ASSUME NEW w \in Workers, DoTokenNobody(w) PROVE Exact'
  BY <1>5, ServerStill DEF DoTokenNobody, kernelVars, tableVars
<1>6. ASSUME NEW w \in Workers, WorkerStep(w) PROVE Exact'
  BY <1>5, <1>6, ExactPop, ExactHandler, ExactFinish, ExactNextTask DEF WorkerStep, Handler
<1>7. CASE UNCHANGED vars
  BY <1>7, ServerStill DEF vars
<1> QED
  BY <1>1, <1>2, <1>4, <1>6, <1>7 DEF Next

-----------------------------------------------------------------------------
(* Whose session it is *)

LEMMA ServedFacts ==
    ASSUME Types, Exact, NEW w \in Workers, worker[w].at \in {"handle", "passwd", "init", "copy"}
    PROVE  /\ worker[w].obj \in Objs /\ Live(worker[w].obj) /\ Busy(w)
           /\ heap[worker[w].obj].fd \in Fds
           /\ table[heap[worker[w].obj].fd] = worker[w].obj
           /\ Served(w) \in Conns /\ Served(w)[1] \in Procs
<1>1. Busy(w) /\ ~Freed(w)
  BY DEF Busy, Freed
<1>2. worker[w].obj \in Objs /\ Live(worker[w].obj)
  BY <1>1, ExactTypes DEF Exact, HoldInv
<1>3. heap[worker[w].obj].fd \in Fds /\ table[heap[worker[w].obj].fd] = worker[w].obj
  BY <1>2 DEF Exact, EntryInv, Live
<1>4. Served(w) \in Conns
  BY <1>2, <1>3, ExactTypes DEF Exact, EntryInv, Served
<1> QED
  BY <1>1, <1>2, <1>3, <1>4, ConnParts

\* Steps that verify nobody and give no token.
LEMMA IdentityKeeps ==
    ASSUME Types, Exact, IdentityInv, ~dangling, UNCHANGED token,
           \A p \in Procs : peer'[<<p, "main">>] = "open" =>
              \/ peer[<<p, "main">>] = "open"
              \/ token[p] = NULL /\ \A f \in Fds : sock[f] # NULL => sock[f][1] # p,
           \A f \in Fds : sock'[f] # NULL /\ table'[f] # NULL =>
              \/ heap'[table'[f]].user = NULL
              \/ sock'[f] = sock[f] /\ table'[f] = table[f] /\ heap'[table'[f]].user = heap[table[f]].user,
           \A f \in Fds : sock'[f] = sock[f] \/ sock[f] = NULL \/ peer[sock[f]] = "closed",
           \A w \in Workers : worker'[w].at \in {"init", "copy"} =>
              worker'[w] = worker[w] /\ heap'[worker[w].obj].fd = heap[worker[w].obj].fd
              /\ sock'[heap[worker[w].obj].fd] = sock[heap[worker[w].obj].fd],
           \A w \in Workers : worker[w].at = "copy" /\ worker[w].ref # NULL /\ heap'[worker[w].ref].live =>
              heap[worker[w].ref].live /\ heap'[worker[w].ref].fd = heap[worker[w].ref].fd
    PROVE  IdentityInv'
<1>1. SessionIdentity'
  <2> SUFFICES ASSUME NEW f \in Fds, sock'[f] # NULL, table'[f] # NULL, peer'[<<sock'[f][1], "main">>] = "open"
               PROVE  heap'[table'[f]].user \in {NULL, sock'[f][1]}
    BY DEF SessionIdentity
  <2>1. CASE heap'[table'[f]].user = NULL
    BY <2>1
  <2>2. CASE sock'[f] = sock[f] /\ table'[f] = table[f] /\ heap'[table'[f]].user = heap[table[f]].user
    <3>1. sock[f][1] \in Procs /\ sock[f] # NULL /\ table[f] # NULL
      BY <2>2, ExactTypes, ConnParts
    <3>2. peer[<<sock[f][1], "main">>] = "open"
      BY <2>2, <3>1
    <3>3. heap[table[f]].user \in {NULL, sock[f][1]}
      BY <3>1, <3>2 DEF IdentityInv, SessionIdentity
    <3> QED
      BY <2>2, <3>3
  <2> QED
    BY <2>1, <2>2
<1>2. \A w \in Workers : worker'[w].at = "init" => worker'[w].user = Served(w)'[1]
  BY DEF IdentityInv, Served
<1>3. \A p \in Procs : token'[p] # NULL /\ peer'[<<p, "main">>] = "open" => sock'[token'[p]] = <<p, "main">>
  <2> SUFFICES ASSUME NEW p \in Procs, token[p] # NULL, peer'[<<p, "main">>] = "open"
               PROVE  sock'[token[p]] = <<p, "main">>
    OBVIOUS
  <2>1. token[p] \in Fds /\ <<p, "main">> \in Conns
    BY ConnParts DEF Types, TokenTypes
  <2>2. peer[<<p, "main">>] = "open"
    OBVIOUS
  <2>3. sock[token[p]] = <<p, "main">>
    BY <2>2 DEF IdentityInv
  <2> QED
    BY <2>1, <2>2, <2>3, ConnParts
<1>4. ASSUME NEW w \in Workers, worker'[w].at = "copy", worker'[w].ref # NULL,
             peer'[<<Served(w)'[1], "main">>] = "open", heap'[worker'[w].ref].live
      PROVE  /\ heap'[worker'[w].ref].fd \in Fds
             /\ sock'[heap'[worker'[w].ref].fd] = <<Served(w)'[1], "main">>
  <2>1. worker'[w] = worker[w] /\ worker[w].at = "copy" /\ Served(w)' = Served(w)
    BY <1>4 DEF Served
  <2>2. Served(w) \in Conns /\ Served(w)[1] \in Procs /\ heap[worker[w].obj].fd \in Fds
    BY <2>1, ServedFacts
  <2>3. PICK k, o : k = Served(w) /\ k = Served(w)' /\ o = worker[w].ref /\ o = worker'[w].ref
    BY <2>1
  <2>4. <<k[1], "main">> \in Conns /\ peer'[<<k[1], "main">>] = "open"
    BY <1>4, <2>2, <2>3, ConnParts
  <2>5. peer[<<k[1], "main">>] = "open"
    <3>1. PICK p \in Procs : p = k[1]
      BY <2>2, <2>3
    <3>2. PICK f \in Fds : f = heap[worker[w].obj].fd
      BY <2>2
    <3>3. sock[f] = k /\ k # NULL
      <4>1. Served(w) = sock[f]
        BY <3>2 DEF Served
      <4>2. Served(w) = k /\ Served(w) # NULL
        BY <2>2, <2>3, ConnParts
      <4> QED
        BY <4>1, <4>2
    <3>4. peer'[<<p, "main">>] = "open"
      BY <2>4, <3>1
    <3>5. peer[<<p, "main">>] = "open" \/ \A g \in Fds : sock[g] # NULL => sock[g][1] # p
      BY <3>4
    <3> QED
      BY <3>1, <3>3, <3>5
  <2>6. o # NULL /\ heap'[o].live
    BY <1>4, <2>3
  <2>7. heap[o].live /\ heap'[o].fd = heap[o].fd
    BY <2>1, <2>3, <2>6
  <2>8. heap[o].fd \in Fds /\ sock[heap[o].fd] = <<k[1], "main">>
    <3>1. worker[w].at = "copy" /\ worker[w].ref # NULL
          /\ peer[<<Served(w)[1], "main">>] = "open" /\ heap[worker[w].ref].live
          => /\ heap[worker[w].ref].fd \in Fds
             /\ sock[heap[worker[w].ref].fd] = <<Served(w)[1], "main">>
      BY DEF IdentityInv
    <3>2. Served(w) = k /\ worker[w].ref = o
      BY <2>3
    <3>3. worker[w].at = "copy" /\ o # NULL /\ peer[<<k[1], "main">>] = "open" /\ heap[o].live
      BY <2>1, <2>5, <2>6, <2>7
    <3> QED
      BY <3>1, <3>2, <3>3
  <2>9. sock'[heap[o].fd] = sock[heap[o].fd]
    <3>1. PICK f \in Fds : f = heap[o].fd
      BY <2>8
    <3>2. sock[f] # NULL /\ peer[sock[f]] = "open"
      BY <2>4, <2>5, <2>8, <3>1, ConnParts
    <3>3. sock'[f] = sock[f]
      BY <3>2
    <3> QED
      BY <3>1, <3>3
  <2>10. heap'[o].fd \in Fds /\ sock'[heap'[o].fd] = <<k[1], "main">>
    BY <2>7, <2>8, <2>9
  <2>11. worker'[w].ref = o /\ Served(w)' = k
    BY <2>3
  <2> QED
    BY <2>10, <2>11
<1> QED
  BY <1>1, <1>2, <1>3, <1>4 DEF IdentityInv

\* Neither a descriptor, a client_t nor what a worker verified changes.
LEMMA IdentityStill ==
    ASSUME Types, Exact, IdentityInv, ~dangling, UNCHANGED <<token, sock, heap>>,
           \A f \in Fds : table'[f] # NULL => table'[f] = table[f],
           \A c \in Conns : peer'[c] = "open" => peer[c] = "open",
           \A w \in Workers : worker'[w].at \in {"init", "copy"} => worker'[w] = worker[w]
    PROVE  IdentityInv'
BY IdentityKeeps, ConnParts

LEMMA IdentityClient ==
    ASSUME Types, ClientInv, Exact, IdentityInv, ~dangling,
           \/ \E c \in Conns : ClientStep(c)
           \/ \E p \in Procs, how \in {"reset", "closed"}, last \in {<< >>, <<"exit">>} : ProcEnds(p, how, last)
    PROVE  IdentityInv'
<1>a. peer \in [Conns -> {"off", "open", "reset", "closed"}]
  BY DEF Types, PeerTypes
<1>1. ASSUME NEW c \in Conns, Connect(c) PROVE IdentityInv'
  <2>1. /\ UNCHANGED <<token, sock, heap, table, worker>> /\ peer[c] = "off"
        /\ peer' = [peer EXCEPT ![c] = "open"]
    BY <1>1 DEF Connect, kernelVars, tableVars
  <2>2. ASSUME NEW p \in Procs, peer'[<<p, "main">>] = "open", peer[<<p, "main">>] # "open"
        PROVE  token[p] = NULL /\ \A f \in Fds : sock[f] # NULL => sock[f][1] # p
    <3>1. <<p, "main">> \in Conns /\ <<p, "child">> \in Conns /\ peer[<<p, "main">>] = "off"
      BY <1>a, <2>1, <2>2, ConnParts
    <3>2. token[p] = NULL /\ peer[<<p, "child">>] = "off"
      BY <3>1 DEF ClientInv
    <3>3. \A f \in Fds : sock[f] # <<p, "main">> /\ sock[f] # <<p, "child">>
      BY <3>1, <3>2 DEF ClientInv
    <3>4. \A f \in Fds : sock[f] # NULL => sock[f][2] \in {"main", "child"} /\ sock[f] = <<sock[f][1], sock[f][2]>>
      BY ExactTypes, ConnParts
    <3> QED
      BY <3>2, <3>3, <3>4
  <2> QED
    BY <2>1, <2>2, IdentityKeeps
<1>2. ASSUME NEW c \in Conns, Send(c) \/ SendShort(c) PROVE IdentityInv'
  BY <1>2, IdentityStill DEF Send, SendShort, kernelVars, tableVars
<1>3. ASSUME NEW c \in Conns, ChildCloses(c) PROVE IdentityInv'
  BY <1>3, <1>a, IdentityStill DEF ChildCloses, kernelVars, tableVars
<1>4. ASSUME NEW p \in Procs, NEW how \in {"reset", "closed"}, NEW last \in {<< >>, <<"exit">>}, ProcEnds(p, how, last)
      PROVE  IdentityInv'
  <2>1. \A c \in Conns : peer'[c] = "open" => peer[c] = "open"
    BY <1>4 DEF ProcEnds
  <2> QED
    BY <1>4, <2>1, IdentityStill DEF ProcEnds, kernelVars, tableVars
<1> QED
  BY <1>1, <1>2, <1>3, <1>4 DEF ClientStep

LEMMA IdentityAccept ==
    ASSUME Types, Exact, IdentityInv, NEW c \in Conns, NEW o \in Objs, Accept(c, o), ~dangling'
    PROVE  IdentityInv'
<1>1. PICK fd \in Fds : /\ sock[fd] = NULL /\ sock' = [sock EXCEPT ![fd] = c]
                        /\ heap' = [heap EXCEPT ![o] = [live |-> TRUE, fd |-> fd, user |-> NULL]]
                        /\ table' = TablePut(fd, o)
  BY FreeFd DEF Accept
<1>2. ~Referenced(o) /\ ~dangling /\ ~heap[o].live /\ UNCHANGED <<peer, token, worker>>
  BY DEF Accept
<1>3. table[fd] = NULL
  BY <1>1 DEF Exact, EntryInv
<1>4. /\ \A q \in Objs : q # o => heap'[q] = heap[q]
      /\ heap'[o].user = NULL /\ table'[fd] = o
      /\ \A f \in Fds : f # fd => table'[f] = table[f] /\ sock'[f] = sock[f]
  BY <1>1, <1>3, ExactTypes DEF TablePut
<1>5. \A f \in Fds : table[f] # o
  BY <1>2, ConnParts DEF Exact, EntryInv
<1>6. \A w \in Workers : worker[w].at \in {"init", "copy"} =>
         /\ worker[w].obj \in Objs /\ worker[w].obj # o
         /\ heap[worker[w].obj].fd \in Fds /\ heap[worker[w].obj].fd # fd
  BY <1>2, <1>3, ServedFacts, ConnParts DEF Live
<1>7. \A w \in Workers : worker[w].at = "copy" => worker[w].ref # o /\ worker[w].ref \in Objs \cup {NULL}
  BY <1>2, NotHeld DEF Types, PoolTypes, WorkerType
<1>8. \A f \in Fds : sock'[f] # NULL /\ table'[f] # NULL =>
         \/ heap'[table'[f]].user = NULL
         \/ sock'[f] = sock[f] /\ table'[f] = table[f] /\ heap'[table'[f]].user = heap[table[f]].user
  BY <1>4, <1>5, ExactTypes
<1>9. \A f \in Fds : sock'[f] = sock[f] \/ sock[f] = NULL
  BY <1>1, <1>4
<1> QED
  BY <1>2, <1>4, <1>6, <1>7, <1>8, <1>9, IdentityKeeps

LEMMA IdentityAcceptFails ==
    ASSUME Types, Exact, IdentityInv, NEW o \in Objs, AcceptFails(o), ~dangling'
    PROVE  IdentityInv'
<1>1. /\ ~Referenced(o) /\ ~dangling /\ ~heap[o].live /\ UNCHANGED <<peer, token, worker, table, sock>>
      /\ heap' = [heap EXCEPT ![o] = [live |-> TRUE, fd |-> Garbage, user |-> NULL]]
  BY DEF AcceptFails, clientVars, kernelVars
<1>2. \A q \in Objs : q # o => heap'[q] = heap[q]
  BY <1>1, ExactTypes
<1>3. \A f \in Fds : table[f] # o
  BY <1>1, ConnParts DEF Exact, EntryInv
<1>4. \A w \in Workers : worker[w].at \in {"init", "copy"} => worker[w].obj \in Objs /\ worker[w].obj # o
  BY <1>1, ServedFacts DEF Live
<1>5. \A w \in Workers : worker[w].at = "copy" => worker[w].ref # o /\ worker[w].ref \in Objs \cup {NULL}
  BY <1>1, NotHeld DEF Types, PoolTypes, WorkerType
<1>6. \A f \in Fds : table'[f] # NULL => heap'[table'[f]].user = heap[table[f]].user
  BY <1>1, <1>2, <1>3, ExactTypes
<1> QED
  BY <1>1, <1>2, <1>4, <1>5, <1>6, IdentityKeeps

\* The entry of f and its client_t go, with the descriptor or without it.
LEMMA IdentityDelete ==
    ASSUME Types, Exact, IdentityInv, ~dangling, NEW f \in Fds, table[f] # NULL, TableDelete(f), UNCHANGED <<peer, token>>,
           \A g \in Fds : g # f => sock'[g] = sock[g],
           sock'[f] = sock[f] \/ peer[sock[f]] = "closed",
           \A w \in Workers : worker'[w].at \in {"init", "copy"} => worker'[w] = worker[w] /\ worker[w].obj # table[f]
    PROVE  IdentityInv'
<1>1. PICK o \in Objs : o = table[f]
  BY ExactTypes
<1>2. /\ ~heap'[o].live
      /\ \A q \in Objs : q # o => heap'[q] = heap[q]
      /\ table'[f] = NULL
      /\ \A g \in Fds : g # f => table'[g] = table[g] /\ table[g] # o
  BY <1>1, Deleted
<1>3. \A w \in Workers : worker'[w].at \in {"init", "copy"} =>
         worker[w].obj \in Objs /\ worker[w].obj # o /\ heap[worker[w].obj].fd \in Fds /\ heap[worker[w].obj].fd # f
  <2> SUFFICES ASSUME NEW w \in Workers, worker'[w].at \in {"init", "copy"}
               PROVE  worker[w].obj \in Objs /\ worker[w].obj # o /\ heap[worker[w].obj].fd \in Fds /\ heap[worker[w].obj].fd # f
    OBVIOUS
  <2>1. worker[w].at \in {"init", "copy"} /\ worker[w].obj # o
    BY <1>1
  <2> QED
    BY <1>1, <2>1, ServedFacts
<1>4. \A w \in Workers : worker[w].at = "copy" => worker[w].ref \in Objs \cup {NULL}
  BY DEF Types, PoolTypes, WorkerType
<1>5. \A g \in Fds : table'[g] # NULL => sock'[g] = sock[g] /\ table'[g] = table[g] /\ heap'[table'[g]].user = heap[table[g]].user
  BY <1>2, ExactTypes
<1>6. \A g \in Fds : sock'[g] = sock[g] \/ peer[sock[g]] = "closed"
  OBVIOUS
<1>7. \A w \in Workers : worker'[w].at \in {"init", "copy"} =>
              worker'[w] = worker[w] /\ heap'[worker[w].obj].fd = heap[worker[w].obj].fd
              /\ sock'[heap[worker[w].obj].fd] = sock[heap[worker[w].obj].fd]
  BY <1>2, <1>3
<1>8. \A w \in Workers : worker[w].at = "copy" /\ worker[w].ref # NULL /\ heap'[worker[w].ref].live =>
              heap[worker[w].ref].live /\ heap'[worker[w].ref].fd = heap[worker[w].ref].fd
  BY <1>2, <1>4
<1> QED
  BY <1>5, <1>6, <1>7, <1>8, IdentityKeeps

LEMMA IdentityMain ==
    ASSUME Types, Exact, IdentityInv, MainStep, ~dangling, ~dangling' PROVE IdentityInv'
<1>1. ASSUME NEW f \in Fds, RecvCmd(f) PROVE IdentityInv'
  <2>1. /\ UNCHANGED <<token, sock, heap, table, worker>>
        /\ \A c \in Conns : peer'[c] = "open" => peer[c] = "open"
    BY <1>1 DEF RecvCmd, kernelVars, tableVars, Types, PeerTypes
  <2> QED
    BY <2>1, IdentityStill
<1>2. ASSUME NEW f \in Fds, Disconnect(f) PROVE IdentityInv'
  <2>1. /\ f \in evs \cap Fds /\ table[f] # NULL /\ TableDelete(f) /\ sock' = [sock EXCEPT ![f] = NULL]
        /\ peer[sock[f]] = "closed" /\ UNCHANGED <<peer, token, worker>>
    BY <1>2 DEF Disconnect, clientVars
  <2>2. \A w \in Workers : Busy(w) => worker[w].obj # table[f]
    BY <2>1, EventFree
  <2>3. \A w \in Workers : worker[w].at \in {"init", "copy"} => Busy(w)
    BY DEF Busy
  <2> QED
    BY <2>1, <2>2, <2>3, IdentityDelete
<1>3. CASE EpollWait \/ Register \/ (\E f \in Fds : EventForNobody(f))
  BY <1>3, IdentityStill DEF EpollWait, Register, EventForNobody, clientVars, kernelVars, tableVars
<1>4. CASE Dispatch
  <2>1. /\ main.at = "dispatch"
        /\ table' = IF heap[main.obj].fd \in Fds THEN TablePut(heap[main.obj].fd, main.obj) ELSE table
        /\ UNCHANGED <<peer, token, sock, heap, worker>>
    BY <1>4 DEF Dispatch, clientVars
  <2>2. main.obj \in Objs /\ Live(main.obj)
    BY <2>1, ExactTypes DEF Exact, HoldInv
  <2>3. UNCHANGED table
    BY <2>1, <2>2, ConnParts DEF TablePut, Exact, EntryInv, Live
  <2> QED
    BY <2>1, <2>3, IdentityStill
<1> QED
  BY <1>1, <1>2, <1>3, <1>4, IdentityAccept, IdentityAcceptFails DEF MainStep

LEMMA IdentityFinish ==
    ASSUME Types, Exact, IdentityInv, NEW w \in Workers, Finish(w), ~dangling, ~dangling' PROVE IdentityInv'
<1>1. /\ worker[w].at = "finish" /\ worker[w].todo # << >> /\ heap[worker[w].obj].live
      /\ worker' = [worker EXCEPT ![w].todo = Tail(@)] /\ UNCHANGED <<peer, token>>
  BY DEF Finish, Uses, clientVars
<1>2. Busy(w) /\ ~Freed(w)
  BY <1>1 DEF Busy, Exact, HoldInv
<1>3. PICK o \in Objs, f \in Fds : o = worker[w].obj /\ f = heap[o].fd /\ Live(o) /\ table[f] = o
  BY <1>2, ExactTypes DEF Exact, HoldInv, EntryInv, Live
<1>4. (\A v \in Workers : v # w => worker'[v] = worker[v]) /\ worker'[w].at = "finish"
  BY <1>1 DEF Types, PoolTypes, WorkerType
<1>5. worker[w].todo \in {Rearm, Leave, Transfer, Half}
  BY <1>1, <1>2 DEF Exact, TodoInv, Freed, Half
<1>6. CASE worker[w].todo \in {Rearm, Leave}
  <2>1. UNCHANGED <<sock, heap, table>>
    BY <1>6, Lists DEF Finish, tableVars
  <2>2. \A v \in Workers : worker'[v].at \in {"init", "copy"} => worker'[v] = worker[v]
    BY <1>4
  <2> QED
    BY <1>1, <2>1, <2>2, IdentityStill
<1>7. CASE worker[w].todo \in {Transfer, Half}
  <2>1. TableDelete(f) /\ UNCHANGED sock
    BY <1>3, <1>7, Lists DEF Finish, kernelVars
  <2>2. \A v \in Workers : worker'[v].at \in {"init", "copy"} => worker'[v] = worker[v] /\ worker[v].obj # o
    BY <1>2, <1>3, <1>4 DEF Exact, AloneInv, Busy
  <2>3. table[f] # NULL
    BY <1>3, ConnParts
  <2> QED
    BY <1>1, <1>3, <2>1, <2>2, <2>3, IdentityDelete
<1> QED
  BY <1>5, <1>6, <1>7

\* The right password gives the client's own process a token and the worker its name.
LEMMA IdentityPasswd ==
    ASSUME Types, ClientInv, Exact, IdentityInv, NEW w \in Workers, DoLoginPasswd(w), ~dangling
    PROVE  IdentityInv'
<1>1. PICK f \in Fds : f = heap[worker[w].obj].fd /\ Target(f) = Served(w) /\ Served(w) = sock[f]
  BY ServedFacts DEF DoLoginPasswd, Target, Served
<1>2. Served(w) \in Conns
  BY ServedFacts DEF DoLoginPasswd
<1>3. UNCHANGED <<peer, sock, heap, table>> /\ worker[w].at = "passwd"
  BY DEF DoLoginPasswd, kernelVars, tableVars
<1>4. worker[w] \in WorkerType /\ DOMAIN worker = Workers
  BY DEF Types, PoolTypes
<1>5. CASE Returns(w, Rearm) /\ UNCHANGED token
  <2>1. \A v \in Workers : worker'[v].at \in {"init", "copy"} => worker'[v] = worker[v]
    BY <1>4, <1>5 DEF Returns, WorkerType
  <2> QED
    BY <1>3, <1>5, <2>1, IdentityStill
<1>6. CASE /\ inbox[Served(w)] # << >> /\ Head(inbox[Served(w)]) = "passwd"
           /\ token' = [token EXCEPT ![Served(w)[1]] = f]
           /\ worker' = [worker EXCEPT ![w].at = "init", ![w].user = Served(w)[1]]
  <2>1. Served(w)[2] = "main"
    <3>1. inbox[Served(w)] \in Seq(Messages)
      BY <1>2 DEF Types, PeerTypes
    <3>2. 1 \in DOMAIN inbox[Served(w)] /\ inbox[Served(w)][1] = "passwd"
      BY <1>6, <3>1
    <3> QED
      BY <1>2, <3>2 DEF ClientInv
  <2>2. PICK p \in Procs : p = Served(w)[1] /\ Served(w) = <<p, "main">>
    BY <1>2, <2>1, ConnParts
  <2>3. /\ \A v \in Workers : v # w => worker'[v] = worker[v]
        /\ worker'[w].at = "init" /\ worker'[w].user = p /\ worker'[w].obj = worker[w].obj
    BY <1>4, <1>6, <2>2 DEF WorkerType
  <2>4. \A v \in Workers : Served(v)' = Served(v)
    BY <1>3, <2>3 DEF Served
  <2>5. SessionIdentity'
    BY <1>3 DEF IdentityInv, SessionIdentity
  <2>6. \A v \in Workers : worker'[v].at = "init" => worker'[v].user = Served(v)'[1]
    BY <2>2, <2>3, <2>4 DEF IdentityInv
  <2>7. \A q \in Procs : token'[q] # NULL /\ peer'[<<q, "main">>] = "open" => sock'[token'[q]] = <<q, "main">>
    <3>1. \A q \in Procs : token'[q] = IF q = p THEN f ELSE token[q]
      BY <1>6, <2>2 DEF Types, TokenTypes
    <3> QED
      BY <1>1, <1>3, <2>2, <3>1 DEF IdentityInv
  <2>8. ASSUME NEW v \in Workers, worker'[v].at = "copy", worker'[v].ref # NULL,
               peer'[<<Served(v)'[1], "main">>] = "open", heap'[worker'[v].ref].live
        PROVE  /\ heap'[worker'[v].ref].fd \in Fds
               /\ sock'[heap'[worker'[v].ref].fd] = <<Served(v)'[1], "main">>
    <3>1. worker'[v] = worker[v]
      BY <2>3, <2>8
    <3> QED
      BY <1>3, <2>4, <2>8, <3>1 DEF IdentityInv
  <2> QED
    BY <2>5, <2>6, <2>7, <2>8 DEF IdentityInv
<1> QED
  BY <1>1, <1>5, <1>6 DEF DoLoginPasswd

\* A write of the user of a worker's own client_t.
LEMMA IdentityUser ==
    ASSUME Types, Exact, IdentityInv, ~dangling, NEW w \in Workers, worker[w].at \in {"init", "copy"},
           UNCHANGED <<peer, token, sock>>,
           \A f \in Fds : table'[f] # NULL => table'[f] = table[f],
           \A v \in Workers : v # w => worker'[v] = worker[v], worker'[w].at = "finish",
           \A o \in Objs : heap'[o].live = heap[o].live /\ heap'[o].fd = heap[o].fd,
           \A o \in Objs : o # worker[w].obj => heap'[o].user = heap[o].user,
           peer[<<Served(w)[1], "main">>] = "open" => heap'[worker[w].obj].user \in {NULL, Served(w)[1]}
    PROVE  IdentityInv'
<1>1. SessionIdentity'
  <2> SUFFICES ASSUME NEW f \in Fds, sock[f] # NULL, table'[f] # NULL, peer[<<sock[f][1], "main">>] = "open"
               PROVE  heap'[table'[f]].user \in {NULL, sock[f][1]}
    BY DEF SessionIdentity
  <2>1. table'[f] = table[f] /\ table[f] \in Objs /\ heap[table[f]].fd = f /\ heap[table[f]].user \in {NULL, sock[f][1]}
    BY ExactTypes DEF IdentityInv, SessionIdentity, Exact, EntryInv
  <2>2. CASE table[f] = worker[w].obj
    BY <2>1, <2>2 DEF Served
  <2>3. CASE table[f] # worker[w].obj
    BY <2>1, <2>3
  <2> QED
    BY <2>2, <2>3
<1>2. \A v \in Workers : v # w /\ worker[v].at \in {"init", "copy"} => Served(v)' = Served(v)
  BY ServedFacts DEF Served
<1>3. \A v \in Workers : worker'[v].at = "init" => worker'[v].user = Served(v)'[1]
  BY <1>2 DEF IdentityInv
<1>4. \A p \in Procs : token'[p] # NULL /\ peer'[<<p, "main">>] = "open" => sock'[token'[p]] = <<p, "main">>
  BY DEF IdentityInv
<1>5. ASSUME NEW v \in Workers, worker'[v].at = "copy", worker'[v].ref # NULL,
             peer'[<<Served(v)'[1], "main">>] = "open", heap'[worker'[v].ref].live
      PROVE  /\ heap'[worker'[v].ref].fd \in Fds
             /\ sock'[heap'[worker'[v].ref].fd] = <<Served(v)'[1], "main">>
  <2>1. v # w /\ worker'[v] = worker[v] /\ Served(v)' = Served(v) /\ worker[v].ref \in Objs
    BY <1>2, <1>5 DEF Types, PoolTypes, WorkerType
  <2>2. heap'[worker[v].ref].fd = heap[worker[v].ref].fd /\ heap[worker[v].ref].live
    BY <1>5, <2>1
  <2>3. /\ heap[worker[v].ref].fd \in Fds
        /\ sock[heap[worker[v].ref].fd] = <<Served(v)[1], "main">>
    <3>1. peer'[<<Served(v)[1], "main">>] = "open" /\ worker[v].at = "copy" /\ worker[v].ref # NULL
      BY <1>5, <2>1
    <3>2. peer[<<Served(v)[1], "main">>] = "open"
      BY <3>1
    <3>3. worker[v].at = "copy" /\ worker[v].ref # NULL
          /\ peer[<<Served(v)[1], "main">>] = "open" /\ heap[worker[v].ref].live
          => /\ heap[worker[v].ref].fd \in Fds
             /\ sock[heap[worker[v].ref].fd] = <<Served(v)[1], "main">>
      BY DEF IdentityInv
    <3> QED
      BY <2>2, <3>1, <3>2, <3>3
  <2> QED
    BY <2>1, <2>2, <2>3
<1> QED
  BY <1>1, <1>3, <1>4, <1>5 DEF IdentityInv

LEMMA IdentityHandler ==
    ASSUME Types, ClientInv, Exact, IdentityInv, NEW w \in Workers, Handler(w), ~dangling, ~dangling'
    PROVE  IdentityInv'
<1>a. /\ worker[w].at \in {"handle", "passwd", "init", "copy"} /\ worker[w].obj \in Objs
      /\ \A v \in Workers : v # w => worker'[v] = worker[v]
      /\ worker'[w].obj = worker[w].obj
      /\ UNCHANGED <<sock, epoll, evs, main, queue>>
      /\ \A o \in Objs : heap'[o].live = heap[o].live /\ heap'[o].fd = heap[o].fd
      /\ \A o \in Objs : o # worker[w].obj => heap'[o].user = heap[o].user
      /\ ~DoTokenCopy(w) => UNCHANGED table
  BY HandlerFacts
<1>b. worker[w] \in WorkerType /\ DOMAIN worker = Workers /\ DOMAIN heap = Objs /\ heap[worker[w].obj] \in ClientType
  BY <1>a DEF Types, PoolTypes, TableTypes
<1>c. PICK f \in Fds : /\ f = heap[worker[w].obj].fd /\ Target(f) = Served(w) /\ Served(w) = sock[f]
                       /\ Served(w) \in Conns /\ Served(w)[1] \in Procs
  BY <1>a, ServedFacts DEF Target, Served
<1>r. ASSUME NEW ops \in Returned, Returns(w, ops)
      PROVE  worker'[w].at = "finish" /\ \A v \in Workers : worker'[v].at \in {"init", "copy"} => worker'[v] = worker[v]
  BY <1>a, <1>b, <1>r DEF Returns, WorkerType
<1>l. Rearm \in Returned /\ Leave \in Returned /\ Transfer \in Returned
  BY DEF Returned
<1>1. CASE DoShort(w) \/ DoExit(w) \/ DoTransfer(w) \/ DoLoginUnknown(w) \/ DoTokenExpired(w)
  <2>1. UNCHANGED <<peer, token, sock, heap, table>>
    BY <1>1 DEF DoShort, DoExit, DoTransfer, DoLoginUnknown, DoTokenExpired, clientVars, kernelVars, tableVars
  <2>2. \A v \in Workers : worker'[v].at \in {"init", "copy"} => worker'[v] = worker[v]
    BY <1>1, <1>r, <1>l DEF DoShort, DoExit, DoTransfer, DoLoginUnknown, DoTokenExpired
  <2> QED
    BY <2>1, <2>2, IdentityStill
<1>2. CASE DoLogin(w)
  <2>1. UNCHANGED <<peer, token, sock, heap, table>>
    BY <1>2 DEF DoLogin, kernelVars, tableVars
  <2>2. worker'[w].at = "passwd"
    BY <1>2, <1>b DEF DoLogin, WorkerType
  <2> QED
    BY <1>a, <2>1, <2>2, IdentityStill
<1>3. CASE DoLoginInit(w)
  <2>1. /\ worker[w].at = "init" /\ UNCHANGED <<peer, token, sock, table>>
        /\ heap' = [heap EXCEPT ![worker[w].obj].user = worker[w].user]
        /\ worker'[w].at = "finish"
    BY <1>3, <1>r, <1>l DEF DoLoginInit, clientVars, kernelVars
  <2>2. heap'[worker[w].obj].user = Served(w)[1]
    BY <1>a, <1>b, <2>1 DEF IdentityInv, ClientType
  <2> QED
    BY <1>a, <2>1, <2>2, IdentityUser
<1>4. ASSUME NEW p \in Procs, DoToken(w, p) PROVE IdentityInv'
  <2>1. /\ UNCHANGED <<peer, token, sock, heap, table>> /\ token[p] # NULL
        /\ p = Served(w)[1]
        /\ worker' = [worker EXCEPT ![w].at = "copy", ![w].ref = table[token[p]]]
    BY <1>4, <1>c, ConnParts DEF DoToken, kernelVars, tableVars
  <2>2. worker'[w].at = "copy" /\ worker'[w].ref = table[token[p]]
    BY <1>b, <2>1 DEF WorkerType
  <2>3. \A v \in Workers : Served(v)' = Served(v)
    BY <1>a, <2>1 DEF Served
  <2>4. SessionIdentity'
    BY <2>1 DEF IdentityInv, SessionIdentity
  <2>5. \A v \in Workers : worker'[v].at = "init" => worker'[v].user = Served(v)'[1]
    BY <1>a, <2>2, <2>3 DEF IdentityInv
  <2>6. \A q \in Procs : token'[q] # NULL /\ peer'[<<q, "main">>] = "open" => sock'[token'[q]] = <<q, "main">>
    BY <2>1 DEF IdentityInv
  <2>7. ASSUME NEW v \in Workers, worker'[v].at = "copy", worker'[v].ref # NULL,
               peer'[<<Served(v)'[1], "main">>] = "open", heap'[worker'[v].ref].live
        PROVE  /\ heap'[worker'[v].ref].fd \in Fds
               /\ sock'[heap'[worker'[v].ref].fd] = <<Served(v)'[1], "main">>
    <3>1. CASE v = w
      <4>1. peer[<<p, "main">>] = "open" /\ table[token[p]] # NULL /\ token[p] \in Fds
        BY <2>1, <2>2, <2>3, <2>7, <3>1 DEF Types, TokenTypes
      <4>2. sock[token[p]] = <<p, "main">>
        BY <2>1, <4>1 DEF IdentityInv
      <4>3. heap[table[token[p]]].fd = token[p]
        BY <4>1 DEF Exact, EntryInv
      <4> QED
        BY <2>1, <2>2, <2>3, <3>1, <4>1, <4>2, <4>3
    <3>2. CASE v # w
      BY <1>a, <2>1, <2>3, <2>7, <3>2, ZenonT(40) DEF IdentityInv
    <3> QED
      BY <3>1, <3>2
  <2> QED
    BY <2>4, <2>5, <2>6, <2>7 DEF IdentityInv
<1>5. CASE DoTokenCopy(w)
  <2>1. /\ worker[w].at = "copy" /\ UNCHANGED <<peer, token, sock>> /\ worker[w].ref # NULL /\ heap[worker[w].ref].live
        /\ heap' = [heap EXCEPT ![worker[w].obj].user = heap[worker[w].ref].user]
        /\ table' = IF heap[worker[w].ref].fd \in Fds THEN TablePut(heap[worker[w].ref].fd, worker[w].ref) ELSE table
        /\ worker'[w].at = "finish"
    BY <1>5, <1>r, <1>l DEF DoTokenCopy, clientVars, kernelVars
  <2>2. worker[w].ref \in Objs
    BY <1>b, <2>1 DEF WorkerType
  <2>3. heap[worker[w].ref].fd \in Fds => table[heap[worker[w].ref].fd] = worker[w].ref
    BY <2>1, <2>2 DEF Exact, EntryInv, Live
  <2>4. UNCHANGED table
    BY <2>1, <2>3 DEF TablePut
  <2>5. heap'[worker[w].obj].user = heap[worker[w].ref].user
    BY <1>a, <1>b, <2>1 DEF ClientType
  <2>6. ASSUME peer[<<Served(w)[1], "main">>] = "open"
        PROVE  heap[worker[w].ref].user \in {NULL, Served(w)[1]}
    <3>1. heap[worker[w].ref].fd \in Fds /\ sock[heap[worker[w].ref].fd] = <<Served(w)[1], "main">>
      BY <2>1, <2>6 DEF IdentityInv
    <3>2. sock[heap[worker[w].ref].fd] # NULL /\ sock[heap[worker[w].ref].fd][1] = Served(w)[1]
      <4>1. PICK p \in Procs : p = Served(w)[1]
        BY <1>c
      <4>2. PICK k \in Conns : k = <<p, "main">>
        BY ConnParts
      <4>3. sock[heap[worker[w].ref].fd] = k
        BY <3>1, <4>1, <4>2
      <4>4. k # NULL /\ k[1] = p
        BY <4>2, ConnParts
      <4> QED
        BY <4>1, <4>3, <4>4
    <3> QED
      BY <2>1, <2>3, <2>6, <3>1, <3>2 DEF IdentityInv, SessionIdentity
  <2> QED
    BY <1>a, <2>1, <2>4, <2>5, <2>6, IdentityUser
<1> QED
  BY <1>1, <1>2, <1>3, <1>4, <1>5, IdentityPasswd DEF Handler

LEMMA IdentityNext ==
    ASSUME Types, ClientInv, Exact, IdentityInv, [Next]_vars, ~dangling, ~dangling' PROVE IdentityInv'
<1>1. ASSUME NEW w \in Workers, Pop(w) \/ DoTokenNobody(w) \/ NextTask(w) PROVE IdentityInv'
  <2>1. UNCHANGED <<peer, token, sock, heap, table>>
    BY <1>1 DEF Pop, DoTokenNobody, NextTask, clientVars, kernelVars, tableVars
  <2>2. DOMAIN worker = Workers
    BY DEF Types, PoolTypes
  <2>3. \A v \in Workers : worker'[v].at \in {"init", "copy"} => worker'[v] = worker[v]
    BY <1>1, <2>2 DEF Pop, DoTokenNobody, NextTask, IdleWorker
  <2> QED
    BY <2>1, <2>3, IdentityStill
<1>2. ASSUME NEW w \in Workers, WorkerStep(w) PROVE IdentityInv'
  BY <1>1, <1>2, IdentityHandler, IdentityFinish DEF WorkerStep, Handler
<1>3. CASE UNCHANGED vars
  BY <1>3, IdentityStill DEF vars
<1> QED
  BY <1>2, <1>3, IdentityClient, IdentityMain DEF Next

-----------------------------------------------------------------------------
(* The invariant *)

LEMMA InitIInv ==
    ASSUME Init PROVE IInv
<1>1. TypeOK
  <2>1. << >> \in Seq(Messages) /\ << >> \in Seq(TaskType) /\ << >> \in Seq(Calls)
    OBVIOUS
  <2>2. PeerTypes
    BY <2>1, RouteAssumption DEF Init, PeerTypes, States
  <2>3. TokenTypes /\ KernelTypes
    BY DEF Init, TokenTypes, KernelTypes
  <2>4. TableTypes
    BY DEF Init, TableTypes, ClientType, Users
  <2>5. LoopTypes
    <3>1. IdleMain \in MainType /\ IdleMain.at = "wait"
      BY DEF IdleMain, MainType, Messages
    <3> QED
      BY <2>1, <3>1 DEF Init, LoopTypes
  <2>6. PoolTypes
    <3>1. IdleWorker \in WorkerType /\ IdleWorker.at = "pop"
      BY <2>1 DEF IdleWorker, WorkerType, Messages, Users
    <3> QED
      BY <3>1 DEF Init, PoolTypes
  <2> QED
    BY <2>2, <2>3, <2>4, <2>5, <2>6, TypesAre DEF Types
<1>2. PointersInv /\ ClientInv
  BY ConnParts DEF Init, PointersInv, ClientInv, IdleMain, IdleWorker
<1>3. TodoInv /\ EntryInv /\ HoldInv /\ AloneInv
  BY DEF Init, TodoInv, EntryInv, HoldInv, AloneInv, IdleMain, IdleWorker, Busy, Live
<1>4. OrphanInv
  <2>1. Orphans = {} /\ Closers = {}
    BY DEF Init, Orphans, Closers, Freed, IdleWorker
  <2> QED
    BY <2>1, FS_EmptySet DEF OrphanInv
<1>5. IdentityInv
  BY DEF Init, IdentityInv, SessionIdentity, IdleWorker
<1> QED
  BY <1>1, <1>2, <1>3, <1>4, <1>5 DEF IInv, Base, Sound

LEMMA NextIInv ==
    ASSUME IInv, [Next]_vars PROVE IInv'
<1>1. Types /\ ClientInv
  BY TypesAre DEF IInv, Base
<1>2. Types'
  BY <1>1, TypesNext
<1>3. (TypeOK /\ PointersInv)'
  BY <1>2 DEF Types, PeerTypes, TokenTypes, KernelTypes, TableTypes, LoopTypes, PoolTypes, TypeOK, PointersInv,
       States, Calls, ClientType, TaskType, MainType, WorkerType
<1>4. ClientInv'
  BY <1>1, ClientNext
<1>5. ASSUME ~dangling' PROVE Sound'
  <2>1. ~dangling
    BY <1>5, StillSound
  <2>2. Exact /\ IdentityInv
    BY <2>1 DEF IInv, Sound, Exact
  <2>3. Exact'
    BY <1>1, <1>5, <2>2, ExactNext
  <2>4. IdentityInv'
    BY <1>1, <1>5, <2>1, <2>2, IdentityNext
  <2> QED
    BY <2>3, <2>4 DEF Sound, Exact
<1> QED
  BY <1>3, <1>4, <1>5 DEF IInv, Base

LEMMA AlwaysIInv == Spec => []IInv
BY InitIInv, NextIInv, PTL DEF Spec

-----------------------------------------------------------------------------
(* The theorems *)

LEMMA AtMostOne ==
    ASSUME NEW S, \A x, y \in S : x = y
    PROVE  Cardinality(S) \in {0, 1} /\ (Cardinality(S) = 0 <=> S = {})
<1>1. CASE S = {}
  BY <1>1, FS_EmptySet
<1>2. CASE S # {}
  <2>1. PICK x : S = {x}
    BY <1>2
  <2> QED
    BY <2>1, FS_Singleton
<1> QED
  BY <1>1, <1>2

LEMMA OneHolder ==
    ASSUME IInv PROVE ExclusiveSession
<1> SUFFICES ASSUME ~dangling, NEW o \in Objs, heap[o].live /\ heap[o].fd \in Fds
             PROVE  /\ Holders(o) <= 1
                    /\ Holders(o) = 1 => heap[o].fd \notin epoll \cup evs \/ HeldByMain(o)
  BY DEF ExclusiveSession
<1>1. HoldInv /\ AloneInv
  BY DEF IInv, Sound
<1>2. \A w \in HeldByWorkers(o) : w \in Workers /\ Busy(w) /\ worker[w].obj = o
  BY DEF HeldByWorkers, Busy
<1>3. \A k \in HeldInQueue(o) : k \in DOMAIN queue /\ queue[k].obj = o
  BY DEF HeldInQueue
<1>4. /\ Cardinality(HeldByWorkers(o)) \in {0, 1}
      /\ Cardinality(HeldByWorkers(o)) = 0 <=> HeldByWorkers(o) = {}
  <2>1. \A v, w \in HeldByWorkers(o) : v = w
    BY <1>1, <1>2 DEF AloneInv
  <2> QED
    BY <2>1, AtMostOne
<1>5. /\ Cardinality(HeldInQueue(o)) \in {0, 1}
      /\ Cardinality(HeldInQueue(o)) = 0 <=> HeldInQueue(o) = {}
  <2>1. \A k, l \in HeldInQueue(o) : k = l
    BY <1>1, <1>3 DEF AloneInv
  <2> QED
    BY <2>1, AtMostOne
<1>6. HeldByMain(o) => HeldInQueue(o) = {} /\ HeldByWorkers(o) = {}
  BY <1>1, <1>2, <1>3 DEF AloneInv, HeldByMain
<1>7. HeldInQueue(o) = {} \/ HeldByWorkers(o) = {}
  BY <1>1, <1>2, <1>3 DEF AloneInv
<1>8. Holders(o) <= 1
  BY <1>4, <1>5, <1>6, <1>7 DEF Holders
<1>9. Holders(o) = 1 => HeldByMain(o) \/ HeldInQueue(o) # {} \/ HeldByWorkers(o) # {}
  BY <1>4, <1>5 DEF Holders
<1>10. HeldInQueue(o) # {} \/ HeldByWorkers(o) # {} => heap[o].fd \notin epoll \cup evs
  BY <1>1, <1>2, <1>3 DEF HoldInv, Quiet
<1> QED
  BY <1>8, <1>9, <1>10

\* Up to the first use of a freed client_t, every client_t is in the hands of one
\* thread at a time and its socket is not watched while a worker has it, however many
\* workers, clients, descriptors and addresses there are: epoll_del before
\* distribute_task and epoll_add after cmd_analyse are enough (main.c, thread_pool.c).
THEOREM OneThreadPerClient == Spec => []ExclusiveSession
<1>1. IInv => ExclusiveSession
  BY OneHolder
<1> QED
  BY <1>1, AlwaysIInv, PTL

\* The hash map, the descriptors and the events of the event loop agree: an entry leads
\* to the live client_t of an open descriptor, main finds a client_t for every event,
\* and an open descriptor without an entry has a worker that is about to close it
\* (client_manager.c as main.c and thread_pool.c use it).
THEOREM TableExact == Spec => []TableInv
<1>1. IInv => TableInv
  <2> SUFFICES ASSUME IInv PROVE TableInv
    OBVIOUS
  <2>1. TypeOK /\ Types
    BY TypesAre DEF IInv, Base
  <2>2. EventHasClient
    BY DEF IInv, Sound, EventHasClient, EntryInv
  <2>3. ASSUME ~dangling
        PROVE  Cardinality(Orphans) <= Cardinality({w \in Workers : worker[w].at = "finish" /\ ~heap[worker[w].obj].live})
    <3> DEFINE D == {w \in Workers : worker[w].at = "finish" /\ ~heap[worker[w].obj].live}
    <3>1. Closers \subseteq D
      BY <2>1, <2>3, ExactTypes DEF IInv, Sound, HoldInv, Closers, Freed
    <3>2. IsFiniteSet(D)
      <4>1. D \subseteq Workers /\ IsFiniteSet(Workers)
        BY RouteAssumption
      <4> QED
        BY ONLY <4>1, FS_Subset
    <3>3. Cardinality(Closers) <= Cardinality(D) /\ IsFiniteSet(Closers)
      BY ONLY <3>1, <3>2, FS_Subset
    <3>4. IsFiniteSet(Orphans)
      <4>1. 1 \in Int /\ NFds \in Int
        BY RouteAssumption
      <4>2. IsFiniteSet(1..NFds)
        BY ONLY <4>1, FS_Interval
      <4>3. Orphans \subseteq 1..NFds
        BY DEF Orphans, Fds
      <4> QED
        BY ONLY <4>2, <4>3, FS_Subset
    <3>5. Cardinality(Orphans) \in Nat /\ Cardinality(Closers) \in Nat /\ Cardinality(D) \in Nat
      BY ONLY <3>2, <3>3, <3>4, FS_CardinalityType
    <3>6. Cardinality(Orphans) <= Cardinality(Closers)
      BY <2>3 DEF IInv, Sound, OrphanInv
    <3>7. Cardinality(Orphans) <= Cardinality(D)
      BY ONLY <3>3, <3>5, <3>6
    <3> QED
      BY <3>7
  <2>4. TableAgrees
    BY <2>3 DEF IInv, Sound, EntryInv, TableAgrees, Orphans
  <2> QED
    BY <2>1, <2>2, <2>4 DEF TableInv
<1> QED
  BY <1>1, AlwaysIInv, PTL

\* While a client process runs, its token names the descriptor of its own main connection,
\* and the client_t that do_token has found by a token to copy from is that connection's.
TokensOwn ==
    ~dangling =>
        /\ \A p \in Procs : token[p] # NULL /\ peer[<<p, "main">>] = "open" =>
                              sock[token[p]] = <<p, "main">>
        /\ \A w \in Workers :
              /\ worker[w].at = "copy" /\ worker[w].ref # NULL
              /\ peer[<<Served(w)[1], "main">>] = "open"
              /\ heap[worker[w].ref].live
              => /\ heap[worker[w].ref].fd \in Fds
                 /\ sock[heap[worker[w].ref].fd] = <<Served(w)[1], "main">>

\* Up to the first use of a freed client_t, and while a client process runs, the client_t of
\* its connections carry its own user or none, and its token leads to nobody else's: the
\* descriptors and addresses that the event loop and the workers free, and accept and
\* add_client give out again, are never those a running process's token stands for
\* (do_login.c, do_token.c).  A transfer connection whose process has ended is left out:
\* the descriptor in its token may be another user's by then.
THEOREM NoMixedUsers == Spec => [](SessionIdentity /\ TokensOwn)
<1>1. IInv => SessionIdentity /\ TokensOwn
  BY DEF IInv, Sound, IdentityInv, SessionIdentity, TokensOwn
<1> QED
  BY <1>1, AlwaysIInv, PTL
=============================================================================
