------------------------------ MODULE XpProofs ------------------------------
(***************************************************************************)
(* Proofs about Xp, for every set of client processes, workers, names and  *)
(* contents, every number of descriptors and whatever the users type.      *)
(***************************************************************************)
EXTENDS Xp, SequenceTheorems, WellFoundedInduction, TLAPS

-----------------------------------------------------------------------------
(* The inductive invariant: shapes *)

LoopOK == /\ loop = [at |-> loop.at, fd |-> loop.fd]
          /\ loop.at \in {"wait", "pushed", "down"}
          /\ loop.at = "pushed" => loop.fd \in Fds

Slots  == [online : BOOLEAN, id : Procs \cup {NULL}, pwd : Paths, status : {"RECV_CMD", "RECV_FILE"}]
SlotOK == slot \in [Fds -> Slots]

Made(k) == IF k[2] = "main" THEN cl[k[1]].at # "new" ELSE xf[k[1]].at # "none"

\* Each connection is made once, and is behind one descriptor or waiting for one.
NetOK == /\ sock \in [Fds -> Conns \cup {NULL}]
         /\ watched \subseteq {d \in Fds : sock[d] # NULL}
         /\ backlog \in Seq(Conns)
         /\ \A d, e \in Fds : sock[d] = sock[e] /\ sock[d] # NULL => d = e
         /\ \A i, j \in 1..Len(backlog) : backlog[i] = backlog[j] => i = j
         /\ \A i \in 1..Len(backlog), d \in Fds : backlog[i] # sock[d]
         /\ \A i \in 1..Len(backlog) : Made(backlog[i])
         /\ \A d \in Fds : sock[d] # NULL => Made(sock[d])

PutsAt == {"md5", "query", "result", "open", "size", "content", "insert"}
GetsAt == {"find", "row", "have", "check", "length", "send"}
TaskOK(t) == /\ DOMAIN t = {"at", "fd", "type", "md5", "parent", "pos"}
             /\ t.at \in {"idle", "done", "close", "status"} \cup PutsAt \cup GetsAt
             /\ t.at # "idle" => t.fd \in Fds
             /\ t.at \in PutsAt => t.type = "puts"
             /\ t.at \in GetsAt => t.type = "gets"
             /\ t.parent \in Nat
             /\ t.type # "gets" => t.pos \in Nat
Tasks  == [fd : Fds, type : {"puts", "gets"}]
PoolOK == /\ que \in Seq(Tasks)
          /\ DOMAIN wk = Workers /\ \A w \in Workers : TaskOK(wk[w])
          /\ sql \in Workers \cup {NULL}
          /\ \A w \in Workers : /\ sql = w => wk[w].at \in {"result", "row"}
                                /\ Running /\ wk[w].at \in {"result", "row"} => sql = w

\* Whoever is spoken of is in the users table.
Users  == [pass : {"right", "wrong"}, pwd : Paths]
UserOK == /\ users \in [Procs -> Users \cup {NULL}]
          /\ \A d \in Fds : slot[d].id # NULL => users[slot[d].id] # NULL
          /\ \A p \in Procs : cl[p].token # NULL => cl[p].token = p /\ users[p] # NULL

FileOK == /\ nextid \in Nat \ {0}
          /\ \A r \in files :
                /\ DOMAIN r = {"id", "parent", "name", "type", "owner", "md5", "tomb"}
                /\ r.id \in 1..(nextid - 1) /\ r.parent \in Nat /\ r.type \in {"d", "f"}

ClientOK == /\ DOMAIN cl = Procs /\ DOMAIN xf = Procs /\ DOMAIN disk = Procs
            /\ \A p \in Procs : /\ DOMAIN cl[p] = {"at", "token", "todo"}
                                /\ DOMAIN xf[p] = {"at", "type", "len", "pos"}

\* A word that tells who somebody is tells it rightly, a name and password come together,
\* and so do an answer and the token; a length is a number.
UpWords(k, s) ==
    /\ IsSeq(s)
    /\ \A i \in 1..Len(s) :
          /\ s[i].k = "token" => s[i].v = NULL \/ (s[i].v = k[1] /\ users[k[1]] # NULL)
          /\ s[i].k = "zero" => i < Len(s) /\ s[i + 1].v \in {"right", "wrong"}
          /\ s[i].k = "cmd" => s[i].name \in Names
DownWords(k, s) ==
    /\ IsSeq(s)
    /\ \A i \in 1..Len(s) :
          /\ s[i].k = "answer" /\ s[i].v = "success" =>
                i < Len(s) /\ s[i + 1].v = k[1] /\ users[k[1]] # NULL
          /\ s[i].k = "length" => s[i].v \in Nat
WordOK == /\ up = [k \in Conns |-> up[k]] /\ down = [k \in Conns |-> down[k]]
          /\ \A k \in Conns : UpWords(k, up[k]) /\ DownWords(k, down[k])

Shapes == /\ LoopOK /\ SlotOK /\ NetOK /\ PoolOK /\ UserOK /\ FileOK /\ ClientOK /\ WordOK

-----------------------------------------------------------------------------
(* The inductive invariant: sessions *)

\* A session that is online has its user behind the socket, and one without a socket is
\* not online; both unless login_handler has set it so by falling through.
Known == \A d \in Fds : slot[d].online /\ d \notin loose =>
                            sock[d] # NULL /\ slot[d].id = sock[d][1]

\* Every path that is kept leads to a directory.
PathsLead == /\ \A d \in Fds : PwdToId(slot[d].id, slot[d].pwd) # -1
             /\ \A p \in Procs : users[p] # NULL => PwdToId(p, users[p].pwd) # -1

\* Workers and tasks that have not closed the descriptor d.
Held(d)   == {w \in Workers : wk[w].fd = d /\ wk[w].at \notin {"idle", "status"}}
Waits(d)  == {i \in 1..Len(que) : que[i].fd = d}

\* A descriptor handed to the pool is in one task, and out of the event loop.
Handed == /\ \A d \in Fds : Held(d) # {} \/ Waits(d) # {} => sock[d] # NULL /\ d \notin watched
          /\ \A d \in Fds : \A v, w \in Held(d) : v = w
          /\ \A d \in Fds : \A i, j \in Waits(d) : i = j
          /\ \A d \in Fds : Held(d) = {} \/ Waits(d) = {}
Kept   == cut = {} => Handed

\* The directory i is a directory of id.
DirOf(id, i) == i = 0 \/ \E q \in files : q.id = i /\ q.type = "d" /\ q.owner = id

\* What a row's parent is, and what it will be for the row of an upload.
Trees == cut = {} => /\ \A r \in files : DirOf(r.owner, r.parent)
                     /\ \A w \in Workers : wk[w].at \in {"open", "size", "content", "insert"} =>
                           DirOf(slot[wk[w].fd].id, wk[w].parent)

Sessions == Known /\ PathsLead /\ Kept /\ Trees

-----------------------------------------------------------------------------
(* mysql_pwd_to_id *)

\* j is the directory of name n and owner id in directory i that mysql_fetch_row gives.
IsSub(id, i, n, j) ==
    LET rs == {r \in files : r.parent = i /\ r.type = "d" /\ r.name = n /\ r.owner = id}
    IN i # -1 /\ (\E r \in rs : r.id = j) /\ \A q \in rs : j <= q.id

\* f is the directories on the way along pwd.
Way(id, pwd, f) == /\ f \in [0..Len(pwd) -> Nat] /\ f[0] = 0
                   /\ \A i \in 1..Len(pwd) : IsSub(id, f[i - 1], pwd[i], f[i])

\* A set of numbers has a least one.
LEMMA LeastNumber ==
    ASSUME NEW T \in SUBSET Nat, T # {}
    PROVE  \E m \in T : \A n \in T : m <= n
<1>1. \E m \in T : \A n \in T : ~ (<<n, m>> \in OpToRel(<, Nat))
  BY WFMin, NatLessThanWellFounded
<1>2. PICK m \in T : \A n \in T : ~ (<<n, m>> \in OpToRel(<, Nat))
  BY <1>1
<1>3. \A n \in T : ~ (n < m)
  BY <1>2 DEF OpToRel
<1> QED
  BY <1>3

LEMMA SubDirIs ==
    ASSUME FileOK, NEW id, NEW i, NEW n
    PROVE  /\ SubDir(id, i, n) # -1 => SubDir(id, i, n) \in Nat /\ IsSub(id, i, n, SubDir(id, i, n))
           /\ \A j : IsSub(id, i, n, j) => SubDir(id, i, n) = j /\ j # -1
<1> DEFINE rs == {r \in files : r.parent = i /\ r.type = "d" /\ r.name = n /\ r.owner = id}
<1>1. \A r \in rs : r.id \in Nat \ {0}
  BY DEF FileOK
<1>2. ASSUME rs # {} PROVE \E r \in rs : \A q \in rs : r.id <= q.id
  <2>1. {q.id : q \in rs} \in SUBSET Nat /\ {q.id : q \in rs} # {}
    BY <1>1, <1>2
  <2>2. \E m \in {q.id : q \in rs} : \A k \in {q.id : q \in rs} : m <= k
    BY <2>1, LeastNumber
  <2> QED
    BY <2>2
<1>3. SubDir(id, i, n) = IF i = -1 \/ rs = {} THEN -1
                         ELSE (CHOOSE r \in rs : \A q \in rs : r.id <= q.id).id
  BY DEF SubDir
<1>4. CASE i = -1 \/ rs = {}
  BY <1>3, <1>4 DEF IsSub
<1>5. CASE i # -1 /\ rs # {}
  <2> DEFINE r == CHOOSE r \in rs : \A q \in rs : r.id <= q.id
  <2>1. r \in rs /\ \A q \in rs : r.id <= q.id
    BY <1>2, <1>5
  <2>2. SubDir(id, i, n) = r.id
    BY <1>3, <1>5
  <2> HIDE DEF r
  <2>3. r.id \in Nat /\ r.id # -1
    BY <1>1, <2>1
  <2>4. IsSub(id, i, n, r.id)
    BY <1>5, <2>1 DEF IsSub
  <2>5. ASSUME NEW j, IsSub(id, i, n, j) PROVE j = r.id
    <3>1. \A q \in rs : j <= q.id
      BY <2>5 DEF IsSub
    <3>2. PICK q \in rs : q.id = j
      BY <2>5 DEF IsSub
    <3> QED
      BY <1>1, <2>1, <3>1, <3>2
  <2> QED
    BY <2>2, <2>3, <2>4, <2>5
<1> QED
  BY <1>4, <1>5

\* The recursive function of PwdToId exists.
LEMMA PathIs ==
    ASSUME NEW id, NEW pwd, Len(pwd) \in Nat
    PROVE  \E dir : /\ dir = [i \in 0..Len(pwd) |-> IF i = 0 THEN 0 ELSE SubDir(id, dir[i - 1], pwd[i])]
                    /\ PwdToId(id, pwd) = dir[Len(pwd)]
<1> DEFINE Is(f, n) == f = [i \in 0..n |-> IF i = 0 THEN 0 ELSE SubDir(id, f[i - 1], pwd[i])]
           T == {n \in Nat : ~ \E f : Is(f, n)}
<1>1. T = {}
  <2> SUFFICES ASSUME T # {} PROVE FALSE
    OBVIOUS
  <2>1. PICK n \in T : \A k \in T : n <= k
    BY LeastNumber
  <2>2. Is([i \in 0..0 |-> 0], 0)
    OBVIOUS
  <2>3. n # 0
    BY <2>2
  <2>4. n - 1 \in Nat /\ n - 1 \notin T
    <3>1. n \in Nat
      OBVIOUS
    <3>2. n - 1 \in Nat /\ ~ (n <= n - 1)
      BY <2>3, <3>1
    <3> HIDE DEF T
    <3> QED
      BY <2>1, <3>2
  <2>5. PICK f : Is(f, n - 1)
    BY <2>4
  <2> DEFINE g == [i \in 0..n |-> IF i = n THEN SubDir(id, f[n - 1], pwd[n]) ELSE f[i]]
  <2>6. ASSUME NEW i \in 0..n PROVE g[i] = IF i = 0 THEN 0 ELSE SubDir(id, g[i - 1], pwd[i])
    <3>1. CASE i = n
      BY <2>3, <3>1
    <3>2. CASE i # n
      <4>1. i \in 0..(n - 1) /\ (i # 0 => i - 1 \in 0..n /\ i - 1 # n)
        BY <3>2
      <4>2. f[i] = IF i = 0 THEN 0 ELSE SubDir(id, f[i - 1], pwd[i])
        BY <2>5, <4>1
      <4> QED
        BY <3>2, <4>1, <4>2
    <3> QED
      BY <3>1, <3>2
  <2>7. Is(g, n)
    <3>1. g = [i \in 0..n |-> g[i]]
      OBVIOUS
    <3> HIDE DEF g
    <3>2. g = [i \in 0..n |-> IF i = 0 THEN 0 ELSE SubDir(id, g[i - 1], pwd[i])]
      BY <2>6, <3>1
    <3> QED
      BY <3>2
  <2> QED
    BY <2>7, n \in T
<1>2. \E f : Is(f, Len(pwd))
  BY <1>1
<1> DEFINE dir == CHOOSE f : Is(f, Len(pwd))
<1>3. Is(dir, Len(pwd))
  BY <1>2
<1>4. PwdToId(id, pwd) = dir[Len(pwd)]
  BY DEF PwdToId
<1> QED
  BY <1>3, <1>4

\* A path leads somewhere exactly if there are directories along it, and to the last.
LEMMA PathWay ==
    ASSUME FileOK, NEW id, NEW pwd, Len(pwd) \in Nat
    PROVE  /\ PwdToId(id, pwd) # -1 => \E f : Way(id, pwd, f)
           /\ \A f : Way(id, pwd, f) => PwdToId(id, pwd) = f[Len(pwd)] /\ PwdToId(id, pwd) # -1
<1> DEFINE N == Len(pwd)
<1>1. PICK dir : /\ dir = [i \in 0..N |-> IF i = 0 THEN 0 ELSE SubDir(id, dir[i - 1], pwd[i])]
                 /\ PwdToId(id, pwd) = dir[N]
  BY PathIs
<1>2. \A i \in 0..N : dir[i] = IF i = 0 THEN 0 ELSE SubDir(id, dir[i - 1], pwd[i])
  BY <1>1
<1>3. ASSUME NEW i \in 1..N
      PROVE  /\ dir[i] # -1 => dir[i] \in Nat /\ IsSub(id, dir[i - 1], pwd[i], dir[i])
             /\ dir[i - 1] = -1 => dir[i] = -1
  <2>1. dir[i] = SubDir(id, dir[i - 1], pwd[i])
    BY <1>2
  <2>2. dir[i - 1] = -1 => dir[i] = -1
    BY <2>1 DEF SubDir
  <2> QED
    BY <2>1, <2>2, SubDirIs
<1>4. ASSUME dir[N] # -1 PROVE Way(id, pwd, dir)
  <2> DEFINE T == {k \in Nat : k <= N /\ dir[N - k] = -1}
  <2>1. T = {}
    <3> SUFFICES ASSUME T # {} PROVE FALSE
      OBVIOUS
    <3>1. PICK k \in T : \A n \in T : k <= n
      BY LeastNumber
    <3>2. k # 0
      BY <1>4, <3>1
    <3>3. N - (k - 1) \in 1..N /\ (N - (k - 1)) - 1 = N - k
      BY <3>1, <3>2
    <3>4. dir[N - (k - 1)] = -1
      BY <1>3, <3>1, <3>3
    <3>5. k - 1 \in T
      BY <3>2, <3>3, <3>4
    <3> QED
      BY <3>1, <3>5
  <2>2. ASSUME NEW i \in 0..N PROVE dir[i] # -1
    <3>1. N - i \in Nat /\ N - i <= N /\ N - (N - i) = i
      OBVIOUS
    <3> QED
      BY <2>1, <3>1
  <2>3. dir[0] = 0
    BY <1>2
  <2>4. \A i \in 0..N : dir[i] \in Nat
    BY <1>3, <2>2, <2>3
  <2>5. dir \in [0..N -> Nat]
    BY <1>1, <2>4
  <2> QED
    BY <1>3, <2>2, <2>3, <2>5 DEF Way
<1>5. ASSUME NEW f, Way(id, pwd, f) PROVE dir[N] = f[N] /\ dir[N] # -1
  <2> DEFINE T == {k \in Nat : k <= N /\ dir[k] # f[k]}
  <2>1. T = {}
    <3> SUFFICES ASSUME T # {} PROVE FALSE
      OBVIOUS
    <3>1. PICK k \in T : \A n \in T : k <= n
      BY LeastNumber
    <3>2. k # 0
      BY <1>2, <1>5, <3>1 DEF Way
    <3>3. k \in 1..N /\ k - 1 \in Nat /\ k - 1 <= N /\ k - 1 \notin T
      BY <3>1, <3>2
    <3>4. dir[k - 1] = f[k - 1]
      BY <3>3
    <3>5. dir[k] = SubDir(id, f[k - 1], pwd[k])
      BY <1>2, <3>2, <3>3, <3>4
    <3>6. IsSub(id, f[k - 1], pwd[k], f[k])
      BY <1>5, <3>3 DEF Way
    <3> QED
      BY <3>1, <3>5, <3>6, SubDirIs
  <2>2. dir[N] = f[N] /\ f[N] \in Nat
    <3>1. N \notin T
      BY <2>1
    <3> QED
      BY <1>5, <3>1 DEF Way
  <2> QED
    BY <2>2
<1>6. dir[N] # -1 => \E f : Way(id, pwd, f)
  BY <1>4
<1> QED
  BY <1>1, <1>5, <1>6

\* Where a path leads.
LEMMA PathDir ==
    ASSUME FileOK, NEW id, NEW pwd, Len(pwd) \in Nat, PwdToId(id, pwd) # -1
    PROVE  PwdToId(id, pwd) \in Nat /\ DirOf(id, PwdToId(id, pwd))
<1>1. PICK f : Way(id, pwd, f)
  BY PathWay
<1>2. PwdToId(id, pwd) = f[Len(pwd)] /\ f[Len(pwd)] \in Nat
  BY <1>1, PathWay DEF Way
<1>3. CASE Len(pwd) = 0
  BY <1>1, <1>2, <1>3 DEF Way, DirOf
<1>4. CASE Len(pwd) # 0
  <2>1. IsSub(id, f[Len(pwd) - 1], pwd[Len(pwd)], f[Len(pwd)])
    BY <1>1, <1>4 DEF Way
  <2> QED
    BY <1>2, <2>1 DEF IsSub, DirOf
<1> QED
  BY <1>3, <1>4

\* The rows of the directories stay: removing sets tomb, and new ones have a greater id.
Grown == /\ \A r \in files : \E q \in files' :
               /\ q.id = r.id /\ q.parent = r.parent /\ q.type = r.type
               /\ q.name = r.name /\ q.owner = r.owner
         /\ \A q \in files' : q.id \in Nat /\
               (\/ q.id >= nextid
                \/ \E r \in files : /\ q.id = r.id /\ q.parent = r.parent /\ q.type = r.type
                                    /\ q.name = r.name /\ q.owner = r.owner)

\* The same, to be used of the next state.
WaysLead == FileOK => \A id, pwd : Len(pwd) \in Nat /\ (\E f : Way(id, pwd, f)) => PwdToId(id, pwd) # -1

LEMMA WaysLeadNow == WaysLead
BY PathWay DEF WaysLead

LEMMA WaysLeadThen == WaysLead'
BY WaysLeadNow, PTL

\* A path that leads somewhere leads there for ever.
LEMMA PathStays ==
    ASSUME FileOK, FileOK', Grown, NEW id, NEW pwd, Len(pwd) \in Nat, PwdToId(id, pwd) # -1
    PROVE  PwdToId(id, pwd)' # -1
<1>1. PICK f : Way(id, pwd, f)
  BY PathWay
<1>2. ASSUME NEW i, NEW n, NEW j, IsSub(id, i, n, j) PROVE IsSub(id, i, n, j)'
  <2>1. PICK r \in files : r.parent = i /\ r.type = "d" /\ r.name = n /\ r.owner = id /\ r.id = j
    BY <1>2 DEF IsSub
  <2>2. j \in Nat /\ j < nextid /\ nextid \in Nat
    BY <2>1 DEF FileOK
  <2>3. ASSUME NEW q \in files', q.parent = i, q.type = "d", q.name = n, q.owner = id PROVE j <= q.id
    <3>1. CASE q.id >= nextid
      BY <2>2, <2>3, <3>1 DEF Grown
    <3>2. CASE ~ (q.id >= nextid)
      <4>1. PICK s \in files : /\ q.id = s.id /\ q.parent = s.parent /\ q.type = s.type
                               /\ q.name = s.name /\ q.owner = s.owner
        BY <2>3, <3>2 DEF Grown
      <4> QED
        BY <1>2, <2>3, <4>1 DEF IsSub
    <3> QED
      BY <3>1, <3>2
  <2>4. PICK q \in files' : q.parent = i /\ q.type = "d" /\ q.name = n /\ q.owner = id /\ q.id = j
    BY <2>1 DEF Grown
  <2>5. i # -1
    BY <1>2 DEF IsSub
  <2> QED
    BY <2>3, <2>4, <2>5 DEF IsSub
<1>3. Way(id, pwd, f)'
  BY <1>1, <1>2 DEF Way
<1> QED
  BY <1>3, WaysLeadThen DEF WaysLead

-----------------------------------------------------------------------------
(* Sequences whose elements are anything *)

LEMMA IsSeqIn ==
    ASSUME NEW s, IsSeq(s)
    PROVE  s \in Seq({s[i] : i \in 1..Len(s)})
<1>1. Len(s) \in Nat /\ s = [i \in 1..Len(s) |-> s[i]]
  BY DEF IsSeq
<1>2. \A i \in 1..Len(s) : s[i] \in {s[k] : k \in 1..Len(s)}
  OBVIOUS
<1> QED
  BY <1>1, <1>2

LEMMA SeqIs ==
    ASSUME NEW S, NEW s \in Seq(S)
    PROVE  IsSeq(s)
BY DEF IsSeq

LEMMA Joined ==
    ASSUME NEW s, IsSeq(s), NEW t, IsSeq(t)
    PROVE  /\ IsSeq(s \o t) /\ Len(s \o t) = Len(s) + Len(t)
           /\ Len(s) \in Nat /\ Len(t) \in Nat
           /\ \A i \in 1..(Len(s) + Len(t)) : (s \o t)[i] = IF i <= Len(s) THEN s[i] ELSE t[i - Len(s)]
<1> DEFINE S == {s[i] : i \in 1..Len(s)} \cup {t[i] : i \in 1..Len(t)}
<1>1. s \in Seq({s[i] : i \in 1..Len(s)}) /\ t \in Seq({t[i] : i \in 1..Len(t)})
  BY IsSeqIn
<1>2. s \in Seq(S) /\ t \in Seq(S)
  BY <1>1
<1> HIDE DEF S
<1>3. s \o t \in Seq(S) /\ Len(s \o t) = Len(s) + Len(t)
      /\ Len(s) \in Nat /\ Len(t) \in Nat
      /\ \A i \in 1..(Len(s) + Len(t)) : (s \o t)[i] = IF i <= Len(s) THEN s[i] ELSE t[i - Len(s)]
  BY <1>2
<1> QED
  BY <1>3, SeqIs

LEMMA Dropped ==
    ASSUME NEW s, IsSeq(s), NEW n \in Nat, n <= Len(s)
    PROVE  /\ IsSeq(SubSeq(s, n + 1, Len(s))) /\ Len(SubSeq(s, n + 1, Len(s))) = Len(s) - n
           /\ Len(s) \in Nat
           /\ \A i \in 1..(Len(s) - n) : SubSeq(s, n + 1, Len(s))[i] = s[i + n]
           /\ n = 1 => Tail(s) = SubSeq(s, 2, Len(s))
<1> DEFINE S == {s[i] : i \in 1..Len(s)}
<1>1. s \in Seq(S) /\ Len(s) \in Nat
  BY IsSeqIn DEF IsSeq
<1> HIDE DEF S
<1>2. /\ SubSeq(s, n + 1, Len(s)) \in Seq(S) /\ Len(SubSeq(s, n + 1, Len(s))) = Len(s) - n
      /\ \A i \in 1..(Len(s) - n) : SubSeq(s, n + 1, Len(s))[i] = s[i + n]
  BY <1>1
<1>3. n = 1 => Tail(s) = SubSeq(s, 2, Len(s))
  <2> SUFFICES ASSUME n = 1 PROVE Tail(s) = SubSeq(s, 2, Len(s))
    OBVIOUS
  <2>1. /\ Tail(s) \in Seq(S) /\ Len(Tail(s)) = Len(s) - 1
        /\ \A i \in 1..(Len(s) - 1) : Tail(s)[i] = s[i + 1]
    <3>1. s # << >>
      BY <1>1
    <3> QED
      BY <1>1, <3>1
  <2> QED
    BY <1>1, <1>2, <2>1, SeqEqual
<1> QED
  BY <1>1, <1>2, <1>3, SeqIs

LEMMA Pair ==
    ASSUME NEW a, NEW b
    PROVE  /\ IsSeq(<<a>>) /\ Len(<<a>>) = 1 /\ <<a>>[1] = a
           /\ IsSeq(<<a, b>>) /\ Len(<<a, b>>) = 2 /\ <<a, b>>[1] = a /\ <<a, b>>[2] = b
           /\ IsSeq(<< >>) /\ Len(<< >>) = 0
BY DEF IsSeq

-----------------------------------------------------------------------------
(* Which actions change what *)

Reads(w) == RecvMd5(w) \/ RecvSize(w) \/ RecvContent(w) \/ RecvHave(w) \/ CheckMd5(w)

LEMMA UserFrame ==
    ASSUME NEW p \in Procs, User(p)
    PROVE  /\ UNCHANGED <<loop, slot, sock, watched, que, wk, sql, store, users, files, nextid,
                          disk, loose, cut, twice>>
           /\ Start(p) \/ (\E c \in {"puts", "gets"} : SendToken(p, c)) \/ UNCHANGED backlog
           /\ (\E c \in {"puts", "gets"} : SendToken(p, c)) \/ UNCHANGED xf
           /\ RecvLogin(p) \/ UNCHANGED down
           /\ \/ TypeLogin(p)
              \/ \E c \in {"cd", "ls", "mkdir", "rm"}, n \in Names : TypeCommand(p, c, n)
              \/ \E c \in {"puts", "gets"} : SendToken(p, c)
              \/ UNCHANGED up
<1> USE DEF netVars, poolVars, dbVars, history
<1>1. CASE Start(p)
  BY <1>1 DEF Start
<1>2. CASE TypeLogin(p)
  BY <1>2 DEF TypeLogin
<1>3. CASE RecvLogin(p)
  BY <1>3 DEF RecvLogin
<1>4. CASE Quit(p)
  BY <1>4 DEF Quit
<1>5. ASSUME NEW c \in {"cd", "ls", "mkdir", "rm"}, NEW n \in Names, TypeCommand(p, c, n)
      PROVE  UNCHANGED <<loop, slot, netVars, poolVars, dbVars, down, quitters, xf, disk, history>>
  BY <1>5 DEF TypeCommand
<1>6. ASSUME NEW c \in {"puts", "gets"}, SendToken(p, c)
      PROVE  UNCHANGED <<loop, slot, sock, watched, poolVars, dbVars, down, quitters, disk, history>>
  BY <1>6 DEF SendToken
<1> QED
  BY <1>1, <1>2, <1>3, <1>4, <1>5, <1>6 DEF User

LEMMA TransferFrame ==
    ASSUME NEW p \in Procs, Transfer(p)
    PROVE  /\ UNCHANGED <<loop, slot, sock, watched, backlog, que, wk, sql, store, users, files,
                          nextid, cl, loose, cut, twice>>
           /\ SendMd5(p) \/ SendContent(p) \/ SendBuffer(p) \/ SendLocal(p) \/ UNCHANGED up
           /\ SendContent(p) \/ RecvCheck(p) \/ RecvLength(p) \/ RecvBuffer(p) \/ UNCHANGED down
           /\ RecvLength(p) \/ RecvBuffer(p) \/ UNCHANGED disk
<1> USE DEF xfFrame, netVars, poolVars, dbVars, history
<1>1. CASE SendMd5(p)
  BY <1>1 DEF SendMd5
<1>2. CASE SendContent(p)
  BY <1>2 DEF SendContent
<1>3. CASE SendBuffer(p)
  BY <1>3 DEF SendBuffer
<1>4. CASE SendLocal(p)
  BY <1>4 DEF SendLocal
<1>5. CASE RecvCheck(p)
  BY <1>5 DEF RecvCheck
<1>6. CASE RecvLength(p)
  BY <1>6 DEF RecvLength
<1>7. CASE RecvUnmapped(p)
  BY <1>7 DEF RecvUnmapped
<1>8. CASE RecvBuffer(p)
  BY <1>8 DEF RecvBuffer
<1> QED
  BY <1>1, <1>2, <1>3, <1>4, <1>5, <1>6, <1>7, <1>8 DEF Transfer

\* mkdir, or what may be left of one in the buffer.
MakesDir(d) == \E n : Insert(PwdToId(slot[d].id, slot[d].pwd), n, "d", slot[d].id, NoFile)

LEMMA ServeFrame ==
    ASSUME NEW d \in Fds, Serve(d)
    PROVE  /\ UNCHANGED <<backlog, wk, sql, store, cl, xf, disk, twice>>
           /\ loop.at = "wait" /\ d \in watched
           /\ Push(d) \/ UNCHANGED <<loop, que>>
           /\ LoginEof(d) \/ CommandEof(d) \/ CommandReset(d) \/ UNCHANGED <<sock, cut>>
           /\ LoginEof(d) \/ CommandEof(d) \/ CommandReset(d) \/ Push(d) \/ UNCHANGED watched
           /\ MakesDir(d) \/ Rm(d) \/ UNCHANGED <<files, nextid>>
           /\ LoginPassword(d) \/ Cd(d) \/ UNCHANGED users
           /\ LoginPassword(d) \/ UNCHANGED down
           /\ \/ LoginPassword(d) \/ LoginToken(d) \/ LoginAnyway(d) \/ LoginEof(d)
              \/ CommandReset(d) \/ UNCHANGED loose
           /\ \/ LoginPassword(d) \/ LoginToken(d) \/ LoginAnyway(d) \/ LoginEof(d)
              \/ CommandEof(d) \/ Cd(d) \/ Push(d) \/ UNCHANGED slot
           /\ UNCHANGED up \/ (up[sock[d]] # << >> /\ (Consume(d, 1) \/ LoginPassword(d)))
<1> USE DEF netVars, poolVars, dbVars, history, clientVars, Event
<1>1. CASE LoginPassword(d)
  BY <1>1 DEF LoginPassword, Readable
<1>2. CASE LoginToken(d)
  BY <1>2 DEF LoginToken, Readable
<1>3. CASE LoginAnyway(d)
  BY <1>3 DEF LoginAnyway, Readable
<1>4. CASE LoginEof(d)
  BY <1>4 DEF LoginEof
<1>5. CASE CommandEof(d)
  BY <1>5 DEF CommandEof, Listens
<1>6. CASE CommandReset(d)
  BY <1>6 DEF CommandReset, Listens, LastCommand, MakesDir
<1>7. CASE Unknown(d)
  BY <1>7 DEF Unknown, Listens, Readable
<1>8. CASE EmptyCommand(d)
  BY <1>8 DEF EmptyCommand, Listens, LastCommand, MakesDir, Readable
<1>9. CASE Cd(d)
  BY <1>9 DEF Cd, Command, Listens, Readable
<1>10. CASE Report(d)
  BY <1>10 DEF Report, Command, Listens, Readable
<1>11. CASE Mkdir(d)
  BY <1>11 DEF Mkdir, Command, Listens, Readable, MakesDir
<1>12. CASE Rm(d)
  BY <1>12 DEF Rm, Command, Listens, Readable
<1>13. CASE Push(d)
  BY <1>13 DEF Push, Command, Listens, Readable
<1> QED
  BY <1>1, <1>2, <1>3, <1>4, <1>5, <1>6, <1>7, <1>8, <1>9, <1>10, <1>11, <1>12, <1>13 DEF Serve

\* What a worker's read of the connection does.
LEMMA ReadFrame ==
    ASSUME NEW w \in Workers, Reads(w)
    PROVE  /\ \/ Take(w) /\ cut \subseteq cut'
              \/ Lost(w)
              \/ UNCHANGED <<sock, watched, slot, up, cut, loose>>
           /\ UNCHANGED <<loop, backlog, que, sql, users, files, nextid, cl, xf, disk, twice>>
           /\ CheckMd5(w) \/ UNCHANGED down
           /\ RecvContent(w) \/ UNCHANGED store
           /\ wk[w].at \in {"md5", "size", "content", "have", "check"}
<1> USE DEF wkFrame, dbVars, clientVars
<1>1. CASE RecvMd5(w)
  BY <1>1 DEF RecvMd5
<1>2. CASE RecvSize(w)
  BY <1>2 DEF RecvSize
<1>3. CASE RecvContent(w)
  BY <1>3 DEF RecvContent
<1>4. CASE RecvHave(w)
  BY <1>4 DEF RecvHave
<1>5. CASE CheckMd5(w)
  BY <1>5 DEF CheckMd5
<1> QED
  BY <1>1, <1>2, <1>3, <1>4, <1>5 DEF Reads

LEMMA ThreadFrame ==
    ASSUME NEW w \in Workers, Thread(w)
    PROVE  /\ UNCHANGED <<backlog, users, cl, xf, disk>>
           /\ FindRow(w) \/ UNCHANGED loop
           /\ Pop(w) \/ UNCHANGED que
           /\ Query(w) \/ ResultMd5(w) \/ FindRow(w) \/ UNCHANGED sql
           /\ InsertRow(w) \/ UNCHANGED <<files, nextid>>
           /\ Reads(w) \/ TaskClose(w) \/ UNCHANGED <<sock, watched, cut>>
           /\ Reads(w) \/ TaskOffline(w) \/ TaskStatus(w) \/ UNCHANGED slot
           /\ Reads(w) \/ UNCHANGED up
           /\ ResultMd5(w) \/ CheckMd5(w) \/ SendLength(w) \/ SendFile(w) \/ UNCHANGED down
           /\ Reads(w) \/ TaskClose(w) \/ UNCHANGED loose
           /\ Open(w) \/ InsertRow(w) \/ UNCHANGED twice
           /\ Open(w) \/ RecvContent(w) \/ UNCHANGED store
           /\ Running
<1> USE DEF wkFrame, dbVars, clientVars, netVars, history
<1>1. CASE Pop(w)
  BY <1>1 DEF Pop
<1>2. CASE Query(w)
  BY <1>2 DEF Query
<1>3. CASE ResultMd5(w)
  BY <1>3 DEF ResultMd5
<1>4. CASE Open(w)
  BY <1>4 DEF Open
<1>5. CASE InsertRow(w)
  BY <1>5 DEF InsertRow
<1>6. CASE FindRow(w)
  BY <1>6 DEF FindRow
<1>7. CASE SendLength(w)
  BY <1>7 DEF SendLength
<1>8. CASE SendFile(w)
  BY <1>8 DEF SendFile
<1>9. CASE TaskOffline(w)
  BY <1>9 DEF TaskOffline
<1>10. CASE TaskClose(w)
  BY <1>10 DEF TaskClose
<1>11. CASE TaskStatus(w)
  BY <1>11 DEF TaskStatus
<1>12. CASE Reads(w)
  <2>1. Running
    BY <1>12 DEF Reads, RecvMd5, RecvSize, RecvContent, RecvHave, CheckMd5
  <2> QED
    BY <1>12, <2>1, ReadFrame
<1> QED
  BY <1>1, <1>2, <1>3, <1>4, <1>5, <1>6, <1>7, <1>8, <1>9, <1>10, <1>11, <1>12 DEF Thread, Reads

-----------------------------------------------------------------------------
(* Each part of the invariant, step by step *)

LEMMA LoopStep == ASSUME LoopOK, [Next]_vars PROVE LoopOK'
<1>1. CASE UNCHANGED loop
  BY <1>1 DEF LoopOK
<1>2. CASE \/ loop' = At("down", 0) \/ loop' = At("wait", 0) \/ \E d \in Fds : loop' = At("pushed", d)
  BY <1>2 DEF LoopOK, At
<1>3. CASE EventLoop
  <2>1. CASE Accept
    BY <1>1, <2>1 DEF Accept
  <2>2. CASE SetOnline
    BY <1>2, <2>2 DEF SetOnline
  <2>3. ASSUME NEW d \in Fds, Serve(d) PROVE LoopOK'
    BY <1>1, <1>2, <2>3, ServeFrame DEF Push
  <2> QED
    BY <1>3, <2>1, <2>2, <2>3 DEF EventLoop
<1>4. CASE ServerEnds
  BY <1>2, <1>4 DEF ServerEnds
<1>5. ASSUME NEW w \in Workers, Thread(w) PROVE LoopOK'
  <2>1. UNCHANGED loop \/ loop' = At("down", 0)
    BY <1>5, ThreadFrame DEF FindRow
  <2> QED
    BY <1>1, <1>2, <2>1
<1>6. ASSUME NEW p \in Procs, User(p) \/ Transfer(p) PROVE LoopOK'
  BY <1>1, <1>6, UserFrame, TransferFrame
<1>7. CASE UNCHANGED vars
  BY <1>1, <1>7 DEF vars
<1> QED
  BY <1>3, <1>4, <1>5, <1>6, <1>7 DEF Next

\* What an event of the loop does to the slot of its descriptor.
LEMMA ServeSlot ==
    ASSUME Shapes, NEW d \in Fds, Serve(d)
    PROVE  \/ UNCHANGED slot
           \/ \E s \in Slots : slot' = [slot EXCEPT ![d] = s]
<1> USE DEF Shapes, SlotOK, Slots, Slot
<1>1. slot[d] \in Slots /\ sock[d] \in Conns /\ d \in Fds
  BY ServeFrame DEF NetOK
<1>2. CASE LoginPassword(d)
  <2> DEFINE p == sock[d][1]
             v == up[sock[d]][2].v
  <2>1. p \in Procs
    BY <1>1 DEF Conns
  <2>2. v \in {"right", "wrong"}
    <3>1. UpWords(sock[d], up[sock[d]]) /\ up[sock[d]] # << >> /\ up[sock[d]][1].k = "zero"
      BY <1>1, <1>2 DEF WordOK, LoginPassword, Readable
    <3>2. 1 \in 1..Len(up[sock[d]])
      BY <3>1 DEF UpWords, IsSeq
    <3> QED
      BY <3>1, <3>2 DEF UpWords
  <2>3. CASE UNCHANGED slot
    BY <2>3
  <2>4. CASE /\ users' = IF users[p] = NULL THEN [users EXCEPT ![p] = [pass |-> v, pwd |-> <<>>]]
                         ELSE users
             /\ slot' = [slot EXCEPT ![d] = Slot(TRUE, p, users'[p].pwd, @.status)]
    <3>1. users'[p].pwd \in Paths
      <4>1. CASE users[p] = NULL
        <5>1. << >> \in Paths
          BY DEF Paths
        <5>2. users'[p] = [pass |-> v, pwd |-> <<>>]
          BY <2>1, <2>4, <4>1 DEF UserOK
        <5> QED
          BY <5>1, <5>2
      <4>2. CASE users[p] # NULL
        BY <2>1, <2>4, <4>2 DEF UserOK, Users
      <4> QED
        BY <4>1, <4>2
    <3>2. Slot(TRUE, p, users'[p].pwd, slot[d].status) \in Slots
      BY <1>1, <2>1, <3>1
    <3> HIDE DEF Slots, Slot
    <3>3. slot' = [slot EXCEPT ![d] = Slot(TRUE, p, users'[p].pwd, slot[d].status)]
      BY <2>4
    <3> QED
      BY <3>2, <3>3
  <2> QED
    BY <1>2, <2>3, <2>4 DEF LoginPassword
<1>3. CASE LoginToken(d)
  <2> DEFINE id == up[sock[d]][1].v
  <2>1. id = sock[d][1] /\ users[id] # NULL
    <3>1. UpWords(sock[d], up[sock[d]]) /\ up[sock[d]] # << >> /\ up[sock[d]][1].k = "token"
      BY <1>1, <1>3 DEF WordOK, LoginToken, Readable
    <3>2. 1 \in 1..Len(up[sock[d]])
      BY <3>1 DEF UpWords, IsSeq
    <3> QED
      BY <1>3, <3>1, <3>2 DEF UpWords, LoginToken
  <2>2. id \in Procs /\ users[id].pwd \in Paths
    BY <1>1, <2>1 DEF Conns, UserOK, Users
  <2>3. Slot(TRUE, id, users[id].pwd, slot[d].status) \in Slots
    BY <1>1, <2>2
  <2>4. slot' = [slot EXCEPT ![d] = Slot(TRUE, id, users[id].pwd, slot[d].status)]
    BY <1>3 DEF LoginToken
  <2> HIDE DEF Slots, Slot
  <2> QED
    BY <2>3, <2>4
<1>4. CASE LoginAnyway(d)
  BY <1>1, <1>4 DEF LoginAnyway
<1>5. CASE LoginEof(d)
  BY <1>1, <1>5 DEF LoginEof
<1>6. CASE CommandEof(d)
  BY <1>1, <1>6 DEF CommandEof
<1>7. CASE Cd(d)
  <2>1. NewPath(d) \in Paths
    <3>1. slot[d].pwd \in Seq(Dirs \cup {File})
      BY <1>1 DEF Paths
    <3>2. Arg(d) \in Names
      <4>1. UpWords(sock[d], up[sock[d]]) /\ up[sock[d]] # << >> /\ up[sock[d]][1].k = "cmd"
        BY <1>1, <1>7 DEF WordOK, Cd, Command, Readable
      <4>2. 1 \in 1..Len(up[sock[d]])
        BY <4>1 DEF UpWords, IsSeq
      <4> QED
        BY <4>1, <4>2 DEF UpWords, Arg
    <3>3. CASE Arg(d) = "/"
      BY <3>3 DEF NewPath, Paths
    <3>4. CASE Arg(d) # "/" /\ Arg(d) # ".."
      <4>1. Arg(d) \in Dirs \cup {File}
        BY <3>2, <3>4 DEF Names
      <4> QED
        BY <3>1, <3>4, <4>1 DEF NewPath, Paths
    <3>5. CASE Arg(d) # "/" /\ Arg(d) = ".."
      <4> HIDE DEF Slots, Slot
      <4>1. CASE slot[d].pwd = << >>
        BY <3>1, <3>5, <4>1 DEF NewPath, Paths
      <4>2. CASE slot[d].pwd # << >>
        <5> DEFINE s == slot[d].pwd
        <5>1. SubSeq(s, 1, Len(s) - 1) \in Seq(Dirs \cup {File})
          BY <3>1, <4>2
        <5> QED
          BY <3>5, <4>2, <5>1 DEF NewPath, Paths
      <4> QED
        BY <4>1, <4>2
    <3> QED
      BY <3>3, <3>4, <3>5
  <2>2. UNCHANGED slot \/ slot' = [slot EXCEPT ![d].pwd = NewPath(d)]
    BY <1>7 DEF Cd
  <2> QED
    BY <1>1, <2>1, <2>2
<1>8. CASE Push(d)
  BY <1>1, <1>8 DEF Push
<1> QED
  BY <1>2, <1>3, <1>4, <1>5, <1>6, <1>7, <1>8, ServeFrame

LEMMA SlotStep == ASSUME Shapes, [Next]_vars PROVE SlotOK'
<1>1. CASE UNCHANGED slot
  BY <1>1 DEF Shapes, SlotOK
<1>2. ASSUME NEW d \in Fds, NEW s \in Slots, slot' = [slot EXCEPT ![d] = s] PROVE SlotOK'
  BY <1>2 DEF Shapes, SlotOK
<1>3. CASE EventLoop
  <2>1. CASE Accept
    BY <1>1, <2>1 DEF Accept
  <2>2. CASE SetOnline
    <3>1. loop.fd \in Fds
      BY <2>2 DEF Shapes, LoopOK, SetOnline
    <3>2. [slot[loop.fd] EXCEPT !.online = TRUE] \in Slots
      BY <3>1 DEF Shapes, SlotOK, Slots
    <3>3. slot' = [slot EXCEPT ![loop.fd] = [slot[loop.fd] EXCEPT !.online = TRUE]]
      BY <2>2 DEF SetOnline
    <3> QED
      BY <1>2, <3>1, <3>2, <3>3
  <2>3. ASSUME NEW d \in Fds, Serve(d) PROVE SlotOK'
    BY <1>1, <1>2, <2>3, ServeSlot
  <2> QED
    BY <1>3, <2>1, <2>2, <2>3 DEF EventLoop
<1>4. CASE ServerEnds
  BY <1>1, <1>4 DEF ServerEnds
<1>5. ASSUME NEW w \in Workers, Thread(w) PROVE SlotOK'
  <2> DEFINE d == wk[w].fd
  <2>1. CASE UNCHANGED slot
    BY <1>1, <2>1
  <2>2. CASE ~ UNCHANGED slot
    <3>1. Reads(w) \/ TaskOffline(w) \/ TaskStatus(w)
      BY <1>5, <2>2, ThreadFrame
    <3>2. wk[w].at # "idle"
      BY <3>1, ReadFrame DEF TaskOffline, TaskStatus
    <3>3. d \in Fds
      BY <3>2 DEF Shapes, PoolOK, TaskOK
    <3>4. slot[d] \in Slots
      BY <3>3 DEF Shapes, SlotOK
    <3>5. \/ slot' = [slot EXCEPT ![d].online = FALSE]
          \/ slot' = [slot EXCEPT ![d].status = "RECV_CMD"]
      BY <2>2, <3>1, ReadFrame DEF TaskOffline, TaskStatus, Take, Lost
    <3>6. \E s \in Slots : slot' = [slot EXCEPT ![d] = s]
      BY <3>4, <3>5 DEF Slots
    <3> QED
      BY <1>2, <3>3, <3>6
  <2> QED
    BY <2>1, <2>2
<1>6. ASSUME NEW p \in Procs, User(p) \/ Transfer(p) PROVE SlotOK'
  BY <1>1, <1>6, UserFrame, TransferFrame
<1>7. CASE UNCHANGED vars
  BY <1>1, <1>7 DEF vars
<1> QED
  BY <1>3, <1>4, <1>5, <1>6, <1>7 DEF Next

\* A client's threads keep their shape, and what they connected stays connected.
LEMMA ClientsAct ==
    ASSUME ClientOK, NEW p \in Procs, User(p) \/ Transfer(p)
    PROVE  /\ ClientOK'
           /\ \A k \in Conns : Made(k) => Made(k)'
<1> DEFINE Stays == /\ ClientOK'
                   /\ \A q \in Procs : /\ cl[q].at # "new" => cl'[q].at # "new"
                                       /\ xf[q].at # "none" => xf'[q].at # "none"
<1> USE DEF ClientOK
<1>1. ASSUME Start(p) PROVE Stays
  BY <1>1 DEF Start
<1>2. ASSUME TypeLogin(p) PROVE Stays
  BY <1>2 DEF TypeLogin
<1>3. ASSUME RecvLogin(p) PROVE Stays
  BY <1>3 DEF RecvLogin
<1>4. ASSUME Quit(p) PROVE Stays
  BY <1>4 DEF Quit
<1>5. ASSUME NEW c \in {"cd", "ls", "mkdir", "rm"}, NEW m \in Names, TypeCommand(p, c, m) PROVE Stays
  BY <1>5 DEF TypeCommand, Type
<1>6. ASSUME NEW c \in {"puts", "gets"}, SendToken(p, c) PROVE Stays
  BY <1>6 DEF SendToken, Type
<1>7. ASSUME SendMd5(p) PROVE Stays
  BY <1>7 DEF SendMd5, xfFrame
<1>8. ASSUME SendContent(p) PROVE Stays
  BY <1>8 DEF SendContent, xfFrame
<1>9. ASSUME SendBuffer(p) PROVE Stays
  BY <1>9 DEF SendBuffer, xfFrame
<1>10. ASSUME SendLocal(p) PROVE Stays
  BY <1>10 DEF SendLocal, xfFrame
<1>11. ASSUME RecvCheck(p) PROVE Stays
  BY <1>11 DEF RecvCheck, xfFrame
<1>12. ASSUME RecvLength(p) PROVE Stays
  BY <1>12 DEF RecvLength, xfFrame
<1>13. ASSUME RecvUnmapped(p) PROVE Stays
  BY <1>13 DEF RecvUnmapped, xfFrame
<1>14. ASSUME RecvBuffer(p) PROVE Stays
  BY <1>14 DEF RecvBuffer, xfFrame
<1>15. Stays
  BY <1>1, <1>2, <1>3, <1>4, <1>5, <1>6, <1>7, <1>8, <1>9, <1>10, <1>11, <1>12, <1>13, <1>14 DEF User, Transfer
<1> QED
  BY <1>15 DEF Made, Conns

\* What is not a client's action.
LEMMA ServerFrame ==
    ASSUME [Next]_vars, ~ \E p \in Procs : User(p) \/ Transfer(p)
    PROVE  UNCHANGED <<cl, xf, disk>>
<1> USE DEF clientVars
<1>1. CASE EventLoop
  BY <1>1, ServeFrame DEF EventLoop, Accept, SetOnline
<1>2. CASE ServerEnds
  BY <1>2 DEF ServerEnds
<1>3. ASSUME NEW w \in Workers, Thread(w) PROVE UNCHANGED <<cl, xf, disk>>
  BY <1>3, ThreadFrame
<1>4. CASE UNCHANGED vars
  BY <1>4 DEF vars
<1> QED
  BY <1>1, <1>2, <1>3, <1>4 DEF Next

LEMMA ClientStep ==
    ASSUME ClientOK, [Next]_vars
    PROVE  /\ ClientOK'
           /\ \A k \in Conns : Made(k) => Made(k)'
<1>1. CASE \E p \in Procs : User(p) \/ Transfer(p)
  BY <1>1, ClientsAct
<1>2. CASE UNCHANGED <<cl, xf, disk>>
  BY <1>2 DEF ClientOK, Made
<1> QED
  BY <1>1, <1>2, ServerFrame

\* A connection waits at the end of the backlog.
LEMMA Connects ==
    ASSUME NetOK, NEW k \in Conns, ~ Made(k), Made(k)', \A j \in Conns : Made(j) => Made(j)',
           backlog' = Append(backlog, k), UNCHANGED <<sock, watched>>
    PROVE  NetOK'
<1> DEFINE n == Len(backlog)
<1>1. backlog \in Seq(Conns) /\ n \in Nat /\ \A i \in 1..n : backlog[i] \in Conns
  BY DEF NetOK
<1>2. /\ backlog' \in Seq(Conns) /\ Len(backlog') = n + 1
      /\ \A i \in 1..(n + 1) : backlog'[i] = IF i <= n THEN backlog[i] ELSE k
  BY <1>1
<1>3. \A i \in 1..n : backlog[i] # k
  BY <1>1 DEF NetOK
<1>4. \A d \in Fds : sock[d] # k
  BY <1>1, ValuesAssumption DEF NetOK
<1>5. \A i, j \in 1..(n + 1) : backlog'[i] = backlog'[j] => i = j
  BY <1>1, <1>2, <1>3 DEF NetOK
<1>6. \A i \in 1..(n + 1), d \in Fds : backlog'[i] # sock'[d]
  BY <1>1, <1>2, <1>4 DEF NetOK
<1>7. \A i \in 1..(n + 1) : Made(backlog[i])'
  <2> TAKE i \in 1..(n + 1)
  <2>1. CASE i <= n
    <3>1. i \in 1..n
      BY <1>1, <2>1
    <3>2. PICK c \in Conns : c = backlog[i]
      BY <1>1, <3>1
    <3>3. Made(c)'
      BY <3>1, <3>2 DEF NetOK
    <3> QED
      BY <1>1, <1>2, <2>1, <3>2, <3>3 DEF Made
  <2>2. CASE ~ (i <= n)
    BY <1>2, <2>2 DEF Made
  <2> QED
    BY <2>1, <2>2
<1>8. \A d \in Fds : sock'[d] # NULL => Made(sock[d])'
  <2> TAKE d \in Fds
  <2> HAVE sock'[d] # NULL
  <2>1. PICK c \in Conns : c = sock[d]
    BY DEF NetOK
  <2>2. Made(c)'
    BY <2>1 DEF NetOK
  <2> QED
    BY <2>1, <2>2 DEF Made
<1> QED
  BY <1>2, <1>5, <1>6, <1>7, <1>8 DEF NetOK

LEMMA NetStays ==
    ASSUME NetOK, \A j \in Conns : Made(j) => Made(j)', UNCHANGED <<sock, watched, backlog>>
    PROVE  NetOK'
<1>1. \A i \in 1..Len(backlog) : backlog[i] \in Conns
  BY DEF NetOK
<1>2. \A i \in 1..Len(backlog) : Made(backlog[i])'
  <2> TAKE i \in 1..Len(backlog)
  <2>1. PICK c \in Conns : c = backlog[i]
    BY <1>1
  <2>2. Made(c)'
    BY <2>1 DEF NetOK
  <2> QED
    BY <2>1, <2>2 DEF Made
<1>3. \A d \in Fds : sock[d] # NULL => Made(sock[d])'
  <2> TAKE d \in Fds
  <2> HAVE sock[d] # NULL
  <2>1. PICK c \in Conns : c = sock[d]
    BY DEF NetOK
  <2>2. Made(c)'
    BY <2>1 DEF NetOK
  <2> QED
    BY <2>1, <2>2 DEF Made
<1> QED
  BY <1>2, <1>3 DEF NetOK, Made

LEMMA AcceptNet == ASSUME NetOK, Accept PROVE NetOK'
<1> DEFINE n == Len(backlog)
<1>1. /\ backlog \in Seq(Conns) /\ backlog # << >> /\ n \in Nat /\ n > 0
      /\ \A i \in 1..n : backlog[i] \in Conns
  BY DEF NetOK, Accept
<1>2. PICK d \in Fds : /\ sock[d] = NULL /\ sock' = [sock EXCEPT ![d] = backlog[1]]
                       /\ watched' = watched \cup {d}
  BY DEF Accept
<1>3. /\ backlog' \in Seq(Conns) /\ Len(backlog') = n - 1
      /\ \A i \in 1..(n - 1) : backlog'[i] = backlog[i + 1]
  BY <1>1 DEF Accept
<1>4. UNCHANGED <<cl, xf>>
  BY DEF Accept, clientVars
<1>5. sock \in [Fds -> Conns \cup {NULL}] /\ backlog[1] \in Conns /\ backlog[1] # NULL
  BY <1>1, ValuesAssumption DEF NetOK
<1>6. \A e \in Fds : sock'[e] = IF e = d THEN backlog[1] ELSE sock[e]
  BY <1>2, <1>5
<1>7. \A e, f \in Fds : sock'[e] = sock'[f] /\ sock'[e] # NULL => e = f
  BY <1>1, <1>5, <1>6 DEF NetOK
<1>8. \A i, j \in 1..(n - 1) : backlog'[i] = backlog'[j] => i = j
  BY <1>1, <1>3 DEF NetOK
<1>9. \A i \in 1..(n - 1), e \in Fds : backlog'[i] # sock'[e]
  <2> TAKE i \in 1..(n - 1), e \in Fds
  <2>1. i + 1 \in 1..n /\ 1 \in 1..n /\ i + 1 # 1
    BY <1>1
  <2>2. backlog[i + 1] # backlog[1]
    BY <2>1 DEF NetOK
  <2> QED
    BY <1>3, <1>6, <2>1, <2>2 DEF NetOK
<1>10. \A i \in 1..(n - 1) : Made(backlog[i])'
  BY <1>1, <1>3, <1>4 DEF NetOK, Made
<1>11. \A e \in Fds : sock'[e] # NULL => Made(sock[e])'
  BY <1>1, <1>4, <1>6 DEF NetOK, Made
<1>12. sock' \in [Fds -> Conns \cup {NULL}] /\ watched' \subseteq {e \in Fds : sock'[e] # NULL}
  BY <1>2, <1>5, <1>6 DEF NetOK
<1> QED
  BY <1>3, <1>7, <1>8, <1>9, <1>10, <1>11, <1>12 DEF NetOK

LEMMA ClosedNet ==
    ASSUME NetOK, NEW d \in Fds, Closed(d), UNCHANGED <<backlog, cl, xf>>
    PROVE  NetOK'
BY ValuesAssumption DEF NetOK, Closed, Made

LEMMA NetStep == ASSUME Shapes, [Next]_vars PROVE NetOK'
<1> USE DEF Shapes
<1>0. \A j \in Conns : Made(j) => Made(j)'
  BY ClientStep
<1>1. CASE UNCHANGED <<sock, watched, backlog>>
  BY <1>0, <1>1, NetStays
<1>2. CASE EventLoop
  <2>1. CASE SetOnline
    BY <1>1, <2>1 DEF SetOnline, netVars
  <2>2. ASSUME NEW d \in Fds, Serve(d) PROVE NetOK'
    <3>1. UNCHANGED <<backlog, cl, xf>>
      BY <2>2, ServeFrame
    <3>2. CASE LoginEof(d) \/ CommandEof(d) \/ CommandReset(d)
      BY <3>1, <3>2, ClosedNet DEF LoginEof, CommandEof, CommandReset
    <3>3. CASE Push(d)
      BY <3>1, <3>3 DEF Push, NetOK, Made
    <3> QED
      BY <1>1, <2>2, <3>1, <3>2, <3>3, ServeFrame
  <2> QED
    BY <1>2, <2>1, <2>2, AcceptNet DEF EventLoop
<1>3. CASE ServerEnds
  BY <1>1, <1>3 DEF ServerEnds, netVars
<1>4. ASSUME NEW w \in Workers, Thread(w) PROVE NetOK'
  <2>1. UNCHANGED <<backlog, cl, xf>>
    BY <1>4, ThreadFrame
  <2>2. CASE UNCHANGED <<sock, watched>>
    BY <1>1, <2>1, <2>2
  <2>3. CASE ~ UNCHANGED <<sock, watched>>
    <3>1. Reads(w) \/ TaskClose(w)
      BY <1>4, <2>3, ThreadFrame
    <3>2. wk[w].fd \in Fds
      BY <3>1, ReadFrame DEF TaskClose, PoolOK, TaskOK
    <3>3. Closed(wk[w].fd)
      BY <2>3, <3>1, ReadFrame DEF TaskClose, Take, Lost
    <3> QED
      BY <2>1, <3>2, <3>3, ClosedNet
  <2> QED
    BY <2>2, <2>3
<1>5. ASSUME NEW p \in Procs, User(p) \/ Transfer(p) PROVE NetOK'
  <2>1. CASE Start(p)
    <3>1. Main(p) \in Conns /\ ~ Made(Main(p)) /\ Made(Main(p))'
      BY <2>1 DEF Start, Main, Conns, Made, ClientOK
    <3> QED
      BY <1>0, <2>1, <3>1, Connects DEF Start
  <2>2. ASSUME NEW c \in {"puts", "gets"}, SendToken(p, c) PROVE NetOK'
    <3>1. Xfer(p) \in Conns /\ ~ Made(Xfer(p)) /\ Made(Xfer(p))'
      BY <2>2 DEF SendToken, Xfer, Conns, Made, ClientOK
    <3> QED
      BY <1>0, <2>2, <3>1, Connects DEF SendToken
  <2> QED
    BY <1>1, <1>5, <2>1, <2>2, UserFrame, TransferFrame
<1>6. CASE UNCHANGED vars
  BY <1>1, <1>6 DEF vars
<1> QED
  BY <1>2, <1>3, <1>4, <1>5, <1>6 DEF Next

LEMMA PoolStep == ASSUME Shapes, PathsLead, [Next]_vars PROVE PoolOK'
<1> USE DEF Shapes
<1>0. NULL \notin Workers
  BY ValuesAssumption
<1>1. CASE UNCHANGED <<que, wk, sql>> /\ (Running' => Running)
  BY <1>1 DEF PoolOK
<1>2. CASE EventLoop
  <2>1. CASE SetOnline
    BY <1>1, <2>1 DEF SetOnline, poolVars, At, Running
  <2>2. CASE Accept
    BY <1>1, <2>2 DEF Accept, poolVars, Running
  <2>3. ASSUME NEW d \in Fds, Serve(d) PROVE PoolOK'
    <3>1. UNCHANGED <<wk, sql>> /\ Running
      BY <2>3, ServeFrame DEF Running
    <3>2. CASE Push(d)
      <4>1. PICK c \in {"puts", "gets"} : que' = Append(que, [fd |-> d, type |-> c])
        BY <3>2 DEF Push
      <4>2. [fd |-> d, type |-> c] \in Tasks
        BY DEF Tasks
      <4> QED
        BY <3>1, <4>1, <4>2 DEF PoolOK
    <3>3. CASE UNCHANGED que
      BY <3>1, <3>3 DEF PoolOK
    <3> QED
      BY <2>3, <3>2, <3>3, ServeFrame
  <2> QED
    BY <1>2, <2>1, <2>2, <2>3 DEF EventLoop
<1>3. CASE ServerEnds
  BY <1>1, <1>3 DEF ServerEnds, poolVars, At, Running
<1>4. ASSUME NEW w \in Workers, Thread(w) PROVE PoolOK'
  <2>1. Running
    BY <1>4, ThreadFrame
  <2>2. TaskOK(wk[w]) /\ DOMAIN wk = Workers
    BY DEF PoolOK
  <2>0. \A v \in Workers : /\ sql = v => wk[v].at \in {"result", "row"}
                           /\ wk[v].at \in {"result", "row"} => sql = v
    BY <2>1 DEF PoolOK
  <2>3. ASSUME NEW t, TaskOK(t), wk' = [wk EXCEPT ![w] = t], UNCHANGED <<que, sql>>,
               wk[w].at \notin {"result", "row"}, t.at \notin {"result", "row"}
        PROVE  PoolOK'
    <3>1. sql # w
      BY <2>0, <2>3
    <3>2. \A v \in Workers : wk'[v] = IF v = w THEN t ELSE wk[v]
      BY <2>2, <2>3
    <3>3. DOMAIN wk' = Workers /\ \A v \in Workers : TaskOK(wk'[v])
      BY <2>2, <2>3, <3>2 DEF PoolOK
    <3>4. que' \in Seq(Tasks) /\ sql' \in Workers \cup {NULL}
      BY <2>3 DEF PoolOK
    <3>5. \A v \in Workers : /\ sql = v => wk'[v].at \in {"result", "row"}
                             /\ wk'[v].at \in {"result", "row"} => sql = v
      BY <2>0, <2>3, <3>1, <3>2
    <3> QED
      BY <2>3, <3>3, <3>4, <3>5 DEF PoolOK
  <2>4. CASE Pop(w)
    <3> DEFINE t == [Idle EXCEPT !.at = IF que[1].type = "puts" THEN "md5" ELSE "find",
                                 !.fd = que[1].fd, !.type = que[1].type]
    <3>1. que \in Seq(Tasks) /\ que # << >>
      BY <2>4 DEF Goto, Step, Pop, PoolOK
    <3>2. que[1] \in Tasks
          /\ Tail(que) \in Seq(Tasks)
      BY <3>1
    <3>6. que[1].fd \in Fds /\ que[1].type \in {"puts", "gets"}
      BY <3>2 DEF Tasks
    <3>3. TaskOK(t) /\ t.at \in {"md5", "find"}
      BY <3>6 DEF TaskOK, Idle, PutsAt, GetsAt
    <3>4. wk' = [wk EXCEPT ![w] = t] /\ que' = Tail(que) /\ sql' = sql /\ wk[w].at = "idle"
      BY <2>4 DEF Goto, Step, Pop
    <3> HIDE DEF t
    <3>5. DOMAIN wk' = Workers /\ \A v \in Workers : wk'[v] = IF v = w THEN t ELSE wk[v]
      BY <2>2, <3>4
    <3> QED
      BY <2>1, <3>2, <3>3, <3>4, <3>5 DEF PoolOK
  <2>5. CASE Query(w)
    <3> DEFINE t == [wk[w] EXCEPT !.at = IF wk[w].at = "query" THEN "result" ELSE "row"]
    <3>1. sql = NULL /\ sql' = w /\ wk' = [wk EXCEPT ![w] = t] /\ que' = que
          /\ wk[w].at \in {"query", "find"}
      BY <2>5 DEF Goto, Step, Query, wkFrame
    <3>2. TaskOK(t) /\ t.at \in {"result", "row"}
      BY <2>2, <3>1 DEF TaskOK, PutsAt, GetsAt
    <3> HIDE DEF t
    <3>3. DOMAIN wk' = Workers /\ \A v \in Workers : wk'[v] = IF v = w THEN t ELSE wk[v]
      BY <2>2, <3>1
    <3> QED
      BY <1>0, <2>1, <3>1, <3>2, <3>3 DEF PoolOK
  <2>6. CASE ResultMd5(w)
    <3> DEFINE s == slot[wk[w].fd]
               t == [wk[w] EXCEPT !.at = IF \E r \in files : r.md5 = wk[w].md5 THEN "insert" ELSE "open",
                                  !.parent = PwdToId(s.id, s.pwd)]
    <3>1. sql' = NULL /\ wk' = [wk EXCEPT ![w] = t] /\ que' = que /\ wk[w].at = "result"
      BY <2>6 DEF Goto, Step, ResultMd5, wkFrame
    <3>2. wk[w].fd \in Fds
      BY <2>2, <3>1 DEF TaskOK
    <3>3. Len(s.pwd) \in Nat /\ PwdToId(s.id, s.pwd) # -1
      BY <3>2 DEF PathsLead, SlotOK, Slots, Paths
    <3>4. PwdToId(s.id, s.pwd) \in Nat
      BY <3>3, PathDir
    <3>5. TaskOK(t) /\ t.at \notin {"result", "row"}
      BY <2>2, <3>1, <3>2, <3>4 DEF TaskOK, PutsAt, GetsAt
    <3> HIDE DEF t
    <3>6. DOMAIN wk' = Workers /\ \A v \in Workers : wk'[v] = IF v = w THEN t ELSE wk[v]
      BY <2>2, <3>1
    <3> QED
      BY <1>0, <2>1, <3>1, <3>5, <3>6 DEF PoolOK
  <2>7. CASE FindRow(w)
    <3>1. sql' = NULL /\ que' = que /\ wk[w].at = "row"
      BY <2>7 DEF Goto, Step, FindRow
    <3>2. CASE wk' = wk /\ loop' = At("down", 0)
      BY <1>0, <2>1, <3>1, <3>2 DEF PoolOK, Running, At
    <3>3. CASE \E m : wk' = [wk EXCEPT ![w] = [wk[w] EXCEPT !.at = "have", !.md5 = m]]
      <4>1. PICK m : wk' = [wk EXCEPT ![w] = [wk[w] EXCEPT !.at = "have", !.md5 = m]]
        BY <3>3
      <4> DEFINE t == [wk[w] EXCEPT !.at = "have", !.md5 = m]
      <4>2. TaskOK(t) /\ t.at = "have"
        BY <2>2, <3>1 DEF TaskOK, PutsAt, GetsAt
      <4> HIDE DEF t
      <4>3. DOMAIN wk' = Workers /\ \A v \in Workers : wk'[v] = IF v = w THEN t ELSE wk[v]
        BY <2>2, <4>1 DEF t
      <4> QED
        BY <1>0, <2>1, <3>1, <4>2, <4>3 DEF PoolOK
    <3> QED
      BY <2>7, <3>2, <3>3 DEF FindRow, Step
  <2>8. ASSUME NEW a, Goto(w, a), UNCHANGED <<que, sql>>,
               wk[w].at \notin {"result", "row"}, a \notin {"result", "row"},
               \/ a \in {"done", "close", "status"}
               \/ a \in PutsAt /\ wk[w].at \in PutsAt
               \/ a \in GetsAt /\ wk[w].at \in GetsAt,
               wk[w].at # "idle"
        PROVE  PoolOK'
    <3>1. TaskOK([wk[w] EXCEPT !.at = a])
      BY <2>2, <2>8 DEF TaskOK, PutsAt, GetsAt
    <3>2. [wk[w] EXCEPT !.at = a].at = a
      BY <2>2 DEF TaskOK
    <3> QED
      BY <2>3, <2>8, <3>1, <3>2 DEF Goto, Step
  <2>9. CASE Open(w)
    <3>1. Goto(w, "size") /\ wk[w].at = "open" /\ UNCHANGED <<que, sql>>
      BY <2>9 DEF Open, wkFrame
    <3> QED
      BY <2>8, <3>1 DEF PutsAt
  <2>10. CASE InsertRow(w)
    <3>1. Goto(w, "done") /\ wk[w].at = "insert" /\ UNCHANGED <<que, sql>>
      BY <2>10 DEF InsertRow, wkFrame
    <3> QED
      BY <2>8, <3>1
  <2>11. CASE SendLength(w)
    <3>1. (Goto(w, "send") \/ Goto(w, "done")) /\ wk[w].at = "length" /\ UNCHANGED <<que, sql>>
      BY <2>11 DEF SendLength, wkFrame
    <3> QED
      BY <2>8, <3>1 DEF GetsAt
  <2>12. CASE SendFile(w)
    <3>1. CASE wk' = [wk EXCEPT ![w] = [wk[w] EXCEPT !.pos = wk[w].pos + 1]]
      <4>1. TaskOK([wk[w] EXCEPT !.pos = wk[w].pos + 1])
            /\ [wk[w] EXCEPT !.pos = wk[w].pos + 1].at = "send"
        BY <2>2, <2>12 DEF SendFile, TaskOK, PutsAt, GetsAt
      <4> QED
        BY <2>3, <2>12, <3>1, <4>1 DEF SendFile, wkFrame
    <3> QED
      BY <2>8, <2>12, <3>1 DEF SendFile, Step, wkFrame
  <2>13. CASE TaskOffline(w)
    <3>1. Goto(w, "close") /\ wk[w].at = "done" /\ UNCHANGED <<que, sql>>
      BY <2>13 DEF TaskOffline, wkFrame
    <3> QED
      BY <2>8, <3>1
  <2>14. CASE TaskClose(w)
    <3>1. Goto(w, "status") /\ wk[w].at = "close" /\ UNCHANGED <<que, sql>>
      BY <2>14 DEF TaskClose, wkFrame
    <3> QED
      BY <2>8, <3>1
  <2>15. CASE TaskStatus(w)
    <3>1. TaskOK(Idle) /\ Idle.at = "idle"
      BY DEF TaskOK, Idle, PutsAt, GetsAt
    <3> QED
      BY <2>3, <2>15, <3>1 DEF TaskStatus, Step, wkFrame
  <2>16. CASE RecvMd5(w)
    <3>1. PICK m : wk' = [wk EXCEPT ![w] = [wk[w] EXCEPT !.at = "query", !.md5 = m]]
      BY <2>16 DEF Goto, Step, RecvMd5
    <3>2. TaskOK([wk[w] EXCEPT !.at = "query", !.md5 = m])
          /\ [wk[w] EXCEPT !.at = "query", !.md5 = m].at = "query"
      BY <2>2, <2>16 DEF RecvMd5, TaskOK, PutsAt, GetsAt
    <3> QED
      BY <2>3, <2>16, <3>1, <3>2 DEF RecvMd5, wkFrame
  <2>17. CASE RecvSize(w)
    BY <2>8, <2>17 DEF RecvSize, wkFrame, PutsAt
  <2>18. CASE RecvContent(w)
    <3>1. CASE wk' = [wk EXCEPT ![w] = [wk[w] EXCEPT !.pos = @ + 1]]
      <4>1. TaskOK([wk[w] EXCEPT !.pos = @ + 1]) /\ [wk[w] EXCEPT !.pos = @ + 1].at = "content"
        BY <2>2, <2>18 DEF RecvContent, TaskOK, PutsAt, GetsAt
      <4> QED
        BY <2>3, <2>18, <3>1, <4>1 DEF RecvContent, wkFrame
    <3> QED
      BY <2>8, <2>18, <3>1 DEF RecvContent, Step, wkFrame, PutsAt
  <2>19. CASE RecvHave(w)
    BY <2>8, <2>19 DEF RecvHave, wkFrame, GetsAt
  <2>20. CASE CheckMd5(w)
    <3>1. CASE \E n : wk' = [wk EXCEPT ![w] = [wk[w] EXCEPT !.at = "length", !.pos = n]]
      <4>1. PICK n : wk' = [wk EXCEPT ![w] = [wk[w] EXCEPT !.at = "length", !.pos = n]]
        BY <3>1
      <4>2. TaskOK([wk[w] EXCEPT !.at = "length", !.pos = n])
            /\ [wk[w] EXCEPT !.at = "length", !.pos = n].at = "length"
        BY <2>2, <2>20 DEF CheckMd5, TaskOK, PutsAt, GetsAt
      <4> QED
        BY <2>3, <2>20, <4>1, <4>2 DEF CheckMd5, wkFrame
    <3> QED
      BY <2>8, <2>20, <3>1 DEF CheckMd5, Step, wkFrame, GetsAt
  <2> QED
    BY <1>4, <2>4, <2>5, <2>6, <2>7, <2>9, <2>10, <2>11, <2>12, <2>13, <2>14, <2>15, <2>16,
       <2>17, <2>18, <2>19, <2>20 DEF Thread
<1>5. ASSUME NEW p \in Procs, User(p) \/ Transfer(p) PROVE PoolOK'
  BY <1>1, <1>5, UserFrame, TransferFrame DEF Running
<1>6. CASE UNCHANGED vars
  BY <1>1, <1>6 DEF vars, Running
<1> QED
  BY <1>2, <1>3, <1>4, <1>5, <1>6 DEF Next

\* The first word that waits behind the descriptor of an event.
LEMMA FirstWord ==
    ASSUME Shapes, NEW d \in Fds, d \in watched, up[sock[d]] # << >>
    PROVE  LET x == up[sock[d]][1] IN
           /\ sock[d] \in Conns /\ sock[d][1] \in Procs /\ Len(up[sock[d]]) >= 1
           /\ x.k = "token" => x.v = NULL \/ (x.v = sock[d][1] /\ users[x.v] \in Users)
           /\ x.k = "zero" => Len(up[sock[d]]) >= 2 /\ up[sock[d]][2].v \in {"right", "wrong"}
           /\ x.k = "cmd" => x.name \in Names
<1>1. sock[d] \in Conns /\ sock[d][1] \in Procs
  BY DEF Shapes, NetOK, Conns
<1>2. UpWords(sock[d], up[sock[d]])
  BY <1>1 DEF Shapes, WordOK
<1>3. Len(up[sock[d]]) \in Nat /\ 1 \in 1..Len(up[sock[d]])
  BY <1>2 DEF UpWords, IsSeq
<1>4. users[sock[d][1]] # NULL => users[sock[d][1]] \in Users
  BY <1>1 DEF Shapes, UserOK
<1> QED
  BY <1>1, <1>2, <1>3, <1>4 DEF UpWords

\* The users table: a login or a cd sets one row.
LEMMA UsersSet ==
    ASSUME Shapes, NEW d \in Fds, LoginPassword(d) \/ Cd(d)
    PROVE  \/ UNCHANGED users
           \/ \E p \in Procs, u \in Users : users' = [users EXCEPT ![p] = u]
<1> USE DEF Shapes
<1>1. d \in watched /\ up[sock[d]] # << >>
  BY DEF LoginPassword, Cd, Command, Listens, Readable, Event
<1>2. CASE LoginPassword(d)
  <2> DEFINE p == sock[d][1]
             v == up[sock[d]][2].v
  <2>1. p \in Procs /\ v \in {"right", "wrong"}
    BY <1>1, <1>2, FirstWord DEF LoginPassword, Readable
  <2>2. [pass |-> v, pwd |-> <<>>] \in Users
    <3>1. << >> \in Paths
      BY DEF Paths
    <3> QED
      BY <2>1, <3>1 DEF Users
  <2>3. UNCHANGED users \/ users' = [users EXCEPT ![p] = [pass |-> v, pwd |-> <<>>]]
    BY <1>2 DEF LoginPassword
  <2> QED
    BY <2>1, <2>2, <2>3
<1>3. CASE Cd(d)
  <2> DEFINE id == slot[d].id
  <2>1. CASE UNCHANGED users
    BY <2>1
  <2>2. CASE id # NULL /\ users' = [users EXCEPT ![id].pwd = NewPath(d)]
            /\ slot' = [slot EXCEPT ![d].pwd = NewPath(d)]
    <3>1. id \in Procs /\ users[id] \in Users
      BY <2>2 DEF SlotOK, Slots, UserOK
    <3>2. slot' \in [Fds -> Slots]
      <4>1. PICK s \in Slots : slot' = [slot EXCEPT ![d] = s] \/ UNCHANGED slot
        <5>1. Serve(d)
          BY <1>3 DEF Serve
        <5>2. slot[d] \in Slots
          BY DEF SlotOK
        <5> QED
          BY <5>1, <5>2, ServeSlot
      <4> QED
        BY <4>1 DEF SlotOK
    <3>3. NewPath(d) \in Paths
      <4>1. slot'[d].pwd = NewPath(d)
        BY <2>2 DEF SlotOK, Slots
      <4>2. slot'[d].pwd \in Paths
        BY <3>2 DEF Slots
      <4> QED
        BY <4>1, <4>2
    <3>4. [users[id] EXCEPT !.pwd = NewPath(d)] \in Users
      BY <3>1, <3>3 DEF Users
    <3>5. users' = [users EXCEPT ![id] = [users[id] EXCEPT !.pwd = NewPath(d)]]
      BY <2>2
    <3> QED
      BY <3>1, <3>4, <3>5
  <2> QED
    BY <1>3, <2>1, <2>2 DEF Cd
<1> QED
  BY <1>2, <1>3

\* Only the event loop changes the users table.
LEMMA UsersFrame ==
    ASSUME [Next]_vars
    PROVE  UNCHANGED users \/ \E d \in Fds : Serve(d) /\ (LoginPassword(d) \/ Cd(d))
<1> USE DEF dbVars
<1>1. CASE EventLoop
  BY <1>1, ServeFrame DEF EventLoop, Accept, SetOnline
<1>2. CASE ServerEnds
  BY <1>2 DEF ServerEnds
<1>3. ASSUME NEW w \in Workers, Thread(w) PROVE UNCHANGED users
  BY <1>3, ThreadFrame
<1>4. ASSUME NEW p \in Procs, User(p) \/ Transfer(p) PROVE UNCHANGED users
  BY <1>4, UserFrame, TransferFrame
<1>5. CASE UNCHANGED vars
  BY <1>5 DEF vars
<1> QED
  BY <1>1, <1>2, <1>3, <1>4, <1>5 DEF Next

\* No user is forgotten.
LEMMA UsersStay ==
    ASSUME Shapes, [Next]_vars
    PROVE  /\ users' \in [Procs -> Users \cup {NULL}]
           /\ \A p \in Procs : users[p] # NULL => users'[p] # NULL
<1>1. users \in [Procs -> Users \cup {NULL}]
  BY DEF Shapes, UserOK
<1>2. NULL \notin Users
  BY ValuesAssumption DEF Users
<1>3. UNCHANGED users \/ \E p \in Procs, u \in Users : users' = [users EXCEPT ![p] = u]
  BY UsersFrame, UsersSet
<1> QED
  BY <1>1, <1>2, <1>3

\* A slot gets the id of a user of the table.
LEMMA ServeIds ==
    ASSUME Shapes, NEW d \in Fds, Serve(d)
    PROVE  \A e \in Fds : \/ slot'[e].id = slot[e].id
                          \/ /\ e = d /\ slot'[e].id = sock[d][1] /\ sock[d][1] \in Procs
                             /\ users'[sock[d][1]] # NULL
                             /\ LoginPassword(d) \/ LoginToken(d)
<1> USE DEF Shapes, SlotOK, Slots
<1>0. d \in watched /\ NULL \notin Users
  BY ServeFrame, ValuesAssumption DEF Users
<1>1. CASE LoginPassword(d)
  <2> DEFINE p == sock[d][1]
             v == up[sock[d]][2].v
  <2>1. p \in Procs
    BY <1>0, <1>1, FirstWord DEF LoginPassword, Readable
  <2>2. CASE UNCHANGED slot
    BY <2>2
  <2>3. CASE /\ users' = IF users[p] = NULL THEN [users EXCEPT ![p] = [pass |-> v, pwd |-> <<>>]]
                         ELSE users
             /\ slot' = [slot EXCEPT ![d] = Slot(TRUE, p, users'[p].pwd, @.status)]
    <3>1. users'[p] # NULL
      <4>1. CASE users[p] = NULL
        <5>1. users'[p] = [pass |-> v, pwd |-> <<>>]
          BY <2>1, <2>3, <4>1 DEF UserOK
        <5>2. [pass |-> v, pwd |-> <<>>] \in Users
          <6>1. << >> \in Paths
            BY DEF Paths
          <6>2. up[sock[d]] # << >> /\ up[sock[d]][1].k = "zero"
            BY <1>1 DEF LoginPassword, Readable
          <6>3. v \in {"right", "wrong"}
            BY <1>0, <6>2, FirstWord
          <6> QED
            BY <6>1, <6>3 DEF Users
        <5> QED
          BY <1>0, <5>1, <5>2
      <4>2. CASE users[p] # NULL
        BY <2>3, <4>2
      <4> QED
        BY <4>1, <4>2
    <3>2. \A e \in Fds : slot'[e] = IF e = d THEN Slot(TRUE, p, users'[p].pwd, slot[d].status) ELSE slot[e]
      BY <2>3
    <3> QED
      BY <1>1, <2>1, <3>1, <3>2 DEF Slot
  <2> QED
    BY <1>1, <2>2, <2>3 DEF LoginPassword
<1>2. CASE LoginToken(d)
  <2> DEFINE id == up[sock[d]][1].v
  <2>1. id = sock[d][1] /\ id \in Procs /\ users[id] \in Users
    BY <1>0, <1>2, FirstWord DEF LoginToken, Readable
  <2>2. users' = users /\ slot' = [slot EXCEPT ![d] = Slot(TRUE, id, users[id].pwd, @.status)]
    BY <1>2 DEF LoginToken, dbVars
  <2>3. \A e \in Fds : slot'[e] = IF e = d THEN Slot(TRUE, id, users[id].pwd, slot[d].status) ELSE slot[e]
    BY <2>2
  <2> QED
    BY <1>0, <1>2, <2>1, <2>2, <2>3 DEF Slot
<1>3. CASE LoginAnyway(d)
  BY <1>3 DEF LoginAnyway
<1>4. CASE LoginEof(d)
  BY <1>4 DEF LoginEof
<1>5. CASE CommandEof(d)
  BY <1>5 DEF CommandEof
<1>6. CASE Cd(d)
  BY <1>6 DEF Cd
<1>7. CASE Push(d)
  BY <1>7 DEF Push
<1> QED
  BY <1>1, <1>2, <1>3, <1>4, <1>5, <1>6, <1>7, ServeFrame

\* Everybody else leaves id and pwd of a slot alone.
LEMMA SlotFrame ==
    ASSUME Shapes, [Next]_vars, ~ \E d \in Fds : Serve(d)
    PROVE  \A e \in Fds : slot'[e].id = slot[e].id /\ slot'[e].pwd = slot[e].pwd
<1> USE DEF Shapes, SlotOK, Slots
<1>1. CASE EventLoop
  BY <1>1 DEF EventLoop, Accept, SetOnline
<1>2. CASE ServerEnds
  BY <1>2 DEF ServerEnds
<1>3. ASSUME NEW w \in Workers, Thread(w)
      PROVE  \A e \in Fds : slot'[e].id = slot[e].id /\ slot'[e].pwd = slot[e].pwd
  <2>1. \/ UNCHANGED slot
        \/ slot' = [slot EXCEPT ![wk[w].fd].online = FALSE]
        \/ slot' = [slot EXCEPT ![wk[w].fd].status = "RECV_CMD"]
    BY <1>3, ThreadFrame, ReadFrame DEF TaskOffline, TaskStatus, Take, Lost
  <2> QED
    BY <2>1
<1>4. ASSUME NEW p \in Procs, User(p) \/ Transfer(p) PROVE UNCHANGED slot
  BY <1>4, UserFrame, TransferFrame
<1>5. CASE UNCHANGED vars
  BY <1>5 DEF vars
<1> QED
  BY <1>1, <1>2, <1>3, <1>4, <1>5 DEF Next

LEMMA UserStep == ASSUME Shapes, [Next]_vars PROVE UserOK'
<1>1. \A d \in Fds : slot'[d].id # NULL => users'[slot'[d].id] # NULL
  <2> TAKE d \in Fds
  <2>1. CASE slot'[d].id = slot[d].id
    <3>1. slot[d].id # NULL => slot[d].id \in Procs /\ users[slot[d].id] # NULL
      BY DEF Shapes, SlotOK, Slots, UserOK
    <3> QED
      BY <2>1, <3>1, UsersStay
  <2> QED
    BY <2>1, SlotFrame, ServeIds
<1>2. \A p \in Procs : cl'[p].token # NULL => cl'[p].token = p /\ users'[p] # NULL
  <2>1. CASE \A p \in Procs : cl'[p].token = cl[p].token
    BY <2>1, UsersStay DEF Shapes, UserOK
  <2>2. ASSUME NEW q \in Procs, User(q) \/ Transfer(q)
        PROVE  \A p \in Procs : cl'[p].token # NULL => cl'[p].token = p /\ users'[p] # NULL
    <3> USE DEF Shapes, ClientOK
    <3>1. CASE Start(q) \/ TypeLogin(q) \/ Quit(q)
      BY <2>1, <3>1 DEF Start, TypeLogin, Quit
    <3>2. ASSUME NEW c \in {"cd", "ls", "mkdir", "rm"}, NEW m \in Names, TypeCommand(q, c, m)
          PROVE  \A p \in Procs : cl'[p].token = cl[p].token
      BY <3>2 DEF TypeCommand, Type
    <3>3. ASSUME NEW c \in {"puts", "gets"}, SendToken(q, c)
          PROVE  \A p \in Procs : cl'[p].token = cl[p].token
      BY <3>3 DEF SendToken, Type
    <3>4. CASE RecvLogin(q)
      <4>1. users' = users
        BY <2>2, UserFrame, TransferFrame
      <4> DEFINE s == down[Main(q)]
      <4>2. CASE cl' = [cl EXCEPT ![q].at = "offline"]
        BY <2>1, <4>2
      <4>3. CASE /\ s # << >> /\ s[1].k = "answer" /\ s[1].v = "success"
                 /\ cl' = [cl EXCEPT ![q].at = "online", ![q].token = s[2].v]
        <5>1. Main(q) \in Conns /\ Main(q)[1] = q
          BY DEF Main, Conns
        <5>2. DownWords(Main(q), s)
          BY <5>1 DEF WordOK
        <5>3. 1 \in 1..Len(s)
          BY <4>3, <5>2 DEF DownWords, IsSeq
        <5>4. s[2].v = q /\ users[q] # NULL
          BY <4>3, <5>1, <5>2, <5>3 DEF DownWords
        <5>5. \A p \in Procs : cl'[p].token = IF p = q THEN s[2].v ELSE cl[p].token
          BY <4>3
        <5> QED
          BY <4>1, <5>4, <5>5 DEF UserOK
      <4> QED
        BY <3>4, <4>2, <4>3 DEF RecvLogin
    <3> QED
      BY <2>1, <2>2, <3>1, <3>2, <3>3, <3>4, TransferFrame DEF User
  <2> QED
    BY <2>1, <2>2, ServerFrame
<1> QED
  BY <1>1, <1>2, UsersStay DEF UserOK

\* A new row has a directory that a path led to.
LEMMA Inserted ==
    ASSUME Shapes, NEW i \in Nat, NEW n, NEW t \in {"d", "f"}, NEW id, NEW m, Insert(i, n, t, id, m)
    PROVE  FileOK' /\ Grown
<1> DEFINE r0 == Row(nextid, i, n, t, id, m)
<1>1. nextid \in Nat \ {0} /\ nextid' = nextid + 1 /\ files' = files \cup {r0}
  BY DEF Shapes, FileOK, Insert
<1>2. /\ DOMAIN r0 = {"id", "parent", "name", "type", "owner", "md5", "tomb"}
      /\ r0.id = nextid /\ r0.parent = i /\ r0.type = t
  BY DEF Row
<1> HIDE DEF r0
<1>3. FileOK'
  BY <1>1, <1>2 DEF Shapes, FileOK
<1>4. \A r \in files : r.id \in Nat
  BY DEF Shapes, FileOK
<1> QED
  BY <1>1, <1>2, <1>3, <1>4 DEF Grown

\* rm keeps all of a row but tomb.
LEMMA Removed ==
    ASSUME Shapes, NEW d \in Fds, Rm(d)
    PROVE  FileOK' /\ Grown
<1> DEFINE i == PwdToId(slot[d].id, slot[d].pwd)
           New(r) == IF r.parent = i /\ r.name = Arg(d) THEN [r EXCEPT !.tomb = 1] ELSE r
<1>1. files' = {New(r) : r \in files} /\ nextid' = nextid
  BY DEF Rm
<1>2. \A r \in files :
         /\ DOMAIN r = {"id", "parent", "name", "type", "owner", "md5", "tomb"}
         /\ r.id \in 1..(nextid - 1) /\ r.parent \in Nat /\ r.type \in {"d", "f"}
  BY DEF Shapes, FileOK
<1>3. \A r \in files :
         /\ DOMAIN New(r) = {"id", "parent", "name", "type", "owner", "md5", "tomb"}
         /\ New(r).id = r.id /\ New(r).parent = r.parent /\ New(r).type = r.type
         /\ New(r).name = r.name /\ New(r).owner = r.owner
  BY <1>2
<1> HIDE DEF New
<1>4. FileOK'
  BY <1>1, <1>2, <1>3 DEF Shapes, FileOK
<1>5. Grown
  BY <1>1, <1>2, <1>3 DEF Shapes, FileOK, Grown
<1> QED
  BY <1>4, <1>5

LEMMA SlotLeads ==
    ASSUME Shapes, PathsLead, NEW d \in Fds
    PROVE  /\ PwdToId(slot[d].id, slot[d].pwd) \in Nat
           /\ DirOf(slot[d].id, PwdToId(slot[d].id, slot[d].pwd))
<1>1. Len(slot[d].pwd) \in Nat /\ FileOK
  BY DEF Shapes, SlotOK, Slots, Paths
<1>2. PwdToId(slot[d].id, slot[d].pwd) # -1
  BY DEF PathsLead
<1> QED
  BY <1>1, <1>2, PathDir

LEMMA FileStep == ASSUME Shapes, PathsLead, [Next]_vars PROVE FileOK' /\ Grown
<1>1. CASE UNCHANGED <<files, nextid>>
  BY <1>1 DEF Shapes, FileOK, Grown
<1>2. CASE EventLoop
  <2>1. CASE Accept \/ SetOnline
    BY <1>1, <2>1 DEF Accept, SetOnline, dbVars
  <2>2. ASSUME NEW d \in Fds, Serve(d) PROVE FileOK' /\ Grown
    <3>1. CASE MakesDir(d)
      BY <3>1, SlotLeads, Inserted DEF MakesDir
    <3>2. CASE Rm(d)
      BY <3>2, Removed
    <3> QED
      BY <1>1, <2>2, <3>1, <3>2, ServeFrame
  <2> QED
    BY <1>2, <2>1, <2>2 DEF EventLoop
<1>3. CASE ServerEnds
  BY <1>1, <1>3 DEF ServerEnds, dbVars
<1>4. ASSUME NEW w \in Workers, Thread(w) PROVE FileOK' /\ Grown
  <2>1. CASE InsertRow(w)
    <3>1. wk[w].parent \in Nat
      BY DEF Shapes, PoolOK, TaskOK
    <3> QED
      BY <2>1, <3>1, Inserted DEF InsertRow
  <2> QED
    BY <1>1, <1>4, <2>1, ThreadFrame
<1>5. ASSUME NEW p \in Procs, User(p) \/ Transfer(p) PROVE UNCHANGED <<files, nextid>>
  BY <1>5, UserFrame, TransferFrame
<1>6. CASE UNCHANGED vars
  BY <1>1, <1>6 DEF vars
<1> QED
  BY <1>1, <1>2, <1>3, <1>4, <1>5, <1>6 DEF Next

-----------------------------------------------------------------------------
(* Words under way *)

LEMMA UpJoined ==
    ASSUME NEW k, NEW s, UpWords(k, s), NEW t, UpWords(k, t)
    PROVE  UpWords(k, s \o t)
<1> DEFINE n == Len(s)
           u == s \o t
<1>1. /\ IsSeq(u) /\ Len(u) = n + Len(t) /\ n \in Nat /\ Len(t) \in Nat
      /\ \A i \in 1..(n + Len(t)) : u[i] = IF i <= n THEN s[i] ELSE t[i - n]
  BY Joined DEF UpWords
<1>2. ASSUME NEW i \in 1..Len(u)
      PROVE  /\ u[i].k = "token" => u[i].v = NULL \/ (u[i].v = k[1] /\ users[k[1]] # NULL)
             /\ u[i].k = "zero" => i < Len(u) /\ u[i + 1].v \in {"right", "wrong"}
             /\ u[i].k = "cmd" => u[i].name \in Names
  <2>1. CASE i <= n
    <3>1. i \in 1..n /\ u[i] = s[i]
      BY <1>1, <2>1
    <3>2. i < n => u[i + 1] = s[i + 1]
      BY <1>1
    <3> HIDE DEF u
    <3> QED
      BY <1>1, <3>1, <3>2 DEF UpWords
  <2>2. CASE ~ (i <= n)
    <3>1. i - n \in 1..Len(t) /\ u[i] = t[i - n] /\ (i - n) + 1 = (i + 1) - n
      BY <1>1, <2>2
    <3>2. i - n < Len(t) => i < Len(u) /\ u[i + 1] = t[(i - n) + 1]
      BY <1>1, <2>2
    <3> HIDE DEF u
    <3> QED
      BY <3>1, <3>2 DEF UpWords
  <2> QED
    BY <2>1, <2>2
<1> HIDE DEF u
<1>3. UpWords(k, u)
  BY <1>1, <1>2 DEF UpWords
<1> QED
  BY <1>3 DEF u

LEMMA DownJoined ==
    ASSUME NEW k, NEW s, DownWords(k, s), NEW t, DownWords(k, t)
    PROVE  DownWords(k, s \o t)
<1> DEFINE n == Len(s)
           u == s \o t
<1>1. /\ IsSeq(u) /\ Len(u) = n + Len(t) /\ n \in Nat /\ Len(t) \in Nat
      /\ \A i \in 1..(n + Len(t)) : u[i] = IF i <= n THEN s[i] ELSE t[i - n]
  BY Joined DEF DownWords
<1>2. ASSUME NEW i \in 1..Len(u), u[i].k = "answer", u[i].v = "success"
      PROVE  i < Len(u) /\ u[i + 1].v = k[1] /\ users[k[1]] # NULL
  <2>1. CASE i <= n
    <3>1. i \in 1..n /\ u[i] = s[i]
      BY <1>1, <2>1
    <3>2. i < n => u[i + 1] = s[i + 1]
      BY <1>1
    <3> HIDE DEF u
    <3> QED
      BY <1>1, <1>2, <3>1, <3>2 DEF DownWords
  <2>2. CASE ~ (i <= n)
    <3>1. i - n \in 1..Len(t) /\ u[i] = t[i - n] /\ (i - n) + 1 = (i + 1) - n
      BY <1>1, <2>2
    <3>2. i - n < Len(t) => i < Len(u) /\ u[i + 1] = t[(i - n) + 1]
      BY <1>1, <2>2
    <3> HIDE DEF u
    <3> QED
      BY <1>2, <3>1, <3>2 DEF DownWords
  <2> QED
    BY <2>1, <2>2
<1>4. ASSUME NEW i \in 1..Len(u), u[i].k = "length" PROVE u[i].v \in Nat
  <2>1. (i \in 1..n /\ u[i] = s[i]) \/ (i - n \in 1..Len(t) /\ u[i] = t[i - n])
    BY <1>1
  <2> HIDE DEF u
  <2> QED
    BY <1>4, <2>1 DEF DownWords
<1> HIDE DEF u
<1>3. DownWords(k, u)
  BY <1>1, <1>2, <1>4 DEF DownWords
<1> QED
  BY <1>3 DEF u

LEMMA WordsDropped ==
    ASSUME NEW k, NEW s, NEW n \in Nat, n <= Len(s)
    PROVE  /\ UpWords(k, s) => UpWords(k, SubSeq(s, n + 1, Len(s)))
           /\ DownWords(k, s) => DownWords(k, SubSeq(s, n + 1, Len(s)))
<1> DEFINE u == SubSeq(s, n + 1, Len(s))
<1>1. ASSUME IsSeq(s)
      PROVE  /\ IsSeq(u) /\ Len(u) = Len(s) - n /\ Len(s) \in Nat
             /\ \A i \in 1..(Len(s) - n) : i + n \in 1..Len(s) /\ u[i] = s[i + n]
  BY <1>1, Dropped
<1> HIDE DEF u
<1>2. ASSUME UpWords(k, s) PROVE UpWords(k, u)
  <2>1. /\ IsSeq(u) /\ Len(u) = Len(s) - n /\ Len(s) \in Nat
        /\ \A i \in 1..(Len(s) - n) : i + n \in 1..Len(s) /\ u[i] = s[i + n]
    BY <1>1, <1>2 DEF UpWords
  <2>2. ASSUME NEW i \in 1..Len(u)
        PROVE  /\ u[i].k = "token" => u[i].v = NULL \/ (u[i].v = k[1] /\ users[k[1]] # NULL)
               /\ u[i].k = "zero" => i < Len(u) /\ u[i + 1].v \in {"right", "wrong"}
               /\ u[i].k = "cmd" => u[i].name \in Names
    <3>1. i + n \in 1..Len(s) /\ u[i] = s[i + n] /\ (i + 1) + n = (i + n) + 1
      BY <2>1
    <3>2. i + n < Len(s) => i < Len(u) /\ u[i + 1] = s[(i + n) + 1]
      BY <2>1
    <3> QED
      BY <1>2, <3>1, <3>2 DEF UpWords
  <2> QED
    BY <2>1, <2>2 DEF UpWords
<1>3. ASSUME DownWords(k, s) PROVE DownWords(k, u)
  <2>1. /\ IsSeq(u) /\ Len(u) = Len(s) - n /\ Len(s) \in Nat
        /\ \A i \in 1..(Len(s) - n) : i + n \in 1..Len(s) /\ u[i] = s[i + n]
    BY <1>1, <1>3 DEF DownWords
  <2>2. ASSUME NEW i \in 1..Len(u), u[i].k = "answer", u[i].v = "success"
        PROVE  i < Len(u) /\ u[i + 1].v = k[1] /\ users[k[1]] # NULL
    <3>1. i + n \in 1..Len(s) /\ u[i] = s[i + n] /\ (i + 1) + n = (i + n) + 1
      BY <2>1
    <3>2. i + n < Len(s) => i < Len(u) /\ u[i + 1] = s[(i + n) + 1]
      BY <2>1
    <3> QED
      BY <1>3, <2>2, <3>1, <3>2 DEF DownWords
  <2>3. ASSUME NEW i \in 1..Len(u), u[i].k = "length" PROVE u[i].v \in Nat
    <3>1. i + n \in 1..Len(s) /\ u[i] = s[i + n]
      BY <2>1
    <3> QED
      BY <1>3, <2>3, <3>1 DEF DownWords
  <2> QED
    BY <2>1, <2>2, <2>3 DEF DownWords
<1> QED
  BY <1>2, <1>3 DEF u

\* What is under way stays true while users are only added.
LEMMA WordsStay ==
    ASSUME Shapes, [Next]_vars, NEW k \in Conns, NEW s
    PROVE  /\ UpWords(k, s) => UpWords(k, s)'
           /\ DownWords(k, s) => DownWords(k, s)'
<1>1. users[k[1]] # NULL => users'[k[1]] # NULL
  BY UsersStay DEF Conns
<1> QED
  BY <1>1 DEF UpWords, DownWords

\* Words that do not tell who somebody is.
LEMMA PlainWords ==
    ASSUME NEW k, NEW x, NEW y
    PROVE  /\ x.k \notin {"token", "zero", "cmd"} => UpWords(k, <<x>>)
           /\ x.k = "cmd" /\ x.name \in Names => UpWords(k, <<x>>)
           /\ x.k \notin {"token", "zero", "cmd"} /\ y.k \notin {"token", "zero", "cmd"} =>
                 UpWords(k, <<x, y>>)
           /\ x.k \notin {"answer", "length"} => DownWords(k, <<x>>)
           /\ x.k = "answer" /\ x.v # "success" => DownWords(k, <<x>>)
           /\ x.k = "length" /\ x.v \in Nat => DownWords(k, <<x>>)
<1>1. /\ IsSeq(<<x>>) /\ Len(<<x>>) = 1 /\ <<x>>[1] = x
      /\ IsSeq(<<x, y>>) /\ Len(<<x, y>>) = 2 /\ <<x, y>>[1] = x /\ <<x, y>>[2] = y
  BY Pair
<1>2. \A i \in 1..1 : i = 1
  OBVIOUS
<1>3. \A i \in 1..2 : i = 1 \/ i = 2
  OBVIOUS
<1>4. x.k \notin {"token", "zero", "cmd"} => UpWords(k, <<x>>)
  BY <1>1, <1>2 DEF UpWords
<1>5. x.k = "cmd" /\ x.name \in Names => UpWords(k, <<x>>)
  BY <1>1, <1>2 DEF UpWords
<1>6. x.k \notin {"token", "zero", "cmd"} /\ y.k \notin {"token", "zero", "cmd"} => UpWords(k, <<x, y>>)
  BY <1>1, <1>3 DEF UpWords
<1>7. /\ x.k \notin {"answer", "length"} => DownWords(k, <<x>>)
      /\ x.k = "answer" /\ x.v # "success" => DownWords(k, <<x>>)
      /\ x.k = "length" /\ x.v \in Nat => DownWords(k, <<x>>)
  BY <1>1, <1>2 DEF DownWords
<1> QED
  BY <1>4, <1>5, <1>6, <1>7

\* What an action puts under way upwards, or takes.
Sent(k)  == \E ws : UpWords(k, ws) /\ up' = Put(up, k, ws)
Taken(k) == \E n \in Nat : n <= Len(up[k]) /\ up' = [up EXCEPT ![k] = SubSeq(@, n + 1, Len(@))]

LEMMA UserSends ==
    ASSUME Shapes, NEW p \in Procs, User(p)
    PROVE  UNCHANGED up \/ Sent(Main(p)) \/ Sent(Xfer(p))
<1>1. CASE TypeLogin(p)
  <2>1. PICK v \in {"right", "wrong"} : up' = Put(up, Main(p), <<W("zero", 0), W("cred", v)>>)
    BY <1>1 DEF TypeLogin
  <2> DEFINE ws == <<W("zero", 0), W("cred", v)>>
  <2>2. IsSeq(ws) /\ Len(ws) = 2 /\ ws[1] = W("zero", 0) /\ ws[2] = W("cred", v)
    BY Pair
  <2> HIDE DEF ws
  <2>3. \A i \in 1..2 : i = 1 \/ i = 2
    OBVIOUS
  <2>4. UpWords(Main(p), ws)
    BY <2>2, <2>3 DEF UpWords, W
  <2> QED
    BY <2>1, <2>4 DEF Sent, ws
<1>2. ASSUME NEW c \in {"cd", "ls", "mkdir", "rm"}, NEW m \in Names, TypeCommand(p, c, m)
      PROVE  Sent(Main(p))
  <2>1. up' = Put(up, Main(p), <<Cmd(c, m)>>)
    BY <1>2 DEF TypeCommand
  <2>2. UpWords(Main(p), <<Cmd(c, m)>>)
    <3>1. Cmd(c, m).k = "cmd" /\ Cmd(c, m).name \in Names
      BY DEF Cmd
    <3> QED
      BY <3>1, PlainWords
  <2> QED
    BY <2>1, <2>2 DEF Sent
<1>3. ASSUME NEW c \in {"puts", "gets"}, SendToken(p, c) PROVE Sent(Xfer(p))
  <2> DEFINE ws == <<W("token", cl[p].token), Cmd(c, File)>>
  <2>1. up' = Put(up, Xfer(p), ws)
    BY <1>3 DEF SendToken
  <2>2. IsSeq(ws) /\ Len(ws) = 2 /\ ws[1] = W("token", cl[p].token) /\ ws[2] = Cmd(c, File)
    BY Pair
  <2> HIDE DEF ws
  <2>3. \A i \in 1..2 : i = 1 \/ i = 2
    OBVIOUS
  <2>4. cl[p].token # NULL => cl[p].token = p /\ users[p] # NULL
    BY DEF Shapes, UserOK
  <2>5. Xfer(p)[1] = p /\ File \in Names
    BY DEF Xfer, Names
  <2>6. UpWords(Xfer(p), ws)
    BY <2>2, <2>3, <2>4, <2>5 DEF UpWords, W, Cmd
  <2> QED
    BY <2>1, <2>6 DEF Sent
<1> QED
  BY <1>1, <1>2, <1>3, UserFrame

LEMMA TransferSends ==
    ASSUME Shapes, NEW p \in Procs, Transfer(p)
    PROVE  UNCHANGED up \/ Sent(Xfer(p))
<1>0. ASSUME NEW x, x.k \notin {"token", "zero", "cmd"}, up' = Put(up, Xfer(p), <<x>>)
      PROVE  Sent(Xfer(p))
  BY <1>0, PlainWords DEF Sent
<1>1. CASE SendMd5(p)
  <2>1. W("md5", Md5[p]).k \notin {"token", "zero", "cmd"}
    BY DEF W
  <2> QED
    BY <1>0, <1>1, <2>1 DEF SendMd5
<1>2. CASE SendContent(p)
  <2>1. W("size", Len(Body[Md5[p]])).k \notin {"token", "zero", "cmd"}
    BY DEF W
  <2> QED
    BY <1>0, <1>2, <2>1 DEF SendContent
<1>3. CASE SendBuffer(p)
  <2> DEFINE x == W("buf", Body[Md5[p]][xf[p].pos + 1])
  <2>1. x.k \notin {"token", "zero", "cmd"}
    BY DEF W
  <2>2. UNCHANGED up \/ up' = Put(up, Xfer(p), <<x>>)
    BY <1>3 DEF SendBuffer
  <2> HIDE DEF x
  <2> QED
    BY <1>0, <2>1, <2>2
<1>4. CASE SendLocal(p)
  <2>1. CASE up' = Put(up, Xfer(p), <<W("have", 0)>>)
    <3>1. W("have", 0).k \notin {"token", "zero", "cmd"}
      BY DEF W
    <3> QED
      BY <1>0, <2>1, <3>1
  <2>2. CASE up' = Put(up, Xfer(p), <<W("have", Len(disk[p])), W("md5", disk[p])>>)
    <3>1. /\ W("have", Len(disk[p])).k \notin {"token", "zero", "cmd"}
          /\ W("md5", disk[p]).k \notin {"token", "zero", "cmd"}
      BY DEF W
    <3>2. UpWords(Xfer(p), <<W("have", Len(disk[p])), W("md5", disk[p])>>)
      BY <3>1, PlainWords
    <3> QED
      BY <2>2, <3>2 DEF Sent
  <2> QED
    BY <1>4, <2>1, <2>2 DEF SendLocal
<1> QED
  BY <1>1, <1>2, <1>3, <1>4, TransferFrame

LEMMA ServeTakes ==
    ASSUME Shapes, NEW d \in Fds, Serve(d)
    PROVE  UNCHANGED up \/ Taken(sock[d])
<1>1. d \in watched
  BY ServeFrame
<1>2. ASSUME up[sock[d]] # << >>, Consume(d, 1) PROVE Taken(sock[d])
  BY <1>1, <1>2, FirstWord DEF Taken, Consume
<1>3. CASE LoginPassword(d)
  <2>1. up[sock[d]] # << >> /\ up[sock[d]][1].k = "zero" /\ Consume(d, 2)
    BY <1>3 DEF LoginPassword, Readable
  <2> QED
    BY <1>1, <2>1, FirstWord DEF Taken, Consume
<1> QED
  BY <1>2, <1>3, ServeFrame

\* A worker that is at its task has a descriptor, and its words.
LEMMA HandWords ==
    ASSUME Shapes, NEW w \in Workers, wk[w].at # "idle"
    PROVE  /\ wk[w].fd \in Fds
           /\ sock[wk[w].fd] # NULL => sock[wk[w].fd] \in Conns
           /\ HasWord(w) => Len(up[sock[wk[w].fd]]) >= 1
<1>1. wk[w].fd \in Fds
  BY DEF Shapes, PoolOK, TaskOK
<1>2. sock[wk[w].fd] # NULL => sock[wk[w].fd] \in Conns
  BY <1>1 DEF Shapes, NetOK
<1>3. HasWord(w) => Len(up[sock[wk[w].fd]]) >= 1
  <2> SUFFICES ASSUME HasWord(w) PROVE Len(up[sock[wk[w].fd]]) >= 1
    OBVIOUS
  <2> DEFINE s == up[sock[wk[w].fd]]
  <2>1. UpWords(sock[wk[w].fd], s) /\ s # << >>
    BY <1>2 DEF HasWord, Shapes, WordOK
  <2>2. Len(s) \in Nat /\ s = [i \in 1..Len(s) |-> s[i]]
    BY <2>1 DEF UpWords, IsSeq
  <2> HIDE DEF s
  <2>3. Len(s) # 0
    BY <2>1, <2>2
  <2> QED
    BY <2>2, <2>3 DEF s
<1> QED
  BY <1>1, <1>2, <1>3

LEMMA ThreadTakes ==
    ASSUME Shapes, NEW w \in Workers, Thread(w)
    PROVE  UNCHANGED up \/ (sock[wk[w].fd] \in Conns /\ Taken(sock[wk[w].fd]))
<1>1. CASE Take(w) /\ wk[w].at # "idle"
  <2>1. HasWord(w) /\ Consume(wk[w].fd, 1) /\ sock[wk[w].fd] # NULL
    BY <1>1 DEF Take, HasWord
  <2> QED
    BY <1>1, <2>1, HandWords DEF Taken, Consume
<1>2. CASE Lost(w)
  BY <1>2 DEF Lost
<1> QED
  BY <1>1, <1>2, ThreadFrame, ReadFrame

LEMMA UpStep ==
    ASSUME Shapes, [Next]_vars
    PROVE  /\ up' = [k \in Conns |-> up'[k]]
           /\ \A k \in Conns : UpWords(k, up[k])'
<1>0. /\ up = [k \in Conns |-> up[k]]
      /\ \A k \in Conns : UpWords(k, up[k])
  BY DEF Shapes, WordOK
<1>1. ASSUME NEW j \in Conns, NEW t, up' = [up EXCEPT ![j] = t], UpWords(j, t)
      PROVE  /\ up' = [k \in Conns |-> up'[k]]
             /\ \A k \in Conns : UpWords(k, up[k])'
  <2>1. \A k \in Conns : up'[k] = IF k = j THEN t ELSE up[k]
    BY <1>0, <1>1
  <2>2. up' = [k \in Conns |-> up'[k]]
    BY <1>0, <1>1
  <2>3. ASSUME NEW k \in Conns PROVE UpWords(k, up[k])'
    <3>1. PICK s : s = up'[k] /\ UpWords(k, s)
      BY <1>0, <1>1, <2>1
    <3>2. UpWords(k, s)'
      BY <3>1, WordsStay
    <3> QED
      BY <3>1, <3>2 DEF UpWords
  <2> QED
    BY <2>2, <2>3
<1>2. CASE UNCHANGED up
  <2>1. ASSUME NEW k \in Conns PROVE UpWords(k, up[k])'
    <3>1. PICK s : s = up[k] /\ UpWords(k, s)
      BY <1>0
    <3>2. UpWords(k, s)'
      BY <3>1, WordsStay
    <3> QED
      BY <1>2, <3>1, <3>2 DEF UpWords
  <2> QED
    BY <1>0, <1>2, <2>1
<1>3. ASSUME NEW j \in Conns, Sent(j)
      PROVE  /\ up' = [k \in Conns |-> up'[k]]
             /\ \A k \in Conns : UpWords(k, up[k])'
  <2>1. PICK ws : UpWords(j, ws) /\ up' = Put(up, j, ws)
    BY <1>3 DEF Sent
  <2>2. UpWords(j, up[j] \o ws)
    BY <1>0, <2>1, UpJoined
  <2> QED
    BY <1>1, <2>1, <2>2 DEF Put
<1>4. ASSUME NEW j \in Conns, Taken(j)
      PROVE  /\ up' = [k \in Conns |-> up'[k]]
             /\ \A k \in Conns : UpWords(k, up[k])'
  <2>1. PICK n \in Nat : n <= Len(up[j]) /\ up' = [up EXCEPT ![j] = SubSeq(@, n + 1, Len(@))]
    BY <1>4 DEF Taken
  <2>2. UpWords(j, SubSeq(up[j], n + 1, Len(up[j])))
    BY <1>0, <2>1, WordsDropped
  <2> QED
    BY <1>1, <2>1, <2>2
<1>5. CASE EventLoop
  <2>1. CASE Accept \/ SetOnline
    BY <1>2, <2>1 DEF Accept, SetOnline
  <2>2. ASSUME NEW d \in Fds, Serve(d) PROVE UNCHANGED up \/ \E j \in Conns : Taken(j)
    <3>1. sock[d] \in Conns
      BY <2>2, ServeFrame DEF Shapes, NetOK
    <3> QED
      BY <2>2, <3>1, ServeTakes
  <2> QED
    BY <1>2, <1>4, <1>5, <2>1, <2>2 DEF EventLoop
<1>6. CASE ServerEnds
  BY <1>2, <1>6 DEF ServerEnds
<1>7. CASE \E w \in Workers : Thread(w)
  BY <1>2, <1>4, <1>7, ThreadTakes
<1>8. ASSUME NEW p \in Procs, User(p) \/ Transfer(p) PROVE UNCHANGED up \/ \E j \in Conns : Sent(j)
  <2>1. Main(p) \in Conns /\ Xfer(p) \in Conns
    BY DEF Main, Xfer, Conns
  <2> QED
    BY <1>8, <2>1, UserSends, TransferSends
<1>9. CASE UNCHANGED vars
  BY <1>2, <1>9 DEF vars
<1> QED
  BY <1>2, <1>3, <1>5, <1>6, <1>7, <1>8, <1>9 DEF Next

\* Downwards.
Told(k) == \E ws : DownWords(k, ws)' /\ down' = Put(down, k, ws)
Read(k) == \E n \in Nat : n <= Len(down[k]) /\ down' = [down EXCEPT ![k] = SubSeq(@, n + 1, Len(@))]

LEMMA ClientReads ==
    ASSUME Shapes, NEW p \in Procs, User(p) \/ Transfer(p)
    PROVE  UNCHANGED down \/ Read(Main(p)) \/ Read(Xfer(p))
<1>0. Main(p) \in Conns /\ Xfer(p) \in Conns
  BY DEF Main, Xfer, Conns
<1>1. \A k \in Conns : IsSeq(down[k]) /\ Len(down[k]) \in Nat
  BY DEF Shapes, WordOK, DownWords, IsSeq
<1>2. ASSUME NEW k \in Conns, down[k] # << >> PROVE Len(down[k]) >= 1 /\ Tail(down[k]) = SubSeq(down[k], 2, Len(down[k]))
  <2> DEFINE s == down[k]
  <2>1. IsSeq(s) /\ s # << >>
    BY <1>1, <1>2
  <2> HIDE DEF s
  <2>2. Len(s) \in Nat /\ Len(s) # 0
    BY <2>1 DEF IsSeq
  <2>3. Tail(s) = SubSeq(s, 2, Len(s))
    BY <2>1, <2>2, Dropped
  <2> QED
    BY <2>2, <2>3 DEF s
<1>3. ASSUME NEW k \in Conns, down[k] # << >>, down' = [down EXCEPT ![k] = Tail(@)] PROVE Read(k)
  <2> DEFINE n == 1
  <2>2. n \in Nat /\ n + 1 = 2 /\ n <= Len(down[k])
    BY <1>2, <1>3
  <2> HIDE DEF n
  <2>1. down' = [down EXCEPT ![k] = SubSeq(@, n + 1, Len(@))]
    BY <1>2, <1>3, <2>2
  <2> QED
    BY <2>1, <2>2 DEF Read
<1>4. CASE RecvLogin(p)
  <2>1. CASE down' = [down EXCEPT ![Main(p)] = Tail(@)] /\ down[Main(p)] # << >>
    BY <1>0, <1>3, <2>1
  <2>2. CASE Len(down[Main(p)]) > 1 /\ down' = [down EXCEPT ![Main(p)] = SubSeq(@, 3, Len(@))]
    <3>1. Len(down[Main(p)]) \in Nat /\ 2 <= Len(down[Main(p)]) /\ 2 + 1 = 3
      BY <1>0, <1>1, <2>2
    <3> QED
      BY <2>2, <3>1 DEF Read
  <2> QED
    BY <1>4, <2>1, <2>2 DEF RecvLogin
<1>5. CASE SendContent(p) \/ RecvCheck(p) \/ RecvLength(p) \/ RecvBuffer(p)
  <2>1. UNCHANGED down \/ (down[Xfer(p)] # << >> /\ TailDown(p))
    BY <1>5 DEF SendContent, RecvCheck, RecvLength, RecvBuffer, From
  <2> QED
    BY <1>0, <1>3, <2>1 DEF TailDown
<1> QED
  BY <1>4, <1>5, UserFrame, TransferFrame

LEMMA ServeTells ==
    ASSUME Shapes, NEW d \in Fds, Serve(d), [Next]_vars
    PROVE  UNCHANGED down \/ \E k \in Conns : Told(k)
<1>1. d \in watched
  BY ServeFrame
<1>2. CASE LoginPassword(d)
  <2>1. PICK k \in Conns : k = sock[d] /\ k[1] \in Procs
    BY <1>1, <1>2, FirstWord DEF LoginPassword, Readable
  <2>2. ASSUME NEW ws, Reply(d, ws), DownWords(k, ws)' PROVE UNCHANGED down \/ Told(k)
    BY <2>1, <2>2 DEF Reply, Told
  <2>3. CASE Reply(d, <<W("answer", "error")>>)
    <3>1. W("answer", "error").k = "answer" /\ W("answer", "error").v # "success"
      BY DEF W
    <3>2. DownWords(k, <<W("answer", "error")>>)
      BY <3>1, PlainWords
    <3>3. DownWords(k, <<W("answer", "error")>>)'
      BY <3>2, WordsStay
    <3> QED
      BY <2>2, <2>3, <3>3
  <2>4. CASE Reply(d, <<W("answer", "success"), W("token", k[1])>>) /\ slot'[d].id = k[1]
    <3> DEFINE ws == <<W("answer", "success"), W("token", k[1])>>
    <3>1. users'[k[1]] # NULL
      <4>1. slot'[d].id # NULL
        BY <2>1, <2>4, ValuesAssumption
      <4> QED
        BY <2>4, <4>1, UserStep DEF UserOK
    <3>2. IsSeq(ws) /\ Len(ws) = 2 /\ ws[1] = W("answer", "success") /\ ws[2] = W("token", k[1])
      BY Pair
    <3>3. Reply(d, ws)
      BY <2>4
    <3> HIDE DEF ws
    <3>4. \A i \in 1..2 : i = 1 \/ i = 2
      OBVIOUS
    <3>5. PICK t : t = ws
      OBVIOUS
    <3>7. W("token", k[1]).k \notin {"answer", "length"} /\ W("token", k[1]).v = k[1]
          /\ W("answer", "success").k # "length"
      BY DEF W
    <3>8. Len(t) = 2 /\ t[1] = W("answer", "success") /\ t[2] = W("token", k[1]) /\ 1 + 1 = 2
      BY <3>2, <3>5
    <3>9. \A i \in 1..Len(t) : (t[i].k = "answer" => i < Len(t) /\ t[i + 1].v = k[1]) /\ t[i].k # "length"
      BY <3>4, <3>7, <3>8
    <3>6. DownWords(k, t)'
      BY <3>1, <3>2, <3>5, <3>9 DEF DownWords
    <3> QED
      BY <2>2, <3>3, <3>5, <3>6
  <2>5. ASSUME slot' = [slot EXCEPT ![d] = Slot(TRUE, k[1], users'[k[1]].pwd, @.status)]
        PROVE  slot'[d].id = k[1]
    BY <2>5 DEF Shapes, SlotOK, Slot
  <2> QED
    BY <1>2, <2>1, <2>3, <2>4, <2>5 DEF LoginPassword
<1> QED
  BY <1>2, ServeFrame

LEMMA ThreadTells ==
    ASSUME Shapes, NEW w \in Workers, Thread(w), [Next]_vars
    PROVE  UNCHANGED down \/ \E k \in Conns : Told(k)
<1>1. ASSUME NEW x, x.k \notin {"answer", "length"} \/ (x.k = "length" /\ x.v \in Nat),
             Answer(w, <<x>>), wk[w].at # "idle"
      PROVE  UNCHANGED down \/ \E k \in Conns : Told(k)
  <2>1. CASE sock[wk[w].fd] = NULL
    BY <1>1, <2>1 DEF Answer
  <2>2. CASE sock[wk[w].fd] # NULL
    <3>1. PICK c \in Conns : c = sock[wk[w].fd]
      BY <1>1, <2>2, HandWords
    <3>2. DownWords(c, <<x>>)'
      BY <1>1, PlainWords, WordsStay
    <3> QED
      BY <1>1, <2>2, <3>1, <3>2 DEF Answer, Reply, Told
  <2> QED
    BY <2>1, <2>2
<1>2. CASE ResultMd5(w)
  <2>1. PICK v : Answer(w, <<W("fast", v)>>) /\ wk[w].at = "result"
    BY <1>2 DEF ResultMd5
  <2>2. W("fast", v).k \notin {"answer", "length"}
    BY DEF W
  <2> QED
    BY <1>1, <2>1, <2>2
<1>3. CASE CheckMd5(w)
  <2>1. UNCHANGED down \/ \E v : Answer(w, <<W("check", v)>>) /\ wk[w].at = "check"
    BY <1>3 DEF CheckMd5
  <2>2. \A v : W("check", v).k \notin {"answer", "length"}
    BY DEF W
  <2> QED
    BY <1>1, <2>1, <2>2
<1>4. CASE SendLength(w)
  <2>1. W("length", FileSize(w)).k = "length" /\ W("length", FileSize(w)).v = FileSize(w)
    BY DEF W
  <2>2. FileSize(w) \in Nat
    BY ValuesAssumption DEF FileSize, Stores, IsSeq
  <2> QED
    BY <1>1, <1>4, <2>1, <2>2 DEF SendLength
<1>5. CASE SendFile(w)
  <2>1. UNCHANGED down \/ \E v : Answer(w, <<W("buf", v)>>) /\ wk[w].at = "send"
    BY <1>5 DEF SendFile
  <2>2. \A v : W("buf", v).k \notin {"answer", "length"}
    BY DEF W
  <2> QED
    BY <1>1, <2>1, <2>2
<1> QED
  BY <1>2, <1>3, <1>4, <1>5, ThreadFrame

\* DownJoined, to be used of the next state.
Joins == \A k, s, t : DownWords(k, s) /\ DownWords(k, t) => DownWords(k, s \o t)

LEMMA JoinsNow == Joins
BY DownJoined DEF Joins

LEMMA JoinsThen == Joins'
BY JoinsNow, PTL

LEMMA DownStep ==
    ASSUME Shapes, [Next]_vars
    PROVE  /\ down' = [k \in Conns |-> down'[k]]
           /\ \A k \in Conns : DownWords(k, down[k])'
<1>0. /\ down = [k \in Conns |-> down[k]]
      /\ \A k \in Conns : DownWords(k, down[k])
  BY DEF Shapes, WordOK
<1>1. ASSUME NEW j \in Conns, NEW t, down' = [down EXCEPT ![j] = t], DownWords(j, t)'
      PROVE  /\ down' = [k \in Conns |-> down'[k]]
             /\ \A k \in Conns : DownWords(k, down[k])'
  <2>1. \A k \in Conns : down'[k] = IF k = j THEN t ELSE down[k]
    BY <1>0, <1>1
  <2>2. down' = [k \in Conns |-> down'[k]]
    BY <1>0, <1>1
  <2>3. ASSUME NEW k \in Conns PROVE DownWords(k, down[k])'
    <3>1. PICK s : s = down'[k] /\ (k # j => DownWords(k, s)) /\ (k = j => s = t)
      BY <1>0, <1>1, <2>1
    <3>2. DownWords(k, s)'
      BY <1>1, <3>1, WordsStay
    <3> QED
      BY <3>1, <3>2 DEF DownWords
  <2> QED
    BY <2>2, <2>3
<1>2. CASE UNCHANGED down
  <2>1. ASSUME NEW k \in Conns PROVE DownWords(k, down[k])'
    <3>1. PICK s : s = down[k] /\ DownWords(k, s)
      BY <1>0
    <3>2. DownWords(k, s)'
      BY <3>1, WordsStay
    <3> QED
      BY <1>2, <3>1, <3>2 DEF DownWords
  <2> QED
    BY <1>0, <1>2, <2>1
<1>3. ASSUME NEW j \in Conns, Told(j)
      PROVE  /\ down' = [k \in Conns |-> down'[k]]
             /\ \A k \in Conns : DownWords(k, down[k])'
  <2>1. PICK ws : DownWords(j, ws)' /\ down' = Put(down, j, ws)
    BY <1>3 DEF Told
  <2>2. PICK t : t = down[j] \o ws /\ DownWords(j, t)'
    <3>1. PICK s : s = down[j] /\ DownWords(j, s)
      BY <1>0
    <3>2. DownWords(j, s)'
      BY <3>1, WordsStay
    <3>3. DownWords(j, s \o ws)'
      BY <2>1, <3>2, JoinsThen DEF Joins
    <3> QED
      BY <3>1, <3>3
  <2> QED
    BY <1>1, <2>1, <2>2 DEF Put
<1>4. ASSUME NEW j \in Conns, Read(j)
      PROVE  /\ down' = [k \in Conns |-> down'[k]]
             /\ \A k \in Conns : DownWords(k, down[k])'
  <2>1. PICK n \in Nat : n <= Len(down[j]) /\ down' = [down EXCEPT ![j] = SubSeq(@, n + 1, Len(@))]
    BY <1>4 DEF Read
  <2>2. PICK t : t = SubSeq(down[j], n + 1, Len(down[j])) /\ DownWords(j, t)
    BY <1>0, <2>1, WordsDropped
  <2>3. DownWords(j, t)'
    BY <2>2, WordsStay
  <2> QED
    BY <1>1, <2>1, <2>2, <2>3
<1>5. CASE EventLoop
  <2>1. CASE Accept \/ SetOnline
    BY <1>2, <2>1 DEF Accept, SetOnline
  <2>2. ASSUME NEW d \in Fds, Serve(d) PROVE UNCHANGED down \/ \E j \in Conns : Told(j)
    BY <2>2, ServeTells
  <2> QED
    BY <1>2, <1>3, <1>5, <2>1, <2>2 DEF EventLoop
<1>6. CASE ServerEnds
  BY <1>2, <1>6 DEF ServerEnds
<1>7. ASSUME NEW w \in Workers, Thread(w) PROVE UNCHANGED down \/ \E j \in Conns : Told(j)
  BY <1>7, ThreadTells
<1>8. ASSUME NEW p \in Procs, User(p) \/ Transfer(p) PROVE UNCHANGED down \/ \E j \in Conns : Read(j)
  <2>1. Main(p) \in Conns /\ Xfer(p) \in Conns
    BY DEF Main, Xfer, Conns
  <2> QED
    BY <1>8, <2>1, ClientReads
<1>9. CASE UNCHANGED vars
  BY <1>2, <1>9 DEF vars
<1> QED
  BY <1>2, <1>3, <1>4, <1>5, <1>6, <1>7, <1>8, <1>9 DEF Next

LEMMA WordStep == ASSUME Shapes, [Next]_vars PROVE WordOK'
BY UpStep, DownStep DEF WordOK

-----------------------------------------------------------------------------
(* Sessions *)

\* Where a descriptor is closed, its slot is not online, or it is loose.
LEMMA KnownStep == ASSUME Shapes, Known, [Next]_vars PROVE Known'
<1> USE DEF Shapes
<1>0. /\ slot \in [Fds -> Slots] /\ sock \in [Fds -> Conns \cup {NULL}]
      /\ watched \subseteq {d \in Fds : sock[d] # NULL}
  BY DEF SlotOK, NetOK
<1>1. CASE UNCHANGED <<slot, sock, loose>>
  BY <1>1 DEF Known
<1>2. CASE Accept
  BY <1>0, <1>2 DEF Accept, Known, history
<1>3. CASE SetOnline
  <2>1. sock' = sock
    BY <1>3 DEF SetOnline, netVars
  <2>2. \A e \in Fds : /\ slot'[e].id = slot[e].id
                       /\ slot'[e].online /\ e \notin loose' => slot[e].online /\ e \notin loose
    BY <1>0, <1>3 DEF SetOnline, Slots
  <2> QED
    BY <2>1, <2>2 DEF Known
<1>4. ASSUME NEW d \in Fds, Serve(d) PROVE Known'
  <2>0. d \in watched /\ sock[d] # NULL
    BY <1>0, <1>4, ServeFrame
  <2>1. CASE sock' = sock /\ slot'[d].id = sock[d][1] /\ loose' = loose \ {d}
             /\ \A e \in Fds \ {d} : slot'[e] = slot[e]
    BY <2>0, <2>1 DEF Known
  <2>2. CASE LoginPassword(d)
    <3>1. sock' = sock
      BY <2>2 DEF LoginPassword, netVars
    <3>2. CASE UNCHANGED <<slot, loose>>
      BY <1>1, <3>1, <3>2
    <3>3. CASE /\ slot' = [slot EXCEPT ![d] = Slot(TRUE, sock[d][1], users'[sock[d][1]].pwd, @.status)]
               /\ loose' = loose \ {d}
      BY <1>0, <2>1, <3>1, <3>3 DEF Slot
    <3> QED
      BY <2>2, <3>2, <3>3 DEF LoginPassword
  <2>3. CASE LoginToken(d)
    <3> DEFINE id == up[sock[d]][1].v
    <3>1. id = sock[d][1]
      BY <2>0, <2>3, FirstWord DEF LoginToken, Readable
    <3>2. slot' = [slot EXCEPT ![d] = Slot(TRUE, id, users[id].pwd, @.status)]
          /\ loose' = loose \ {d} /\ sock' = sock
      BY <2>3 DEF LoginToken, netVars
    <3> QED
      BY <1>0, <2>1, <3>1, <3>2 DEF Slot
  <2>4. CASE LoginAnyway(d)
    <3>1. sock' = sock /\ loose' = loose \cup {d} /\ \A e \in Fds \ {d} : slot'[e] = slot[e]
      BY <1>0, <2>4 DEF LoginAnyway, netVars
    <3> QED
      BY <3>1 DEF Known
  <2>5. CASE LoginEof(d)
    <3>1. /\ loose' = loose \cup {d}
          /\ \A e \in Fds \ {d} : slot'[e] = slot[e] /\ sock'[e] = sock[e]
      BY <1>0, <2>5 DEF LoginEof, Closed
    <3> QED
      BY <3>1 DEF Known
  <2>6. CASE CommandEof(d)
    <3>1. /\ loose' = loose /\ slot'[d].online = FALSE
          /\ \A e \in Fds \ {d} : slot'[e] = slot[e] /\ sock'[e] = sock[e]
      BY <1>0, <2>6 DEF CommandEof, Closed, Slots
    <3> QED
      BY <3>1 DEF Known
  <2>7. CASE Cd(d)
    <3>1. loose' = loose /\ sock' = sock
      BY <2>7 DEF Cd, netVars, history
    <3>2. \A e \in Fds : slot'[e].online = slot[e].online /\ slot'[e].id = slot[e].id
      BY <1>0, <2>7 DEF Cd, Slots
    <3> QED
      BY <3>1, <3>2 DEF Known
  <2>8. CASE Push(d)
    <3>1. loose' = loose /\ sock' = sock
      BY <2>8 DEF Push, history
    <3>2. \A e \in Fds : slot'[e].online = slot[e].online /\ slot'[e].id = slot[e].id
      BY <1>0, <2>8 DEF Push, Slots
    <3> QED
      BY <3>1, <3>2 DEF Known
  <2>9. CASE CommandReset(d)
    <3>1. /\ loose' = loose \cup {d} /\ slot' = slot
          /\ \A e \in Fds \ {d} : sock'[e] = sock[e]
      BY <1>0, <2>9 DEF CommandReset, Closed
    <3> QED
      BY <3>1 DEF Known
  <2> QED
    BY <1>1, <1>4, <2>2, <2>3, <2>4, <2>5, <2>6, <2>7, <2>8, <2>9, ServeFrame
<1>5. CASE ServerEnds
  BY <1>1, <1>5 DEF ServerEnds, netVars, history
<1>6. ASSUME NEW w \in Workers, Thread(w) PROVE Known'
  <2> DEFINE d == wk[w].fd
  <2>1. ASSUME UNCHANGED <<sock, loose>>, slot' = [slot EXCEPT ![d].online = FALSE]
               \/ slot' = [slot EXCEPT ![d].status = "RECV_CMD"]
        PROVE  Known'
    <3>1. \A e \in Fds : slot'[e].id = slot[e].id /\ (slot'[e].online => slot[e].online)
      BY <1>0, <2>1 DEF Slots
    <3> QED
      BY <2>1, <3>1 DEF Known
  <2>2. CASE TaskClose(w)
    <3>1. \A e \in Fds \ {d} : sock'[e] = sock[e]
      BY <1>0, <2>2 DEF TaskClose, Closed
    <3>2. slot' = slot /\ loose' = IF slot[d].online THEN loose \cup {d} ELSE loose
      BY <2>2 DEF TaskClose
    <3> QED
      BY <3>1, <3>2 DEF Known
  <2>3. CASE Reads(w)
    <3>1. d \in Fds
      BY <2>3, ReadFrame, HandWords
    <3>2. CASE UNCHANGED <<sock, slot, loose>>
      BY <1>1, <3>2
    <3>3. CASE Closed(d) /\ slot' = [slot EXCEPT ![d].online = FALSE] /\ loose' = loose
      <4>1. /\ slot'[d].online = FALSE
            /\ \A e \in Fds \ {d} : slot'[e] = slot[e] /\ sock'[e] = sock[e]
        BY <1>0, <3>1, <3>3 DEF Closed, Slots
      <4> QED
        BY <3>3, <4>1 DEF Known
    <3>4. CASE Closed(d) /\ slot' = slot /\ loose' = loose \cup {d}
      <4>1. \A e \in Fds \ {d} : sock'[e] = sock[e]
        BY <1>0, <3>4 DEF Closed
      <4> QED
        BY <3>4, <4>1 DEF Known
    <3> QED
      BY <2>3, <3>2, <3>3, <3>4, ReadFrame DEF Take, Lost
  <2>4. CASE TaskOffline(w) \/ TaskStatus(w)
    BY <2>1, <2>4 DEF TaskOffline, TaskStatus, history
  <2>5. CASE UNCHANGED <<slot, sock, loose>>
    BY <1>1, <2>5
  <2> QED
    BY <1>6, <2>2, <2>3, <2>4, <2>5, ThreadFrame
<1>7. ASSUME NEW p \in Procs, User(p) \/ Transfer(p) PROVE UNCHANGED <<slot, sock, loose>>
  BY <1>7, UserFrame, TransferFrame
<1>8. CASE UNCHANGED vars
  BY <1>1, <1>8 DEF vars
<1> QED
  BY <1>1, <1>2, <1>3, <1>4, <1>5, <1>6, <1>7, <1>8 DEF Next, EventLoop

-----------------------------------------------------------------------------
(* Paths *)

\* A path that leads somewhere leads somewhere in the next state; an empty one leads to /.
LEMMA LeadsOn ==
    ASSUME Shapes, PathsLead, [Next]_vars, NEW id, NEW pwd, Len(pwd) \in Nat,
           PwdToId(id, pwd) # -1
    PROVE  PwdToId(id, pwd)' # -1
<1>1. FileOK /\ FileOK' /\ Grown
  BY FileStep DEF Shapes
<1> QED
  BY <1>1, PathStays

LEMMA RootLeads ==
    ASSUME NEW id
    PROVE  PwdToId(id, << >>) # -1
<1>1. Len(<< >>) = 0 /\ 0 \in Nat
  OBVIOUS
<1>2. PICK dir : /\ dir = [i \in 0..Len(<< >>) |-> IF i = 0 THEN 0 ELSE SubDir(id, dir[i - 1], << >>[i])]
                 /\ PwdToId(id, << >>) = dir[Len(<< >>)]
  BY <1>1, PathIs
<1>3. dir[0] = 0
  BY <1>1, <1>2
<1> QED
  BY <1>1, <1>2, <1>3

\* The paths of the next state are ones that led somewhere, or empty.
LEMMA PathsStep == ASSUME Shapes, PathsLead, [Next]_vars PROVE PathsLead'
<1>0. /\ slot \in [Fds -> Slots] /\ users \in [Procs -> Users \cup {NULL}] /\ NULL \notin Users
      /\ \A e \in Fds : Len(slot[e].pwd) \in Nat /\ PwdToId(slot[e].id, slot[e].pwd) # -1
      /\ \A p \in Procs : users[p] # NULL => Len(users[p].pwd) \in Nat /\ PwdToId(p, users[p].pwd) # -1
  <2>1. \A s \in Paths : Len(s) \in Nat
    BY DEF Paths
  <2> QED
    BY <2>1, ValuesAssumption DEF Shapes, SlotOK, UserOK, Slots, Users, PathsLead
<1>1. \A p \in Procs : users'[p] # NULL =>
         \/ users'[p].pwd = << >>
         \/ Len(users'[p].pwd) \in Nat /\ PwdToId(p, users'[p].pwd) # -1
  <2>1. ASSUME NEW d \in Fds, Cd(d)
        PROVE  \A p \in Procs : users'[p] # NULL =>
                  \/ users'[p].pwd = << >>
                  \/ Len(users'[p].pwd) \in Nat /\ PwdToId(p, users'[p].pwd) # -1
    <3>1. CASE UNCHANGED users
      BY <1>0, <3>1
    <3> DEFINE id == slot[d].id
               new == NewPath(d)
    <3>2. CASE id # NULL /\ PwdToId(id, new) # -1 /\ users' = [users EXCEPT ![id].pwd = new]
               /\ slot' = [slot EXCEPT ![d].pwd = new]
      <4>1. Len(new) \in Nat
        <5>1. slot' \in [Fds -> Slots] /\ slot'[d].pwd = new
          BY <1>0, <2>1, <3>2, SlotStep DEF Next, EventLoop, Serve, SlotOK, Slots
        <5> QED
          BY <5>1 DEF Slots, Paths
      <4>2. id \in Procs /\ users[id] \in Users
        BY <1>0, <3>2 DEF Slots, Shapes, UserOK
      <4>3. \A p \in Procs : p # id => users'[p] = users[p]
        BY <1>0, <3>2
      <4>4. users'[id].pwd = new
        BY <1>0, <3>2, <4>2 DEF Users
      <4> HIDE DEF new
      <4> QED
        BY <1>0, <3>2, <4>1, <4>3, <4>4
    <3> QED
      BY <2>1, <3>1, <3>2 DEF Cd
  <2>2. ASSUME NEW d \in Fds, Serve(d), LoginPassword(d)
        PROVE  \A p \in Procs : users'[p] # NULL =>
                  \/ users'[p].pwd = << >>
                  \/ Len(users'[p].pwd) \in Nat /\ PwdToId(p, users'[p].pwd) # -1
    <3>1. CASE UNCHANGED users
      BY <1>0, <3>1
    <3>2. CASE users' = [users EXCEPT ![sock[d][1]] =
                            [pass |-> up[sock[d]][2].v, pwd |-> <<>>]]
      <4>1. \A p \in Procs : users'[p] = users[p] \/ users'[p].pwd = << >>
        BY <1>0, <3>2
      <4> QED
        BY <1>0, <4>1
    <3> QED
      BY <2>2, <3>1, <3>2 DEF LoginPassword
  <2> QED
    BY <1>0, <2>1, <2>2, UsersFrame
<1>2. \A e \in Fds :
         \/ slot'[e].pwd = << >>
         \/ Len(slot'[e].pwd) \in Nat /\ PwdToId(slot'[e].id, slot'[e].pwd) # -1
  <2>1. ASSUME NEW d \in Fds, Serve(d), NEW e \in Fds
        PROVE  \/ slot'[e].pwd = << >>
               \/ Len(slot'[e].pwd) \in Nat /\ PwdToId(slot'[e].id, slot'[e].pwd) # -1
    <3>1. CASE slot'[e].id = slot[e].id /\ slot'[e].pwd = slot[e].pwd
      BY <1>0, <3>1
    <3>2. CASE \E p \in Procs : e = d /\ slot'[d].id = p /\ users'[p] # NULL /\ slot'[d].pwd = users'[p].pwd
      BY <1>1, <3>2
    <3>3. ASSUME NEW p \in Procs, users'[p] # NULL,
                 slot' = [slot EXCEPT ![d] = Slot(TRUE, p, users'[p].pwd, @.status)]
          PROVE  \/ slot'[e].id = slot[e].id /\ slot'[e].pwd = slot[e].pwd
                 \/ e = d /\ slot'[d].id = p /\ users'[p] # NULL /\ slot'[d].pwd = users'[p].pwd
      BY <1>0, <3>3 DEF Slot
    <3>4. CASE LoginPassword(d)
      <4>1. CASE UNCHANGED slot
        BY <3>1, <4>1
      <4>2. CASE ~ UNCHANGED slot
        <5> DEFINE p == sock[d][1]
        <5>1. slot' = [slot EXCEPT ![d] = Slot(TRUE, p, users'[p].pwd, @.status)]
          BY <3>4, <4>2 DEF LoginPassword
        <5>2. p \in Procs
          BY <2>1, <3>4, FirstWord, ServeFrame DEF LoginPassword, Readable
        <5>3. slot'[d].id = p
          BY <1>0, <5>1 DEF Slot
        <5>4. users'[p] # NULL
          <6>1. slot'[d].id # NULL
            BY <5>2, <5>3, ValuesAssumption
          <6> QED
            BY <2>1, <5>3, <6>1, UserStep DEF UserOK
        <5> HIDE DEF p
        <5> QED
          BY <3>1, <3>2, <3>3, <5>1, <5>2, <5>4
      <4> QED
        BY <4>1, <4>2
    <3>5. CASE LoginToken(d)
      <4> DEFINE id == up[sock[d]][1].v
      <4>1. id \in Procs /\ users[id] \in Users
        BY <2>1, <3>5, FirstWord, ServeFrame DEF LoginToken, Readable
      <4>2. slot' = [slot EXCEPT ![d] = Slot(TRUE, id, users[id].pwd, @.status)] /\ users' = users
        BY <3>5 DEF LoginToken, dbVars
      <4> HIDE DEF id
      <4> QED
        BY <1>0, <3>1, <3>2, <3>3, <4>1, <4>2
    <3>6. CASE Cd(d)
      <4> DEFINE id == slot[d].id
                 new == NewPath(d)
      <4>1. CASE UNCHANGED slot
        BY <3>1, <4>1
      <4>2. CASE PwdToId(id, new) # -1 /\ slot' = [slot EXCEPT ![d].pwd = new]
        <5>1. slot' \in [Fds -> Slots]
          BY <2>1, SlotStep DEF SlotOK
        <5>2. CASE e = d
          <6>1. slot'[d].pwd = new /\ slot'[d].id = id
            BY <1>0, <4>2 DEF Slots
          <6>2. Len(slot'[d].pwd) \in Nat
            BY <5>1 DEF Slots, Paths
          <6> QED
            BY <4>2, <5>2, <6>1, <6>2
        <5>3. CASE e # d
          BY <1>0, <3>1, <4>2, <5>3
        <5> QED
          BY <5>2, <5>3
      <4> QED
        BY <3>6, <4>1, <4>2 DEF Cd
    <3>7. CASE LoginAnyway(d) \/ LoginEof(d) \/ CommandEof(d) \/ Push(d)
      <4>1. \/ slot' = [slot EXCEPT ![d].online = TRUE] \/ slot' = [slot EXCEPT ![d].online = FALSE]
            \/ slot' = [slot EXCEPT ![d].status = "RECV_FILE"]
        BY <3>7 DEF LoginAnyway, LoginEof, CommandEof, Push
      <4>2. DOMAIN slot = Fds /\ DOMAIN slot[d] = {"online", "id", "pwd", "status"}
        BY <1>0 DEF Slots
      <4>3. slot'[e].id = slot[e].id /\ slot'[e].pwd = slot[e].pwd
        BY <4>1, <4>2
      <4> QED
        BY <3>1, <4>3
    <3> QED
      BY <2>1, <3>1, <3>4, <3>5, <3>6, <3>7, ServeFrame
  <2> QED
    BY <1>0, <2>1, SlotFrame
<1>3. ASSUME NEW id, NEW pwd, \/ pwd = << >>
                              \/ Len(pwd) \in Nat /\ PwdToId(id, pwd) # -1
      PROVE  PwdToId(id, pwd)' # -1
  <2>1. Len(pwd) \in Nat /\ PwdToId(id, pwd) # -1
    BY <1>3, RootLeads
  <2> QED
    BY <2>1, LeadsOn
<1>4. ASSUME NEW e \in Fds PROVE (PwdToId(slot[e].id, slot[e].pwd) # -1)'
  <2>1. PICK id : id = slot'[e].id
    OBVIOUS
  <2>2. PICK pwd : pwd = slot'[e].pwd
    OBVIOUS
  <2>3. PwdToId(id, pwd)' # -1
    BY <1>2, <1>3, <2>1, <2>2
  <2> QED
    BY <2>1, <2>2, <2>3
<1>5. ASSUME NEW p \in Procs, users'[p] # NULL PROVE (PwdToId(p, users[p].pwd) # -1)'
  <2>1. PICK pwd : pwd = users'[p].pwd
    OBVIOUS
  <2>2. PwdToId(p, pwd)' # -1
    BY <1>1, <1>3, <1>5, <2>1
  <2> QED
    BY <2>1, <2>2
<1> QED
  BY <1>4, <1>5 DEF PathsLead

-----------------------------------------------------------------------------
(* Descriptors handed to the pool *)

\* A step of a worker is its own, and keeps the descriptor from Pop to TaskStatus.
LEMMA WorkerStep ==
    ASSUME Shapes, NEW w \in Workers, Thread(w)
    PROVE  /\ \A v \in Workers \ {w} : wk'[v] = wk[v]
           /\ \/ Pop(w) \/ TaskStatus(w)
              \/ /\ wk'[w].fd = wk[w].fd /\ wk[w].at \notin {"idle", "status"}
                 /\ \/ wk'[w].at \notin {"idle", "status"} /\ ~ TaskClose(w)
                    \/ TaskClose(w) /\ wk'[w].at = "status"
<1> USE DEF Goto, Step
<1>0. DOMAIN wk = Workers /\ DOMAIN wk[w] = {"at", "fd", "type", "md5", "parent", "pos"}
  BY DEF Shapes, PoolOK, TaskOK
<1>1. CASE Pop(w)
  BY <1>0, <1>1 DEF Pop
<1>2. CASE TaskStatus(w)
  BY <1>0, <1>2 DEF TaskStatus
<1>3. ASSUME TaskClose(w) PROVE wk[w].at = "close"
  BY <1>3 DEF TaskClose
<1>4. CASE RecvMd5(w)
  BY <1>0, <1>3, <1>4 DEF RecvMd5
<1>5. CASE Query(w)
  BY <1>0, <1>3, <1>5 DEF Query
<1>6. CASE ResultMd5(w)
  BY <1>0, <1>3, <1>6 DEF ResultMd5
<1>7. CASE Open(w)
  BY <1>0, <1>3, <1>7 DEF Open
<1>8. CASE RecvSize(w)
  BY <1>0, <1>3, <1>8 DEF RecvSize
<1>9. CASE RecvContent(w)
  BY <1>0, <1>3, <1>9 DEF RecvContent
<1>10. CASE InsertRow(w)
  BY <1>0, <1>3, <1>10 DEF InsertRow
<1>11. CASE FindRow(w)
  <2>1. UNCHANGED wk \/ \E m : wk' = [wk EXCEPT ![w] = [wk[w] EXCEPT !.at = "have", !.md5 = m]]
    BY <1>11 DEF FindRow
  <2> QED
    BY <1>0, <1>3, <1>11, <2>1 DEF FindRow
<1>12. CASE RecvHave(w)
  BY <1>0, <1>3, <1>12 DEF RecvHave
<1>13. CASE CheckMd5(w)
  BY <1>0, <1>3, <1>13 DEF CheckMd5
<1>14. CASE SendLength(w)
  BY <1>0, <1>3, <1>14 DEF SendLength
<1>15. CASE SendFile(w)
  BY <1>0, <1>3, <1>15 DEF SendFile
<1>16. CASE TaskOffline(w)
  BY <1>0, <1>3, <1>16 DEF TaskOffline
<1>17. CASE TaskClose(w)
  BY <1>0, <1>3, <1>17 DEF TaskClose
<1> QED
  BY <1>1, <1>2, <1>4, <1>5, <1>6, <1>7, <1>8, <1>9, <1>10, <1>11, <1>12, <1>13, <1>14, <1>15,
     <1>16, <1>17 DEF Thread

\* Contents that are cut off stay so.
LEMMA CutStep == ASSUME Shapes, [Next]_vars PROVE cut \subseteq cut'
<1>1. CASE UNCHANGED cut
  BY <1>1
<1>2. ASSUME NEW d \in Fds, Serve(d) PROVE cut \subseteq cut'
  BY <1>2, ServeFrame DEF LoginEof, CommandEof, CommandReset, Closed
<1>3. ASSUME NEW w \in Workers, Thread(w) PROVE cut \subseteq cut'
  <2>1. CASE Reads(w)
    BY <2>1, ReadFrame DEF Lost, Closed
  <2>2. CASE TaskClose(w)
    BY <2>2 DEF TaskClose, Closed
  <2> QED
    BY <1>1, <1>3, <2>1, <2>2, ThreadFrame
<1>4. ASSUME NEW p \in Procs, User(p) \/ Transfer(p) PROVE UNCHANGED cut
  BY <1>4, UserFrame, TransferFrame
<1>5. CASE Accept \/ SetOnline \/ ServerEnds \/ UNCHANGED vars
  BY <1>5 DEF Accept, SetOnline, ServerEnds, vars, history
<1> QED
  BY <1>1, <1>2, <1>3, <1>4, <1>5 DEF Next, EventLoop

\* A read that finds nothing cuts off a content.
LEMMA LostCuts ==
    ASSUME NEW w \in Workers, Reads(w), cut' = {}
    PROVE  Take(w) \/ UNCHANGED <<sock, watched, slot, up>>
<1>1. ASSUME Lost(w) PROVE FALSE
  <2>1. w \in Using(wk[w].fd)
    BY ReadFrame DEF Using
  <2>2. ASSUME Closed(wk[w].fd) PROVE wk[w].md5 \in cut'
    BY <2>1, <2>2 DEF Closed
  <2>3. wk[w].md5 \in cut'
    BY <1>1, <2>2 DEF Lost
  <2> QED
    BY <2>3
<1> QED
  BY <1>1, ReadFrame

LEMMA KeptStep == ASSUME Shapes, Kept, [Next]_vars PROVE Kept'
<1> SUFFICES ASSUME cut' = {} PROVE Handed'
  BY DEF Kept
<1>0. cut = {} /\ Handed
  BY CutStep DEF Kept
<1>1. /\ sock \in [Fds -> Conns \cup {NULL}] /\ watched \subseteq {d \in Fds : sock[d] # NULL}
  BY DEF Shapes, NetOK
<1>2. ASSUME UNCHANGED <<wk, que>>,
             \A d \in Fds : Held(d) # {} \/ Waits(d) # {} =>
                 (sock'[d] = sock[d] \/ sock'[d] # NULL) /\ (d \in watched' => d \in watched)
      PROVE  Handed'
  BY <1>0, <1>2 DEF Handed, Held, Waits
<1>3. CASE UNCHANGED <<wk, que, sock, watched>>
  BY <1>2, <1>3
<1>4. CASE Accept
  <2>1. PICK d \in Fds : sock[d] = NULL /\ sock' = [sock EXCEPT ![d] = backlog[1]]
                         /\ watched' = watched \cup {d}
    BY <1>4 DEF Accept
  <2>2. Held(d) = {} /\ Waits(d) = {}
    BY <1>0, <2>1 DEF Handed
  <2>3. UNCHANGED <<wk, que>>
    BY <1>4 DEF Accept, poolVars
  <2> QED
    BY <1>1, <1>2, <2>1, <2>2, <2>3
<1>5. ASSUME NEW d \in Fds, Serve(d) PROVE Handed'
  <2>1. d \in watched /\ Held(d) = {} /\ Waits(d) = {}
    BY <1>0, <1>5, ServeFrame DEF Handed
  <2>2. CASE LoginEof(d) \/ CommandEof(d) \/ CommandReset(d)
    <3>1. UNCHANGED <<wk, que>> /\ Closed(d)
      BY <2>2 DEF LoginEof, CommandEof, CommandReset, poolVars
    <3> QED
      BY <1>1, <1>2, <2>1, <3>1 DEF Closed
  <2>3. CASE Push(d)
    <3>1. PICK c \in {"puts", "gets"} : que' = Append(que, [fd |-> d, type |-> c])
      BY <2>3 DEF Push
    <3> DEFINE n == Len(que)
    <3>2. que \in Seq(Tasks) /\ n \in Nat
      BY DEF Shapes, PoolOK
    <3>3. /\ Len(que') = n + 1
          /\ \A i \in 1..(n + 1) : que'[i] = IF i <= n THEN que[i] ELSE [fd |-> d, type |-> c]
      BY <3>1, <3>2
    <3>4. UNCHANGED <<wk, sock>> /\ watched' = watched \ {d}
      BY <2>3 DEF Push
    <3>5. \A e \in Fds : Held(e)' = Held(e)
      BY <3>4 DEF Held
    <3>6. ASSUME NEW e \in Fds PROVE Waits(e)' = IF e = d THEN {n + 1} ELSE Waits(e)
      <4>1. Waits(e)' = {i \in 1..(n + 1) : que'[i].fd = e}
        BY <3>3 DEF Waits
      <4>2. \A i \in 1..(n + 1) : que'[i].fd = IF i <= n THEN que[i].fd ELSE d
        BY <3>3
      <4>3. Waits(e) = {i \in 1..n : que[i].fd = e}
        BY DEF Waits
      <4>4. e = d => \A i \in 1..n : que[i].fd # e
        BY <2>1, <4>3
      <4> HIDE DEF n
      <4> QED
        BY <3>2, <4>1, <4>2, <4>3, <4>4
    <3> HIDE DEF n
    <3> QED
      BY <1>0, <1>1, <2>1, <3>4, <3>5, <3>6 DEF Handed
  <2> QED
    BY <1>3, <1>5, <2>2, <2>3, ServeFrame
<1>6. CASE SetOnline \/ ServerEnds \/ UNCHANGED vars
  BY <1>3, <1>6 DEF SetOnline, ServerEnds, vars, netVars, poolVars
<1>7. ASSUME NEW w \in Workers, Thread(w) PROVE Handed'
  <2>0. PICK d : d = wk[w].fd
    OBVIOUS
  <2>1. CASE Pop(w)
    <3> DEFINE n == Len(que)
    <3>1. que \in Seq(Tasks) /\ que # << >> /\ n \in Nat /\ n >= 1
      BY <2>1 DEF Pop, Shapes, PoolOK
    <3>2. PICK e \in Fds : e = que[1].fd
      <4>1. que[1] \in Tasks
        BY <3>1
      <4> QED
        BY <4>1 DEF Tasks
    <3>3. Len(que') = n - 1 /\ \A i \in 1..(n - 1) : que'[i] = que[i + 1] /\ i + 1 \in 1..n
      BY <2>1, <3>1 DEF Pop
    <3>4. UNCHANGED <<sock, watched>>
      BY <2>1 DEF Pop, netVars
    <3>5. wk[w].at = "idle" /\ wk'[w].fd = e /\ wk'[w].at \in {"md5", "find"}
      BY <2>1, <3>2 DEF Pop, Step, Idle, Shapes, PoolOK
    <3>6. \A v \in Workers \ {w} : wk'[v] = wk[v]
      BY <1>7, WorkerStep
    <3>7. \A f \in Fds : Held(f)' = IF f = e THEN Held(f) \cup {w} ELSE Held(f)
      BY <3>5, <3>6 DEF Held
    <3>8. \A f \in Fds : Waits(f)' = {i \in 1..(n - 1) : que[i + 1].fd = f}
      BY <3>3 DEF Waits
    <3>9. \A f \in Fds : Waits(f) = {i \in 1..n : que[i].fd = f}
      BY DEF Waits
    <3>10. 1 \in Waits(e)
      BY <3>1, <3>2, <3>9
    <3>11. Held(e) = {} /\ \A i \in Waits(e) : i = 1
      BY <1>0, <3>2, <3>10 DEF Handed
    <3>12. Waits(e)' = {}
      <4>1. ASSUME NEW i \in 1..(n - 1), que[i + 1].fd = e PROVE FALSE
        <5>1. i + 1 \in 1..n /\ i + 1 # 1
          BY <3>1, <4>1
        <5>2. i + 1 \in Waits(e)
          BY <3>9, <4>1, <5>1
        <5> QED
          BY <3>11, <5>1, <5>2
      <4> QED
        BY <3>8, <4>1
    <3>13. \A f \in Fds : \A i \in Waits(f)' : i \in Int /\ i + 1 \in Waits(f)
      BY <3>3, <3>8, <3>9
    <3> HIDE DEF n
    <3>14. \A f \in Fds : Held(f)' # {} \/ Waits(f)' # {} => sock[f] # NULL /\ f \notin watched
      BY <1>0, <3>7, <3>10, <3>13 DEF Handed
    <3>15. \A f \in Fds : \A v, x \in Held(f)' : v = x
      BY <1>0, <3>7, <3>11 DEF Handed
    <3>16. \A f \in Fds : \A i, j \in Waits(f)' : i = j
      <4> TAKE f \in Fds
      <4> TAKE i, j \in Waits(f)'
      <4>1. i \in Int /\ j \in Int /\ i + 1 \in Waits(f) /\ j + 1 \in Waits(f)
        BY <3>13
      <4>2. i + 1 = j + 1
        BY <1>0, <4>1 DEF Handed
      <4> QED
        BY <4>1, <4>2
    <3>17. \A f \in Fds : Held(f)' = {} \/ Waits(f)' = {}
      BY <1>0, <3>7, <3>12, <3>13 DEF Handed
    <3> QED
      BY <3>4, <3>14, <3>15, <3>16, <3>17 DEF Handed
  <2>2. CASE TaskStatus(w)
    <3>1. UNCHANGED <<sock, watched, que>> /\ wk[w].at = "status" /\ wk'[w].at = "idle"
      BY <2>2 DEF TaskStatus, Step, Idle, wkFrame, Shapes, PoolOK
    <3>2. \A v \in Workers \ {w} : wk'[v] = wk[v]
      BY <1>7, WorkerStep
    <3>3. \A f \in Fds : Held(f)' = Held(f) /\ Waits(f)' = Waits(f)
      BY <3>1, <3>2 DEF Held, Waits
    <3> QED
      BY <1>0, <3>1, <3>3 DEF Handed
  <2>3. CASE TaskClose(w)
    <3>1. /\ wk'[w].fd = d /\ wk[w].at = "close" /\ wk'[w].at = "status"
          /\ \A v \in Workers \ {w} : wk'[v] = wk[v]
      <4>1. wk[w].at = "close" /\ ~ Pop(w) /\ ~ TaskStatus(w)
        BY <2>3 DEF TaskClose, Pop, TaskStatus
      <4> QED
        BY <1>7, <2>0, <2>3, <4>1, WorkerStep
    <3>2. d \in Fds /\ Closed(d) /\ que' = que
      BY <2>0, <2>3, <3>1, HandWords DEF TaskClose, wkFrame
    <3>3. \A f \in Fds : /\ Waits(f)' = Waits(f)
                         /\ Held(f)' = Held(f) \ {w}
                         /\ w \in Held(f) <=> f = d
      BY <2>0, <3>1, <3>2 DEF Held, Waits
    <3>4. Held(d)' = {} /\ Waits(d)' = {}
      BY <1>0, <3>2, <3>3 DEF Handed
    <3> QED
      BY <1>0, <1>1, <3>2, <3>3, <3>4 DEF Handed, Closed
  <2>4. CASE ~ Pop(w) /\ ~ TaskStatus(w) /\ ~ TaskClose(w)
    <3>1. /\ wk'[w].fd = d /\ wk[w].at \notin {"idle", "status"} /\ wk'[w].at \notin {"idle", "status"}
          /\ \A v \in Workers \ {w} : wk'[v] = wk[v]
      BY <1>7, <2>0, <2>4, WorkerStep
    <3>2. UNCHANGED <<que, sock, watched>>
      BY <1>7, <2>4, ThreadFrame, LostCuts DEF Take
    <3>3. \A f \in Fds : Held(f)' = Held(f) /\ Waits(f)' = Waits(f)
      BY <2>0, <3>1, <3>2 DEF Held, Waits
    <3> QED
      BY <1>0, <3>2, <3>3 DEF Handed
  <2> QED
    BY <2>1, <2>2, <2>3, <2>4
<1>8. ASSUME NEW p \in Procs, User(p) \/ Transfer(p) PROVE UNCHANGED <<wk, que, sock, watched>>
  BY <1>8, UserFrame, TransferFrame
<1> QED
  BY <1>3, <1>4, <1>5, <1>6, <1>7, <1>8 DEF Next, EventLoop

-----------------------------------------------------------------------------
(* Trees *)

\* A row of the next state is one of now, but for tomb, or that of a mkdir or an upload.
OldRow(r) == \E q \in files : /\ q.id = r.id /\ q.parent = r.parent /\ q.type = r.type
                              /\ q.name = r.name /\ q.owner = r.owner /\ q.md5 = r.md5
DirRow(d, r)  == \E n : r = Row(nextid, PwdToId(slot[d].id, slot[d].pwd), n, "d", slot[d].id, NoFile)
FileRow(w, r) == InsertRow(w) /\ r = Row(nextid, wk[w].parent, File, "f", slot[wk[w].fd].id, wk[w].md5)

LEMMA RowsStep ==
    ASSUME Shapes, [Next]_vars
    PROVE  \A r \in files' : OldRow(r) \/ (\E d \in Fds : DirRow(d, r)) \/ \E w \in Workers : FileRow(w, r)
<1>1. ASSUME UNCHANGED files PROVE \A r \in files' : OldRow(r)
  BY <1>1 DEF OldRow
<1>2. ASSUME NEW d \in Fds, Serve(d)
      PROVE  \A r \in files' : OldRow(r) \/ \E e \in Fds : DirRow(e, r)
  <2>1. CASE MakesDir(d)
    BY <2>1 DEF MakesDir, Insert, OldRow, DirRow
  <2>2. CASE Rm(d)
    <3> DEFINE i == PwdToId(slot[d].id, slot[d].pwd)
               New(r) == IF r.parent = i /\ r.name = Arg(d) THEN [r EXCEPT !.tomb = 1] ELSE r
    <3>1. files' = {New(r) : r \in files}
      BY <2>2 DEF Rm
    <3>2. \A r \in files :
             DOMAIN r = {"id", "parent", "name", "type", "owner", "md5", "tomb"}
      BY DEF Shapes, FileOK
    <3>3. \A r \in files :
             /\ New(r).id = r.id /\ New(r).parent = r.parent /\ New(r).type = r.type
             /\ New(r).name = r.name /\ New(r).owner = r.owner /\ New(r).md5 = r.md5
      BY <3>2
    <3> HIDE DEF New
    <3> QED
      BY <3>1, <3>3 DEF OldRow
  <2> QED
    BY <1>1, <1>2, <2>1, <2>2, ServeFrame
<1>3. ASSUME NEW w \in Workers, Thread(w)
      PROVE  \A r \in files' : OldRow(r) \/ FileRow(w, r)
  <2>1. CASE InsertRow(w)
    <3>1. files' = files \cup {Row(nextid, wk[w].parent, File, "f", slot[wk[w].fd].id, wk[w].md5)}
      BY <2>1 DEF InsertRow, Insert
    <3> QED
      BY <2>1, <3>1 DEF OldRow, FileRow
  <2> QED
    BY <1>1, <1>3, <2>1, ThreadFrame
<1>4. ASSUME NEW p \in Procs, User(p) \/ Transfer(p) PROVE UNCHANGED files
  BY <1>4, UserFrame, TransferFrame
<1>5. CASE Accept \/ SetOnline \/ ServerEnds \/ UNCHANGED vars
  BY <1>1, <1>5 DEF Accept, SetOnline, ServerEnds, vars, dbVars
<1> QED
  BY <1>1, <1>2, <1>3, <1>4, <1>5 DEF Next, EventLoop

\* A directory stays its owner's.
LEMMA DirStays ==
    ASSUME Shapes, PathsLead, [Next]_vars, NEW id, NEW i, DirOf(id, i)
    PROVE  DirOf(id, i)'
<1>1. Grown
  BY FileStep
<1> QED
  BY <1>1 DEF DirOf, Grown

\* What the steps that most proofs need only in passing do to their own process or worker.
LEMMA ReceivingSteps ==
    ASSUME Shapes, NEW p \in Procs,
           RecvCheck(p) \/ RecvLength(p) \/ RecvUnmapped(p) \/ RecvBuffer(p)
    PROVE  /\ xf[p].at \in {"check", "length", "unmapped", "receiving"} /\ UNCHANGED up
           /\ xf'[p].at \in {"length", "unmapped", "receiving", "over"} /\ xf'[p].type = xf[p].type
<1>0. DOMAIN xf = Procs /\ DOMAIN xf[p] = {"at", "type", "len", "pos"}
  BY DEF Shapes, ClientOK
<1>1. CASE RecvCheck(p)
  BY <1>0, <1>1 DEF RecvCheck
<1>2. CASE RecvLength(p)
  BY <1>0, <1>2 DEF RecvLength
<1>3. CASE RecvUnmapped(p)
  BY <1>0, <1>3 DEF RecvUnmapped
<1>4. CASE RecvBuffer(p)
  <2>1. /\ xf[p].at = "receiving" /\ UNCHANGED up
        /\ xf' = [xf EXCEPT ![p].pos = xf[p].pos + 1] \/ xf' = [xf EXCEPT ![p].at = "over"]
    BY <1>4 DEF RecvBuffer
  <2> QED
    BY <1>0, <2>1
<1> QED
  BY <1>1, <1>2, <1>3, <1>4

LEMMA FindRowSteps ==
    ASSUME Shapes, NEW w \in Workers, FindRow(w)
    PROVE  wk[w].at = "row" /\ (wk' = wk \/ wk'[w].at = "have")
<1>0. DOMAIN wk = Workers /\ DOMAIN wk[w] = {"at", "fd", "type", "md5", "parent", "pos"}
  BY DEF Shapes, PoolOK, TaskOK
<1>1. wk[w].at = "row"
  BY DEF FindRow
<1>2. wk' = wk \/ \E m : wk' = [wk EXCEPT ![w] = [wk[w] EXCEPT !.at = "have", !.md5 = m]]
  BY DEF FindRow, Step
<1>3. ASSUME NEW m, wk' = [wk EXCEPT ![w] = [wk[w] EXCEPT !.at = "have", !.md5 = m]]
      PROVE  wk'[w].at = "have"
  BY <1>0, <1>3
<1> QED
  BY <1>1, <1>2, <1>3

LEMMA RecvMd5Steps ==
    ASSUME Shapes, NEW w \in Workers, RecvMd5(w)
    PROVE  wk[w].at = "md5" /\ wk'[w].at = "query" /\ wk'[w].pos = wk[w].pos
<1>0. DOMAIN wk = Workers /\ DOMAIN wk[w] = {"at", "fd", "type", "md5", "parent", "pos"}
  BY DEF Shapes, PoolOK, TaskOK
<1>1. wk[w].at = "md5"
  BY DEF RecvMd5
<1>2. \E m : wk' = [wk EXCEPT ![w] = [wk[w] EXCEPT !.at = "query", !.md5 = m]]
  BY DEF RecvMd5, Step
<1>3. ASSUME NEW m, wk' = [wk EXCEPT ![w] = [wk[w] EXCEPT !.at = "query", !.md5 = m]]
      PROVE  wk'[w].at = "query" /\ wk'[w].pos = wk[w].pos
  BY <1>0, <1>3
<1> QED
  BY <1>1, <1>2, <1>3

Filling(w) == wk[w].at \in {"open", "size", "content", "insert"}

\* Where the row of an upload goes is settled with the answer to its MD5.
LEMMA ParentSettled ==
    ASSUME Shapes, NEW w \in Workers, Thread(w), Filling(w)'
    PROVE  \/ ResultMd5(w) /\ wk'[w].fd = wk[w].fd
              /\ wk'[w].parent = PwdToId(slot[wk[w].fd].id, slot[wk[w].fd].pwd)
           \/ Filling(w) /\ wk'[w].fd = wk[w].fd /\ wk'[w].parent = wk[w].parent
<1> USE DEF Goto, Step, Filling
<1>0. DOMAIN wk = Workers /\ DOMAIN wk[w] = {"at", "fd", "type", "md5", "parent", "pos"}
  BY DEF Shapes, PoolOK, TaskOK
<1>1. CASE Pop(w)
  BY <1>0, <1>1 DEF Pop, Idle
<1>2. CASE TaskStatus(w)
  BY <1>0, <1>2 DEF TaskStatus, Idle
<1>3. CASE FindRow(w)
  BY <1>0, <1>3, FindRowSteps
<1>4. CASE RecvMd5(w)
  BY <1>0, <1>4 DEF RecvMd5
<1>5. CASE Query(w)
  BY <1>0, <1>5 DEF Query
<1>6. CASE ResultMd5(w)
  BY <1>0, <1>6 DEF ResultMd5
<1>7. CASE Open(w)
  BY <1>0, <1>7 DEF Open
<1>8. CASE RecvSize(w)
  BY <1>0, <1>8 DEF RecvSize
<1>9. CASE RecvContent(w)
  BY <1>0, <1>9 DEF RecvContent
<1>10. CASE InsertRow(w)
  BY <1>0, <1>10 DEF InsertRow
<1>11. CASE RecvHave(w)
  BY <1>0, <1>11 DEF RecvHave
<1>12. CASE CheckMd5(w)
  <2>1. \E n : wk' = [wk EXCEPT ![w] = [wk[w] EXCEPT !.at = "length", !.pos = n]]
              \/ wk' = [wk EXCEPT ![w] = [wk[w] EXCEPT !.at = "length"]]
    BY <1>12 DEF CheckMd5
  <2> QED
    BY <1>0, <2>1
<1>13. CASE SendLength(w)
  BY <1>0, <1>13 DEF SendLength
<1>14. CASE SendFile(w)
  BY <1>0, <1>14 DEF SendFile
<1>15. CASE TaskOffline(w)
  BY <1>0, <1>15 DEF TaskOffline
<1>16. CASE TaskClose(w)
  BY <1>0, <1>16 DEF TaskClose
<1> QED
  BY <1>1, <1>2, <1>3, <1>4, <1>5, <1>6, <1>7, <1>8, <1>9, <1>10, <1>11, <1>12, <1>13, <1>14,
     <1>15, <1>16 DEF Thread

LEMMA TreesStep == ASSUME Shapes, Sessions, [Next]_vars PROVE Trees'
<1> SUFFICES ASSUME cut' = {}
             PROVE  /\ \A r \in files' : DirOf(r.owner, r.parent)'
                    /\ \A w \in Workers : Filling(w)' => DirOf(slot[wk[w].fd].id, wk[w].parent)'
  BY DEF Trees, Filling
<1> USE DEF Sessions
<1>0. /\ cut = {} /\ Handed
      /\ \A r \in files : DirOf(r.owner, r.parent)
      /\ \A w \in Workers : Filling(w) => DirOf(slot[wk[w].fd].id, wk[w].parent)
  BY CutStep DEF Kept, Trees, Filling
<1>1. ASSUME NEW r \in files' PROVE DirOf(r.owner, r.parent)'
  <2>1. ASSUME NEW id, NEW i, r.owner = id, r.parent = i, DirOf(id, i)
        PROVE  DirOf(r.owner, r.parent)'
    BY <2>1, DirStays
  <2>2. CASE OldRow(r)
    <3>1. PICK q \in files : q.parent = r.parent /\ q.owner = r.owner
      BY <2>2 DEF OldRow
    <3>2. DirOf(r.owner, r.parent)
      BY <1>0, <3>1
    <3> QED
      BY <2>1, <3>2
  <2>3. ASSUME NEW d \in Fds, DirRow(d, r) PROVE DirOf(r.owner, r.parent)'
    <3>1. r.owner = slot[d].id /\ r.parent = PwdToId(slot[d].id, slot[d].pwd)
      BY <2>3 DEF DirRow, Row
    <3>2. DirOf(r.owner, r.parent)
      BY <3>1, SlotLeads
    <3> QED
      BY <2>1, <3>2
  <2>4. ASSUME NEW w \in Workers, FileRow(w, r) PROVE DirOf(r.owner, r.parent)'
    <3>1. r.owner = slot[wk[w].fd].id /\ r.parent = wk[w].parent
      BY <2>4 DEF FileRow, Row
    <3>2. Filling(w)
      BY <2>4 DEF FileRow, InsertRow, Filling
    <3>3. DirOf(r.owner, r.parent)
      BY <1>0, <3>1, <3>2
    <3> QED
      BY <2>1, <3>3
  <2> QED
    BY <2>2, <2>3, <2>4, RowsStep
<1>2. ASSUME NEW w \in Workers, Filling(w)' PROVE DirOf(slot[wk[w].fd].id, wk[w].parent)'
  <2>1. ASSUME NEW id, NEW i, slot'[wk'[w].fd].id = id, wk'[w].parent = i, DirOf(id, i)
        PROVE  DirOf(slot[wk[w].fd].id, wk[w].parent)'
    BY <2>1, DirStays
  <2>2. CASE Filling(w) /\ wk'[w].fd = wk[w].fd /\ wk'[w].parent = wk[w].parent
    <3>1. wk[w].fd \in Fds /\ w \in Held(wk[w].fd)
      BY <2>2, HandWords DEF Filling, Held
    <3>2. wk[w].fd \notin watched
      BY <1>0, <3>1 DEF Handed
    <3>3. slot'[wk[w].fd].id = slot[wk[w].fd].id
      BY <3>1, <3>2, SlotFrame, ServeIds, ServeFrame
    <3> QED
      BY <1>0, <2>1, <2>2, <3>3
  <2>3. CASE ResultMd5(w) /\ wk'[w].fd = wk[w].fd
             /\ wk'[w].parent = PwdToId(slot[wk[w].fd].id, slot[wk[w].fd].pwd)
    <3>1. wk[w].fd \in Fds /\ slot' = slot
      BY <2>3, HandWords DEF ResultMd5
    <3>2. DirOf(slot[wk[w].fd].id, PwdToId(slot[wk[w].fd].id, slot[wk[w].fd].pwd))
      BY <3>1, SlotLeads
    <3> QED
      BY <2>1, <2>3, <3>1, <3>2
  <2>4. CASE wk'[w] = wk[w]
    BY <1>2, <2>2, <2>4 DEF Filling
  <2>5. wk'[w] = wk[w] \/ Thread(w)
    <3>1. CASE UNCHANGED wk
      BY <3>1
    <3>2. ASSUME NEW v \in Workers, Thread(v) PROVE wk'[w] = wk[w] \/ v = w
      BY <3>2, WorkerStep
    <3>3. CASE EventLoop
      BY <3>1, <3>3, ServeFrame DEF EventLoop, Accept, SetOnline, poolVars
    <3>4. ASSUME NEW p \in Procs, User(p) \/ Transfer(p) PROVE UNCHANGED wk
      BY <3>4, UserFrame, TransferFrame
    <3>5. CASE ServerEnds \/ UNCHANGED vars
      BY <3>5 DEF ServerEnds, vars, poolVars
    <3> QED
      BY <3>1, <3>2, <3>3, <3>4, <3>5 DEF Next
  <2> QED
    BY <1>2, <2>2, <2>3, <2>4, <2>5, ParentSettled
<1> QED
  BY <1>1, <1>2

-----------------------------------------------------------------------------
(* The theorem about sessions *)

SessionsIndeed == Shapes /\ Sessions

LEMMA SessionsInit == ASSUME Init PROVE SessionsIndeed
<1> USE DEF Init
<1>0. << >> \in Paths /\ \A S : << >> \in Seq(S)
  BY DEF Paths
<1>1. IsSeq(<< >>) /\ Len(<< >>) = 0
  BY Pair
<1>2. PICK s \in Scenarios :
         /\ cl = [p \in Procs |-> [at |-> IF p \in s.runs THEN "new" ELSE "dead", token |-> NULL,
                                   todo |-> s.todo[p]]]
         /\ users = [p \in Procs |-> IF p \in s.known THEN [pass |-> "right", pwd |-> <<>>] ELSE NULL]
         /\ disk = s.disk
  OBVIOUS
<1>3. LoopOK
  BY DEF LoopOK
<1>4. SlotOK
  BY <1>0 DEF SlotOK, Slots, Slot
<1>5. NetOK
  BY <1>0, <1>1 DEF NetOK
<1>6. PoolOK
  <2>1. TaskOK(Idle) /\ Idle.at = "idle"
    BY DEF TaskOK, Idle, PutsAt, GetsAt
  <2>2. NULL \notin Workers
    BY ValuesAssumption
  <2> QED
    BY <1>0, <2>1, <2>2 DEF PoolOK
<1>7. UserOK
  <2>1. [pass |-> "right", pwd |-> <<>>] \in Users
    BY <1>0 DEF Users
  <2>2. \A d \in Fds : slot[d].id = NULL
    BY DEF Slot
  <2> QED
    BY <1>2, <2>1, <2>2 DEF UserOK
<1>8. FileOK
  BY DEF FileOK
<1>9. ClientOK
  <2>1. DOMAIN s.disk = Procs
    BY <1>2, ScenarioAssumption
  <2> QED
    BY <1>2, <2>1 DEF ClientOK
<1>10. WordOK
  BY <1>1 DEF WordOK, UpWords, DownWords
<1>11. Known
  BY DEF Known, Slot
<1>12. PathsLead
  BY <1>2, RootLeads DEF PathsLead, Slot
<1>13. Kept
  BY <1>1 DEF Kept, Handed, Held, Waits, Idle
<1>14. Trees
  BY DEF Trees, Idle
<1> QED
  BY <1>3, <1>4, <1>5, <1>6, <1>7, <1>8, <1>9, <1>10, <1>11, <1>12, <1>13, <1>14
  DEF SessionsIndeed, Shapes, Sessions

LEMMA SessionsStep == ASSUME SessionsIndeed, [Next]_vars PROVE SessionsIndeed'
<1> USE DEF SessionsIndeed, Sessions
<1>1. Shapes /\ PathsLead
  OBVIOUS
<1>2. LoopOK' /\ SlotOK' /\ NetOK' /\ ClientOK'
  BY <1>1, LoopStep, SlotStep, NetStep, ClientStep DEF Shapes
<1>3. PoolOK' /\ UserOK' /\ FileOK' /\ WordOK'
  BY <1>1, PoolStep, UserStep, FileStep, WordStep
<1>4. Known' /\ PathsLead' /\ Kept' /\ Trees'
  BY <1>1, KnownStep, PathsStep, KeptStep, TreesStep
<1> QED
  BY <1>2, <1>3, <1>4 DEF Shapes

\* What the invariant says of sessions and of trees.
LEMMA SessionsMean == ASSUME SessionsIndeed PROVE SessionInv /\ OwnedTree
<1> USE DEF SessionsIndeed, Sessions, Shapes
<1>1. TypeOK
  BY DEF TypeOK, LoopOK, NetOK, SlotOK, Slots, PoolOK
<1>2. SessionIdentity
  BY DEF SessionIdentity, Known
<1>3. PathLeads
  BY DEF PathLeads, PathsLead
<1>4. DescriptorKept
  <2> SUFFICES ASSUME cut = {}, NEW d \in Fds, NEW w \in Using(d)
               PROVE  sock[d] # NULL /\ d \notin watched /\ Using(d) = {w}
    BY DEF DescriptorKept
  <2>1. Using(d) \subseteq Held(d)
    BY DEF Using, Held
  <2>2. Handed
    BY DEF Kept
  <2> QED
    BY <2>1, <2>2 DEF Handed
<1>5. OwnedTree
  BY DEF OwnedTree, Trees, DirOf
<1> QED
  BY <1>1, <1>2, <1>3, <1>4, <1>5 DEF SessionInv

\* The descriptors of the event loop, of the table of sessions and of the workers agree:
\* a session that is online is its user's and its path one of his, and a worker's
\* descriptor is its own, in every order in which they give up and take over one.
THEOREM SessionsHold == Spec => []SessionInv
<1>1. Init => SessionsIndeed
  BY SessionsInit
<1>2. SessionsIndeed /\ [Next]_vars => SessionsIndeed'
  BY SessionsStep
<1>3. SessionsIndeed => SessionInv
  BY SessionsMean
<1> QED
  BY <1>1, <1>2, <1>3, PTL DEF Spec

\* The rows below a directory of a user are that user's, whoever makes, removes and
\* uploads at the same time.
THEOREM TreesOwned == Spec => []OwnedTree
<1>1. Init => SessionsIndeed
  BY SessionsInit
<1>2. SessionsIndeed /\ [Next]_vars => SessionsIndeed'
  BY SessionsStep
<1>3. SessionsIndeed => OwnedTree
  BY SessionsMean
<1> QED
  BY <1>1, <1>2, <1>3, PTL DEF Spec

-----------------------------------------------------------------------------
(* The inductive invariant: contents *)

\* Words the client p has yet to send on its transfer connection, and has yet to be read.
Size(p) == Len(Body[Md5[p]])
Unsent(p) ==
    CASE xf[p].type = "puts" /\ xf[p].at = "start"   -> Size(p) + 2
      [] xf[p].type = "puts" /\ xf[p].at = "fast"    -> Size(p) + 1
      [] xf[p].type = "puts" /\ xf[p].at = "sending" -> Size(p) - xf[p].pos
      [] xf[p].type = "gets" /\ xf[p].at = "start"   -> IF disk[p] = <<>> THEN 1 ELSE 2
      [] OTHER -> 0
Rest(p) == Len(up[Xfer(p)]) + Unsent(p)

\* A word tells by its kind how many come after it.
Worded(p, x, r) ==
    /\ x.k = "buf" => /\ xf[p].type = "puts" /\ xf[p].at \in {"sending", "over"}
                      /\ r \in 1..Size(p) /\ x.v = Body[Md5[p]][Size(p) - r + 1]
    /\ x.k = "md5" => \/ xf[p].type = "puts" /\ x.v = Md5[p] /\ r <= Size(p) + 2
                      \/ xf[p].type = "gets" /\ r = 1
Sender(p) ==
    LET s == up[Xfer(p)] IN
    /\ \/ xf[p].type = "puts" /\ xf[p].at \in {"start", "fast", "sending", "over"}
       \/ xf[p].type = "gets" /\ xf[p].at \in {"start", "check", "length", "unmapped", "receiving", "over"}
       \/ xf[p].type = "none" /\ xf[p].at = "none" /\ s = <<>>
    /\ xf[p].at = "sending" => xf[p].pos \in 0..Size(p)
    /\ \A i \in 1..Len(s) : Worded(p, s[i], Rest(p) - i + 1)

\* Only a transfer connection carries an MD5.
Spoken(p) == \A i \in 1..Len(up[Main(p)]) : up[Main(p)][i].k # "md5"
Senders   == \A p \in Procs : Sender(p) /\ Spoken(p)

\* What an upload of m has yet to read, if its connection has not been lost.
Uploading(w, m) == wk[w].md5 = m /\ wk[w].at \in {"query", "result", "open", "size", "content"}
Need(w, m) == IF wk[w].at = "content" THEN Len(Body[m]) - wk[w].pos ELSE Len(Body[m]) + 1
Feeds(p, w, m) == /\ sock[wk[w].fd] = Xfer(p) /\ Rest(p) <= Need(w, m)
                  /\ Rest(p) = Need(w, m) => xf[p].type = "puts" /\ Md5[p] = m
Reader(w, m) == Uploading(w, m) => \E p \in Procs : Feeds(p, w, m)
Readers == /\ \A w \in Workers : wk[w].at \in {"md5", "query", "result", "open", "size"} => wk[w].pos = 0
           /\ \A w \in Workers : \A m \in Md5s : Writing(w, m) => wk[w].pos <= Len(Body[m])
           /\ \A m \in Md5s \ cut : \A w \in Workers : Reader(w, m)

\* An upload that somebody has taken a word from does not come to its end.
Short(w, m) == Writing(w, m) /\ \E p \in Procs : sock[wk[w].fd] = Xfer(p) /\ Rest(p) < Need(w, m)

Filed(m) == \/ \E r \in files : r.md5 = m
            \/ \E w \in Workers : wk[w].md5 = m /\ wk[w].at \in {"size", "content", "insert"}
Covers(w, m) == \A i \in 1..wk[w].pos : i <= Len(store[m]) /\ store[m][i] = Body[m][i]
Whole(m) == /\ Len(store[m]) <= Len(Body[m])
            /\ \A i \in 1..Len(store[m]) : store[m][i] \in {Body[m][i], "hole"}
            /\ store[m] = Body[m] \/ \E w \in Workers : Writing(w, m) /\ Covers(w, m)
Stored1(m) == /\ Filed(m) => IsSeq(store[m])
              /\ Filed(m) /\ m \notin cut /\ (~ \E w \in Workers : Short(w, m)) => Whole(m)
Contents == DOMAIN store = Md5s /\ \A m \in Md5s : Stored1(m)

LEMMA SizeIs ==
    ASSUME NEW m \in Md5s
    PROVE  IsSeq(Body[m]) /\ Len(Body[m]) \in Nat
BY ValuesAssumption DEF IsSeq

LEMMA WordsIs ==
    ASSUME Shapes, NEW k \in Conns
    PROVE  IsSeq(up[k]) /\ Len(up[k]) \in Nat
BY DEF Shapes, WordOK, UpWords, IsSeq

LEMMA UnsentIs ==
    ASSUME NEW p \in Procs, Sender(p)
    PROVE  Size(p) \in Nat /\ Unsent(p) \in Nat
<1>1. Size(p) \in Nat
  BY SizeIs DEF Size, Md5s
<1>2. xf[p].at = "sending" => xf[p].pos \in 0..Size(p)
  BY DEF Sender
<1> QED
  BY <1>1, <1>2 DEF Unsent

LEMMA RestIs ==
    ASSUME Shapes, NEW p \in Procs, Sender(p)
    PROVE  Rest(p) \in Nat /\ Unsent(p) \in Nat /\ Len(up[Xfer(p)]) \in Nat
<1>1. Xfer(p) \in Conns
  BY DEF Xfer, Conns
<1> QED
  BY <1>1, UnsentIs, WordsIs DEF Rest

\* What a step may do to the words of a client's transfer: there are not more to come, and
\* of the same kind.
Stream(p) == /\ Sender(p)'
             /\ xf[p].at # "none" => xf'[p].type = xf[p].type /\ Rest(p)' <= Rest(p)

LEMMA StreamKept ==
    ASSUME Shapes, NEW p \in Procs, Sender(p),
           xf'[p] = xf[p], disk'[p] = disk[p], up'[Xfer(p)] = up[Xfer(p)]
    PROVE  Stream(p) /\ Rest(p)' = Rest(p)
<1>1. Unsent(p)' = Unsent(p) /\ Size(p)' = Size(p)
  BY DEF Unsent, Size
<1>2. Rest(p)' = Rest(p)
  BY <1>1 DEF Rest
<1>3. \A x, r : Worded(p, x, r)' <=> Worded(p, x, r)
  BY <1>1 DEF Worded
<1>4. Sender(p)'
  BY <1>1, <1>2, <1>3 DEF Sender
<1> QED
  BY <1>2, <1>4, RestIs DEF Stream

\* The server reads n words.
LEMMA StreamTaken ==
    ASSUME Shapes, NEW p \in Procs, Sender(p), xf'[p] = xf[p], disk'[p] = disk[p],
           NEW n \in Nat, n <= Len(up[Xfer(p)]),
           up'[Xfer(p)] = SubSeq(up[Xfer(p)], n + 1, Len(up[Xfer(p)]))
    PROVE  Stream(p) /\ Rest(p)' = Rest(p) - n
<1> DEFINE s == up[Xfer(p)]
           t == up'[Xfer(p)]
<1>1. Unsent(p)' = Unsent(p) /\ Size(p)' = Size(p)
  BY DEF Unsent, Size
<1>2. IsSeq(s) /\ Len(s) \in Nat /\ Unsent(p) \in Nat /\ Rest(p) = Len(s) + Unsent(p)
  BY RestIs, WordsIs DEF Rest, Xfer, Conns
<1>3. Len(t) = Len(s) - n /\ \A i \in 1..Len(t) : t[i] = s[i + n]
  BY <1>2, Dropped
<1>4. Rest(p)' = Rest(p) - n
  BY <1>1, <1>2, <1>3 DEF Rest
<1>5. \A x, r : Worded(p, x, r)' <=> Worded(p, x, r)
  BY <1>1 DEF Worded
<1>6. ASSUME NEW i \in 1..Len(t), NEW x, x = t[i], NEW r, r = Rest(p)' - i + 1 PROVE Worded(p, x, r)'
  <2>1. i + n \in 1..Len(s) /\ Rest(p)' - i + 1 = Rest(p) - (i + n) + 1
    BY <1>2, <1>3, <1>4
  <2>2. Worded(p, s[i + n], Rest(p) - (i + n) + 1)
    BY <2>1 DEF Sender
  <2> QED
    BY <1>3, <1>5, <1>6, <2>1, <2>2
<1>7. xf[p].type = "none" => Len(s) = 0 /\ s = << >>
  BY <1>2 DEF Sender
<1>8. xf[p].type = "none" => t = << >>
  BY <1>2, <1>7
<1>9. Sender(p)'
  BY <1>1, <1>6, <1>8 DEF Sender, Worded
<1> QED
  BY <1>2, <1>4, <1>9 DEF Stream

\* The words ws are what they should be with n words to come.
Spells(p, ws, n) == \A i \in 1..Len(ws) : \A x, r : x = ws[i] /\ r = n - i + 1 => Worded(p, x, r)'

\* The client sends words it had to send.
LEMMA StreamGrown ==
    ASSUME Shapes, NEW p \in Procs, Sender(p), NEW ws, IsSeq(ws),
           up'[Xfer(p)] = up[Xfer(p)] \o ws,
           Unsent(p)' + Len(ws) = Unsent(p), Unsent(p)' \in Nat,
           xf'[p].type = xf[p].type, xf[p].type # "none",
           \/ xf[p].type = "puts" /\ xf'[p].at \in {"start", "fast", "sending", "over"}
           \/ xf[p].type = "gets" /\ xf'[p].at \in {"start", "check", "length", "receiving", "over"},
           xf[p].at \in {"sending", "over"} => xf'[p].at \in {"sending", "over"},
           xf'[p].at = "sending" => xf'[p].pos \in 0..Size(p),
           Spells(p, ws, Unsent(p))
    PROVE  Stream(p)
<1> DEFINE s == up[Xfer(p)]
           t == up'[Xfer(p)]
<1>1. IsSeq(s) /\ Len(s) \in Nat /\ Unsent(p) \in Nat /\ Rest(p) = Len(s) + Unsent(p)
  BY RestIs, WordsIs DEF Rest, Xfer, Conns
<1>2. /\ Len(t) = Len(s) + Len(ws) /\ Len(ws) \in Nat
      /\ \A i \in 1..(Len(s) + Len(ws)) : t[i] = IF i <= Len(s) THEN s[i] ELSE ws[i - Len(s)]
  <2>1. /\ Len(s \o ws) = Len(s) + Len(ws) /\ Len(ws) \in Nat
        /\ \A i \in 1..(Len(s) + Len(ws)) : (s \o ws)[i] = IF i <= Len(s) THEN s[i] ELSE ws[i - Len(s)]
    BY <1>1, Joined
  <2>2. t = s \o ws
    OBVIOUS
  <2> HIDE DEF s, t
  <2> QED
    BY <2>1, <2>2
<1>3. Rest(p)' = Rest(p)
  BY <1>1, <1>2 DEF Rest
<1>4. Size(p)' = Size(p)
  BY DEF Size
<1>5. \A x, r : Worded(p, x, r) => Worded(p, x, r)'
  BY <1>4 DEF Worded
<1>6. ASSUME NEW i \in 1..Len(t), NEW x, x = t[i], NEW r, r = Rest(p)' - i + 1 PROVE Worded(p, x, r)'
  <2>1. CASE i <= Len(s)
    <3>1. i \in 1..Len(s) /\ t[i] = s[i]
      BY <1>1, <1>2, <2>1
    <3>2. Worded(p, s[i], Rest(p) - i + 1)
      BY <3>1 DEF Sender
    <3> QED
      BY <1>3, <1>5, <1>6, <3>1, <3>2
  <2>2. CASE ~ (i <= Len(s))
    <3>1. i - Len(s) \in 1..Len(ws) /\ t[i] = ws[i - Len(s)]
      <4>1. PICK n, m : n = Len(s) /\ m = Len(ws) /\ n \in Nat /\ m \in Nat /\ Len(t) = n + m
        BY <1>1, <1>2
      <4>2. i \in 1..(n + m) /\ ~ (i <= n)
        BY <2>2, <4>1
      <4>3. i - n \in 1..m
        BY <4>1, <4>2
      <4> QED
        BY <1>2, <4>1, <4>2, <4>3
    <3>2. Rest(p)' - i + 1 = Unsent(p) - (i - Len(s)) + 1
      BY <1>1, <1>2, <1>3
    <3> QED
      BY <1>6, <3>1, <3>2 DEF Spells
  <2> QED
    BY <2>1, <2>2
<1>7. Sender(p)'
  BY <1>4, <1>6 DEF Sender, Worded
<1> QED
  BY <1>1, <1>3, <1>7 DEF Stream

LEMMA TransferStreams ==
    ASSUME Shapes, NEW p \in Procs, Sender(p), Transfer(p)
    PROVE  Stream(p)
<1> DEFINE s == up[Xfer(p)]
<1>0. /\ DOMAIN xf = Procs /\ DOMAIN xf[p] = {"at", "type", "len", "pos"} /\ DOMAIN disk = Procs
      /\ Xfer(p) \in Conns /\ DOMAIN up = Conns /\ Size(p) \in Nat
      /\ Len(Body[Md5[p]]) = Size(p)
  BY UnsentIs DEF Shapes, ClientOK, WordOK, Xfer, Conns, Size
<1>1. CASE SendMd5(p)
  <2> DEFINE x == W("md5", Md5[p])
  <2>1. /\ xf[p].type = "puts" /\ xf[p].at = "start" /\ xf' = [xf EXCEPT ![p].at = "fast"]
        /\ up' = Put(up, Xfer(p), <<x>>)
    BY <1>1 DEF SendMd5
  <2>2. xf'[p].type = "puts" /\ xf'[p].at = "fast" /\ up'[Xfer(p)] = s \o <<x>>
    BY <1>0, <2>1 DEF Put
  <2>3. Unsent(p) = Size(p) + 2 /\ Unsent(p)' = Size(p) + 1
    BY <2>1, <2>2 DEF Unsent, Size
  <2>4. IsSeq(<<x>>) /\ Len(<<x>>) = 1 /\ <<x>>[1] = x /\ x.k = "md5" /\ x.v = Md5[p]
    BY Pair DEF W
  <2>5. \A y, r : y = x /\ r = Size(p) + 2 => Worded(p, y, r)'
    BY <1>0, <2>2, <2>4 DEF Worded, Size
  <2> HIDE DEF x, s
  <2>6. Spells(p, <<x>>, Unsent(p))
    BY <1>0, <2>3, <2>4, <2>5 DEF Spells
  <2>7. Unsent(p)' + Len(<<x>>) = Unsent(p) /\ Unsent(p)' \in Nat
    BY <1>0, <2>3, <2>4
  <2> QED
    BY <1>0, <2>1, <2>2, <2>4, <2>6, <2>7, StreamGrown DEF s
<1>2. CASE SendContent(p)
  <2>1. /\ xf[p].at = "fast" /\ UNCHANGED disk
        /\ \/ xf' = [xf EXCEPT ![p].at = "over"] /\ UNCHANGED up
           \/ /\ xf' = [xf EXCEPT ![p].at = "sending", ![p].pos = 0]
              /\ up' = Put(up, Xfer(p), <<W("size", Len(Body[Md5[p]]))>>)
    BY <1>2 DEF SendContent
  <2>2. xf[p].type = "puts"
    BY <2>1 DEF Sender
  <2>3. CASE xf' = [xf EXCEPT ![p].at = "over"] /\ UNCHANGED up
    <3>1. xf'[p].type = "puts" /\ xf'[p].at = "over" /\ up'[Xfer(p)] = s
      BY <1>0, <2>2, <2>3
    <3>2. Unsent(p) = Size(p) + 1 /\ Unsent(p)' = 0 /\ Size(p)' = Size(p)
      BY <2>1, <2>2, <3>1 DEF Unsent, Size
    <3>3. Rest(p) = Len(s) + Size(p) + 1 /\ Rest(p)' = Len(s) /\ Len(s) \in Nat
      BY <1>0, <3>1, <3>2, RestIs DEF Rest
    <3>4. ASSUME NEW i \in 1..Len(s), NEW x, x = s[i], NEW r, r = Len(s) - i + 1 PROVE Worded(p, x, r)'
      <4>1. Worded(p, s[i], Rest(p) - i + 1)
        BY DEF Sender
      <4>2. x.k # "buf"
        BY <2>1, <3>4, <4>1 DEF Worded
      <4>3. x.k = "md5" => x.v = Md5[p] /\ r <= Size(p) + 2
        BY <1>0, <2>2, <3>3, <3>4, <4>1 DEF Worded
      <4> QED
        BY <3>1, <3>2, <4>2, <4>3 DEF Worded
    <3>5. Sender(p)'
      BY <3>1, <3>2, <3>3, <3>4 DEF Sender, Worded
    <3> QED
      BY <1>0, <2>2, <3>1, <3>3, <3>5 DEF Stream
  <2>4. CASE /\ xf' = [xf EXCEPT ![p].at = "sending", ![p].pos = 0]
             /\ up' = Put(up, Xfer(p), <<W("size", Len(Body[Md5[p]]))>>)
    <3> DEFINE x == W("size", Len(Body[Md5[p]]))
    <3>1. xf'[p].type = "puts" /\ xf'[p].at = "sending" /\ xf'[p].pos = 0 /\ up'[Xfer(p)] = s \o <<x>>
      BY <1>0, <2>2, <2>4 DEF Put
    <3>2. Unsent(p) = Size(p) + 1 /\ Unsent(p)' = Size(p)
      BY <1>0, <2>1, <2>2, <3>1 DEF Unsent, Size
    <3>3. IsSeq(<<x>>) /\ Len(<<x>>) = 1 /\ <<x>>[1] = x /\ x.k = "size"
      BY Pair DEF W
    <3>4. \A y, r : y = x => Worded(p, y, r)'
      BY <3>3 DEF Worded
    <3> HIDE DEF x, s
    <3>5. Spells(p, <<x>>, Unsent(p))
      BY <3>3, <3>4 DEF Spells
    <3>6. Unsent(p)' + Len(<<x>>) = Unsent(p) /\ Unsent(p)' \in Nat /\ xf'[p].pos \in 0..Size(p)
      BY <1>0, <3>1, <3>2, <3>3
    <3> QED
      BY <1>0, <2>1, <2>2, <3>1, <3>3, <3>5, <3>6, StreamGrown DEF s
  <2> QED
    BY <2>1, <2>3, <2>4
<1>3. CASE SendBuffer(p)
  <2> DEFINE b == Body[Md5[p]]
             i == xf[p].pos
             x == W("buf", b[i + 1])
  <2>1. xf[p].at = "sending" /\ xf[p].type = "puts" /\ i \in 0..Size(p) /\ UNCHANGED disk
    BY <1>3 DEF SendBuffer, Sender
  <2>2. \/ /\ i < Size(p)
           /\ up' = Put(up, Xfer(p), <<x>>)
           /\ xf' = [xf EXCEPT ![p].pos = i + 1]
        \/ i = Size(p) /\ xf' = [xf EXCEPT ![p].at = "over"] /\ UNCHANGED up
    BY <1>0, <1>3 DEF SendBuffer
  <2>3. CASE /\ i < Size(p)
             /\ up' = Put(up, Xfer(p), <<x>>)
             /\ xf' = [xf EXCEPT ![p].pos = i + 1]
    <3>1. xf'[p].type = "puts" /\ xf'[p].at = "sending" /\ xf'[p].pos = i + 1 /\ up'[Xfer(p)] = s \o <<x>>
      BY <1>0, <2>1, <2>3 DEF Put
    <3>2. Unsent(p) = Size(p) - i /\ Unsent(p)' = Size(p) - (i + 1)
      BY <1>0, <2>1, <3>1 DEF Unsent, Size
    <3>3. IsSeq(<<x>>) /\ Len(<<x>>) = 1 /\ <<x>>[1] = x /\ x.k = "buf" /\ x.v = b[i + 1]
      BY Pair DEF W
    <3>4. Size(p) - (Size(p) - i) + 1 = i + 1 /\ Size(p) - i \in 1..Size(p) /\ Size(p)' = Size(p)
      BY <1>0, <2>1, <2>3 DEF Size
    <3>5. \A y, r : y = x /\ r = Size(p) - i => Worded(p, y, r)'
      BY <3>1, <3>3, <3>4 DEF Worded
    <3> HIDE DEF x, s
    <3>6. Spells(p, <<x>>, Unsent(p))
      BY <1>0, <2>1, <3>2, <3>3, <3>5 DEF Spells
    <3>7. Unsent(p)' + 1 = Unsent(p) /\ Unsent(p)' \in Nat /\ i + 1 \in 0..Size(p)
      BY <1>0, <2>1, <2>3, <3>2
    <3> HIDE DEF i
    <3> QED
      BY <1>0, <2>1, <3>1, <3>3, <3>6, <3>7, StreamGrown DEF s
  <2>4. CASE i = Size(p) /\ xf' = [xf EXCEPT ![p].at = "over"] /\ UNCHANGED up
    <3>1. xf'[p].type = "puts" /\ xf'[p].at = "over" /\ up'[Xfer(p)] = s \o << >>
      <4>1. s = s \o << >>
        <5>1. IsSeq(s)
          BY <1>0, WordsIs
        <5>2. s \in Seq({s[j] : j \in 1..Len(s)})
          BY <5>1, IsSeqIn
        <5> HIDE DEF s
        <5> QED
          BY <5>2
      <4> QED
        BY <1>0, <2>1, <2>4, <4>1
    <3>2. Unsent(p) = 0 /\ Unsent(p)' = 0
      BY <1>0, <2>1, <2>4, <3>1 DEF Unsent
    <3>3. IsSeq(<< >>) /\ Len(<< >>) = 0
      BY Pair
    <3>4. Spells(p, << >>, Unsent(p)) /\ Unsent(p)' + Len(<< >>) = Unsent(p) /\ Unsent(p)' \in Nat
      BY <3>2, <3>3 DEF Spells
    <3> HIDE DEF s, i
    <3> QED
      BY <1>0, <2>1, <3>1, <3>3, <3>4, StreamGrown DEF s
  <2> QED
    BY <2>2, <2>3, <2>4
<1>4. CASE SendLocal(p)
  <2> DEFINE x == W("have", Len(disk[p]))
             y == W("md5", disk[p])
             z == W("have", 0)
  <2>1. /\ xf[p].type = "gets" /\ xf[p].at = "start" /\ UNCHANGED disk
        /\ up' = Put(up, Xfer(p), IF disk[p] = << >> THEN <<z>> ELSE <<x, y>>)
        /\ xf' = [xf EXCEPT ![p].at = IF disk[p] = << >> THEN "length" ELSE "check"]
    BY <1>4 DEF SendLocal
  <2>2. CASE disk[p] = << >>
    <3>1. xf'[p].type = "gets" /\ xf'[p].at = "length" /\ up'[Xfer(p)] = s \o <<z>>
      BY <1>0, <2>1, <2>2 DEF Put
    <3>2. Unsent(p) = 1 /\ Unsent(p)' = 0
      BY <2>1, <2>2, <3>1 DEF Unsent
    <3>3. IsSeq(<<z>>) /\ Len(<<z>>) = 1 /\ <<z>>[1] = z /\ z.k = "have"
      BY Pair DEF W
    <3>4. \A v, r : v = z => Worded(p, v, r)'
      BY <3>3 DEF Worded
    <3> HIDE DEF z, s
    <3>5. Spells(p, <<z>>, Unsent(p))
      BY <3>3, <3>4 DEF Spells
    <3>6. Unsent(p)' + Len(<<z>>) = Unsent(p) /\ Unsent(p)' \in Nat
      BY <1>0, <3>2, <3>3
    <3> QED
      BY <1>0, <2>1, <3>1, <3>3, <3>5, <3>6, StreamGrown DEF s
  <2>3. CASE disk[p] # << >>
    <3>1. xf'[p].type = "gets" /\ xf'[p].at = "check" /\ up'[Xfer(p)] = s \o <<x, y>>
      BY <1>0, <2>1, <2>3 DEF Put
    <3>2. Unsent(p) = 2 /\ Unsent(p)' = 0
      BY <2>1, <2>3, <3>1 DEF Unsent
    <3>3. IsSeq(<<x, y>>) /\ Len(<<x, y>>) = 2 /\ <<x, y>>[1] = x /\ <<x, y>>[2] = y /\ x.k = "have" /\ y.k = "md5"
      BY Pair DEF W
    <3>4. (\A v, r : v = x => Worded(p, v, r)') /\ \A v, r : v = y /\ r = 1 => Worded(p, v, r)'
      BY <3>1, <3>3 DEF Worded
    <3> HIDE DEF x, y, s
    <3>5. Spells(p, <<x, y>>, Unsent(p))
      <4> SUFFICES ASSUME NEW j \in 1..2, NEW v, v = <<x, y>>[j], NEW r, r = 2 - j + 1
                   PROVE  Worded(p, v, r)'
        BY <3>2, <3>3 DEF Spells
      <4>1. CASE j = 1
        BY <3>3, <3>4, <4>1
      <4>2. CASE j = 2
        <5>1. r = 1 /\ v = y
          BY <3>3, <4>2
        <5> QED
          BY <3>4, <5>1
      <4> QED
        BY <4>1, <4>2
    <3>6. Unsent(p)' + Len(<<x, y>>) = Unsent(p) /\ Unsent(p)' \in Nat
      BY <1>0, <3>2, <3>3
    <3> QED
      BY <1>0, <2>1, <3>1, <3>3, <3>5, <3>6, StreamGrown DEF s
  <2> QED
    BY <2>2, <2>3
<1>5. CASE RecvCheck(p) \/ RecvLength(p) \/ RecvUnmapped(p) \/ RecvBuffer(p)
  <2>1. /\ xf[p].at \in {"check", "length", "unmapped", "receiving"} /\ UNCHANGED up
        /\ xf'[p].at \in {"length", "unmapped", "receiving", "over"} /\ xf'[p].type = xf[p].type
    BY <1>5, ReceivingSteps
  <2>2. xf[p].type = "gets"
    BY <2>1 DEF Sender
  <2>3. Unsent(p) = 0 /\ Unsent(p)' = 0 /\ Rest(p)' = Rest(p)
    BY <2>1, <2>2 DEF Unsent, Rest
  <2>4. \A x, r : Worded(p, x, r) => Worded(p, x, r)'
    BY <2>1, <2>2 DEF Worded
  <2>5. Sender(p)'
    BY <2>1, <2>2, <2>3, <2>4 DEF Sender
  <2> QED
    BY <2>1, <2>3, <2>5, RestIs DEF Stream
<1> QED
  BY <1>1, <1>2, <1>3, <1>4, <1>5 DEF Transfer

LEMMA TakenStreams ==
    ASSUME Shapes, NEW p \in Procs, Sender(p), Spoken(p), xf'[p] = xf[p], disk'[p] = disk[p],
           UNCHANGED up \/ \E k \in Conns : Taken(k)
    PROVE  Stream(p) /\ Spoken(p)'
<1>0. Xfer(p) \in Conns /\ Main(p) \in Conns /\ Xfer(p) # Main(p) /\ DOMAIN up = Conns
  BY DEF Xfer, Main, Conns, Shapes, WordOK
<1>1. CASE UNCHANGED up
  BY <1>1, StreamKept DEF Spoken
<1>2. ASSUME NEW k \in Conns, Taken(k) PROVE Stream(p) /\ Spoken(p)'
  <2>1. PICK n \in Nat : n <= Len(up[k]) /\ up' = [up EXCEPT ![k] = SubSeq(@, n + 1, Len(@))]
    BY <1>2 DEF Taken
  <2> DEFINE t == SubSeq(up[k], n + 1, Len(up[k]))
  <2>2. up'[k] = t /\ \A j \in Conns \ {k} : up'[j] = up[j]
    BY <1>0, <2>1
  <2>3. Len(up[k]) \in Nat /\ Len(t) = Len(up[k]) - n /\ \A i \in 1..Len(t) : t[i] = up[k][i + n]
    BY <2>1, WordsIs, Dropped
  <2>4. Stream(p)
    <3>1. CASE k = Xfer(p)
      BY <2>1, <2>2, <3>1, StreamTaken
    <3>2. CASE k # Xfer(p)
      BY <1>0, <2>2, <3>2, StreamKept
    <3> QED
      BY <3>1, <3>2
  <2>5. Spoken(p)'
    <3>1. CASE k = Main(p)
      <4>1. \A i \in 1..Len(t) : i + n \in 1..Len(up[k])
        BY <2>1, <2>3
      <4> HIDE DEF t
      <4> QED
        BY <2>2, <2>3, <3>1, <4>1 DEF Spoken
    <3>2. CASE k # Main(p)
      BY <1>0, <2>2, <3>2 DEF Spoken
    <3> QED
      BY <3>1, <3>2
  <2> QED
    BY <2>4, <2>5
<1> QED
  BY <1>1, <1>2

\* What the user types.
LEMMA UserStreams ==
    ASSUME Shapes, NEW p \in Procs, Sender(p), Spoken(p), NEW q \in Procs, User(q)
    PROVE  Stream(p) /\ Spoken(p)'
<1>0. /\ Xfer(p) \in Conns /\ Main(p) \in Conns /\ DOMAIN up = Conns /\ DOMAIN xf = Procs
      /\ Xfer(p) # Main(q) /\ (p # q => Xfer(p) # Xfer(q)) /\ Main(p) # Xfer(q)
      /\ UNCHANGED disk
  BY UserFrame DEF Xfer, Main, Conns, Shapes, WordOK, ClientOK
<1>1. ASSUME NEW k \in Conns, NEW ws, IsSeq(ws), up' = Put(up, k, ws), k # Main(p) \/ \A i \in 1..Len(ws) : ws[i].k # "md5"
      PROVE  Spoken(p)'
  <2>1. CASE k = Main(p)
    <3>1. up'[k] = up[k] \o ws
      BY <1>0, <1>1 DEF Put
    <3>2. /\ Len(up[k]) \in Nat /\ Len(ws) \in Nat /\ Len(up'[k]) = Len(up[k]) + Len(ws)
          /\ \A i \in 1..(Len(up[k]) + Len(ws)) : up'[k][i] = IF i <= Len(up[k]) THEN up[k][i] ELSE ws[i - Len(up[k])]
      <4>1. IsSeq(up[k])
        BY WordsIs
      <4>2. /\ Len(up[k]) \in Nat /\ Len(ws) \in Nat /\ Len(up[k] \o ws) = Len(up[k]) + Len(ws)
            /\ \A i \in 1..(Len(up[k]) + Len(ws)) : (up[k] \o ws)[i] = IF i <= Len(up[k]) THEN up[k][i] ELSE ws[i - Len(up[k])]
        BY <1>1, <4>1, Joined
      <4> QED
        BY <3>1, <4>2
    <3>3. ASSUME NEW i \in 1..Len(up'[k]) PROVE up'[k][i].k # "md5"
      <4>1. CASE i <= Len(up[k])
        BY <2>1, <3>2, <4>1 DEF Spoken
      <4>2. CASE ~ (i <= Len(up[k]))
        <5>1. i - Len(up[k]) \in 1..Len(ws)
          BY <3>2, <4>2
        <5> QED
          BY <1>1, <2>1, <3>2, <4>2, <5>1
      <4> QED
        BY <4>1, <4>2
    <3> QED
      BY <2>1, <3>3 DEF Spoken
  <2>2. CASE k # Main(p)
    BY <1>0, <1>1, <2>2 DEF Put, Spoken
  <2> QED
    BY <2>1, <2>2
<1>2. CASE TypeLogin(q)
  <2>1. PICK v \in {"right", "wrong"} : up' = Put(up, Main(q), <<W("zero", 0), W("cred", v)>>) /\ UNCHANGED xf
    BY <1>2 DEF TypeLogin
  <2> DEFINE ws == <<W("zero", 0), W("cred", v)>>
  <2>2. IsSeq(ws) /\ Len(ws) = 2 /\ ws[1] = W("zero", 0) /\ ws[2] = W("cred", v)
    BY Pair
  <2>3. up' = Put(up, Main(q), ws)
    BY <2>1
  <2> HIDE DEF ws
  <2>4. \A i \in 1..Len(ws) : ws[i].k # "md5"
    <3>1. \A i \in 1..2 : i = 1 \/ i = 2
      OBVIOUS
    <3> QED
      BY <2>2, <3>1 DEF W
  <2>5. Main(q) \in Conns /\ up'[Xfer(p)] = up[Xfer(p)]
    BY <1>0, <2>3 DEF Put, Main, Conns
  <2> QED
    BY <1>0, <1>1, <2>1, <2>2, <2>3, <2>4, <2>5, StreamKept
<1>3. ASSUME NEW c \in {"cd", "ls", "mkdir", "rm"}, NEW m \in Names, TypeCommand(q, c, m)
      PROVE  Stream(p) /\ Spoken(p)'
  <2> DEFINE x == Cmd(c, m)
  <2>1. up' = Put(up, Main(q), <<x>>) /\ UNCHANGED xf
    BY <1>3 DEF TypeCommand
  <2>2. IsSeq(<<x>>) /\ Len(<<x>>) = 1 /\ <<x>>[1] = x /\ x.k = "cmd"
    BY Pair DEF Cmd
  <2> HIDE DEF x
  <2>3. \A i \in 1..Len(<<x>>) : <<x>>[i].k # "md5"
    BY <2>2
  <2>5. Main(q) \in Conns /\ up'[Xfer(p)] = up[Xfer(p)]
    BY <1>0, <2>1 DEF Put, Main, Conns
  <2> QED
    BY <1>0, <1>1, <2>1, <2>2, <2>3, <2>5, StreamKept
<1>4. ASSUME NEW c \in {"puts", "gets"}, SendToken(q, c) PROVE Stream(p) /\ Spoken(p)'
  <2> DEFINE ws == <<W("token", cl[q].token), Cmd(c, File)>>
  <2>1. /\ up' = Put(up, Xfer(q), ws) /\ xf[q].at = "none"
        /\ xf' = [xf EXCEPT ![q] = [at |-> "start", type |-> c, len |-> 0, pos |-> 0]]
    BY <1>4 DEF SendToken
  <2>2. IsSeq(ws) /\ Len(ws) = 2 /\ ws[1] = W("token", cl[q].token) /\ ws[2] = Cmd(c, File)
    BY Pair
  <2> HIDE DEF ws
  <2>3. Spoken(p)'
    BY <1>0, <1>1, <2>1, <2>2 DEF Xfer, Conns
  <2>4. CASE p # q
    <3>1. up'[Xfer(p)] = up[Xfer(p)] /\ xf'[p] = xf[p]
      BY <1>0, <2>1, <2>4 DEF Put
    <3> QED
      BY <1>0, <2>3, <3>1, StreamKept
  <2>5. CASE p = q
    <3>1. up[Xfer(p)] = << >> /\ xf[p].at = "none"
      BY <2>1, <2>5 DEF Sender
    <3>2. ws \in Seq({ws[i] : i \in 1..Len(ws)})
      BY <2>2, IsSeqIn
    <3>3. << >> \o ws = ws
      BY <3>2
    <3>4. up'[Xfer(p)] = ws
      BY <1>0, <2>1, <2>5, <3>1, <3>3 DEF Put
    <3>5. xf'[p].at = "start" /\ xf'[p].type = c
      BY <1>0, <2>1, <2>5
    <3>6. ASSUME NEW i \in 1..Len(ws), NEW x, x = ws[i] PROVE \A r : Worded(p, x, r)'
      <4>1. i = 1 \/ i = 2
        BY <2>2
      <4> QED
        BY <2>2, <3>6, <4>1 DEF Worded, W, Cmd
    <3>7. Sender(p)'
      BY <2>2, <3>4, <3>5, <3>6 DEF Sender, Worded
    <3> QED
      BY <2>3, <3>1, <3>7 DEF Stream
  <2> QED
    BY <2>4, <2>5
<1>5. ASSUME UNCHANGED <<up, xf>> PROVE Stream(p) /\ Spoken(p)'
  BY <1>0, <1>5, StreamKept DEF Spoken
<1> QED
  BY <1>2, <1>3, <1>4, <1>5, UserFrame

LEMMA SendersStep ==
    ASSUME Shapes, Senders, [Next]_vars
    PROVE  \A p \in Procs : Stream(p) /\ Spoken(p)'
<1> SUFFICES ASSUME NEW p \in Procs PROVE Stream(p) /\ Spoken(p)'
  OBVIOUS
<1>0. Sender(p) /\ Spoken(p)
  BY DEF Senders
<1>1. ASSUME NEW q \in Procs, User(q) PROVE Stream(p) /\ Spoken(p)'
  BY <1>0, <1>1, UserStreams
<1>2. ASSUME NEW q \in Procs, Transfer(q) PROVE Stream(p) /\ Spoken(p)'
  <2>1. UNCHANGED up \/ \E ws : up' = Put(up, Xfer(q), ws)
    BY <1>2, TransferSends DEF Sent
  <2>2. /\ Xfer(p) \in Conns /\ Main(p) \in Conns /\ DOMAIN up = Conns /\ DOMAIN xf = Procs /\ DOMAIN disk = Procs
        /\ (p # q => Xfer(p) # Xfer(q)) /\ Main(p) # Xfer(q)
    BY DEF Xfer, Main, Conns, Shapes, WordOK, ClientOK
  <2>3. up'[Main(p)] = up[Main(p)] /\ (p # q => up'[Xfer(p)] = up[Xfer(p)])
    BY <2>1, <2>2 DEF Put
  <2>4. Spoken(p)'
    BY <1>0, <2>3 DEF Spoken
  <2>5. CASE p # q
    <3> USE <2>2, <2>5 DEF xfFrame
    <3>1. CASE SendMd5(q)
      BY <1>0, <2>3, <2>4, <3>1, StreamKept DEF SendMd5
    <3>2. CASE SendContent(q)
      BY <1>0, <2>3, <2>4, <3>2, StreamKept DEF SendContent
    <3>3. CASE SendBuffer(q)
      BY <1>0, <2>3, <2>4, <3>3, StreamKept DEF SendBuffer
    <3>4. CASE SendLocal(q)
      BY <1>0, <2>3, <2>4, <3>4, StreamKept DEF SendLocal
    <3>5. CASE RecvCheck(q) \/ RecvLength(q)
      BY <1>0, <2>3, <2>4, <3>5, StreamKept DEF RecvCheck, RecvLength
    <3>6. CASE RecvUnmapped(q) \/ RecvBuffer(q)
      BY <1>0, <2>3, <2>4, <3>6, StreamKept DEF RecvUnmapped, RecvBuffer
    <3> QED
      BY <1>2, <3>1, <3>2, <3>3, <3>4, <3>5, <3>6 DEF Transfer
  <2>6. CASE p = q
    BY <1>0, <1>2, <2>4, <2>6, TransferStreams
  <2> QED
    BY <2>5, <2>6
<1>3. ASSUME NEW d \in Fds, Serve(d) PROVE Stream(p) /\ Spoken(p)'
  <2>1. sock[d] \in Conns
    BY <1>3, ServeFrame DEF Shapes, NetOK
  <2> QED
    BY <1>0, <1>3, <2>1, ServeTakes, ServeFrame, TakenStreams
<1>4. ASSUME NEW w \in Workers, Thread(w) PROVE Stream(p) /\ Spoken(p)'
  BY <1>0, <1>4, ThreadTakes, ThreadFrame, TakenStreams
<1>5. CASE Accept \/ SetOnline \/ ServerEnds \/ UNCHANGED vars
  BY <1>0, <1>5, TakenStreams DEF Accept, SetOnline, ServerEnds, vars, clientVars
<1> QED
  BY <1>1, <1>2, <1>3, <1>4, <1>5 DEF Next, EventLoop

-----------------------------------------------------------------------------
(* What the uploads have yet to read *)

\* An open descriptor is its connection's until somebody cuts off who uses it.
LEMMA SockKept ==
    ASSUME Shapes, [Next]_vars, NEW e \in Fds, sock[e] # NULL
    PROVE  sock'[e] = sock[e] \/ \A w \in Using(e) : wk[w].md5 \in cut'
<1>0. DOMAIN sock = Fds
  BY DEF Shapes, NetOK
<1>1. ASSUME NEW d, Closed(d) PROVE sock'[e] = sock[e] \/ \A w \in Using(e) : wk[w].md5 \in cut'
  <2>1. CASE d = e
    BY <1>1, <2>1 DEF Closed
  <2>2. CASE d # e
    BY <1>0, <1>1, <2>2 DEF Closed
  <2> QED
    BY <2>1, <2>2
<1>2. CASE Accept
  <2>1. PICK d \in Fds : sock[d] = NULL /\ sock' = [sock EXCEPT ![d] = backlog[1]]
    BY <1>2 DEF Accept
  <2> QED
    BY <1>0, <2>1
<1>3. ASSUME NEW d \in Fds, Serve(d) PROVE sock' = sock \/ Closed(d)
  BY <1>3, ServeFrame DEF LoginEof, CommandEof, CommandReset
<1>4. ASSUME NEW w \in Workers, Thread(w) PROVE sock' = sock \/ Closed(wk[w].fd)
  <2>1. CASE Reads(w)
    BY <2>1, ReadFrame DEF Take, Lost
  <2>2. CASE TaskClose(w)
    BY <2>2 DEF TaskClose
  <2> QED
    BY <1>4, <2>1, <2>2, ThreadFrame
<1>5. ASSUME NEW p \in Procs, User(p) \/ Transfer(p) PROVE sock' = sock
  BY <1>5, UserFrame, TransferFrame
<1>6. CASE SetOnline \/ ServerEnds \/ UNCHANGED vars
  BY <1>6 DEF SetOnline, ServerEnds, vars, netVars
<1> QED
  BY <1>1, <1>2, <1>3, <1>4, <1>5, <1>6 DEF Next, EventLoop

\* A word taken is one less to come.
LEMMA TakeRest ==
    ASSUME Shapes, Senders, NEW w \in Workers, Take(w), wk[w].at # "idle", UNCHANGED <<xf, disk>>,
           NEW p \in Procs, sock[wk[w].fd] = Xfer(p)
    PROVE  /\ Rest(p)' = Rest(p) - 1 /\ Rest(p)' \in Nat /\ Rest(p) \in Nat
           /\ \A x : x = Next1(w) => Worded(p, x, Rest(p))
<1> DEFINE s == up[Xfer(p)]
<1>1. HasWord(w) /\ Consume(wk[w].fd, 1)
  BY DEF Take
<1>2. Sender(p) /\ Rest(p) \in Nat /\ Xfer(p) \in Conns /\ DOMAIN up = Conns /\ Len(s) \in Nat /\ Unsent(p) \in Nat
  BY RestIs DEF Senders, Xfer, Conns, Shapes, WordOK
<1>3. 1 <= Len(s)
  BY <1>1, <1>2, HandWords
<1>4. up'[Xfer(p)] = SubSeq(s, 1 + 1, Len(s))
  BY <1>1, <1>2 DEF Consume
<1>5. Rest(p)' = Rest(p) - 1
  BY <1>2, <1>3, <1>4, StreamTaken
<1>6. Rest(p) >= 1
  BY <1>2, <1>3 DEF Rest
<1>7. Worded(p, s[1], Rest(p) - 1 + 1) /\ Rest(p) - 1 + 1 = Rest(p) /\ Next1(w) = s[1]
  BY <1>2, <1>3 DEF Sender, Next1
<1> HIDE DEF s
<1> QED
  BY <1>2, <1>5, <1>6, <1>7

\* How far a worker is with its upload.
Early == {"md5", "query", "result", "open", "size"}
LEMMA WorkerAhead ==
    ASSUME Shapes, Readers, NEW w \in Workers, Thread(w)
    PROVE  /\ wk'[w].at \in Early => wk'[w].pos = 0
           /\ \A m \in Md5s : Writing(w, m)' => wk'[w].pos <= Len(Body[m])
<1> USE DEF Goto, Step, Early, Writing
<1>0. /\ DOMAIN wk = Workers /\ DOMAIN wk[w] = {"at", "fd", "type", "md5", "parent", "pos"}
      /\ wk[w].at \in Early => wk[w].pos = 0
      /\ \A m \in Md5s : Writing(w, m) => wk[w].pos <= Len(Body[m])
      /\ \A m \in Md5s : Len(Body[m]) \in Nat
      /\ wk[w].at = "content" => wk[w].pos \in Nat
  BY SizeIs DEF Shapes, PoolOK, TaskOK, Readers, PutsAt
<1>1. CASE Pop(w)
  BY <1>0, <1>1 DEF Pop, Idle
<1>2. CASE TaskStatus(w)
  BY <1>0, <1>2 DEF TaskStatus, Idle
<1>3. CASE FindRow(w)
  <2>1. UNCHANGED wk \/ \E m : wk' = [wk EXCEPT ![w] = [wk[w] EXCEPT !.at = "have", !.md5 = m]]
    BY <1>3 DEF FindRow
  <2> QED
    BY <1>0, <2>1
<1>4. CASE RecvMd5(w)
  BY <1>0, <1>4, RecvMd5Steps
<1>5. CASE Query(w)
  BY <1>0, <1>5 DEF Query
<1>6. CASE ResultMd5(w)
  BY <1>0, <1>6 DEF ResultMd5
<1>7. CASE Open(w)
  BY <1>0, <1>7 DEF Open
<1>8. CASE RecvSize(w)
  BY <1>0, <1>8 DEF RecvSize
<1>9. CASE RecvContent(w)
  <2>1. wk[w].at = "content"
    BY <1>9 DEF RecvContent
  <2>2. CASE ~ Finished(w) /\ wk' = [wk EXCEPT ![w] = [wk[w] EXCEPT !.pos = @ + 1]]
    <3>1. PICK m \in Md5s : m = wk[w].md5 /\ ~ (wk[w].pos >= Len(Body[m]))
      BY <2>2 DEF Finished, Stores
    <3>2. wk'[w].pos = wk[w].pos + 1 /\ wk'[w].md5 = m /\ wk'[w].at = "content"
      BY <1>0, <2>1, <2>2, <3>1
    <3> QED
      BY <1>0, <2>1, <3>1, <3>2
  <2>3. CASE wk' = [wk EXCEPT ![w] = [wk[w] EXCEPT !.at = "insert"]]
    BY <1>0, <2>3
  <2> QED
    BY <1>9, <2>2, <2>3 DEF RecvContent
<1>10. CASE InsertRow(w)
  BY <1>0, <1>10 DEF InsertRow
<1>11. CASE RecvHave(w)
  BY <1>0, <1>11 DEF RecvHave
<1>12. CASE CheckMd5(w)
  <2>1. \E n : wk' = [wk EXCEPT ![w] = [wk[w] EXCEPT !.at = "length", !.pos = n]]
              \/ wk' = [wk EXCEPT ![w] = [wk[w] EXCEPT !.at = "length"]]
    BY <1>12 DEF CheckMd5
  <2> QED
    BY <1>0, <2>1
<1>13. CASE SendLength(w)
  BY <1>0, <1>13 DEF SendLength
<1>14. CASE SendFile(w)
  <2>1. \E i : wk' = [wk EXCEPT ![w] = [wk[w] EXCEPT !.pos = i]] \/ wk' = [wk EXCEPT ![w] = [wk[w] EXCEPT !.at = "done"]]
    BY <1>14 DEF SendFile
  <2> QED
    BY <1>0, <1>14, <2>1 DEF SendFile
<1>15. CASE TaskOffline(w)
  BY <1>0, <1>15 DEF TaskOffline
<1>16. CASE TaskClose(w)
  BY <1>0, <1>16 DEF TaskClose
<1> QED
  BY <1>1, <1>2, <1>3, <1>4, <1>5, <1>6, <1>7, <1>8, <1>9, <1>10, <1>11, <1>12, <1>13, <1>14,
     <1>15, <1>16 DEF Thread

\* How a worker comes to be, and to stay, at the upload of a content that is not cut off.
Begins(w, m)  == /\ wk[w].at = "md5" /\ Take(w) /\ Next1(w).k = "md5" /\ Next1(w).v = m
                 /\ wk'[w].at = "query" /\ wk'[w].fd = wk[w].fd /\ wk'[w].md5 = m
Waiting(w, m) == /\ Uploading(w, m) /\ wk[w].at \in {"query", "result", "open"}
                 /\ wk'[w].at \in {"result", "open", "size"}
                 /\ wk'[w].fd = wk[w].fd /\ wk'[w].md5 = m /\ UNCHANGED <<sock, up, cut>>
                 /\ (Open(w) \/ wk'[w].at # "size")
Sizes(w, m)   == /\ Writing(w, m) /\ wk[w].at = "size" /\ Take(w) /\ UNCHANGED <<store, cut>>
                 /\ wk'[w].at = "content"
                 /\ wk'[w].fd = wk[w].fd /\ wk'[w].md5 = m /\ wk'[w].pos = wk[w].pos
Fills(w, m)   == /\ Writing(w, m) /\ wk[w].at = "content" /\ Take(w) /\ Next1(w).k = "buf"
                 /\ wk[w].pos < Len(Body[m]) /\ Write(w, Next1(w).v)
                 /\ wk'[w].at = "content"
                 /\ wk'[w].fd = wk[w].fd /\ wk'[w].md5 = m /\ wk'[w].pos = wk[w].pos + 1
LEMMA LostNow ==
    ASSUME NEW w \in Workers, Lost(w), wk[w].at \notin {"idle", "close", "status"}
    PROVE  wk[w].md5 \in cut'
<1>1. w \in Using(wk[w].fd)
  BY DEF Using
<1>2. ASSUME Closed(wk[w].fd) PROVE wk[w].md5 \in cut'
  BY <1>1, <1>2 DEF Closed
<1> QED
  BY <1>2 DEF Lost

LEMMA UploadSteps ==
    ASSUME Shapes, NEW w \in Workers, Thread(w), NEW m \in Md5s, m \notin cut', Uploading(w, m)'
    PROVE  Begins(w, m) \/ Waiting(w, m) \/ Sizes(w, m) \/ Fills(w, m)
<1> USE DEF Goto, Step
<1>0. /\ DOMAIN wk = Workers /\ DOMAIN wk[w] = {"at", "fd", "type", "md5", "parent", "pos"}
      /\ wk'[w].at \in {"query", "result", "open", "size", "content"} /\ wk'[w].md5 = m
      /\ m # Junk /\ m # NULL /\ Len(Body[m]) \in Nat /\ (wk[w].at = "content" => wk[w].pos \in Nat)
  BY SizeIs, ValuesAssumption DEF Shapes, PoolOK, TaskOK, Uploading, PutsAt
<1>1. CASE Pop(w)
  BY <1>0, <1>1 DEF Pop, Idle
<1>2. CASE TaskStatus(w)
  BY <1>0, <1>2 DEF TaskStatus, Idle
<1>3. CASE FindRow(w)
  BY <1>0, <1>3, FindRowSteps
<1>4. CASE RecvMd5(w)
  <2>1. wk[w].at = "md5"
    BY <1>4 DEF RecvMd5
  <2>2. CASE Take(w) /\ wk' = [wk EXCEPT ![w] = [wk[w] EXCEPT !.at = "query", !.md5 = IF Next1(w).k = "md5" THEN Next1(w).v ELSE Junk]]
    BY <1>0, <2>1, <2>2 DEF Begins
  <2>3. CASE wk' = [wk EXCEPT ![w] = [wk[w] EXCEPT !.at = "query", !.md5 = Junk]]
    BY <1>0, <2>3
  <2> QED
    BY <1>4, <2>2, <2>3 DEF RecvMd5
<1>5. CASE Query(w)
  BY <1>0, <1>5 DEF Query, Waiting, Uploading, history
<1>6. CASE ResultMd5(w)
  BY <1>0, <1>6 DEF ResultMd5, Waiting, Uploading, history
<1>7. CASE Open(w)
  BY <1>0, <1>7 DEF Open, Waiting, Uploading
<1>8. CASE RecvSize(w)
  BY <1>0, <1>8 DEF RecvSize, Sizes, Writing
<1>9. CASE RecvContent(w)
  <2>1. wk[w].at = "content" /\ wk[w].md5 = m
    BY <1>0, <1>9 DEF RecvContent
  <2>2. Stores(w) = {m}
    BY <2>1 DEF Stores
  <2>3. CASE Lost(w)
    BY <2>1, <2>3, LostNow
  <2>4. CASE Finished(w) /\ wk' = [wk EXCEPT ![w] = [wk[w] EXCEPT !.at = "insert"]]
    BY <1>0, <2>4
  <2>5. CASE /\ ~ Finished(w) /\ Take(w) /\ Write(w, IF Next1(w).k = "buf" THEN Next1(w).v ELSE Junk)
             /\ cut' = IF Next1(w).k = "buf" THEN cut ELSE cut \cup Stores(w)
             /\ wk' = [wk EXCEPT ![w] = [wk[w] EXCEPT !.pos = @ + 1]]
    <3>1. Next1(w).k = "buf"
      BY <2>2, <2>5
    <3>2. wk[w].pos < Len(Body[m])
      BY <1>0, <2>1, <2>2, <2>5 DEF Finished
    <3> QED
      BY <1>0, <2>1, <2>5, <3>1, <3>2 DEF Fills, Writing
  <2> QED
    BY <1>9, <2>3, <2>4, <2>5 DEF RecvContent
<1>10. CASE InsertRow(w)
  BY <1>0, <1>10 DEF InsertRow
<1>11. CASE RecvHave(w)
  BY <1>0, <1>11 DEF RecvHave
<1>12. CASE CheckMd5(w)
  <2>1. \E n : wk' = [wk EXCEPT ![w] = [wk[w] EXCEPT !.at = "length", !.pos = n]]
              \/ wk' = [wk EXCEPT ![w] = [wk[w] EXCEPT !.at = "length"]]
    BY <1>12 DEF CheckMd5
  <2> QED
    BY <1>0, <2>1
<1>13. CASE SendLength(w)
  BY <1>0, <1>13 DEF SendLength
<1>14. CASE SendFile(w)
  <2>1. \E i : wk' = [wk EXCEPT ![w] = [wk[w] EXCEPT !.pos = i]] \/ wk' = [wk EXCEPT ![w] = [wk[w] EXCEPT !.at = "done"]]
    BY <1>14 DEF SendFile
  <2> QED
    BY <1>0, <1>14, <2>1 DEF SendFile
<1>15. CASE TaskOffline(w)
  BY <1>0, <1>15 DEF TaskOffline
<1>16. CASE TaskClose(w)
  BY <1>0, <1>16 DEF TaskClose
<1> QED
  BY <1>1, <1>2, <1>3, <1>4, <1>5, <1>6, <1>7, <1>8, <1>9, <1>10, <1>11, <1>12, <1>13, <1>14,
     <1>15, <1>16 DEF Thread

\* Whose connection a worker reads, in the next state, is whose it read.
LEMMA ReaderStays ==
    ASSUME Shapes, Senders, [Next]_vars, NEW w \in Workers, NEW m \in Md5s, m \notin cut',
           Uploading(w, m), NEW p \in Procs, sock[wk[w].fd] = Xfer(p)
    PROVE  sock'[wk[w].fd] = Xfer(p) /\ xf'[p].type = xf[p].type /\ Rest(p)' <= Rest(p)
<1>1. wk[w].fd \in Fds /\ wk[w].at \notin {"idle", "close", "status"} /\ wk[w].md5 = m
  BY HandWords DEF Uploading
<1>2. w \in Using(wk[w].fd)
  BY <1>1 DEF Using
<1>3. Xfer(p) \in Conns /\ Xfer(p) # NULL /\ Xfer(p)[2] = "xfer" /\ Xfer(p)[1] = p
  BY ValuesAssumption DEF Xfer, Conns
<1>4. sock'[wk[w].fd] = Xfer(p)
  BY <1>1, <1>2, <1>3, SockKept
<1>5. xf[p].at # "none"
  BY <1>1, <1>3 DEF Shapes, NetOK, Made
<1> QED
  BY <1>4, <1>5, SendersStep DEF Stream

LEMMA WorkerMoves ==
    ASSUME Shapes, [Next]_vars, NEW w \in Workers
    PROVE  wk'[w] = wk[w] \/ Thread(w)
<1>1. ASSUME NEW v \in Workers, Thread(v) PROVE wk'[w] = wk[w] \/ Thread(w)
  BY <1>1, WorkerStep
<1>2. ASSUME NEW d \in Fds, Serve(d) PROVE wk' = wk
  BY <1>2, ServeFrame
<1>3. ASSUME NEW p \in Procs, User(p) \/ Transfer(p) PROVE wk' = wk
  BY <1>3, UserFrame, TransferFrame
<1>4. CASE Accept \/ SetOnline \/ ServerEnds \/ UNCHANGED vars
  BY <1>4 DEF Accept, SetOnline, ServerEnds, vars, poolVars
<1> QED
  BY <1>1, <1>2, <1>3, <1>4 DEF Next, EventLoop

LEMMA ReaderStep ==
    ASSUME Shapes, Senders, Readers, [Next]_vars, NEW w \in Workers, NEW m \in Md5s, m \notin cut'
    PROVE  Reader(w, m)'
<1> SUFFICES ASSUME Uploading(w, m)' PROVE Reader(w, m)'
  BY DEF Reader
<1>0. m \notin cut /\ Len(Body[m]) \in Nat /\ m \notin {NULL, Junk}
  BY CutStep, SizeIs, ValuesAssumption
<1>a. Uploading(w, m) => \E p \in Procs : Feeds(p, w, m)
  BY <1>0 DEF Readers, Reader
<1>b. ASSUME NEW p \in Procs PROVE Rest(p) \in Nat /\ Rest(p)' \in Nat
  <2>1. Sender(p) /\ Sender(p)'
    BY SendersStep DEF Senders, Stream
  <2>2. WordOK'
    BY WordStep
  <2>3. Len(up[Xfer(p)])' \in Nat
    BY <2>2 DEF WordOK, UpWords, IsSeq, Xfer, Conns
  <2>4. Size(p)' = Size(p) /\ Size(p) \in Nat /\ Unsent(p)' \in Nat
    <3>1. Size(p) \in Nat /\ Size(p)' = Size(p)
      BY <2>1, UnsentIs DEF Size
    <3>2. xf'[p].at = "sending" => xf'[p].pos \in 0..Size(p)
      BY <2>1, <3>1 DEF Sender
    <3> QED
      BY <3>1, <3>2 DEF Unsent
  <2> QED
    BY <2>1, <2>3, <2>4, RestIs DEF Rest
<1>1. ASSUME NEW p \in Procs, sock'[wk'[w].fd] = Xfer(p), NEW n \in Nat, n = Need(w, m)',
             Rest(p)' <= n, Rest(p)' = n => xf'[p].type = "puts" /\ Md5[p] = m
      PROVE  Reader(w, m)'
  BY <1>1 DEF Reader, Feeds
<1>2. CASE wk'[w] = wk[w]
  <2>1. Uploading(w, m) /\ Need(w, m)' = Need(w, m)
    BY <1>2 DEF Uploading, Need
  <2>2. PICK p \in Procs : Feeds(p, w, m)
    BY <1>a, <2>1
  <2>3. sock'[wk[w].fd] = Xfer(p) /\ xf'[p].type = xf[p].type /\ Rest(p)' <= Rest(p)
    BY <2>1, <2>2, ReaderStays DEF Feeds
  <2>4. Need(w, m) \in Nat
    <3>1. wk[w].at = "content" => wk[w].pos \in Nat /\ wk[w].pos <= Len(Body[m])
      BY <2>1 DEF Readers, Writing, Uploading, Shapes, PoolOK, TaskOK, PutsAt
    <3> QED
      BY <1>0, <3>1 DEF Need
  <2> QED
    BY <1>1, <1>2, <1>b, <2>1, <2>2, <2>3, <2>4 DEF Feeds
<1>3. CASE Thread(w)
  <2>0. UNCHANGED <<xf, disk>>
    BY <1>3, ThreadFrame
  <2>1. CASE Begins(w, m)
    <3>1. wk[w].at # "idle" /\ HasWord(w) /\ Take(w) /\ Next1(w).k = "md5" /\ Next1(w).v = m /\ wk'[w].fd = wk[w].fd
          /\ Need(w, m)' = Len(Body[m]) + 1 /\ sock' = sock
      BY <2>1 DEF Begins, Take, Need
    <3>2. sock[wk[w].fd] \in Conns /\ Len(up[sock[wk[w].fd]]) >= 1
      BY <3>1, HandWords DEF HasWord
    <3>3. PICK p \in Procs : sock[wk[w].fd] = Xfer(p) \/ sock[wk[w].fd] = Main(p)
      BY <3>2 DEF Conns, Xfer, Main
    <3>4. sock[wk[w].fd] # Main(p)
      <4>1. Spoken(p) /\ Len(up[sock[wk[w].fd]]) \in Nat
        BY <3>2, WordsIs DEF Senders
      <4> QED
        BY <3>1, <3>2, <4>1 DEF Spoken, Next1
    <3>5. Rest(p)' = Rest(p) - 1 /\ \A x : x = Next1(w) => Worded(p, x, Rest(p))
      BY <2>0, <3>1, <3>3, <3>4, TakeRest
    <3>6. \/ xf[p].type = "puts" /\ Md5[p] = m /\ Rest(p) <= Len(Body[m]) + 2
          \/ xf[p].type = "gets" /\ Rest(p) = 1
      BY <3>1, <3>5 DEF Worded, Size
    <3> QED
      BY <1>0, <1>1, <1>b, <2>0, <3>1, <3>3, <3>4, <3>5, <3>6
  <2>2. CASE Waiting(w, m)
    <3>1. Uploading(w, m) /\ Need(w, m) = Len(Body[m]) + 1 /\ Need(w, m)' = Len(Body[m]) + 1
          /\ sock' = sock /\ wk'[w].fd = wk[w].fd /\ UNCHANGED up
      BY <2>2 DEF Waiting, Need
    <3>2. PICK p \in Procs : Feeds(p, w, m)
      BY <1>a, <3>1
    <3>3. Rest(p)' = Rest(p)
      BY <2>0, <3>1 DEF Rest, Unsent, Size
    <3> QED
      BY <1>0, <1>1, <2>0, <3>1, <3>2, <3>3 DEF Feeds
  <2>3. CASE Sizes(w, m)
    <3>1. /\ Uploading(w, m) /\ wk[w].pos = 0 /\ Need(w, m) = Len(Body[m]) + 1 /\ Need(w, m)' = Len(Body[m]) - 0
          /\ sock' = sock /\ wk'[w].fd = wk[w].fd /\ Take(w) /\ wk[w].at # "idle"
      BY <2>3 DEF Sizes, Need, Writing, Uploading, Readers, Take
    <3>2. PICK p \in Procs : Feeds(p, w, m)
      BY <1>a, <3>1
    <3>3. Rest(p)' = Rest(p) - 1
      BY <2>0, <3>1, <3>2, TakeRest DEF Feeds
    <3> QED
      BY <1>0, <1>1, <1>b, <2>0, <3>1, <3>2, <3>3 DEF Feeds
  <2>4. CASE Fills(w, m)
    <3>1. /\ Uploading(w, m) /\ wk[w].pos \in Nat /\ wk[w].pos < Len(Body[m])
          /\ Need(w, m) = Len(Body[m]) - wk[w].pos /\ Need(w, m)' = Len(Body[m]) - (wk[w].pos + 1)
          /\ sock' = sock /\ wk'[w].fd = wk[w].fd /\ Take(w) /\ wk[w].at # "idle"
      BY <2>4 DEF Fills, Need, Writing, Uploading, Take, Shapes, PoolOK, TaskOK, PutsAt
    <3>2. PICK p \in Procs : Feeds(p, w, m)
      BY <1>a, <3>1
    <3>3. Rest(p)' = Rest(p) - 1
      BY <2>0, <3>1, <3>2, TakeRest DEF Feeds
    <3>4. Need(w, m)' = Need(w, m) - 1 /\ Need(w, m)' \in Nat /\ Need(w, m) \in Nat
      BY <1>0, <3>1
    <3> QED
      BY <1>1, <1>b, <2>0, <3>1, <3>2, <3>3, <3>4 DEF Feeds
  <2> QED
    BY <1>3, <2>1, <2>2, <2>3, <2>4, UploadSteps
<1> QED
  BY <1>2, <1>3, WorkerMoves

LEMMA ReadersStep ==
    ASSUME Shapes, Senders, Readers, [Next]_vars
    PROVE  Readers'
<1>1. ASSUME NEW w \in Workers
      PROVE  /\ wk'[w].at \in Early => wk'[w].pos = 0
             /\ \A m \in Md5s : Writing(w, m)' => wk'[w].pos <= Len(Body[m])
  <2>1. CASE Thread(w)
    BY <2>1, WorkerAhead
  <2>2. CASE wk'[w] = wk[w]
    BY <2>2 DEF Readers, Early, Writing
  <2> QED
    BY <2>1, <2>2, WorkerMoves
<1>2. \A m \in Md5s \ cut' : \A w \in Workers : Reader(w, m)'
  BY ReaderStep
<1>3. (\A m \in Md5s \ cut : \A w \in Workers : Reader(w, m))'
  BY <1>2
<1> QED
  BY <1>1, <1>3 DEF Readers, Early, Writing

-----------------------------------------------------------------------------
(* What is in the storage *)

\* How a worker goes on that is at the writing of a content.
Ends(w, m) == /\ Writing(w, m) /\ wk[w].at = "content" /\ wk[w].pos >= Len(Body[m])
              /\ wk'[w].at = "insert" /\ UNCHANGED <<store, cut>>
LEMMA WriterSteps ==
    ASSUME Shapes, NEW w \in Workers, Thread(w), NEW m \in Md5s, m \notin cut', Writing(w, m)
    PROVE  Sizes(w, m) \/ Fills(w, m) \/ Ends(w, m)
<1> USE DEF Goto, Step
<1>0. /\ DOMAIN wk = Workers /\ DOMAIN wk[w] = {"at", "fd", "type", "md5", "parent", "pos"}
      /\ wk[w].at \in {"size", "content"} /\ wk[w].md5 = m /\ Stores(w) = {m}
      /\ Len(Body[m]) \in Nat /\ wk[w].pos \in Nat
  BY SizeIs DEF Shapes, PoolOK, TaskOK, Writing, PutsAt, Stores
<1>1. ~ Lost(w)
  BY <1>0, LostNow
<1>2. CASE RecvSize(w)
  BY <1>0, <1>1, <1>2 DEF RecvSize, Sizes
<1>3. CASE RecvContent(w)
  <2>1. wk[w].at = "content"
    BY <1>3 DEF RecvContent
  <2>2. CASE Finished(w) /\ wk' = [wk EXCEPT ![w] = [wk[w] EXCEPT !.at = "insert"]] /\ UNCHANGED <<store, cut>>
    BY <1>0, <2>1, <2>2 DEF Finished, Ends
  <2>3. CASE /\ ~ Finished(w) /\ Take(w) /\ Write(w, IF Next1(w).k = "buf" THEN Next1(w).v ELSE Junk)
             /\ cut' = IF Next1(w).k = "buf" THEN cut ELSE cut \cup Stores(w)
             /\ wk' = [wk EXCEPT ![w] = [wk[w] EXCEPT !.pos = @ + 1]]
    <3>1. Next1(w).k = "buf"
      BY <1>0, <2>3
    <3>2. wk[w].pos < Len(Body[m])
      BY <1>0, <2>3 DEF Finished
    <3> QED
      BY <1>0, <2>1, <2>3, <3>1, <3>2 DEF Fills
  <2> QED
    BY <1>1, <1>3, <2>2, <2>3 DEF RecvContent
<1>4. wk[w].at \notin {"idle", "md5", "query", "find", "result", "open", "insert", "row", "have", "check",
                      "length", "send", "done", "close", "status"}
  BY <1>0
<1> QED
  BY <1>2, <1>3, <1>4 DEF Thread, Pop, Query, RecvMd5, ResultMd5, Open, InsertRow, FindRow, RecvHave,
     CheckMd5, SendLength, SendFile, TaskOffline, TaskClose, TaskStatus

\* How a worker comes to be at the writing, or at the row.
LEMMA FilingSteps ==
    ASSUME Shapes, NEW w \in Workers, Thread(w), wk'[w].at \in {"size", "content", "insert"}
    PROVE  /\ wk'[w].md5 = wk[w].md5
           /\ \/ wk[w].at \in {"size", "content"}
              \/ Open(w)
              \/ \E r \in files : r.md5 = wk[w].md5
<1> USE DEF Goto, Step
<1>0. DOMAIN wk = Workers /\ DOMAIN wk[w] = {"at", "fd", "type", "md5", "parent", "pos"}
  BY DEF Shapes, PoolOK, TaskOK
<1>1. CASE Pop(w)
  BY <1>0, <1>1 DEF Pop, Idle
<1>2. CASE TaskStatus(w)
  BY <1>0, <1>2 DEF TaskStatus, Idle
<1>3. CASE FindRow(w)
  BY <1>0, <1>3, FindRowSteps
<1>4. CASE RecvMd5(w)
  BY <1>0, <1>4 DEF RecvMd5
<1>5. CASE Query(w)
  BY <1>0, <1>5 DEF Query
<1>6. CASE ResultMd5(w)
  BY <1>0, <1>6 DEF ResultMd5
<1>7. CASE Open(w)
  BY <1>0, <1>7 DEF Open
<1>8. CASE RecvSize(w)
  BY <1>0, <1>8 DEF RecvSize
<1>9. CASE RecvContent(w)
  BY <1>0, <1>9 DEF RecvContent
<1>10. CASE InsertRow(w)
  BY <1>0, <1>10 DEF InsertRow
<1>11. CASE RecvHave(w)
  BY <1>0, <1>11 DEF RecvHave
<1>12. CASE CheckMd5(w)
  <2>1. \E n : wk' = [wk EXCEPT ![w] = [wk[w] EXCEPT !.at = "length", !.pos = n]]
              \/ wk' = [wk EXCEPT ![w] = [wk[w] EXCEPT !.at = "length"]]
    BY <1>12 DEF CheckMd5
  <2> QED
    BY <1>0, <2>1
<1>13. CASE SendLength(w)
  BY <1>0, <1>13 DEF SendLength
<1>14. CASE SendFile(w)
  <2>1. \E i : wk' = [wk EXCEPT ![w] = [wk[w] EXCEPT !.pos = i]] \/ wk' = [wk EXCEPT ![w] = [wk[w] EXCEPT !.at = "done"]]
    BY <1>14 DEF SendFile
  <2> QED
    BY <1>0, <1>14, <2>1 DEF SendFile
<1>15. CASE TaskOffline(w)
  BY <1>0, <1>15 DEF TaskOffline
<1>16. CASE TaskClose(w)
  BY <1>0, <1>16 DEF TaskClose
<1> QED
  BY <1>1, <1>2, <1>3, <1>4, <1>5, <1>6, <1>7, <1>8, <1>9, <1>10, <1>11, <1>12, <1>13, <1>14,
     <1>15, <1>16 DEF Thread

\* A content comes into the storage with open, and a row of it only after that.
Opens(w, m) == Open(w) /\ wk[w].md5 = m
LEMMA FiledBefore ==
    ASSUME Shapes, [Next]_vars, NEW m \in Md5s, Filed(m)'
    PROVE  Filed(m) \/ \E w \in Workers : Opens(w, m)
<1>1. ASSUME NEW r \in files', r.md5 = m PROVE Filed(m)
  <2>1. CASE OldRow(r)
    BY <1>1, <2>1 DEF OldRow, Filed
  <2>2. ASSUME NEW d \in Fds, DirRow(d, r) PROVE FALSE
    BY <1>1, <2>2, ValuesAssumption DEF DirRow, Row
  <2>3. ASSUME NEW w \in Workers, FileRow(w, r) PROVE Filed(m)
    <3>1. wk[w].at = "insert" /\ wk[w].md5 = m
      BY <1>1, <2>3 DEF FileRow, Row, InsertRow
    <3> QED
      BY <3>1 DEF Filed
  <2> QED
    BY <2>1, <2>2, <2>3, RowsStep
<1>2. ASSUME NEW w \in Workers, wk'[w].md5 = m, wk'[w].at \in {"size", "content", "insert"}
      PROVE  Filed(m) \/ Opens(w, m)
  <2>1. CASE wk'[w] = wk[w]
    BY <1>2, <2>1 DEF Filed
  <2>2. CASE Thread(w)
    BY <1>2, <2>2, FilingSteps DEF Filed, Opens
  <2> QED
    BY <2>1, <2>2, WorkerMoves
<1> QED
  BY <1>1, <1>2 DEF Filed

\* What changes the storage.
Fill(w, m) == /\ RecvContent(w) /\ wk[w].md5 = m
              /\ \E v : store'[m] = Written(store[m], wk[w].pos, v)
LEMMA StoreStep ==
    ASSUME Shapes, DOMAIN store = Md5s, [Next]_vars, NEW m \in Md5s
    PROVE  /\ DOMAIN store' = Md5s
           /\ \/ store'[m] = store[m]
              \/ \E w \in Workers : Opens(w, m) /\ store'[m] = << >>
              \/ \E w \in Workers : Fill(w, m)
<1>1. CASE UNCHANGED store
  BY <1>1
<1>2. ASSUME NEW w \in Workers, Open(w)
      PROVE  DOMAIN store' = Md5s /\ (store'[m] = store[m] \/ (Opens(w, m) /\ store'[m] = << >>))
  BY <1>2 DEF Open, Opens, Stores
<1>3. ASSUME NEW w \in Workers, RecvContent(w)
      PROVE  DOMAIN store' = Md5s /\ (store'[m] = store[m] \/ Fill(w, m))
  <2>1. ASSUME NEW v, Write(w, v) PROVE DOMAIN store' = Md5s /\ (store'[m] = store[m] \/ Fill(w, m))
    BY <1>3, <2>1 DEF Write, Fill, Stores
  <2>2. UNCHANGED store \/ \E v : Write(w, v)
    BY <1>3 DEF RecvContent
  <2> QED
    BY <2>1, <2>2
<1>4. ASSUME NEW w \in Workers, Thread(w) PROVE UNCHANGED store \/ Open(w) \/ RecvContent(w)
  BY <1>4, ThreadFrame
<1>5. ASSUME NEW d \in Fds, Serve(d) PROVE UNCHANGED store
  BY <1>5, ServeFrame
<1>6. ASSUME NEW p \in Procs, User(p) \/ Transfer(p) PROVE UNCHANGED store
  BY <1>6, UserFrame, TransferFrame
<1>7. CASE Accept \/ SetOnline \/ ServerEnds \/ UNCHANGED vars
  BY <1>7 DEF Accept, SetOnline, ServerEnds, vars, poolVars
<1> QED
  BY <1>1, <1>2, <1>3, <1>4, <1>5, <1>6, <1>7 DEF Next, EventLoop

LEMMA WrittenIs ==
    ASSUME NEW s, IsSeq(s), NEW i \in Nat, NEW v
    PROVE  LET t == Written(s, i, v) IN
           /\ IsSeq(t) /\ Len(t) = IF Len(s) > i THEN Len(s) ELSE i + 1
           /\ Len(s) \in Nat /\ Len(t) \in Nat
           /\ \A j \in 1..Len(t) : t[j] = IF j = i + 1 THEN v ELSE IF j <= Len(s) THEN s[j] ELSE "hole"
<1> DEFINE n == IF Len(s) > i THEN Len(s) ELSE i + 1
           f == [j \in 1..n |-> IF j = i + 1 THEN v ELSE IF j <= Len(s) THEN s[j] ELSE "hole"]
           S == {f[j] : j \in 1..n}
<1>1. Len(s) \in Nat /\ n \in Nat /\ Written(s, i, v) = f
  BY DEF IsSeq, Written
<1>2. \A j \in 1..n : f[j] \in S
  OBVIOUS
<1>3. f \in [1..n -> S]
  BY <1>2
<1> HIDE DEF S
<1>4. f \in Seq(S) /\ Len(f) = n
  BY <1>1, <1>3
<1>5. IsSeq(f)
  BY <1>4, SeqIs
<1>6. \A j \in 1..n : f[j] = IF j = i + 1 THEN v ELSE IF j <= Len(s) THEN s[j] ELSE "hole"
  OBVIOUS
<1> HIDE DEF f, n
<1>7. Len(f) = n /\ n = IF Len(s) > i THEN Len(s) ELSE i + 1
  BY <1>4 DEF n
<1> QED
  BY <1>1, <1>5, <1>6, <1>7

LEMMA NeedIs ==
    ASSUME Shapes, Readers, NEW w \in Workers, NEW m \in Md5s, Uploading(w, m)
    PROVE  Need(w, m) \in Nat /\ Len(Body[m]) \in Nat /\ wk[w].pos \in Nat
<1>1. Len(Body[m]) \in Nat /\ wk[w].pos \in Nat
  BY SizeIs DEF Uploading, Shapes, PoolOK, TaskOK, PutsAt
<1>2. wk[w].at = "content" => wk[w].pos <= Len(Body[m])
  BY DEF Readers, Writing, Uploading
<1> QED
  BY <1>1, <1>2 DEF Need

LEMMA ShortStays ==
    ASSUME Shapes, Senders, Readers, [Next]_vars, NEW w \in Workers, NEW m \in Md5s, m \notin cut', Short(w, m)
    PROVE  Short(w, m)'
<1>0. Uploading(w, m) /\ Writing(w, m)
  BY DEF Short, Writing, Uploading
<1>1. PICK p \in Procs : sock[wk[w].fd] = Xfer(p) /\ Rest(p) < Need(w, m)
  BY DEF Short
<1>2. sock'[wk[w].fd] = Xfer(p) /\ Rest(p)' <= Rest(p)
  BY <1>0, <1>1, ReaderStays
<1>3. Rest(p) \in Nat /\ Rest(p)' \in Nat /\ Need(w, m) \in Nat /\ Len(Body[m]) \in Nat /\ wk[w].pos \in Nat
  <2>1. Rest(p) \in Nat /\ Need(w, m) \in Nat /\ Len(Body[m]) \in Nat /\ wk[w].pos \in Nat
    BY <1>0, RestIs, NeedIs DEF Senders
  <2>2. Sender(p)'
    BY SendersStep DEF Stream
  <2>3. Size(p)' = Size(p) /\ Size(p) \in Nat
    BY UnsentIs DEF Senders, Size
  <2>4. Unsent(p)' \in Nat
    <3>1. xf'[p].at = "sending" => xf'[p].pos \in 0..Size(p)
      BY <2>2, <2>3 DEF Sender
    <3> QED
      BY <2>3, <3>1 DEF Unsent
  <2>5. Len(up[Xfer(p)])' \in Nat
    <3>1. WordOK'
      BY WordStep
    <3> QED
      BY <3>1 DEF WordOK, UpWords, IsSeq, Xfer, Conns
  <2> QED
    BY <2>1, <2>4, <2>5 DEF Rest
<1>4. ASSUME wk'[w].fd = wk[w].fd, Writing(w, m)', Rest(p)' < Need(w, m)' PROVE Short(w, m)'
  BY <1>2, <1>4 DEF Short
<1>5. CASE wk'[w] = wk[w]
  <2>1. Writing(w, m)' /\ Need(w, m)' = Need(w, m)
    BY <1>0, <1>5 DEF Writing, Need
  <2> QED
    BY <1>1, <1>2, <1>3, <1>4, <1>5, <2>1
<1>6. CASE Thread(w)
  <2>0. UNCHANGED <<xf, disk>>
    BY <1>6, ThreadFrame
  <2>1. CASE Sizes(w, m)
    <3>1. /\ wk[w].pos = 0 /\ Need(w, m) = Len(Body[m]) + 1 /\ Need(w, m)' = Len(Body[m]) - 0
          /\ Take(w) /\ wk[w].at # "idle" /\ wk'[w].fd = wk[w].fd /\ Writing(w, m)'
      BY <2>1 DEF Sizes, Need, Writing, Readers
    <3>2. Rest(p)' = Rest(p) - 1
      BY <1>1, <2>0, <3>1, TakeRest
    <3> QED
      BY <1>1, <1>3, <1>4, <3>1, <3>2
  <2>2. CASE Fills(w, m)
    <3>1. /\ Need(w, m) = Len(Body[m]) - wk[w].pos /\ Need(w, m)' = Len(Body[m]) - (wk[w].pos + 1)
          /\ Take(w) /\ wk[w].at # "idle" /\ wk'[w].fd = wk[w].fd /\ Writing(w, m)'
      BY <2>2 DEF Fills, Need, Writing
    <3>2. Rest(p)' = Rest(p) - 1
      BY <1>1, <2>0, <3>1, TakeRest
    <3> QED
      BY <1>1, <1>3, <1>4, <3>1, <3>2
  <2>3. CASE Ends(w, m)
    <3>1. wk[w].pos >= Len(Body[m]) /\ Need(w, m) = Len(Body[m]) - wk[w].pos
      BY <2>3 DEF Ends, Need
    <3> QED
      BY <1>1, <1>3, <3>1
  <2> QED
    BY <1>0, <1>6, <2>1, <2>2, <2>3, WriterSteps
<1> QED
  BY <1>5, <1>6, WorkerMoves

\* The right buffer is written at its place.
LEMMA RightBuffer ==
    ASSUME Shapes, Senders, Readers, NEW w \in Workers, Thread(w), NEW m \in Md5s, m \notin cut,
           Fills(w, m), ~ Short(w, m)
    PROVE  Next1(w).v = Body[m][wk[w].pos + 1]
<1>1. Uploading(w, m) /\ Writing(w, m) /\ Take(w) /\ Next1(w).k = "buf" /\ wk[w].at = "content"
  BY DEF Fills, Uploading, Writing
<1>2. PICK p \in Procs : Feeds(p, w, m)
  BY <1>1 DEF Readers, Reader
<1>3. Rest(p) \in Nat /\ Need(w, m) \in Nat /\ Len(Body[m]) \in Nat /\ wk[w].pos \in Nat
  BY <1>1, RestIs, NeedIs DEF Senders
<1>4. Rest(p) = Need(w, m)
  BY <1>1, <1>2, <1>3 DEF Short, Feeds
<1>5. xf[p].type = "puts" /\ Md5[p] = m
  BY <1>2, <1>4 DEF Feeds
<1>6. UNCHANGED <<xf, disk>>
  BY ThreadFrame
<1>7. \A x : x = Next1(w) => Worded(p, x, Rest(p))
  BY <1>1, <1>2, <1>6, TakeRest DEF Feeds
<1>8. Next1(w).v = Body[m][Len(Body[m]) - Rest(p) + 1]
  BY <1>1, <1>5, <1>7 DEF Worded, Size
<1>9. Rest(p) = Len(Body[m]) - wk[w].pos
  BY <1>1, <1>4 DEF Need
<1>10. Len(Body[m]) - Rest(p) + 1 = wk[w].pos + 1
  BY <1>3, <1>9
<1> QED
  BY <1>8, <1>10

\* Sequences of the same length and elements are the same.
LEMMA SameSeq ==
    ASSUME NEW s, NEW t, IsSeq(s), IsSeq(t), Len(s) = Len(t), \A i \in 1..Len(s) : s[i] = t[i]
    PROVE  s = t
BY DEF IsSeq

LEMMA WholeStep ==
    ASSUME Shapes, Senders, Readers, Contents, [Next]_vars, NEW m \in Md5s, m \notin cut',
           Filed(m)', \A w \in Workers : ~ Short(w, m)'
    PROVE  Whole(m)'
<1>0. m \notin cut /\ (\A w \in Workers : ~ Short(w, m)) /\ Len(Body[m]) \in Nat /\ IsSeq(Body[m])
  BY CutStep, ShortStays, SizeIs
<1>1. ASSUME NEW w \in Workers, Opens(w, m), store'[m] = << >> PROVE Whole(m)'
  <2>1. wk[w].at = "open" /\ wk[w].md5 = m /\ wk' = [wk EXCEPT ![w] = [wk[w] EXCEPT !.at = "size"]]
    BY <1>1 DEF Opens, Open, Goto, Step
  <2>2. DOMAIN wk = Workers /\ DOMAIN wk[w] = {"at", "fd", "type", "md5", "parent", "pos"} /\ wk[w].pos = 0
    BY <2>1 DEF Shapes, PoolOK, TaskOK, Readers
  <2>3. wk'[w].at = "size" /\ wk'[w].md5 = m /\ wk'[w].pos = 0
    BY <2>1, <2>2
  <2>4. Writing(w, m)' /\ Covers(w, m)'
    BY <2>3 DEF Writing, Covers
  <2> QED
    BY <1>0, <1>1, <2>4, Pair DEF Whole
<1>2. ASSUME NEW w \in Workers, Opens(w, m) PROVE Whole(m)'
  <2>1. store'[m] = << >>
    BY <1>2 DEF Opens, Open, Stores
  <2> QED
    BY <1>1, <1>2, <2>1
<1>3. CASE \A w \in Workers : ~ Opens(w, m)
  <2>1. Filed(m) /\ Whole(m) /\ IsSeq(store[m]) /\ Len(store[m]) \in Nat
    <3>1. Filed(m)
      BY <1>3, FiledBefore
    <3>2. Stored1(m)
      BY DEF Contents
    <3> QED
      BY <1>0, <3>1, <3>2 DEF Stored1, IsSeq
  <2>2. ASSUME NEW w \in Workers, Fills(w, m), Thread(w) PROVE Whole(m)'
    <3> DEFINE i == wk[w].pos
               s == store[m]
               t == store'[m]
               v == Body[m][i + 1]
    <3>1. Next1(w).v = v
      BY <1>0, <2>2, RightBuffer
    <3>2. i \in Nat /\ i < Len(Body[m])
      BY <2>2 DEF Fills, Writing, Shapes, PoolOK, TaskOK, PutsAt
    <3>3. t = Written(s, i, v)
      <4>1. Write(w, Next1(w).v) /\ wk[w].md5 = m
        BY <2>2 DEF Fills, Writing
      <4>2. store'[m] = IF m \in Stores(w) THEN Written(store[m], wk[w].pos, Next1(w).v) ELSE store[m]
        BY <4>1 DEF Write
      <4> QED
        BY <3>1, <4>1, <4>2 DEF Stores
    <3>4. /\ IsSeq(t) /\ Len(t) = IF Len(s) > i THEN Len(s) ELSE i + 1
          /\ Len(t) \in Nat
          /\ \A j \in 1..Len(t) : t[j] = IF j = i + 1 THEN v ELSE IF j <= Len(s) THEN s[j] ELSE "hole"
      <4>1. PICK f : f = Written(s, i, v)
        OBVIOUS
      <4>2. IsSeq(s)
        BY <2>1
      <4> HIDE DEF s, t, v, i
      <4>3. /\ IsSeq(f) /\ Len(f) = IF Len(s) > i THEN Len(s) ELSE i + 1
            /\ Len(f) \in Nat
            /\ \A j \in 1..Len(f) : f[j] = IF j = i + 1 THEN v ELSE IF j <= Len(s) THEN s[j] ELSE "hole"
        BY <3>2, <4>1, <4>2, WrittenIs
      <4> QED
        BY <3>3, <4>1, <4>3
    <3>5. /\ Len(s) <= Len(Body[m]) /\ Len(s) \in Nat
          /\ \A j \in 1..Len(s) : s[j] \in {Body[m][j], "hole"}
      BY <2>1 DEF Whole
    <3>6. Len(t) <= Len(Body[m])
      BY <1>0, <3>2, <3>4, <3>5
    <3>7. ASSUME NEW j \in 1..Len(t) PROVE t[j] \in {Body[m][j], "hole"}
      <4>1. CASE j = i + 1
        BY <3>4, <4>1
      <4>2. CASE j # i + 1 /\ j <= Len(s)
        <5>1. t[j] = s[j] /\ j \in 1..Len(s)
          BY <3>4, <3>5, <4>2
        <5> QED
          BY <3>5, <5>1
      <4>3. CASE j # i + 1 /\ ~ (j <= Len(s))
        BY <3>4, <4>3
      <4> QED
        BY <4>1, <4>2, <4>3
    <3>8. CASE s = Body[m]
      <4>1. Len(t) = Len(Body[m])
        BY <1>0, <3>2, <3>4, <3>8
      <4>2. \A j \in 1..Len(t) : t[j] = Body[m][j]
        BY <3>4, <3>8, <4>1
      <4>3. t = Body[m]
        BY <1>0, <3>4, <4>1, <4>2, SameSeq
      <4> QED
        BY <3>6, <3>7, <4>3 DEF Whole
    <3>9. ASSUME NEW u \in Workers, Writing(u, m), Covers(u, m) PROVE Whole(m)'
      <4>1. CASE u = w
        <5>1. Writing(w, m)' /\ wk'[w].pos = i + 1
          BY <2>2 DEF Fills, Writing
        <5>2. ASSUME NEW j \in 1..(i + 1) PROVE j <= Len(t) /\ t[j] = Body[m][j]
          <6>1. CASE j = i + 1
            BY <3>2, <3>4, <3>5, <6>1
          <6>2. CASE j # i + 1
            <7>1. j \in 1..i
              BY <3>2, <6>2
            <7>2. j <= Len(s) /\ s[j] = Body[m][j]
              BY <3>9, <4>1, <7>1 DEF Covers
            <7> QED
              BY <3>2, <3>4, <3>5, <6>2, <7>1, <7>2
          <6> QED
            BY <6>1, <6>2
        <5>3. Covers(w, m)'
          BY <5>1, <5>2 DEF Covers
        <5> QED
          BY <3>6, <3>7, <5>1, <5>3 DEF Whole
      <4>2. CASE u # w
        <5>1. wk'[u] = wk[u]
          BY <2>2, <4>2, WorkerStep
        <5>2. Writing(u, m)' /\ wk[u].pos \in Nat
          BY <3>9, <5>1 DEF Writing, Shapes, PoolOK, TaskOK, PutsAt
        <5>3. ASSUME NEW j \in 1..wk[u].pos PROVE j <= Len(t) /\ t[j] = Body[m][j]
          <6>1. j <= Len(s) /\ s[j] = Body[m][j]
            BY <3>9 DEF Covers
          <6>2. j \in Nat /\ j <= Len(t) /\ j \in 1..Len(t)
            BY <3>2, <3>4, <3>5, <5>2, <6>1
          <6> QED
            BY <3>4, <6>1, <6>2
        <5>4. Covers(u, m)'
          BY <5>1, <5>3 DEF Covers
        <5> QED
          BY <3>6, <3>7, <5>2, <5>4 DEF Whole
      <4> QED
        BY <4>1, <4>2
    <3> QED
      BY <2>1, <3>8, <3>9 DEF Whole
  <2>3. CASE \A w \in Workers : ~ (Fills(w, m) /\ Thread(w))
    <3>1. store'[m] = store[m]
      <4>1. ASSUME NEW w \in Workers, Fill(w, m) PROVE store'[m] = store[m]
        <5>1. RecvContent(w) /\ Thread(w) /\ wk[w].at = "content" /\ Writing(w, m)
          BY <4>1 DEF Fill, Thread, RecvContent, Writing
        <5>2. Ends(w, m)
          BY <2>3, <5>1, WriterSteps DEF Sizes
        <5> QED
          BY <5>2 DEF Ends
      <4> QED
        BY <1>3, <4>1, StoreStep DEF Contents
    <3>2. CASE store[m] = Body[m]
      BY <2>1, <3>1, <3>2 DEF Whole
    <3>3. ASSUME NEW w \in Workers, Writing(w, m), Covers(w, m) PROVE Whole(m)'
      <4>1. ASSUME Writing(w, m)', wk'[w].pos = wk[w].pos PROVE Whole(m)'
        <5>1. Covers(w, m)'
          BY <3>1, <3>3, <4>1 DEF Covers
        <5> QED
          BY <2>1, <3>1, <4>1, <5>1 DEF Whole
      <4>2. CASE wk'[w] = wk[w]
        BY <3>3, <4>1, <4>2 DEF Writing
      <4>3. CASE Thread(w)
        <5>1. Sizes(w, m) \/ Ends(w, m)
          BY <2>3, <3>3, <4>3, WriterSteps
        <5>2. CASE Sizes(w, m)
          BY <4>1, <5>2 DEF Sizes, Writing
        <5>3. CASE Ends(w, m)
          <6>1. wk[w].pos >= Len(Body[m]) /\ wk[w].pos \in Nat
            BY <3>3, <5>3 DEF Ends, Writing, Shapes, PoolOK, TaskOK, PutsAt
          <6>2. \A j \in 1..Len(Body[m]) : j <= Len(store[m]) /\ store[m][j] = Body[m][j]
            BY <1>0, <3>3, <6>1 DEF Covers
          <6>3. Len(store[m]) <= Len(Body[m])
            BY <2>1 DEF Whole
          <6>4. Len(store[m]) = Len(Body[m])
            <7>1. CASE Len(Body[m]) = 0
              BY <2>1, <6>3, <7>1
            <7>2. CASE Len(Body[m]) # 0
              <8>1. Len(Body[m]) \in 1..Len(Body[m])
                BY <1>0, <7>2
              <8> QED
                BY <1>0, <2>1, <6>2, <6>3, <8>1
            <7> QED
              BY <7>1, <7>2
          <6>5. store[m] = Body[m]
            BY <1>0, <2>1, <6>2, <6>4, SameSeq
          <6> QED
            BY <3>2, <6>5
        <5> QED
          BY <5>1, <5>2, <5>3
      <4> QED
        BY <4>2, <4>3, WorkerMoves
    <3> QED
      BY <2>1, <3>2, <3>3 DEF Whole
  <2> QED
    BY <2>2, <2>3
<1> QED
  BY <1>2, <1>3

LEMMA ContentsStep ==
    ASSUME Shapes, Senders, Readers, Contents, [Next]_vars
    PROVE  Contents'
<1>1. DOMAIN store' = Md5s
  <2>1. ASSUME NEW w \in Workers, Thread(w) PROVE UNCHANGED store \/ Open(w) \/ RecvContent(w)
    BY <2>1, ThreadFrame
  <2>2. ASSUME NEW w \in Workers, Open(w) \/ RecvContent(w) PROVE DOMAIN store' = Md5s
    BY <2>2 DEF Contents, Open, RecvContent, Write
  <2>3. ASSUME NEW d \in Fds, Serve(d) PROVE UNCHANGED store
    BY <2>3, ServeFrame
  <2>4. ASSUME NEW p \in Procs, User(p) \/ Transfer(p) PROVE UNCHANGED store
    BY <2>4, UserFrame, TransferFrame
  <2>5. ASSUME Accept \/ SetOnline \/ ServerEnds \/ UNCHANGED vars PROVE UNCHANGED store
    BY <2>5 DEF Accept, SetOnline, ServerEnds, vars, poolVars
  <2>6. UNCHANGED store => DOMAIN store' = Md5s
    BY DEF Contents
  <2> QED
    BY <2>1, <2>2, <2>3, <2>4, <2>5, <2>6 DEF Next, EventLoop
<1>2. ASSUME NEW m \in Md5s, Filed(m)' PROVE IsSeq(store'[m])
  <2>1. ASSUME NEW w \in Workers, Opens(w, m) PROVE IsSeq(store'[m])
    <3>1. store'[m] = << >>
      BY <2>1 DEF Opens, Open, Stores
    <3> QED
      BY <3>1, Pair
  <2>2. CASE Filed(m)
    <3>1. IsSeq(store[m])
      BY <2>2 DEF Contents, Stored1
    <3>2. ASSUME NEW w \in Workers, Fill(w, m) PROVE IsSeq(store'[m])
      <4>1. wk[w].at = "content"
        BY <3>2 DEF Fill, RecvContent
      <4>2. wk[w].pos \in Nat
        BY <4>1 DEF Shapes, PoolOK, TaskOK, PutsAt
      <4> QED
        BY <3>1, <3>2, <4>2, WrittenIs DEF Fill
    <3> QED
      BY <2>1, <3>1, <3>2, StoreStep DEF Contents
  <2> QED
    BY <1>2, <2>1, <2>2, FiledBefore
<1>3. ASSUME NEW m \in Md5s, Filed(m)', m \notin cut', ~ \E w \in Workers : Short(w, m)'
      PROVE  Whole(m)'
  BY <1>3, WholeStep
<1>4. (\A m \in Md5s : Stored1(m))'
  <2> SUFFICES ASSUME NEW m \in Md5s PROVE Stored1(m)'
    OBVIOUS
  <2> QED
    BY <1>2, <1>3 DEF Stored1
<1> QED
  BY <1>1, <1>4 DEF Contents

FilesIndeed == SessionsIndeed /\ Senders /\ Readers /\ Contents

LEMMA FilesInit == ASSUME Init PROVE FilesIndeed
<1> USE DEF Init
<1>1. SessionsIndeed
  BY SessionsInit
<1>2. Senders
  <2> SUFFICES ASSUME NEW p \in Procs PROVE Sender(p) /\ Spoken(p)
    BY DEF Senders
  <2>1. xf[p].at = "none" /\ xf[p].type = "none" /\ up[Xfer(p)] = << >> /\ up[Main(p)] = << >>
    BY DEF Xfer, Main, Conns
  <2> QED
    BY <2>1 DEF Sender, Spoken
<1>3. \A w \in Workers : wk[w].at = "idle" /\ wk[w].md5 = NULL
  BY DEF Idle
<1>4. Readers
  BY <1>3 DEF Readers, Reader, Uploading, Writing
<1>5. Contents
  <2>1. \A m \in Md5s : ~ Filed(m)
    BY <1>3, ValuesAssumption DEF Filed
  <2> QED
    BY <2>1 DEF Contents, Stored1
<1> QED
  BY <1>1, <1>2, <1>4, <1>5 DEF FilesIndeed

LEMMA FilesStep == ASSUME FilesIndeed, [Next]_vars PROVE FilesIndeed'
<1>1. Shapes
  BY DEF FilesIndeed, SessionsIndeed
<1>2. SessionsIndeed'
  BY SessionsStep DEF FilesIndeed
<1>3. Senders'
  BY <1>1, SendersStep DEF FilesIndeed, Senders, Stream
<1>4. Readers'
  BY <1>1, ReadersStep DEF FilesIndeed
<1>5. Contents'
  BY <1>1, ContentsStep DEF FilesIndeed
<1> QED
  BY <1>2, <1>3, <1>4, <1>5 DEF FilesIndeed

LEMMA FilesMean == ASSUME FilesIndeed PROVE FilesInv
<1>1. OwnedTree
  BY SessionsMean DEF FilesIndeed
<1>2. ASSUME NEW m \in Md5s \ cut, NEW r \in files, r.md5 = m, ~ \E w \in Workers : Writing(w, m)
      PROVE  store[m] = Body[m]
  <2>1. Filed(m) /\ ~ \E w \in Workers : Short(w, m)
    BY <1>2 DEF Filed, Short
  <2>2. Whole(m)
    BY <1>2, <2>1 DEF FilesIndeed, Contents, Stored1
  <2> QED
    BY <1>2, <2>2 DEF Whole
<1> QED
  BY <1>1, <1>2 DEF FilesInv, RowHasContent

\* Every row of a content has it in the storage when no upload of it is going on, and a
\* directory below the root has its content's owner, unless transfers lost their connection:
\* what recv_file, mysql_puts and event_loop keep up between them.
THEOREM FilesHold == Spec => []FilesInv
<1>1. Init => FilesIndeed
  BY FilesInit
<1>2. FilesIndeed /\ [Next]_vars => FilesIndeed'
  BY FilesStep
<1>3. FilesIndeed => FilesInv
  BY FilesMean
<1> QED
  BY <1>1, <1>2, <1>3, PTL DEF Spec

-----------------------------------------------------------------------------
(* The inductive invariant: downloads *)

\* Only a transfer connection carries puts and gets, and what recv_file waits for comes
\* right after puts.
Bare(s) == \A i \in 1..Len(s) : s[i].k = "cmd" => s[i].v \notin {"puts", "gets"}
Orders(s, c, at) ==
    \A i \in 1..Len(s) :
       /\ s[i].k # "zero"
       /\ s[i].k = "cmd" =>
             /\ s[i].v = c
             /\ c = "puts" => IF i < Len(s) THEN s[i + 1].k = "md5" ELSE at = "start"

\* What a gets with the local copy d says, by the number of words from there on.
Asked(d) == IF d = <<>> THEN 1 ELSE 2
GetsWord(d, x, r) ==
    /\ r \in 1..(Asked(d) + 2)
    /\ r = Asked(d) + 2 => x.k = "token"
    /\ r = Asked(d) + 1 => x.k = "cmd"
    /\ r = Asked(d) => x.k = "have" /\ (x.v = 0 <=> Asked(d) = 1)
    /\ r < Asked(d) => x.k = "md5" /\ x.v = d
GetsWords(p) ==
    xf[p].type = "gets" /\ xf[p].at \in {"start", "check", "length"} =>
       \A i \in 1..Len(up[Xfer(p)]) : GetsWord(disk[p], up[Xfer(p)][i], Rest(p) - i + 1)
Local(p)  == IsSeq(disk[p]) /\ xf[p].pos \in Nat
Spelt(p)  == /\ Local(p) /\ GetsWords(p)
             /\ Bare(up[Main(p)]) /\ Orders(up[Xfer(p)], xf[p].type, xf[p].at)
Spelling  == \A p \in Procs : Spelt(p)

\* A row has a content or is a directory's, and no content that has a row is written.
Contained == Md5s \cup {NoFile}
Rows == /\ \A r \in files : r.md5 \in Md5s \/ (r.md5 = NoFile /\ r.type = "d")
        /\ \A r \in files : r.md5 \in Md5s => ~ \E w \in Workers : Writing(w, r.md5)
        /\ \A w \in Workers : wk[w].at \in PutsAt \ {"md5"} => wk[w].md5 \in Md5s
Settled(m) == \E r \in files : r.md5 = m /\ (m \in Md5s \/ (r.type = "d" /\ r.name = File))
Content(m) == IF m \in Md5s THEN Body[m] ELSE <<>>

\* Nobody has answered the client p yet.
Fresh(p) == /\ down[Xfer(p)] = <<>> /\ xf[p].pos = 0
            /\ \/ xf[p].at = "start"
               \/ xf[p].at = "check" /\ disk[p] # <<>>
               \/ xf[p].at = "length" /\ disk[p] = <<>>

\* What is under way to p is the rest of B: the answers, the offset, the buffers.
Answers(p) == CASE xf[p].at = "check" -> 2 [] xf[p].at = "length" -> 1 [] OTHER -> 0
Offset(p)  == IF xf[p].at # "check" THEN xf[p].pos
              ELSE IF down[Xfer(p)][1].v THEN Len(disk[p]) ELSE 0
Follows(p, B) ==
    LET s == down[Xfer(p)]
        h == Answers(p)
        c == Offset(p)
    IN /\ xf[p].at \in {"check", "length", "receiving"}
       /\ xf[p].at = "check" => Len(s) >= 1 /\ s[1].k = "check" /\ s[1].v \in BOOLEAN
       /\ xf[p].at = "receiving" => xf[p].len = Len(B)
       /\ h > 0 /\ h <= Len(s) => s[h].k = "length" /\ s[h].v = Len(B)
       /\ c \in 0..Len(B) /\ c <= Len(disk[p]) /\ \A j \in 1..c : disk[p][j] = B[j]
       /\ \A i \in (h + 1)..Len(s) : s[i].k = "buf" /\ c + i - h \in 1..Len(B) /\ s[i].v = B[c + i - h]
\* A big file is to be resumed inside a page.
Stuck(p) == xf[p].at \in {"unmapped", "over"} /\ Unmapped(xf[p].pos, xf[p].len)
Complete(p, m) == Settled(m) /\ SubSeq(disk[p], 1, xf[p].len) = Content(m) /\ xf[p].len = Len(Content(m))
Getting(p) ==
    /\ xf[p].type = "none" => down[Xfer(p)] = <<>>
    /\ xf[p].type = "gets" =>
          \/ Fresh(p)
          \/ Rest(p) = 0 /\ \E m \in Contained : Settled(m) /\ Follows(p, Content(m))
          \/ Rest(p) = 0 /\ xf[p].at = "over" /\ \E m \in Contained : Complete(p, m)
          \/ Rest(p) = 0 /\ Stuck(p)

\* How far the server is with the transfer of p.
FirstPut(p) == IF up[Xfer(p)] = <<>> THEN xf[p].at = "start" ELSE up[Xfer(p)][1].k = "md5"
FirstGet(p) == Fresh(p) /\ Rest(p) = Asked(disk[p])
Asks(p, c)  == xf[p].type = c /\ IF c = "puts" THEN FirstPut(p) ELSE FirstGet(p)
Served(d, c) == \E p \in Procs : sock[d] = Xfer(p) /\ Asks(p, c)
Sends(w, p) ==
    /\ Rest(p) = 0 /\ wk[w].pos \in Nat
    /\ Alive(p) /\ xf[p].at # "over" =>
          /\ Follows(p, Content(wk[w].md5))
          /\ IF wk[w].at = "length" THEN wk[w].pos = Offset(p) /\ Len(down[Xfer(p)]) + 1 = Answers(p)
             ELSE /\ wk[w].pos >= Offset(p) /\ Len(down[Xfer(p)]) = Answers(p) + wk[w].pos - Offset(p)
                  /\ xf[p].at # "receiving" => ~ Unmapped(Offset(p), Len(Content(wk[w].md5)))
Works(w, p) ==
    /\ wk[w].at \in PutsAt => xf[p].type = "puts"
    /\ wk[w].at = "md5" => FirstPut(p)
    /\ wk[w].at \in GetsAt => xf[p].type = "gets"
    /\ wk[w].at \in {"find", "row", "have"} => wk[w].pos = 0 /\ FirstGet(p)
    /\ wk[w].at = "check" => wk[w].pos = 0 /\ Fresh(p) /\ Rest(p) = 1 /\ Asked(disk[p]) = 2
    /\ wk[w].at \in {"have", "check", "length", "send"} => wk[w].md5 \in Contained /\ Settled(wk[w].md5)
    /\ wk[w].at \in {"length", "send"} => Sends(w, p)
Tasking == /\ \A i \in 1..Len(que) : Served(que[i].fd, que[i].type)
           /\ \A w \in Workers : wk[w].at \in PutsAt \cup GetsAt =>
                 \E p \in Procs : sock[wk[w].fd] = Xfer(p) /\ Works(w, p)
Downloads == cut = {} /\ twice = {} => Rows /\ Tasking /\ \A p \in Procs : Getting(p)
\* Words that are joined to others, and what is left when the first are taken.
LEMMA BareKept ==
    ASSUME NEW s, IsSeq(s), Bare(s)
    PROVE  /\ \A t : IsSeq(t) /\ Bare(t) => Bare(s \o t)
           /\ \A n \in Nat : n <= Len(s) => Bare(SubSeq(s, n + 1, Len(s)))
<1>1. ASSUME NEW t, IsSeq(t), Bare(t) PROVE Bare(s \o t)
  <2> DEFINE u == s \o t
  <2>1. /\ Len(u) = Len(s) + Len(t) /\ Len(s) \in Nat /\ Len(t) \in Nat
        /\ \A i \in 1..(Len(s) + Len(t)) : u[i] = IF i <= Len(s) THEN s[i] ELSE t[i - Len(s)]
    BY <1>1, Joined
  <2> HIDE DEF u
  <2>2. \A i \in 1..Len(u) : (i \in 1..Len(s) /\ u[i] = s[i]) \/ (i - Len(s) \in 1..Len(t) /\ u[i] = t[i - Len(s)])
    BY <2>1
  <2>3. Bare(u)
    BY <1>1, <2>2 DEF Bare
  <2> QED
    BY <2>3 DEF u
<1>2. ASSUME NEW n \in Nat, n <= Len(s) PROVE Bare(SubSeq(s, n + 1, Len(s)))
  <2> DEFINE u == SubSeq(s, n + 1, Len(s))
  <2>1. Len(u) = Len(s) - n /\ Len(s) \in Nat /\ \A i \in 1..(Len(s) - n) : u[i] = s[i + n]
    BY <1>2, Dropped
  <2> HIDE DEF u
  <2>2. \A i \in 1..Len(u) : i + n \in 1..Len(s) /\ u[i] = s[i + n]
    BY <1>2, <2>1
  <2>3. Bare(u)
    BY <2>2 DEF Bare
  <2> QED
    BY <2>3 DEF u
<1> QED
  BY <1>1, <1>2

LEMMA OrdersJoined ==
    ASSUME NEW s, IsSeq(s), NEW c, NEW at, Orders(s, c, at), NEW t, IsSeq(t), NEW after,
           \A i \in 1..Len(t) : t[i].k \notin {"zero", "cmd"},
           c = "puts" /\ at = "start" => Len(t) >= 1 /\ t[1].k = "md5"
    PROVE  Orders(s \o t, c, after)
<1> DEFINE u == s \o t
<1>1. /\ Len(u) = Len(s) + Len(t) /\ Len(s) \in Nat /\ Len(t) \in Nat
      /\ \A i \in 1..(Len(s) + Len(t)) : u[i] = IF i <= Len(s) THEN s[i] ELSE t[i - Len(s)]
  BY Joined
<1> HIDE DEF u
<1>2. ASSUME NEW i \in 1..Len(u)
      PROVE  /\ u[i].k # "zero"
             /\ u[i].k = "cmd" =>
                   /\ u[i].v = c
                   /\ c = "puts" => IF i < Len(u) THEN u[i + 1].k = "md5" ELSE after = "start"
  <2>1. CASE i < Len(s)
    <3>1. i \in 1..Len(s) /\ i + 1 \in 1..Len(s) /\ u[i] = s[i] /\ u[i + 1] = s[i + 1] /\ i < Len(u)
      BY <1>1, <2>1
    <3> QED
      BY <2>1, <3>1 DEF Orders
  <2>2. CASE i = Len(s)
    <3>1. i \in 1..Len(s) /\ u[i] = s[i] /\ ~ (i < Len(s)) /\ (Len(t) >= 1 => i < Len(u) /\ u[i + 1] = t[1])
      BY <1>1, <2>2
    <3> QED
      BY <3>1 DEF Orders
  <2>3. CASE i > Len(s)
    <3>1. i - Len(s) \in 1..Len(t) /\ u[i] = t[i - Len(s)]
      BY <1>1, <2>3
    <3> QED
      BY <3>1
  <2> QED
    BY <1>1, <2>1, <2>2, <2>3
<1>3. Orders(u, c, after)
  BY <1>2 DEF Orders
<1> QED
  BY <1>3 DEF u

LEMMA OrdersDropped ==
    ASSUME NEW s, IsSeq(s), NEW c, NEW at, Orders(s, c, at), NEW n \in Nat, n <= Len(s)
    PROVE  Orders(SubSeq(s, n + 1, Len(s)), c, at)
<1> DEFINE u == SubSeq(s, n + 1, Len(s))
<1>1. Len(u) = Len(s) - n /\ Len(s) \in Nat /\ \A i \in 1..(Len(s) - n) : u[i] = s[i + n]
  BY Dropped
<1> HIDE DEF u
<1>2. ASSUME NEW i \in 1..Len(u)
      PROVE  /\ i + n \in 1..Len(s) /\ u[i] = s[i + n]
             /\ i < Len(u) <=> i + n < Len(s)
             /\ i < Len(u) => u[i + 1] = s[i + n + 1]
  BY <1>1, <1>2
<1>3. \A i \in 1..Len(s) :
        /\ s[i].k # "zero"
        /\ s[i].k = "cmd" =>
              /\ s[i].v = c
              /\ c = "puts" => IF i < Len(s) THEN s[i + 1].k = "md5" ELSE at = "start"
  BY DEF Orders
<1>4. ASSUME NEW i \in 1..Len(u)
      PROVE  /\ u[i].k # "zero"
             /\ u[i].k = "cmd" =>
                   /\ u[i].v = c
                   /\ c = "puts" => IF i < Len(u) THEN u[i + 1].k = "md5" ELSE at = "start"
  BY <1>2, <1>3
<1>5. Orders(u, c, at)
  BY <1>4 DEF Orders
<1> QED
  BY <1>5 DEF u

\* Words that go and words that come keep their distance from the last one.
LEMMA GetsTaken ==
    ASSUME Shapes, NEW p \in Procs, Sender(p), GetsWords(p), xf'[p] = xf[p], disk'[p] = disk[p],
           NEW n \in Nat, n <= Len(up[Xfer(p)]),
           up'[Xfer(p)] = SubSeq(up[Xfer(p)], n + 1, Len(up[Xfer(p)]))
    PROVE  GetsWords(p)'
<1> DEFINE s == up[Xfer(p)]
           t == up'[Xfer(p)]
<1>0. IsSeq(s) /\ Rest(p)' = Rest(p) - n /\ Rest(p) \in Nat
  BY WordsIs, StreamTaken, RestIs DEF Xfer, Conns
<1>1. Len(t) = Len(s) - n /\ Len(s) \in Nat /\ \A i \in 1..(Len(s) - n) : t[i] = s[i + n]
  BY <1>0, Dropped
<1>2. ASSUME NEW i \in 1..Len(t) PROVE i + n \in 1..Len(s) /\ t[i] = s[i + n] /\ Rest(p)' - i + 1 = Rest(p) - (i + n) + 1
  <2> HIDE DEF s, t
  <2> QED
    BY <1>0, <1>1
<1>3. ASSUME xf[p].type = "gets", xf[p].at \in {"start", "check", "length"}, NEW i \in 1..Len(t)
      PROVE  GetsWord(disk[p], t[i], Rest(p)' - i + 1)
  <2>1. GetsWord(disk[p], s[i + n], Rest(p) - (i + n) + 1)
    BY <1>2, <1>3 DEF GetsWords
  <2> QED
    BY <1>2, <2>1
<1>4. \A d, x, r : GetsWord(d, x, r)' <=> GetsWord(d, x, r)
  BY DEF GetsWord, Asked
<1> HIDE DEF s
<1> QED
  BY <1>3, <1>4 DEF GetsWords

LEMMA GetsGrown ==
    ASSUME Shapes, NEW p \in Procs, Sender(p), GetsWords(p), disk'[p] = disk[p],
           xf[p].type = "gets" /\ xf[p].at \in {"start", "check", "length"},
           NEW ws, IsSeq(ws), up'[Xfer(p)] = up[Xfer(p)] \o ws, Unsent(p)' = 0, Unsent(p) = Len(ws),
           \A i \in 1..Len(ws) : GetsWord(disk[p], ws[i], Len(ws) - i + 1)
    PROVE  GetsWords(p)'
<1> DEFINE s == up[Xfer(p)]
           t == up'[Xfer(p)]
<1>0. IsSeq(s) /\ Rest(p) = Len(s) + Len(ws)
  BY WordsIs DEF Xfer, Conns, Rest
<1>1. /\ Len(t) = Len(s) + Len(ws) /\ Len(s) \in Nat /\ Len(ws) \in Nat
      /\ \A i \in 1..(Len(s) + Len(ws)) : t[i] = IF i <= Len(s) THEN s[i] ELSE ws[i - Len(s)]
  <2>1. /\ Len(s \o ws) = Len(s) + Len(ws) /\ Len(s) \in Nat /\ Len(ws) \in Nat
        /\ \A i \in 1..(Len(s) + Len(ws)) : (s \o ws)[i] = IF i <= Len(s) THEN s[i] ELSE ws[i - Len(s)]
    BY <1>0, Joined
  <2> QED
    BY <2>1
<1>2. Rest(p)' = Len(s) + Len(ws)
  BY <1>1 DEF Rest
<1>3. ASSUME NEW i \in 1..Len(t) PROVE GetsWord(disk[p], t[i], Rest(p)' - i + 1)
  <2>1. CASE i <= Len(s)
    <3>1. i \in 1..Len(s) /\ t[i] = s[i] /\ Rest(p)' - i + 1 = Rest(p) - i + 1
      BY <1>0, <1>1, <1>2, <2>1
    <3>2. GetsWord(disk[p], s[i], Rest(p) - i + 1)
      BY <3>1 DEF GetsWords
    <3> QED
      BY <3>1, <3>2
  <2>2. CASE i > Len(s)
    <3>1. i - Len(s) \in 1..Len(ws) /\ t[i] = ws[i - Len(s)] /\ Rest(p)' - i + 1 = Len(ws) - (i - Len(s)) + 1
      BY <1>1, <1>2, <2>2
    <3> QED
      BY <3>1
  <2> QED
    BY <1>1, <2>1, <2>2
<1>4. \A d, x, r : GetsWord(d, x, r)' <=> GetsWord(d, x, r)
  BY DEF GetsWord, Asked
<1> HIDE DEF s
<1> QED
  BY <1>3, <1>4 DEF GetsWords
\* What others do, and what the server takes.
LEMMA TakenSpelt ==
    ASSUME Shapes, NEW p \in Procs, Sender(p), Spelt(p), xf'[p] = xf[p], disk'[p] = disk[p],
           UNCHANGED up \/ \E k \in Conns : Taken(k)
    PROVE  Spelt(p)'
<1>0. Xfer(p) \in Conns /\ Main(p) \in Conns /\ Xfer(p) # Main(p) /\ DOMAIN up = Conns
  BY DEF Xfer, Main, Conns, Shapes, WordOK
<1>1. Local(p)'
  BY DEF Spelt, Local, IsSeq
<1>2. ASSUME up'[Xfer(p)] = up[Xfer(p)] PROVE Orders(up[Xfer(p)], xf[p].type, xf[p].at)' /\ GetsWords(p)'
  <2>1. Rest(p)' = Rest(p)
    BY <1>2, StreamKept
  <2> QED
    BY <1>2, <2>1 DEF Spelt, Orders, GetsWords, GetsWord, Asked
<1>3. ASSUME up'[Main(p)] = up[Main(p)] PROVE Bare(up[Main(p)])'
  BY <1>3 DEF Spelt, Bare
<1>4. ASSUME NEW k \in Conns, Taken(k) PROVE Spelt(p)'
  <2>1. PICK n \in Nat : n <= Len(up[k]) /\ up' = [up EXCEPT ![k] = SubSeq(@, n + 1, Len(@))]
    BY <1>4 DEF Taken
  <2>2. up'[k] = SubSeq(up[k], n + 1, Len(up[k])) /\ IsSeq(up[k]) /\ \A j \in Conns \ {k} : up'[j] = up[j]
    BY <1>0, <2>1, WordsIs
  <2>3. CASE k = Xfer(p)
    <3>1. GetsWords(p)'
      BY <2>1, <2>2, <2>3, GetsTaken DEF Spelt
    <3>2. Orders(up'[Xfer(p)], xf[p].type, xf[p].at)
      BY <2>1, <2>2, <2>3, OrdersDropped DEF Spelt
    <3>3. Orders(up[Xfer(p)], xf[p].type, xf[p].at)'
      BY <3>2 DEF Orders
    <3> QED
      BY <1>0, <1>1, <1>3, <2>2, <2>3, <3>1, <3>3 DEF Spelt
  <2>4. CASE k # Xfer(p)
    <3>1. Bare(up[Main(p)])'
      <4>1. CASE k = Main(p)
        <5>1. Bare(up'[Main(p)])
          BY <2>1, <2>2, <4>1, BareKept DEF Spelt
        <5> QED
          BY <5>1 DEF Bare
      <4>2. CASE k # Main(p)
        BY <1>0, <1>3, <2>2, <4>2
      <4> QED
        BY <4>1, <4>2
    <3> QED
      BY <1>0, <1>1, <1>2, <2>2, <2>4, <3>1 DEF Spelt
  <2> QED
    BY <2>3, <2>4
<1>5. CASE UNCHANGED up
  BY <1>1, <1>2, <1>3, <1>5 DEF Spelt
<1> QED
  BY <1>4, <1>5

\* What the user types.
LEMMA UserSpelt ==
    ASSUME Shapes, NEW p \in Procs, Sender(p), Spelt(p), NEW q \in Procs, User(q)
    PROVE  Spelt(p)'
<1>0. /\ Xfer(p) \in Conns /\ Main(p) \in Conns /\ DOMAIN up = Conns /\ DOMAIN xf = Procs
      /\ Xfer(p) # Main(q) /\ (p # q => Xfer(p) # Xfer(q)) /\ Main(p) # Xfer(q)
      /\ UNCHANGED disk /\ Main(q) \in Conns /\ Xfer(q) \in Conns
  BY UserFrame DEF Xfer, Main, Conns, Shapes, WordOK, ClientOK
<1>1. ASSUME UNCHANGED xf, NEW ws, IsSeq(ws), Bare(ws), up' = Put(up, Main(q), ws) PROVE Spelt(p)'
  <2>1. up'[Xfer(p)] = up[Xfer(p)]
    BY <1>0, <1>1 DEF Put
  <2>2. Rest(p)' = Rest(p)
    BY <1>0, <1>1, <2>1, StreamKept
  <2>3. Local(p)' /\ Orders(up[Xfer(p)], xf[p].type, xf[p].at)' /\ GetsWords(p)'
    BY <1>0, <1>1, <2>1, <2>2 DEF Spelt, Local, IsSeq, Orders, GetsWords, GetsWord, Asked
  <2>4. Bare(up'[Main(p)])
    <3>1. CASE p = q
      <4>1. up'[Main(p)] = up[Main(p)] \o ws /\ IsSeq(up[Main(p)])
        BY <1>0, <1>1, <3>1, WordsIs DEF Put
      <4> QED
        BY <1>1, <4>1, BareKept DEF Spelt
    <3>2. CASE p # q
      <4>1. up'[Main(p)] = up[Main(p)]
        BY <1>0, <1>1, <3>2 DEF Put, Main
      <4> QED
        BY <4>1 DEF Spelt
    <3> QED
      BY <3>1, <3>2
  <2>5. Bare(up[Main(p)])'
    BY <2>4 DEF Bare
  <2> QED
    BY <2>3, <2>5 DEF Spelt
<1>2. CASE TypeLogin(q)
  <2>1. PICK v \in {"right", "wrong"} : up' = Put(up, Main(q), <<W("zero", 0), W("cred", v)>>) /\ UNCHANGED xf
    BY <1>2 DEF TypeLogin
  <2> DEFINE ws == <<W("zero", 0), W("cred", v)>>
  <2>2. IsSeq(ws) /\ Len(ws) = 2 /\ ws[1] = W("zero", 0) /\ ws[2] = W("cred", v)
    BY Pair
  <2>3. up' = Put(up, Main(q), ws)
    BY <2>1
  <2> HIDE DEF ws
  <2>4. \A i \in 1..2 : i = 1 \/ i = 2
    OBVIOUS
  <2>5. Bare(ws)
    BY <2>2, <2>4 DEF Bare, W
  <2> QED
    BY <1>1, <2>1, <2>2, <2>3, <2>5
<1>3. ASSUME NEW c \in {"cd", "ls", "mkdir", "rm"}, NEW m \in Names, TypeCommand(q, c, m)
      PROVE  Spelt(p)'
  <2> DEFINE x == Cmd(c, m)
  <2>1. up' = Put(up, Main(q), <<x>>) /\ UNCHANGED xf
    BY <1>3 DEF TypeCommand
  <2>2. IsSeq(<<x>>) /\ Len(<<x>>) = 1 /\ <<x>>[1] = x /\ x.v = c
    BY Pair DEF Cmd
  <2> HIDE DEF x
  <2>3. Bare(<<x>>)
    BY <2>2 DEF Bare
  <2> QED
    BY <1>1, <2>1, <2>2, <2>3
<1>4. ASSUME NEW c \in {"puts", "gets"}, SendToken(q, c) PROVE Spelt(p)'
  <2> DEFINE ws == <<W("token", cl[q].token), Cmd(c, File)>>
  <2>1. /\ up' = Put(up, Xfer(q), ws) /\ xf[q].at = "none"
        /\ xf' = [xf EXCEPT ![q] = [at |-> "start", type |-> c, len |-> 0, pos |-> 0]]
    BY <1>4 DEF SendToken
  <2>2. IsSeq(ws) /\ Len(ws) = 2 /\ ws[1] = W("token", cl[q].token) /\ ws[2] = Cmd(c, File)
    BY Pair
  <2>z. ws[1].k = "token" /\ ws[2].k = "cmd" /\ ws[2].v = c
    BY <2>2 DEF W, Cmd
  <2> HIDE DEF ws
  <2>3. Bare(up[Main(p)])'
    <3>1. up'[Main(p)] = up[Main(p)]
      BY <1>0, <2>1 DEF Put
    <3> QED
      BY <3>1 DEF Spelt, Bare
  <2>4. CASE p # q
    <3>1. up'[Xfer(p)] = up[Xfer(p)] /\ xf'[p] = xf[p]
      BY <1>0, <2>1, <2>4 DEF Put
    <3>2. Rest(p)' = Rest(p)
      BY <1>0, <3>1, StreamKept
    <3>3. Local(p)' /\ Orders(up[Xfer(p)], xf[p].type, xf[p].at)' /\ GetsWords(p)'
      BY <1>0, <3>1, <3>2 DEF Spelt, Local, IsSeq, Orders, GetsWords, GetsWord, Asked
    <3> QED
      BY <2>3, <3>3 DEF Spelt
  <2>5. CASE p = q
    <3>1. up[Xfer(p)] = << >>
      BY <2>1, <2>5 DEF Sender
    <3>2. ws \in Seq({ws[i] : i \in 1..Len(ws)})
      BY <2>2, IsSeqIn
    <3>3. << >> \o ws = ws
      BY <3>2
    <3>4. up'[Xfer(p)] = ws
      BY <1>0, <2>1, <2>5, <3>1, <3>3 DEF Put
    <3>5. xf'[p].at = "start" /\ xf'[p].type = c /\ xf'[p].pos = 0 /\ disk'[p] = disk[p]
      BY <1>0, <2>1, <2>5
    <3>6. \A i \in 1..2 : i = 1 \/ i = 2
      OBVIOUS
    <3>7. Orders(up[Xfer(p)], xf[p].type, xf[p].at)'
      <4>1. ASSUME NEW i \in 1..2
            PROVE  /\ ws[i].k # "zero"
                   /\ ws[i].k = "cmd" => i = 2 /\ ws[i].v = c
        BY <2>z, <3>6
      <4>2. Orders(ws, c, "start")
        BY <2>2, <4>1 DEF Orders
      <4> QED
        BY <3>4, <3>5, <4>2 DEF Orders
    <3>8. GetsWords(p)'
      <4> SUFFICES ASSUME c = "gets" PROVE GetsWords(p)'
        BY <3>5 DEF GetsWords
      <4>1. Rest(p)' = Asked(disk[p]) + 2 /\ Asked(disk[p]) \in {1, 2}
        <5>1. Unsent(p)' = Asked(disk[p]) /\ Asked(disk[p]) \in {1, 2}
          BY <3>5 DEF Unsent, Asked
        <5>2. Len(up[Xfer(p)])' = 2
          BY <2>2, <3>4
        <5>3. Rest(p)' = 2 + Unsent(p)'
          BY <5>2 DEF Rest
        <5> QED
          BY <5>1, <5>3
      <4>2. \A d, x, r : GetsWord(d, x, r)' <=> GetsWord(d, x, r)
        BY DEF GetsWord, Asked
      <4>3. GetsWord(disk[p], ws[1], Asked(disk[p]) + 2) /\ GetsWord(disk[p], ws[2], Asked(disk[p]) + 1)
        BY <2>z, <4>1 DEF GetsWord
      <4>4. ASSUME NEW i \in 1..2 PROVE GetsWord(disk[p], ws[i], Rest(p)' - i + 1)
        <5>1. CASE i = 1
          <6>1. Rest(p)' - i + 1 = Asked(disk[p]) + 2
            BY <4>1, <5>1
          <6> QED
            BY <4>3, <5>1, <6>1
        <5>2. CASE i = 2
          <6>1. Rest(p)' - i + 1 = Asked(disk[p]) + 1
            BY <4>1, <5>2
          <6> QED
            BY <4>3, <5>2, <6>1
        <5> QED
          BY <3>6, <5>1, <5>2
      <4> QED
        BY <2>2, <3>4, <3>5, <4>2, <4>4 DEF GetsWords
    <3>9. Local(p)'
      BY <3>5 DEF Spelt, Local, IsSeq
    <3> QED
      BY <2>3, <3>7, <3>8, <3>9 DEF Spelt
  <2> QED
    BY <2>4, <2>5
<1>5. ASSUME UNCHANGED <<up, xf>> PROVE Spelt(p)'
  BY <1>0, <1>5, TakenSpelt
<1> QED
  BY <1>2, <1>3, <1>4, <1>5, UserFrame
\* What the transfer thread sends.
LEMMA TransferSpelt ==
    ASSUME Shapes, NEW p \in Procs, Sender(p), Spelt(p), Transfer(p)
    PROVE  Spelt(p)'
<1> DEFINE s == up[Xfer(p)]
<1>0. /\ DOMAIN xf = Procs /\ DOMAIN xf[p] = {"at", "type", "len", "pos"} /\ DOMAIN disk = Procs
      /\ Xfer(p) \in Conns /\ Main(p) \in Conns /\ Xfer(p) # Main(p) /\ DOMAIN up = Conns /\ Size(p) \in Nat
      /\ Len(Body[Md5[p]]) = Size(p) /\ IsSeq(s) /\ Orders(s, xf[p].type, xf[p].at)
      /\ IsSeq(disk[p]) /\ Len(disk[p]) \in Nat /\ xf[p].pos \in Nat
  BY UnsentIs, WordsIs DEF Shapes, ClientOK, WordOK, Xfer, Main, Conns, Size, Spelt, Local, IsSeq
<1>1. Bare(up[Main(p)])'
  <2>1. up'[Main(p)] = up[Main(p)]
    <3>1. UNCHANGED up \/ \E ws : up' = Put(up, Xfer(p), ws)
      BY TransferSends DEF Sent
    <3> QED
      BY <1>0, <3>1 DEF Put
  <2> QED
    BY <2>1 DEF Spelt, Bare
<1>2. ASSUME xf[p].type = "puts", xf'[p].type = "puts", xf'[p].pos \in Nat, disk'[p] = disk[p],
             NEW x, x.k \notin {"zero", "cmd"}, up'[Xfer(p)] = s \o <<x>>,
             xf[p].at = "start" => x.k = "md5"
      PROVE  Spelt(p)'
  <2>1. IsSeq(<<x>>) /\ Len(<<x>>) = 1 /\ <<x>>[1] = x
    BY Pair
  <2> HIDE DEF s
  <2>2. Orders(up'[Xfer(p)], "puts", xf'[p].at)
    BY <1>0, <1>2, <2>1, OrdersJoined
  <2>3. Orders(up[Xfer(p)], xf[p].type, xf[p].at)'
    BY <1>2, <2>2 DEF Orders
  <2>4. Local(p)' /\ GetsWords(p)'
    BY <1>0, <1>2 DEF Local, IsSeq, GetsWords
  <2> QED
    BY <1>1, <2>3, <2>4 DEF Spelt
<1>3. ASSUME xf[p].at # "start", UNCHANGED up, xf'[p].type = xf[p].type, xf'[p].pos \in Nat,
             IsSeq(disk'[p]),
             xf[p].type = "gets" => /\ xf[p].at \in {"check", "length", "unmapped", "receiving"}
                                    /\ xf'[p].at \in {"unmapped", "receiving", "over"}
                                       \/ (xf'[p].at = "length" /\ xf[p].at = "check" /\ disk'[p] = disk[p])
      PROVE  Spelt(p)'
  <2>1. Orders(s, xf[p].type, xf'[p].at)
    <3>1. IsSeq(<< >>) /\ Len(<< >>) = 0
      BY Pair
    <3>2. s \o << >> = s
      <4>1. s \in Seq({s[i] : i \in 1..Len(s)})
        BY <1>0, IsSeqIn
      <4> HIDE DEF s
      <4> QED
        BY <4>1
    <3> HIDE DEF s
    <3>3. PICK e : e = << >>
      OBVIOUS
    <3>4. \A i \in 1..Len(e) : e[i].k \notin {"zero", "cmd"}
      BY <3>1, <3>3
    <3>5. Orders(s \o e, xf[p].type, xf'[p].at)
      BY <1>0, <1>3, <3>1, <3>3, <3>4, OrdersJoined
    <3> QED
      BY <3>2, <3>3, <3>5
  <2>2. Orders(up[Xfer(p)], xf[p].type, xf[p].at)'
    BY <1>3, <2>1 DEF Orders
  <2>3. Local(p)'
    BY <1>3 DEF Local, IsSeq
  <2>4. GetsWords(p)'
    <3>1. CASE xf'[p].type = "gets" /\ xf'[p].at = "length" /\ xf[p].at = "check" /\ disk'[p] = disk[p]
      <4>1. xf[p].type = "gets" /\ Unsent(p) = 0 /\ Unsent(p)' = 0
        BY <1>3, <3>1 DEF Unsent
      <4>2. Rest(p)' = Rest(p)
        BY <1>3, <4>1 DEF Rest
      <4>3. \A d, x, r : GetsWord(d, x, r)' <=> GetsWord(d, x, r)
        BY DEF GetsWord, Asked
      <4> QED
        BY <1>3, <3>1, <4>1, <4>2, <4>3 DEF Spelt, GetsWords
    <3>2. CASE ~ (xf'[p].type = "gets" /\ xf'[p].at = "length" /\ xf[p].at = "check" /\ disk'[p] = disk[p])
      BY <1>3, <3>2 DEF GetsWords
    <3> QED
      BY <3>1, <3>2
  <2> QED
    BY <1>1, <2>2, <2>3, <2>4 DEF Spelt
<1>4. CASE SendMd5(p)
  <2> DEFINE x == W("md5", Md5[p])
  <2>1. /\ xf[p].type = "puts" /\ xf' = [xf EXCEPT ![p].at = "fast"] /\ UNCHANGED disk
        /\ up' = Put(up, Xfer(p), <<x>>)
    BY <1>4 DEF SendMd5
  <2>2. x.k = "md5"
    BY DEF W
  <2> HIDE DEF x
  <2>3. up'[Xfer(p)] = s \o <<x>> /\ xf'[p].type = "puts" /\ xf'[p].pos = xf[p].pos
    BY <1>0, <2>1 DEF Put
  <2> QED
    BY <1>0, <1>2, <2>1, <2>2, <2>3
<1>5. CASE SendContent(p)
  <2> DEFINE x == W("size", Len(Body[Md5[p]]))
  <2>1. /\ xf[p].at = "fast" /\ UNCHANGED disk
        /\ \/ xf' = [xf EXCEPT ![p].at = "over"] /\ UNCHANGED up
           \/ /\ xf' = [xf EXCEPT ![p].at = "sending", ![p].pos = 0]
              /\ up' = Put(up, Xfer(p), <<x>>)
    BY <1>5 DEF SendContent
  <2>2. x.k = "size"
    BY DEF W
  <2> HIDE DEF x
  <2>3. xf[p].type = "puts"
    BY <2>1 DEF Sender
  <2>4. CASE xf' = [xf EXCEPT ![p].at = "over"] /\ UNCHANGED up
    <3>1. xf'[p].type = "puts" /\ xf'[p].pos = xf[p].pos
      BY <1>0, <2>3, <2>4
    <3> QED
      BY <1>0, <1>3, <2>1, <2>3, <2>4, <3>1
  <2>5. CASE /\ xf' = [xf EXCEPT ![p].at = "sending", ![p].pos = 0]
             /\ up' = Put(up, Xfer(p), <<x>>)
    <3>1. xf'[p].type = "puts" /\ xf'[p].pos = 0 /\ up'[Xfer(p)] = s \o <<x>>
      BY <1>0, <2>3, <2>5 DEF Put
    <3> QED
      BY <1>0, <1>2, <2>1, <2>2, <2>3, <3>1
  <2> QED
    BY <2>1, <2>4, <2>5
<1>6. CASE SendBuffer(p)
  <2> DEFINE x == W("buf", Body[Md5[p]][xf[p].pos + 1])
  <2>1. /\ xf[p].at = "sending" /\ UNCHANGED disk
        /\ \/ xf' = [xf EXCEPT ![p].at = "over"] /\ UNCHANGED up
           \/ /\ xf' = [xf EXCEPT ![p].pos = xf[p].pos + 1]
              /\ up' = Put(up, Xfer(p), <<x>>)
    BY <1>6 DEF SendBuffer
  <2>2. x.k = "buf"
    BY DEF W
  <2> HIDE DEF x
  <2>3. xf[p].type = "puts"
    BY <2>1 DEF Sender
  <2>4. CASE xf' = [xf EXCEPT ![p].at = "over"] /\ UNCHANGED up
    <3>1. xf'[p].type = "puts" /\ xf'[p].pos = xf[p].pos
      BY <1>0, <2>3, <2>4
    <3> QED
      BY <1>0, <1>3, <2>1, <2>3, <2>4, <3>1
  <2>5. CASE /\ xf' = [xf EXCEPT ![p].pos = xf[p].pos + 1]
             /\ up' = Put(up, Xfer(p), <<x>>)
    <3>1. xf'[p].type = "puts" /\ xf'[p].pos \in Nat /\ up'[Xfer(p)] = s \o <<x>>
      BY <1>0, <2>3, <2>5 DEF Put
    <3> QED
      BY <1>0, <1>2, <2>1, <2>2, <2>3, <3>1
  <2> QED
    BY <2>1, <2>4, <2>5
<1>7. CASE SendLocal(p)
  <2> DEFINE x == W("have", Len(disk[p]))
             y == W("md5", disk[p])
             z == W("have", 0)
  <2>1. /\ xf[p].type = "gets" /\ xf[p].at = "start" /\ UNCHANGED disk
        /\ up' = Put(up, Xfer(p), IF disk[p] = << >> THEN <<z>> ELSE <<x, y>>)
        /\ xf' = [xf EXCEPT ![p].at = IF disk[p] = << >> THEN "length" ELSE "check"]
    BY <1>7 DEF SendLocal
  <2>2. ASSUME NEW ws, IsSeq(ws), up'[Xfer(p)] = s \o ws, xf'[p].at \in {"length", "check"},
               xf'[p].type = "gets", xf'[p].pos = xf[p].pos, Len(ws) = Asked(disk[p]),
               \A i \in 1..Len(ws) : ws[i].k \notin {"zero", "cmd"},
               \A i \in 1..Len(ws) : GetsWord(disk[p], ws[i], Len(ws) - i + 1)
        PROVE  Spelt(p)'
    <3>1. Unsent(p)' = 0 /\ Unsent(p) = Len(ws)
      BY <2>1, <2>2 DEF Unsent, Asked
    <3>2. GetsWords(p)
      BY DEF Spelt
    <3> HIDE DEF s
    <3>3. GetsWords(p)'
      BY <1>0, <2>1, <2>2, <3>1, <3>2, GetsGrown DEF s
    <3>4. Orders(s \o ws, "gets", xf'[p].at)
      BY <1>0, <2>1, <2>2, OrdersJoined
    <3>5. Orders(up[Xfer(p)], xf[p].type, xf[p].at)'
      BY <2>2, <3>4 DEF Orders
    <3>6. Local(p)'
      BY <1>0, <2>1, <2>2 DEF Local, IsSeq
    <3> QED
      BY <1>1, <3>3, <3>5, <3>6 DEF Spelt
  <2>3. CASE disk[p] = << >>
    <3>1. xf'[p].type = "gets" /\ xf'[p].at = "length" /\ up'[Xfer(p)] = s \o <<z>> /\ xf'[p].pos = xf[p].pos
      BY <1>0, <2>1, <2>3 DEF Put
    <3>2. IsSeq(<<z>>) /\ Len(<<z>>) = 1 /\ <<z>>[1] = z /\ z.k = "have" /\ z.v = 0
      BY Pair DEF W
    <3> HIDE DEF z, s
    <3>3. Asked(disk[p]) = 1 /\ GetsWord(disk[p], z, 1)
      BY <2>3, <3>2 DEF GetsWord, Asked
    <3>4. \A i \in 1..Len(<<z>>) : <<z>>[i].k \notin {"zero", "cmd"} /\ GetsWord(disk[p], <<z>>[i], Len(<<z>>) - i + 1)
      BY <3>2, <3>3
    <3> QED
      BY <2>2, <3>1, <3>2, <3>3, <3>4
  <2>4. CASE disk[p] # << >>
    <3>1. xf'[p].type = "gets" /\ xf'[p].at = "check" /\ up'[Xfer(p)] = s \o <<x, y>> /\ xf'[p].pos = xf[p].pos
      BY <1>0, <2>1, <2>4 DEF Put
    <3>2. IsSeq(<<x, y>>) /\ Len(<<x, y>>) = 2 /\ <<x, y>>[1] = x /\ <<x, y>>[2] = y
          /\ x.k = "have" /\ y.k = "md5" /\ x.v = Len(disk[p]) /\ y.v = disk[p]
      BY Pair DEF W
    <3>z. Len(disk[p]) # 0
      BY <1>0, <2>4 DEF IsSeq
    <3> HIDE DEF x, y, s
    <3>3. Asked(disk[p]) = 2 /\ GetsWord(disk[p], x, 2) /\ GetsWord(disk[p], y, 1)
      BY <2>4, <3>2, <3>z DEF GetsWord, Asked
    <3>4. ASSUME NEW i \in 1..2
          PROVE  <<x, y>>[i].k \notin {"zero", "cmd"} /\ GetsWord(disk[p], <<x, y>>[i], 2 - i + 1)
      <4>1. CASE i = 1
        <5>1. 2 - i + 1 = 2 /\ <<x, y>>[i] = x
          BY <3>2, <4>1
        <5> QED
          BY <3>2, <3>3, <5>1
      <4>2. CASE i = 2
        <5>1. 2 - i + 1 = 1 /\ <<x, y>>[i] = y
          BY <3>2, <4>2
        <5> QED
          BY <3>2, <3>3, <5>1
      <4> QED
        BY <4>1, <4>2
    <3> QED
      BY <2>2, <3>1, <3>2, <3>3, <3>4
  <2> QED
    BY <2>3, <2>4
<1>8. CASE RecvCheck(p)
  <2>1. /\ xf[p].at = "check" /\ UNCHANGED <<up, disk>> /\ xf'[p].at = "length" /\ xf'[p].type = xf[p].type
        /\ xf'[p].pos \in {0, Len(disk[p])}
    BY <1>0, <1>8 DEF RecvCheck
  <2> QED
    BY <1>0, <1>3, <2>1
<1>9. CASE RecvLength(p)
  <2>1. /\ xf[p].at = "length" /\ UNCHANGED up
        /\ xf'[p].at \in {"unmapped", "receiving"} /\ xf'[p].type = xf[p].type /\ xf'[p].pos = xf[p].pos
    BY <1>0, <1>9 DEF RecvLength
  <2>2. PICK n : n = down[Xfer(p)][1].v /\ disk' = IF Big(n) THEN [disk EXCEPT ![p] = Truncated(@, n)] ELSE disk
    BY <1>9 DEF RecvLength
  <2>3. n \in Nat
    <3>1. DownWords(Xfer(p), down[Xfer(p)]) /\ down[Xfer(p)] # << >> /\ down[Xfer(p)][1].k = "length"
      BY <1>0, <1>9 DEF Shapes, WordOK, RecvLength, From
    <3>2. 1 \in 1..Len(down[Xfer(p)])
      BY <3>1 DEF DownWords, IsSeq
    <3> QED
      BY <2>2, <3>1, <3>2 DEF DownWords
  <2>4. IsSeq(Truncated(disk[p], n))
    BY <2>3 DEF Truncated, IsSeq
  <2>5. IsSeq(disk'[p])
    BY <1>0, <2>2, <2>4
  <2> HIDE DEF s
  <2> QED
    BY <1>0, <1>3, <2>1, <2>5
<1>10. CASE RecvUnmapped(p)
  <2>1. /\ xf[p].at = "unmapped" /\ UNCHANGED <<up, disk>> /\ xf'[p].at = "over"
        /\ xf'[p].type = xf[p].type /\ xf'[p].pos = xf[p].pos
    BY <1>0, <1>10 DEF RecvUnmapped
  <2> QED
    BY <1>0, <1>3, <2>1
<1>11. CASE RecvBuffer(p)
  <2> DEFINE i == xf[p].pos
             v == down[Xfer(p)][1].v
             a == SubSeq(disk[p], 1, i)
             b == SubSeq(disk[p], i + 2, Len(disk[p]))
  <2>1. /\ xf[p].at = "receiving" /\ UNCHANGED up /\ xf'[p].type = xf[p].type
        /\ xf'[p].at \in {"receiving", "over"} /\ xf'[p].pos \in {i, i + 1}
        /\ disk'[p] = a \o <<v>> \o b \/ disk'[p] = disk[p]
    <3>1. /\ xf[p].at = "receiving" /\ UNCHANGED up
          /\ \/ disk' = [disk EXCEPT ![p] = a \o <<v>> \o b] /\ xf' = [xf EXCEPT ![p].pos = i + 1]
             \/ UNCHANGED disk /\ xf' = [xf EXCEPT ![p].at = "over"]
      BY <1>11 DEF RecvBuffer
    <3> HIDE DEF v, a, b
    <3>2. CASE disk' = [disk EXCEPT ![p] = a \o <<v>> \o b] /\ xf' = [xf EXCEPT ![p].pos = i + 1]
      BY <1>0, <3>1, <3>2
    <3>3. CASE UNCHANGED disk /\ xf' = [xf EXCEPT ![p].at = "over"]
      BY <1>0, <3>1, <3>3
    <3> QED
      BY <3>1, <3>2, <3>3
  <2>2. IsSeq(disk'[p])
    <3>1. IsSeq(a)
      BY <1>0 DEF IsSeq
    <3>2. IsSeq(b)
      <4> DEFINE S == {disk[p][k] : k \in 1..Len(disk[p])}
      <4>1. disk[p] \in Seq(S)
        BY <1>0, IsSeqIn
      <4> HIDE DEF S
      <4>2. CASE i + 1 <= Len(disk[p])
        BY <1>0, <4>2, Dropped
      <4>3. CASE ~ (i + 1 <= Len(disk[p]))
        <5>1. b = << >>
          BY <1>0, <4>1, <4>3
        <5> QED
          BY <5>1, Pair
      <4> QED
        BY <4>2, <4>3
    <3>3. IsSeq(<<v>>)
      BY Pair
    <3> HIDE DEF a, b, v
    <3>4. IsSeq(a \o <<v>>)
      BY <3>1, <3>3, Joined
    <3> DEFINE c == a \o <<v>>
    <3> HIDE DEF c
    <3>5. IsSeq(c \o b)
      BY <3>2, <3>4, Joined DEF c
    <3> QED
      BY <1>0, <2>1, <3>5 DEF c
  <2>3. /\ xf[p].at = "receiving" /\ UNCHANGED up /\ xf'[p].type = xf[p].type
        /\ xf'[p].at \in {"receiving", "over"}
    BY <2>1
  <2>4. xf'[p].pos \in Nat
    <3>1. i \in Nat
      BY <1>0
    <3> HIDE DEF i, v, a, b, s
    <3>2. xf'[p].pos \in {i, i + 1}
      BY <2>1
    <3> QED
      BY <3>1, <3>2
  <2>5. /\ xf[p].at # "start"
        /\ xf[p].type = "gets" => /\ xf[p].at \in {"check", "length", "unmapped", "receiving"}
                                  /\ xf'[p].at \in {"unmapped", "receiving", "over"}
                                     \/ (xf'[p].at = "length" /\ xf[p].at = "check" /\ disk'[p] = disk[p])
    BY <2>3
  <2> HIDE DEF i, v, a, b, s
  <2> QED
    BY <1>3, <2>2, <2>3, <2>4, <2>5
<1> QED
  BY <1>4, <1>5, <1>6, <1>7, <1>8, <1>9, <1>10, <1>11 DEF Transfer

LEMMA SpellingStep ==
    ASSUME Shapes, Senders, Spelling, [Next]_vars
    PROVE  Spelling'
<1> SUFFICES ASSUME NEW p \in Procs PROVE Spelt(p)'
  BY DEF Spelling
<1>0. Sender(p) /\ Spelt(p)
  BY DEF Senders, Spelling
<1>1. ASSUME NEW q \in Procs, User(q) PROVE Spelt(p)'
  BY <1>0, <1>1, UserSpelt
<1>2. ASSUME NEW q \in Procs, Transfer(q) PROVE Spelt(p)'
  <2>1. CASE p = q
    BY <1>0, <1>2, <2>1, TransferSpelt
  <2>2. CASE p # q
    <3>1. UNCHANGED up \/ \E ws : up' = Put(up, Xfer(q), ws)
      BY <1>2, TransferSends DEF Sent
    <3>2. /\ Xfer(p) \in Conns /\ Main(p) \in Conns /\ DOMAIN up = Conns /\ DOMAIN xf = Procs /\ DOMAIN disk = Procs
          /\ Xfer(p) # Xfer(q) /\ Main(p) # Xfer(q)
      BY <2>2 DEF Xfer, Main, Conns, Shapes, WordOK, ClientOK
    <3>3. up'[Main(p)] = up[Main(p)] /\ up'[Xfer(p)] = up[Xfer(p)]
      BY <3>1, <3>2 DEF Put
    <3>4. xf'[p] = xf[p] /\ disk'[p] = disk[p]
      BY <1>2, <2>2, <3>2 DEF Transfer, SendMd5, SendContent, SendBuffer, SendLocal, RecvCheck, RecvLength,
         RecvUnmapped, RecvBuffer
    <3>5. Rest(p)' = Rest(p)
      BY <1>0, <3>3, <3>4, StreamKept
    <3> QED
      BY <1>0, <3>3, <3>4, <3>5 DEF Spelt, Local, IsSeq, Orders, GetsWords, GetsWord, Asked, Bare
  <2> QED
    BY <2>1, <2>2
<1>3. ASSUME NEW d \in Fds, Serve(d) PROVE Spelt(p)'
  <2>1. sock[d] \in Conns
    BY <1>3, ServeFrame DEF Shapes, NetOK
  <2> QED
    BY <1>0, <1>3, <2>1, ServeTakes, ServeFrame, TakenSpelt
<1>4. ASSUME NEW w \in Workers, Thread(w) PROVE Spelt(p)'
  BY <1>0, <1>4, ThreadTakes, ThreadFrame, TakenSpelt
<1>5. CASE Accept \/ SetOnline \/ ServerEnds \/ UNCHANGED vars
  BY <1>0, <1>5, TakenSpelt DEF Accept, SetOnline, ServerEnds, vars, clientVars
<1> QED
  BY <1>1, <1>2, <1>3, <1>4, <1>5 DEF Next, EventLoop
-----------------------------------------------------------------------------
(* Downloads while no transfer is cut off and no content uploaded again *)

Calm == /\ Shapes /\ Senders /\ Spelling /\ Handed /\ RowHasContent
        /\ Rows /\ Tasking /\ (\A p \in Procs : Getting(p)) /\ cut = {} /\ twice = {}
CalmStep == /\ Calm /\ [Next]_vars /\ cut' = {} /\ twice' = {}
            /\ \A p \in Procs : Stream(p) /\ Rest(p) \in Nat /\ Rest(p)' \in Nat

LEMMA TwiceStep == ASSUME [Next]_vars PROVE twice \subseteq twice'
<1>1. ASSUME NEW w \in Workers, Thread(w) PROVE twice \subseteq twice'
  <2>1. CASE Open(w)
    BY <2>1 DEF Open
  <2>2. CASE InsertRow(w)
    BY <2>2 DEF InsertRow
  <2> QED
    BY <1>1, <2>1, <2>2, ThreadFrame
<1>2. ASSUME NEW d \in Fds, Serve(d) PROVE twice' = twice
  BY <1>2, ServeFrame
<1>3. ASSUME NEW p \in Procs, User(p) \/ Transfer(p) PROVE twice' = twice
  BY <1>3, UserFrame, TransferFrame
<1>4. CASE Accept \/ SetOnline \/ ServerEnds \/ UNCHANGED vars
  BY <1>4 DEF Accept, SetOnline, ServerEnds, vars, history
<1> QED
  BY <1>1, <1>2, <1>3, <1>4 DEF Next, EventLoop

\* A row stays, but for tomb.
LEMMA RowsLast ==
    ASSUME Shapes, [Next]_vars, NEW r \in files
    PROVE  \E q \in files' : q.md5 = r.md5 /\ q.type = r.type /\ q.name = r.name
<1> DEFINE Goal == \E q \in files' : q.md5 = r.md5 /\ q.type = r.type /\ q.name = r.name
<1>1. ASSUME files \subseteq files' PROVE Goal
  BY <1>1
<1>2. ASSUME NEW d \in Fds, Serve(d) PROVE Goal
  <2>1. CASE MakesDir(d)
    BY <1>1, <2>1 DEF MakesDir, Insert
  <2>2. CASE Rm(d)
    <3> DEFINE i == PwdToId(slot[d].id, slot[d].pwd)
               New(q) == IF q.parent = i /\ q.name = Arg(d) THEN [q EXCEPT !.tomb = 1] ELSE q
    <3>1. New(r) \in files'
      BY <2>2 DEF Rm
    <3>2. DOMAIN r = {"id", "parent", "name", "type", "owner", "md5", "tomb"}
      BY DEF Shapes, FileOK
    <3>3. New(r).type = r.type /\ New(r).name = r.name /\ New(r).md5 = r.md5
      BY <3>2
    <3> HIDE DEF New
    <3> QED
      BY <3>1, <3>3
  <2> QED
    BY <1>1, <1>2, <2>1, <2>2, ServeFrame
<1>3. ASSUME NEW w \in Workers, Thread(w) PROVE Goal
  <2>1. CASE InsertRow(w)
    BY <1>1, <2>1 DEF InsertRow, Insert
  <2> QED
    BY <1>1, <1>3, <2>1, ThreadFrame
<1>4. ASSUME NEW p \in Procs, User(p) \/ Transfer(p) PROVE UNCHANGED files
  BY <1>4, UserFrame, TransferFrame
<1>5. CASE Accept \/ SetOnline \/ ServerEnds \/ UNCHANGED vars
  BY <1>1, <1>5 DEF Accept, SetOnline, ServerEnds, vars, dbVars
<1> QED
  BY <1>1, <1>2, <1>3, <1>4, <1>5 DEF Next, EventLoop

LEMMA SettledLasts ==
    ASSUME Shapes, [Next]_vars, NEW m, Settled(m)
    PROVE  Settled(m)'
<1>1. PICK r \in files : r.md5 = m /\ (m \in Md5s \/ (r.type = "d" /\ r.name = File))
  BY DEF Settled
<1>2. PICK q \in files' : q.md5 = r.md5 /\ q.type = r.type /\ q.name = r.name
  BY RowsLast
<1> QED
  BY <1>1, <1>2 DEF Settled

\* An upload knows its content once it has read the MD5, and writes it from open on.
LEMMA PutsSteps ==
    ASSUME Shapes, NEW w \in Workers, Thread(w), wk'[w].at \in PutsAt \ {"md5"}
    PROVE  \/ RecvMd5(w) /\ wk'[w].at = "query"
           \/ /\ wk[w].at \in PutsAt \ {"md5"} /\ wk'[w].md5 = wk[w].md5
              /\ wk'[w].at \in {"size", "content"} => Open(w) \/ wk[w].at \in {"size", "content"}
<1> USE DEF Goto, Step, PutsAt
<1>0. DOMAIN wk = Workers /\ DOMAIN wk[w] = {"at", "fd", "type", "md5", "parent", "pos"}
  BY DEF Shapes, PoolOK, TaskOK
<1>1. CASE Pop(w)
  BY <1>0, <1>1 DEF Pop, Idle
<1>2. CASE TaskStatus(w)
  BY <1>0, <1>2 DEF TaskStatus, Idle
<1>3. CASE FindRow(w)
  BY <1>0, <1>3, FindRowSteps
<1>4. CASE RecvMd5(w)
  BY <1>0, <1>4 DEF RecvMd5
<1>5. CASE Query(w)
  BY <1>0, <1>5 DEF Query
<1>6. CASE ResultMd5(w)
  BY <1>0, <1>6 DEF ResultMd5
<1>7. CASE Open(w)
  BY <1>0, <1>7 DEF Open
<1>8. CASE RecvSize(w)
  BY <1>0, <1>8 DEF RecvSize
<1>9. CASE RecvContent(w)
  BY <1>0, <1>9 DEF RecvContent
<1>10. CASE InsertRow(w)
  BY <1>0, <1>10 DEF InsertRow
<1>11. CASE RecvHave(w)
  BY <1>0, <1>11 DEF RecvHave
<1>12. CASE CheckMd5(w)
  <2>1. \E n : wk' = [wk EXCEPT ![w] = [wk[w] EXCEPT !.at = "length", !.pos = n]]
              \/ wk' = [wk EXCEPT ![w] = [wk[w] EXCEPT !.at = "length"]]
    BY <1>12 DEF CheckMd5
  <2>2. wk'[w].at = "length"
    <3>1. CASE \E n : wk' = [wk EXCEPT ![w] = [wk[w] EXCEPT !.at = "length", !.pos = n]]
      BY <1>0, <3>1
    <3>2. CASE wk' = [wk EXCEPT ![w] = [wk[w] EXCEPT !.at = "length"]]
      BY <1>0, <3>2
    <3> QED
      BY <2>1, <3>1, <3>2
  <2> QED
    BY <2>2
<1>13. CASE SendLength(w)
  BY <1>0, <1>13 DEF SendLength
<1>14. CASE SendFile(w)
  <2>1. \E i : wk' = [wk EXCEPT ![w] = [wk[w] EXCEPT !.pos = i]] \/ wk' = [wk EXCEPT ![w] = [wk[w] EXCEPT !.at = "done"]]
    BY <1>14 DEF SendFile
  <2> QED
    BY <1>0, <1>14, <2>1 DEF SendFile
<1>15. CASE TaskOffline(w)
  BY <1>0, <1>15 DEF TaskOffline
<1>16. CASE TaskClose(w)
  BY <1>0, <1>16 DEF TaskClose
<1> QED
  BY <1>1, <1>2, <1>3, <1>4, <1>5, <1>6, <1>7, <1>8, <1>9, <1>10, <1>11, <1>12, <1>13, <1>14,
     <1>15, <1>16 DEF Thread

\* The MD5 an upload reads is one.
LEMMA RightMd5 ==
    ASSUME CalmStep, NEW w \in Workers, RecvMd5(w)
    PROVE  wk'[w].md5 \in Md5s
<1>0. DOMAIN wk = Workers /\ DOMAIN wk[w] = {"at", "fd", "type", "md5", "parent", "pos"} /\ wk[w].at = "md5"
  BY DEF CalmStep, Calm, Shapes, PoolOK, TaskOK, RecvMd5
<1>1. Take(w) /\ wk' = [wk EXCEPT ![w] = [wk[w] EXCEPT !.at = "query", !.md5 = IF Next1(w).k = "md5" THEN Next1(w).v ELSE Junk]]
  <2>1. ~ Lost(w)
    BY <1>0, LostNow DEF CalmStep
  <2> QED
    BY <2>1 DEF RecvMd5, Step
<1>2. PICK p \in Procs : sock[wk[w].fd] = Xfer(p) /\ xf[p].type = "puts" /\ FirstPut(p)
  BY <1>0 DEF CalmStep, Calm, Tasking, Works, PutsAt
<1>3. up[Xfer(p)] # << >> /\ Next1(w) = up[Xfer(p)][1]
  BY <1>1, <1>2 DEF Take, HasWord, Next1
<1>4. PICK x : x = Next1(w)
  OBVIOUS
<1>5. x.k = "md5"
  BY <1>2, <1>3, <1>4 DEF FirstPut
<1>6. Worded(p, x, Rest(p))
  <2>1. IsSeq(up[Xfer(p)]) /\ Sender(p) /\ Rest(p) \in Nat
    BY WordsIs DEF CalmStep, Calm, Senders, Xfer, Conns
  <2>2. 1 \in 1..Len(up[Xfer(p)])
    BY <1>3, <2>1 DEF IsSeq
  <2>3. Worded(p, up[Xfer(p)][1], Rest(p) - 1 + 1)
    BY <2>1, <2>2 DEF Sender
  <2>4. Rest(p) - 1 + 1 = Rest(p)
    BY <2>1
  <2> QED
    BY <1>3, <1>4, <2>3, <2>4
<1>7. x.v = Md5[p]
  BY <1>2, <1>5, <1>6 DEF Worded
<1>8. wk'[w].md5 = Md5[p]
  BY <1>0, <1>1, <1>4, <1>5, <1>7
<1> QED
  BY <1>8 DEF Md5s

LEMMA RowsCalm == ASSUME CalmStep PROVE Rows'
<1>0. Shapes /\ [Next]_vars /\ Rows /\ cut' = {} /\ twice' = {} /\ NoFile \notin Md5s
  BY ValuesAssumption DEF CalmStep, Calm
<1>1. ASSUME NEW r \in files'
      PROVE  r.md5 \in Md5s \/ (r.md5 = NoFile /\ r.type = "d")
  <2>1. CASE OldRow(r)
    BY <1>0, <2>1 DEF OldRow, Rows
  <2>2. ASSUME NEW d \in Fds, DirRow(d, r) PROVE r.md5 \in Md5s \/ (r.md5 = NoFile /\ r.type = "d")
    BY <2>2 DEF DirRow, Row
  <2>3. ASSUME NEW w \in Workers, FileRow(w, r) PROVE r.md5 \in Md5s
    BY <1>0, <2>3 DEF FileRow, Row, InsertRow, Rows, PutsAt
  <2> QED
    BY <1>0, <2>1, <2>2, <2>3, RowsStep
<1>2. ASSUME NEW r \in files', r.md5 \in Md5s, NEW w \in Workers, Writing(w, r.md5)' PROVE FALSE
  <2> DEFINE m == r.md5
  <2>1. ASSUME Writing(w, m) PROVE FALSE
    <3>1. CASE OldRow(r)
      BY <1>0, <1>2, <2>1, <3>1 DEF OldRow, Rows
    <3>2. ASSUME NEW d \in Fds, DirRow(d, r) PROVE FALSE
      BY <1>0, <1>2, <3>2 DEF DirRow, Row
    <3>3. ASSUME NEW v \in Workers, FileRow(v, r) PROVE FALSE
      <4>1. InsertRow(v) /\ m = wk[v].md5
        BY <3>3 DEF FileRow, Row
      <4>2. m \in Stores(v)
        BY <1>2, <4>1 DEF Stores
      <4>3. m \in twice'
        BY <2>1, <4>1, <4>2 DEF InsertRow
      <4> QED
        BY <1>0, <4>3
    <3> QED
      BY <1>0, <3>1, <3>2, <3>3, RowsStep
  <2>2. wk'[w].md5 = m /\ wk'[w].at \in {"size", "content"}
    BY <1>2 DEF Writing
  <2>3. CASE wk'[w] = wk[w]
    BY <2>1, <2>2, <2>3 DEF Writing
  <2>4. CASE Thread(w)
    <3>1. /\ wk[w].at \in PutsAt \ {"md5"} /\ wk[w].md5 = m
          /\ Open(w) \/ wk[w].at \in {"size", "content"}
      BY <1>0, <2>2, <2>4, PutsSteps DEF PutsAt
    <3>2. CASE wk[w].at \in {"size", "content"}
      BY <2>1, <3>1, <3>2 DEF Writing
    <3>3. CASE Open(w)
      <4>1. UNCHANGED files
        BY <3>3 DEF Open, dbVars
      <4>2. m \in Stores(w) /\ \E q \in files : q.md5 = m
        BY <1>2, <3>1, <4>1 DEF Stores
      <4>3. m \in twice'
        BY <3>3, <4>2 DEF Open
      <4> QED
        BY <1>0, <4>3
    <3> QED
      BY <3>1, <3>2, <3>3
  <2> QED
    BY <1>0, <2>3, <2>4, WorkerMoves
<1>3. ASSUME NEW w \in Workers, wk'[w].at \in PutsAt \ {"md5"} PROVE wk'[w].md5 \in Md5s
  <2>1. CASE wk'[w] = wk[w]
    BY <1>0, <1>3, <2>1 DEF Rows
  <2>2. CASE Thread(w)
    BY <1>0, <1>3, <2>2, PutsSteps, RightMd5 DEF Rows
  <2> QED
    BY <1>0, <2>1, <2>2, WorkerMoves
<1> QED
  BY <1>1, <1>2, <1>3 DEF Rows
-----------------------------------------------------------------------------
(* What the client does with what it is sent *)

\* What gets has to say it says whether it is on its way or not.
LEMMA GetsRest ==
    ASSUME Shapes, NEW p \in Procs, Sender(p), xf[p].type = "gets", Transfer(p)
    PROVE  Rest(p)' = Rest(p)
<1> DEFINE s == up[Xfer(p)]
<1>0. /\ DOMAIN xf = Procs /\ DOMAIN xf[p] = {"at", "type", "len", "pos"} /\ DOMAIN up = Conns
      /\ Xfer(p) \in Conns /\ IsSeq(s) /\ Len(s) \in Nat
  BY WordsIs DEF Shapes, ClientOK, WordOK, Xfer, Conns
<1>1. xf[p].at \notin {"fast", "sending"}
  BY DEF Sender
<1>2. CASE SendLocal(p)
  <2>1. /\ xf[p].at = "start" /\ UNCHANGED disk
        /\ xf' = [xf EXCEPT ![p].at = IF disk[p] = << >> THEN "length" ELSE "check"]
    BY <1>2 DEF SendLocal
  <2>2. PICK ws : IsSeq(ws) /\ Len(ws) = Unsent(p) /\ up' = Put(up, Xfer(p), ws)
    <3>1. CASE disk[p] = << >>
      <4>1. up' = Put(up, Xfer(p), <<W("have", 0)>>) /\ Unsent(p) = 1
        BY <1>2, <2>1, <3>1 DEF SendLocal, Unsent
      <4> QED
        BY <4>1, Pair
    <3>2. CASE disk[p] # << >>
      <4>1. up' = Put(up, Xfer(p), <<W("have", Len(disk[p])), W("md5", disk[p])>>) /\ Unsent(p) = 2
        BY <1>2, <2>1, <3>2 DEF SendLocal, Unsent
      <4> QED
        BY <4>1, Pair
    <3> QED
      BY <3>1, <3>2
  <2>3. up'[Xfer(p)] = s \o ws
    BY <1>0, <2>2 DEF Put
  <2>4. Len(s \o ws) = Len(s) + Len(ws)
    BY <1>0, <2>2, Joined
  <2>5. Unsent(p)' = 0
    BY <1>0, <2>1 DEF Unsent
  <2>6. Len(up[Xfer(p)])' = Len(s) + Unsent(p)
    BY <2>2, <2>3, <2>4
  <2>7. Unsent(p) \in Nat
    BY UnsentIs
  <2> QED
    BY <1>0, <2>5, <2>6, <2>7 DEF Rest
<1>3. CASE RecvCheck(p) \/ RecvLength(p) \/ RecvUnmapped(p) \/ RecvBuffer(p)
  <2>1. /\ xf[p].at \in {"check", "length", "unmapped", "receiving"} /\ UNCHANGED up
        /\ xf'[p].at \in {"length", "unmapped", "receiving", "over"} /\ xf'[p].type = xf[p].type
    BY <1>3, ReceivingSteps
  <2>2. Unsent(p) = 0 /\ Unsent(p)' = 0
    BY <2>1 DEF Unsent
  <2> QED
    BY <2>1, <2>2 DEF Rest
<1> QED
  BY <1>1, <1>2, <1>3 DEF Transfer, SendMd5, SendContent, SendBuffer

\* A client nobody has answered yet can but say what it wants.
LEMMA FreshMoves ==
    ASSUME Shapes, NEW p \in Procs, Sender(p), xf[p].type = "gets", Transfer(p), Fresh(p)
    PROVE  Fresh(p)' /\ disk'[p] = disk[p]
<1>0. DOMAIN xf = Procs /\ DOMAIN xf[p] = {"at", "type", "len", "pos"}
  BY DEF Shapes, ClientOK
<1>1. SendLocal(p)
  BY DEF Transfer, Fresh, From, SendMd5, SendContent, SendBuffer, RecvCheck, RecvLength, RecvUnmapped, RecvBuffer
<1>2. /\ UNCHANGED <<down, disk>>
      /\ xf' = [xf EXCEPT ![p].at = IF disk[p] = << >> THEN "length" ELSE "check"]
  BY <1>1 DEF SendLocal
<1>3. xf'[p].pos = xf[p].pos /\ xf'[p].at = IF disk[p] = << >> THEN "length" ELSE "check"
  BY <1>0, <1>2
<1>4. down'[Xfer(p)] = << >> /\ xf'[p].pos = 0
  BY <1>2, <1>3 DEF Fresh
<1> QED
  BY <1>2, <1>3, <1>4 DEF Fresh

\* A client that is being answered takes the answers, then the buffers, each in its turn.
Turn(p) == /\ Len(down[Xfer(p)])' \in Nat /\ Len(down[Xfer(p)])' + 1 = Len(down[Xfer(p)])
           /\ \/ Answers(p)' + 1 = Answers(p) /\ Offset(p)' = Offset(p)
              \/ Answers(p) = 0 /\ Answers(p)' = 0 /\ Offset(p)' = Offset(p) + 1
Ended(p, B) == xf'[p].at = "over" /\ SubSeq(disk'[p], 1, xf'[p].len) = B /\ xf'[p].len = Len(B)

\* Of a file that cannot be mapped it takes none.
Stops(p, B) == /\ xf[p].at = "length" /\ Len(down[Xfer(p)]) >= 1
               /\ xf'[p].at = "unmapped" /\ xf'[p].pos = Offset(p) /\ xf'[p].len = Len(B)
               /\ Unmapped(Offset(p), Len(B))

LEMMA DownIs ==
    ASSUME Shapes, NEW k \in Conns
    PROVE  /\ IsSeq(down[k]) /\ Len(down[k]) \in Nat
           /\ down[k] # << >> => Len(down[k]) >= 1 /\ IsSeq(Tail(down[k])) /\ Len(Tail(down[k])) = Len(down[k]) - 1
                                 /\ \A i \in 1..(Len(down[k]) - 1) : Tail(down[k])[i] = down[k][i + 1]
<1>1. IsSeq(down[k]) /\ Len(down[k]) \in Nat
  BY DEF Shapes, WordOK, DownWords, IsSeq
<1>2. ASSUME down[k] # << >> PROVE Len(down[k]) >= 1
  BY <1>1, <1>2 DEF IsSeq
<1>3. ASSUME Len(down[k]) >= 1
      PROVE  IsSeq(Tail(down[k])) /\ Len(Tail(down[k])) = Len(down[k]) - 1
             /\ \A i \in 1..(Len(down[k]) - 1) : Tail(down[k])[i] = down[k][i + 1]
  <2>1. PICK s : s = down[k]
    OBVIOUS
  <2>2. /\ IsSeq(SubSeq(s, 2, Len(s))) /\ Len(SubSeq(s, 2, Len(s))) = Len(s) - 1
        /\ \A i \in 1..(Len(s) - 1) : SubSeq(s, 2, Len(s))[i] = s[i + 1]
        /\ Tail(s) = SubSeq(s, 2, Len(s))
    <3>1. IsSeq(s) /\ 1 \in Nat /\ 1 <= Len(s) /\ 1 + 1 = 2
      BY <1>1, <1>3, <2>1
    <3>2. /\ IsSeq(SubSeq(s, 1 + 1, Len(s))) /\ Len(SubSeq(s, 1 + 1, Len(s))) = Len(s) - 1
          /\ \A i \in 1..(Len(s) - 1) : SubSeq(s, 1 + 1, Len(s))[i] = s[i + 1]
          /\ 1 = 1 => Tail(s) = SubSeq(s, 2, Len(s))
      BY <3>1, Dropped
    <3> QED
      BY <3>1, <3>2
  <2> QED
    BY <2>1, <2>2
<1> QED
  BY <1>1, <1>2, <1>3

LEMMA NextPlace ==
    \A c, i \in Nat : /\ c + (i + 1) - 2 = c + i - 1
                      /\ c + (i + 1) - 1 = c + i - 0
                      /\ c + (i + 1) - 0 = (c + 1) + i - 0
OBVIOUS

LEMMA FollowsMoves ==
    ASSUME Shapes, NEW p \in Procs, Sender(p), Local(p), xf[p].type = "gets", Transfer(p),
           NEW B, IsSeq(B), Follows(p, B)
    PROVE  (Follows(p, B)' /\ Turn(p)) \/ Ended(p, B) \/ Stops(p, B)
<1> DEFINE s == down[Xfer(p)]
           t == down'[Xfer(p)]
           h == Answers(p)
           c == Offset(p)
<1>0. /\ DOMAIN xf = Procs /\ DOMAIN xf[p] = {"at", "type", "len", "pos"} /\ DOMAIN disk = Procs
      /\ Xfer(p) \in Conns /\ DOMAIN down = Conns /\ Len(B) \in Nat
      /\ IsSeq(disk[p]) /\ Len(disk[p]) \in Nat /\ xf[p].pos \in Nat
  BY DEF Shapes, ClientOK, WordOK, Xfer, Conns, Local, IsSeq
<1>1. IsSeq(s) /\ Len(s) \in Nat
  BY <1>0, DownIs
<1>2. ASSUME s # << >>, TailDown(p)
      PROVE  /\ Len(s) >= 1 /\ Len(t) = Len(s) - 1 /\ \A i \in 1..Len(t) : t[i] = s[i + 1]
  <2>1. t = Tail(s)
    BY <1>0, <1>2 DEF TailDown
  <2> HIDE DEF t
  <2> QED
    BY <1>0, <1>2, <2>1, DownIs
<1>3. /\ c \in 0..Len(B) /\ c <= Len(disk[p]) /\ \A j \in 1..c : disk[p][j] = B[j]
      /\ h > 0 /\ h <= Len(s) => s[h].k = "length" /\ s[h].v = Len(B)
      /\ \A i \in (h + 1)..Len(s) : s[i].k = "buf" /\ c + i - h \in 1..Len(B) /\ s[i].v = B[c + i - h]
  BY DEF Follows
<1>n. c \in Nat /\ c <= Len(B) /\ Len(B) \in Nat
  BY <1>0, <1>3
<1>4. CASE RecvCheck(p)
  <2>1. /\ xf[p].at = "check" /\ s # << >> /\ TailDown(p) /\ UNCHANGED disk
        /\ xf' = [xf EXCEPT ![p].at = "length", ![p].pos = IF s[1].v THEN Len(disk[p]) ELSE 0]
    BY <1>4 DEF RecvCheck, From
  <2>2. h = 2 /\ c = IF s[1].v THEN Len(disk[p]) ELSE 0
    BY <2>1 DEF Answers, Offset
  <2>3. xf'[p].at = "length" /\ xf'[p].pos = c
    BY <1>0, <2>1, <2>2
  <2>4. Answers(p)' = 1 /\ Offset(p)' = c
    BY <2>3 DEF Answers, Offset
  <2>5. /\ Len(s) >= 1 /\ Len(t) = Len(s) - 1 /\ \A i \in 1..Len(t) : t[i] = s[i + 1]
    BY <1>2, <2>1
  <2> HIDE DEF s, t, h, c
  <2>6. 1 <= Len(t) => t[1].k = "length" /\ t[1].v = Len(B)
    BY <1>1, <1>3, <2>2, <2>5
  <2>7. ASSUME NEW i \in 2..Len(t) PROVE t[i].k = "buf" /\ c + i - 1 \in 1..Len(B) /\ t[i].v = B[c + i - 1]
    <3>1. i + 1 \in (h + 1)..Len(s) /\ t[i] = s[i + 1]
      BY <1>1, <2>2, <2>5
    <3>2. s[i + 1].k = "buf" /\ c + (i + 1) - h \in 1..Len(B) /\ s[i + 1].v = B[c + (i + 1) - h]
      BY <1>3, <3>1
    <3>n. c \in Nat /\ i \in Nat
      BY <1>n, <1>1, <2>5
    <3>3. c + (i + 1) - h = c + i - 1
      BY <3>n, <2>2, NextPlace
    <3> QED
      BY <3>1, <3>2, <3>3
  <2>8. Follows(p, B)'
    BY <1>3, <2>1, <2>3, <2>4, <2>6, <2>7 DEF Follows, t
  <2>9. Turn(p)
    BY <1>1, <2>2, <2>4, <2>5 DEF Turn, s, t, h, c
  <2> QED
    BY <2>8, <2>9
<1>5. CASE RecvLength(p)
  <2> DEFINE n == s[1].v
  <2>1. /\ xf[p].at = "length" /\ s # << >> /\ TailDown(p)
        /\ xf' = [xf EXCEPT ![p].at = IF Unmapped(xf[p].pos, n) THEN "unmapped" ELSE "receiving",
                            ![p].len = n]
        /\ disk' = IF Big(n) THEN [disk EXCEPT ![p] = Truncated(@, n)] ELSE disk
    BY <1>5 DEF RecvLength, From
  <2>2. h = 1 /\ c = xf[p].pos
    BY <2>1 DEF Answers, Offset
  <2>5. /\ Len(s) >= 1 /\ Len(t) = Len(s) - 1 /\ \A i \in 1..Len(t) : t[i] = s[i + 1]
    BY <1>2, <2>1
  <2>10. n = Len(B)
    <3> HIDE DEF s, h, n
    <3>1. s[h].v = Len(B)
      BY <1>1, <1>3, <2>2, <2>5
    <3> QED
      BY <2>2, <3>1 DEF n
  <2>11. xf'[p].pos = c /\ xf'[p].len = Len(B)
         /\ xf'[p].at = IF Unmapped(c, Len(B)) THEN "unmapped" ELSE "receiving"
    <3> HIDE DEF n, s, t, h, c
    <3> QED
      BY <1>0, <2>1, <2>2, <2>10
  <2>12. CASE Unmapped(c, Len(B))
    BY <2>1, <2>5, <2>11, <2>12 DEF Stops
  <2>13. ASSUME ~ Unmapped(c, Len(B)) PROVE (Follows(p, B)' /\ Turn(p))
  <3>1. xf'[p].at = "receiving"
    BY <2>11, <2>13
  <3>2. c <= Len(disk'[p]) /\ \A j \in 1..c : disk'[p][j] = B[j]
    <4>1. CASE ~ Big(n)
      BY <1>3, <2>1, <4>1
    <4>2. CASE Big(n)
      <5>1. disk'[p] = Truncated(disk[p], Len(B))
        BY <1>0, <2>1, <2>10, <4>2
      <5> DEFINE u == Truncated(disk[p], Len(B))
      <5>2. Len(u) = Len(B) /\ \A j \in 1..Len(B) : u[j] = IF j <= Len(disk[p]) THEN disk[p][j] ELSE "hole"
        BY <1>0 DEF Truncated
      <5> HIDE DEF u, c
      <5>3. \A j \in 1..c : j \in 1..Len(B) /\ j <= Len(disk[p])
        BY <1>0, <1>3, <1>n
      <5>4. \A j \in 1..c : u[j] = B[j]
        BY <1>3, <5>2, <5>3
      <5> QED
        BY <1>n, <5>1, <5>2, <5>4 DEF u
    <4> QED
      BY <4>1, <4>2
  <3>4. Answers(p)' = 0 /\ Offset(p)' = c
    BY <2>11, <3>1 DEF Answers, Offset
  <3> HIDE DEF s, t, h, c
  <3>7. ASSUME NEW i \in 1..Len(t) PROVE t[i].k = "buf" /\ c + i - 0 \in 1..Len(B) /\ t[i].v = B[c + i - 0]
    <4>1. i + 1 \in (h + 1)..Len(s) /\ t[i] = s[i + 1]
      BY <1>1, <2>2, <2>5
    <4>2. s[i + 1].k = "buf" /\ c + (i + 1) - h \in 1..Len(B) /\ s[i + 1].v = B[c + (i + 1) - h]
      BY <1>3, <4>1
    <4>n. c \in Nat /\ i \in Nat
      BY <1>n, <1>1, <2>5
    <4>3. c + (i + 1) - h = c + i - 0
      BY <4>n, <2>2, NextPlace
    <4> QED
      BY <4>1, <4>2, <4>3
  <3>8. Follows(p, B)'
    BY <1>3, <2>11, <3>1, <3>2, <3>4, <3>7 DEF Follows, t
  <3>9. Turn(p)
    BY <1>1, <2>2, <3>4, <2>5 DEF Turn, s, t, h, c
  <3> QED
    BY <3>8, <3>9
  <2> QED
    BY <2>12, <2>13
<1>6. CASE RecvBuffer(p)
  <2>0. xf[p].at = "receiving"
    BY <1>6 DEF RecvBuffer
  <2>1. h = 0 /\ c = xf[p].pos /\ xf[p].len = Len(B)
    BY <2>0 DEF Answers, Offset, Follows
  <2>2. \/ /\ c < Len(B) /\ s # << >> /\ TailDown(p)
           /\ disk' = [disk EXCEPT ![p] = SubSeq(@, 1, c) \o <<s[1].v>> \o SubSeq(@, c + 2, Len(@))]
           /\ xf' = [xf EXCEPT ![p].pos = c + 1]
        \/ c >= Len(B) /\ xf' = [xf EXCEPT ![p].at = "over"] /\ UNCHANGED disk
    BY <1>6, <2>1 DEF RecvBuffer, From
  <2>3. CASE c >= Len(B) /\ xf' = [xf EXCEPT ![p].at = "over"] /\ UNCHANGED disk
    <3>1. xf'[p].at = "over" /\ xf'[p].len = Len(B) /\ disk'[p] = disk[p]
      BY <1>0, <2>1, <2>3
    <3>2. c = Len(B)
      BY <1>0, <1>3, <2>3
    <3> DEFINE u == SubSeq(disk[p], 1, Len(B))
    <3>3. IsSeq(u) /\ Len(u) = Len(B) /\ \A j \in 1..Len(B) : u[j] = disk[p][j]
      BY <1>0 DEF IsSeq
    <3> HIDE DEF u
    <3>4. u = B
      BY <1>3, <3>2, <3>3, SameSeq
    <3> QED
      BY <3>1, <3>4 DEF Ended, u
  <2>4. CASE /\ c < Len(B) /\ s # << >> /\ TailDown(p)
             /\ disk' = [disk EXCEPT ![p] = SubSeq(@, 1, c) \o <<s[1].v>> \o SubSeq(@, c + 2, Len(@))]
             /\ xf' = [xf EXCEPT ![p].pos = c + 1]
    <3>0. c < Len(B)
      BY <2>4
    <3>1. xf'[p].at = "receiving" /\ xf'[p].pos = c + 1 /\ xf'[p].len = Len(B)
      BY <1>0, <2>0, <2>1, <2>4
    <3>2. Answers(p)' = 0 /\ Offset(p)' = c + 1
      BY <3>1 DEF Answers, Offset
    <3>3. /\ Len(s) >= 1 /\ Len(t) = Len(s) - 1 /\ \A i \in 1..Len(t) : t[i] = s[i + 1]
      BY <1>2, <2>4
    <3> DEFINE a == SubSeq(disk[p], 1, c)
               b == SubSeq(disk[p], c + 2, Len(disk[p]))
               v == s[1].v
    <3>4. disk'[p] = a \o <<v>> \o b
      BY <1>0, <2>4
    <3>5. IsSeq(a) /\ Len(a) = c /\ \A j \in 1..c : a[j] = disk[p][j]
      BY <1>0, <1>3 DEF IsSeq
    <3>6. IsSeq(b)
      <4> DEFINE S == {disk[p][k] : k \in 1..Len(disk[p])}
      <4>1. disk[p] \in Seq(S)
        BY <1>0, IsSeqIn
      <4> HIDE DEF S
      <4>2. CASE c + 1 <= Len(disk[p])
        BY <1>0, <1>3, <4>2, Dropped
      <4>3. CASE ~ (c + 1 <= Len(disk[p]))
        <5>1. b = << >>
          BY <1>0, <1>3, <4>1, <4>3
        <5> QED
          BY <5>1, Pair
      <4> QED
        BY <4>2, <4>3
    <3> HIDE DEF a, b, v
    <3>7. IsSeq(<<v>>) /\ Len(<<v>>) = 1 /\ <<v>>[1] = v
      BY Pair
    <3> DEFINE e == a \o <<v>>
    <3>8. IsSeq(e) /\ Len(e) = c + 1 /\ \A j \in 1..(c + 1) : e[j] = IF j <= c THEN disk[p][j] ELSE v
      <4>1. /\ IsSeq(e) /\ Len(e) = Len(a) + 1
            /\ \A i \in 1..(Len(a) + 1) : e[i] = IF i <= Len(a) THEN a[i] ELSE <<v>>[i - Len(a)]
        BY <3>5, <3>7, Joined
      <4> HIDE DEF e
      <4>2. ASSUME NEW j \in 1..(c + 1) PROVE e[j] = IF j <= c THEN disk[p][j] ELSE v
        <5>1. CASE j <= c
          BY <1>3, <3>5, <4>1, <5>1
        <5>2. CASE ~ (j <= c)
          <6>1. j - Len(a) = 1
            BY <1>3, <3>5, <5>2
          <6> QED
            BY <1>3, <3>5, <3>7, <4>1, <5>2, <6>1
        <5> QED
          BY <5>1, <5>2
      <4> QED
        BY <3>5, <4>1, <4>2
    <3>9. disk'[p] = e \o b
      BY <3>4
    <3> HIDE DEF e
    <3>10. Len(disk'[p]) >= c + 1 /\ Len(disk'[p]) \in Nat /\ \A j \in 1..(c + 1) : disk'[p][j] = e[j]
      <4>1. /\ Len(e \o b) = Len(e) + Len(b) /\ Len(e) \in Nat /\ Len(b) \in Nat
            /\ \A i \in 1..(Len(e) + Len(b)) : (e \o b)[i] = IF i <= Len(e) THEN e[i] ELSE b[i - Len(e)]
        BY <3>6, <3>8, Joined
      <4>2. \A j \in 1..(c + 1) : j \in 1..(Len(e) + Len(b)) /\ j <= Len(e)
        BY <1>3, <3>8, <4>1
      <4> QED
        BY <1>3, <3>8, <3>9, <4>1, <4>2
    <3>11. v = B[c + 1]
      <4>1. 1 \in (h + 1)..Len(s)
        BY <1>1, <2>1, <3>3
      <4>2. s[1].v = B[c + 1 - h]
        BY <1>3, <4>1
      <4>3. c + 1 - h = c + 1
        BY <1>3, <2>1
      <4> QED
        BY <4>2, <4>3 DEF v
    <3>12. \A j \in 1..(c + 1) : disk'[p][j] = B[j]
      <4>1. \A j \in 1..(c + 1) : (j \in 1..c /\ j <= c) \/ (j = c + 1 /\ ~ (j <= c))
        BY <1>3
      <4> QED
        BY <1>3, <3>8, <3>10, <3>11, <4>1
    <3> HIDE DEF s, t, h, c
    <3>13. ASSUME NEW i \in 1..Len(t)
           PROVE  t[i].k = "buf" /\ (c + 1) + i - 0 \in 1..Len(B) /\ t[i].v = B[(c + 1) + i - 0]
      <4>1. i + 1 \in (h + 1)..Len(s) /\ t[i] = s[i + 1]
        BY <1>1, <2>1, <3>3
      <4>2. s[i + 1].k = "buf" /\ c + (i + 1) - h \in 1..Len(B) /\ s[i + 1].v = B[c + (i + 1) - h]
        BY <1>3, <4>1
      <4>n. c \in Nat /\ i \in Nat
        BY <1>n, <1>1, <3>3
      <4>3. c + (i + 1) - h = (c + 1) + i - 0
        BY <4>n, <2>1, NextPlace
      <4> QED
        BY <4>1, <4>2, <4>3
    <3>14. c + 1 \in 0..Len(B)
      BY <1>n, <3>0
    <3>15. Follows(p, B)'
      BY <3>1, <3>2, <3>10, <3>12, <3>13, <3>14 DEF Follows, t
    <3>16. Turn(p)
      BY <1>1, <2>1, <3>2, <3>3 DEF Turn, s, t, h, c
    <3> QED
      BY <3>15, <3>16
  <2> QED
    BY <2>2, <2>3, <2>4
<1> QED
  BY <1>4, <1>5, <1>6 DEF Transfer, Follows, SendMd5, SendContent, SendBuffer, SendLocal, RecvUnmapped

LEMMA ContentIs ==
    ASSUME NEW m
    PROVE  IsSeq(Content(m)) /\ Len(Content(m)) \in Nat
<1>1. CASE m \in Md5s
  BY <1>1, SizeIs DEF Content
<1>2. CASE m \notin Md5s
  BY <1>2, Pair DEF Content
<1> QED
  BY <1>1, <1>2

LEMMA RestOver ==
    ASSUME CalmStep, NEW p \in Procs, xf[p].type = "gets", Rest(p) = 0
    PROVE  Rest(p)' = 0
<1>1. Stream(p) /\ Rest(p)' \in Nat /\ Sender(p)
  BY DEF CalmStep, Calm, Senders
<1>2. xf[p].at # "none"
  BY <1>1 DEF Sender
<1>3. Rest(p)' <= 0
  BY <1>1, <1>2 DEF Stream
<1> QED
  BY <1>1, <1>3

\* Where neither the client nor what comes to it changes.
Same(p) == xf'[p] = xf[p] /\ disk'[p] = disk[p] /\ down'[Xfer(p)] = down[Xfer(p)]

LEMMA SameFollows ==
    ASSUME NEW p \in Procs, Same(p)
    PROVE  /\ Answers(p)' = Answers(p) /\ Offset(p)' = Offset(p)
           /\ Fresh(p)' <=> Fresh(p)
           /\ \A B : Follows(p, B) => Follows(p, B)'
<1>1. Answers(p)' = Answers(p) /\ Offset(p)' = Offset(p)
  BY DEF Same, Answers, Offset
<1>2. Fresh(p)' <=> Fresh(p)
  BY DEF Same, Fresh
<1>3. \A B : Follows(p, B) => Follows(p, B)'
  BY <1>1 DEF Same, Follows
<1> QED
  BY <1>1, <1>2, <1>3

LEMMA GettingSame ==
    ASSUME CalmStep, NEW p \in Procs, Same(p)
    PROVE  Getting(p)'
<1>0. Shapes /\ [Next]_vars /\ Getting(p) /\ xf'[p].type = xf[p].type
  BY DEF CalmStep, Calm, Same
<1>1. CASE xf[p].type # "gets"
  BY <1>0, <1>1 DEF Getting, Same
<1>2. CASE xf[p].type = "gets"
  <2>1. CASE Fresh(p)
    BY <1>0, <1>2, <2>1, SameFollows DEF Getting
  <2>2. ASSUME Rest(p) = 0, NEW m \in Contained, Settled(m), Follows(p, Content(m)) PROVE Getting(p)'
    <3>1. Rest(p)' = 0 /\ Settled(m)'
      BY <1>0, <1>2, <2>2, RestOver, SettledLasts
    <3>2. PICK B : B = Content(m)
      OBVIOUS
    <3>3. Follows(p, B)'
      BY <2>2, <3>2, SameFollows
    <3>4. Follows(p, Content(m))'
      BY <3>2, <3>3 DEF Content
    <3> QED
      BY <1>0, <1>2, <3>1, <3>4 DEF Getting, Contained
  <2>3. ASSUME Rest(p) = 0, xf[p].at = "over", NEW m \in Contained, Complete(p, m) PROVE Getting(p)'
    <3>1. Rest(p)' = 0 /\ Settled(m)'
      BY <1>0, <1>2, <2>3, RestOver, SettledLasts DEF Complete
    <3>2. Complete(p, m)' /\ xf'[p].at = "over"
      BY <2>3, <3>1 DEF Complete, Same, Content
    <3> QED
      BY <1>0, <1>2, <3>1, <3>2 DEF Getting, Contained
  <2>4. ASSUME Rest(p) = 0, Stuck(p) PROVE Getting(p)'
    <3>1. Rest(p)' = 0
      BY <1>0, <1>2, <2>4, RestOver
    <3>2. Stuck(p)'
      BY <2>4 DEF Stuck, Same, Unmapped, Big
    <3> QED
      BY <1>0, <1>2, <3>1, <3>2 DEF Getting
  <2> QED
    BY <1>0, <1>2, <2>1, <2>2, <2>3, <2>4 DEF Getting
<1> QED
  BY <1>1, <1>2

LEMMA AsksSame ==
    ASSUME NEW p \in Procs, Same(p), up'[Xfer(p)] = up[Xfer(p)]
    PROVE  /\ Rest(p)' = Rest(p)
           /\ FirstPut(p) => FirstPut(p)'
           /\ FirstGet(p) => FirstGet(p)'
           /\ \A c : Asks(p, c) => Asks(p, c)'
<1>1. Rest(p)' = Rest(p)
  BY DEF Same, Rest, Unsent, Size
<1>2. (FirstPut(p) => FirstPut(p)') /\ (FirstGet(p) => FirstGet(p)')
  BY <1>1, SameFollows DEF FirstPut, FirstGet, Same, Asked
<1> QED
  BY <1>1, <1>2 DEF Asks, Same

LEMMA WorksSame ==
    ASSUME CalmStep, NEW p \in Procs, Same(p), up'[Xfer(p)] = up[Xfer(p)], Alive(p)' => Alive(p),
           NEW w \in Workers, wk'[w] = wk[w], Works(w, p)
    PROVE  Works(w, p)'
<1>0. Shapes /\ [Next]_vars /\ xf'[p] = xf[p] /\ disk'[p] = disk[p] /\ Rest(p)' = Rest(p)
  BY AsksSame DEF CalmStep, Calm, Same
<1>1. wk[w].at \in {"length", "send"} => Sends(w, p)'
  <2> SUFFICES ASSUME wk[w].at \in {"length", "send"} PROVE Sends(w, p)'
    OBVIOUS
  <2>1. Sends(w, p)
    BY DEF Works
  <2>2. PICK B : B = Content(wk[w].md5)
    OBVIOUS
  <2>3. Alive(p) /\ xf[p].at # "over" => Follows(p, B)'
    BY <2>1, <2>2, SameFollows DEF Sends
  <2>4. Follows(p, B)' => Follows(p, Content(wk[w].md5))'
    BY <2>2 DEF Content
  <2> QED
    BY <1>0, <2>1, <2>3, <2>4, SameFollows DEF Sends, Same
<1>2. \A m : Settled(m) => Settled(m)'
  BY <1>0, SettledLasts
<1>3. wk[w].at \in {"have", "check", "length", "send"} => wk[w].md5 \in Contained /\ Settled(wk[w].md5)'
  BY <1>2 DEF Works, Settled
<1> QED
  BY <1>0, <1>1, <1>3, AsksSame, SameFollows DEF Works, Asked, Contained

\* Where the client goes on.
LEMMA GettingMoves ==
    ASSUME CalmStep, NEW p \in Procs, Transfer(p)
    PROVE  Getting(p)'
<1>0. /\ Shapes /\ [Next]_vars /\ Getting(p) /\ Sender(p) /\ Local(p) /\ Stream(p)
      /\ DOMAIN xf = Procs /\ DOMAIN xf[p] = {"at", "type", "len", "pos"}
  BY DEF CalmStep, Calm, Senders, Spelling, Spelt, Shapes, ClientOK
<1>1. xf[p].at \notin {"none", "over"}
  BY DEF Transfer, SendMd5, SendContent, SendBuffer, SendLocal, RecvCheck, RecvLength, RecvUnmapped, RecvBuffer
<1>2. xf'[p].type = xf[p].type /\ xf[p].type # "none"
  BY <1>0, <1>1 DEF Stream, Sender
<1>3. CASE xf[p].type # "gets"
  BY <1>2, <1>3 DEF Getting
<1>4. CASE xf[p].type = "gets"
  <2>1. CASE Fresh(p)
    BY <1>0, <1>2, <1>4, <2>1, FreshMoves DEF Getting
  <2>2. ASSUME Rest(p) = 0, NEW m \in Contained, Settled(m), Follows(p, Content(m)) PROVE Getting(p)'
    <3>1. Rest(p)' = 0 /\ Settled(m)'
      BY <1>0, <1>4, <2>2, RestOver, SettledLasts
    <3>2. PICK B : B = Content(m)
      OBVIOUS
    <3>3. (Follows(p, B)' /\ Turn(p)) \/ Ended(p, B) \/ Stops(p, B)
      BY <1>0, <1>4, <2>2, <3>2, ContentIs, FollowsMoves
    <3>4. CASE Follows(p, B)'
      <4>1. Follows(p, Content(m))'
        BY <3>2, <3>4 DEF Content
      <4> QED
        BY <1>2, <3>1, <4>1 DEF Getting, Contained
    <3>5. CASE Ended(p, B)
      <4>1. Complete(p, m)' /\ xf'[p].at = "over"
        BY <3>1, <3>2, <3>5 DEF Complete, Ended, Content
      <4> QED
        BY <1>2, <3>1, <4>1 DEF Getting, Contained
    <3>6. CASE Stops(p, B)
      <4>1. Stuck(p)'
        BY <3>6 DEF Stops, Stuck, Unmapped, Big
      <4> QED
        BY <1>2, <3>1, <4>1 DEF Getting
    <3> QED
      BY <3>3, <3>4, <3>5, <3>6
  <2>3. ASSUME Rest(p) = 0, Stuck(p) PROVE Getting(p)'
    <3>1. xf[p].at = "unmapped"
      BY <1>1, <2>3 DEF Stuck
    <3>2. RecvUnmapped(p)
      BY <3>1 DEF Transfer, SendMd5, SendContent, SendBuffer, SendLocal, RecvCheck, RecvLength, RecvBuffer
    <3>3. xf'[p].at = "over" /\ xf'[p].pos = xf[p].pos /\ xf'[p].len = xf[p].len
      BY <1>0, <3>2 DEF RecvUnmapped
    <3>4. Stuck(p)'
      BY <2>3, <3>3 DEF Stuck, Unmapped, Big
    <3>5. Rest(p)' = 0
      BY <1>0, <1>4, <2>3, RestOver
    <3> QED
      BY <1>2, <3>4, <3>5 DEF Getting
  <2> QED
    BY <1>0, <1>1, <1>4, <2>1, <2>2, <2>3 DEF Getting
<1> QED
  BY <1>3, <1>4

LEMMA AsksMoves ==
    ASSUME CalmStep, NEW p \in Procs, Transfer(p)
    PROVE  /\ xf[p].type = "puts" /\ FirstPut(p) => FirstPut(p)'
           /\ xf[p].type = "gets" /\ FirstGet(p) => FirstGet(p)'
           /\ \A c : Asks(p, c) => Asks(p, c)'
<1>0. /\ Shapes /\ Sender(p) /\ Stream(p) /\ Xfer(p) \in Conns /\ DOMAIN up = Conns
      /\ DOMAIN xf = Procs /\ DOMAIN xf[p] = {"at", "type", "len", "pos"}
  BY DEF CalmStep, Calm, Senders, Shapes, ClientOK, WordOK, Xfer, Conns
<1>1. xf[p].at \notin {"none", "over"}
  BY DEF Transfer, SendMd5, SendContent, SendBuffer, SendLocal, RecvCheck, RecvLength, RecvUnmapped, RecvBuffer
<1>2. xf'[p].type = xf[p].type /\ xf[p].type # "none"
  BY <1>0, <1>1 DEF Stream, Sender
<1>3. xf[p].type = "gets" /\ FirstGet(p) => FirstGet(p)'
  BY <1>0, GetsRest, FreshMoves DEF FirstGet, Asked
<1>4. ASSUME xf[p].type = "puts", FirstPut(p) PROVE FirstPut(p)'
  <2> DEFINE s == up[Xfer(p)]
  <2>1. IsSeq(s) /\ Len(s) \in Nat
    BY <1>0, WordsIs
  <2>2. CASE s = << >>
    <3>1. SendMd5(p)
      BY <1>4, <2>2 DEF FirstPut, Transfer, SendMd5, SendContent, SendBuffer, SendLocal, RecvCheck, RecvLength, RecvUnmapped, RecvBuffer
    <3>2. PICK x : x = W("md5", Md5[p])
      OBVIOUS
    <3>3. up'[Xfer(p)] = << >> \o <<x>> /\ x.k = "md5"
      BY <1>0, <2>2, <3>1, <3>2 DEF SendMd5, Put, W
    <3>4. << >> \o <<x>> = <<x>>
      OBVIOUS
    <3>5. up'[Xfer(p)] # << >> /\ up'[Xfer(p)][1] = x
      BY <3>3, <3>4, Pair
    <3> QED
      BY <3>3, <3>5 DEF FirstPut
  <2>3. CASE s # << >>
    <3>1. s[1].k = "md5" /\ Len(s) >= 1
      BY <1>4, <2>1, <2>3 DEF FirstPut, IsSeq
    <3>2. CASE UNCHANGED up
      BY <1>4, <2>3, <3>2 DEF FirstPut
    <3>3. ASSUME NEW ws, UpWords(Xfer(p), ws), up' = Put(up, Xfer(p), ws) PROVE FirstPut(p)'
      <4>1. up'[Xfer(p)] = s \o ws /\ IsSeq(ws)
        BY <1>0, <3>3 DEF Put, UpWords
      <4> DEFINE t == up'[Xfer(p)]
      <4>2. Len(t) = Len(s) + Len(ws) /\ Len(ws) \in Nat /\ t[1] = s[1]
        <5>1. /\ Len(s \o ws) = Len(s) + Len(ws) /\ Len(ws) \in Nat
              /\ \A i \in 1..(Len(s) + Len(ws)) : (s \o ws)[i] = IF i <= Len(s) THEN s[i] ELSE ws[i - Len(s)]
          BY <2>1, <4>1, Joined
        <5>2. 1 \in 1..(Len(s) + Len(ws))
          BY <2>1, <3>1, <5>1
        <5> QED
          BY <3>1, <4>1, <5>1, <5>2
      <4>3. t # << >>
        <5>1. Len(t) # 0
          BY <2>1, <3>1, <4>2
        <5> QED
          BY <5>1, Pair
      <4> QED
        BY <3>1, <4>2, <4>3 DEF FirstPut
    <3> QED
      BY <1>0, <3>2, <3>3, TransferSends DEF Sent
  <2> QED
    BY <2>2, <2>3
<1>5. ASSUME NEW c, Asks(p, c) PROVE Asks(p, c)'
  <2>1. xf[p].type = c /\ c \in {"puts", "gets"}
    BY <1>0, <1>2, <1>5 DEF Asks, Sender
  <2>2. CASE c = "puts"
    BY <1>2, <1>4, <1>5, <2>1, <2>2 DEF Asks
  <2>3. CASE c = "gets"
    BY <1>2, <1>3, <1>5, <2>1, <2>3 DEF Asks
  <2> QED
    BY <2>1, <2>2, <2>3
<1> QED
  BY <1>3, <1>4, <1>5

LEMMA WorksMoves ==
    ASSUME CalmStep, NEW p \in Procs, Transfer(p), NEW w \in Workers, wk'[w] = wk[w], Works(w, p)
    PROVE  Works(w, p)'
<1>0. /\ Shapes /\ [Next]_vars /\ Sender(p) /\ Stream(p) /\ Local(p) /\ Rest(p) \in Nat
      /\ Alive(p) /\ xf[p].at \notin {"none", "over"}
  <2>1. Alive(p) /\ xf[p].at \notin {"none", "over"}
    BY DEF Transfer, SendMd5, SendContent, SendBuffer, SendLocal, RecvCheck, RecvLength, RecvUnmapped, RecvBuffer
  <2> QED
    BY <2>1 DEF CalmStep, Calm, Senders, Spelling, Spelt
<1>1. xf'[p].type = xf[p].type
  BY <1>0 DEF Stream
<1>2. CASE wk[w].at \in PutsAt
  <2>1. xf[p].type = "puts" /\ wk[w].at \notin GetsAt
    BY <1>2 DEF Works, PutsAt, GetsAt
  <2>2. wk[w].at = "md5" => FirstPut(p)'
    BY <2>1, AsksMoves DEF Works
  <2> QED
    BY <1>1, <1>2, <2>1, <2>2 DEF Works, PutsAt, GetsAt
<1>3. CASE wk[w].at \in GetsAt
  <2>1. xf[p].type = "gets" /\ wk[w].at \notin PutsAt
    BY <1>3 DEF Works, PutsAt, GetsAt
  <2>2. Rest(p)' = Rest(p)
    BY <1>0, <2>1, GetsRest
  <2>3. FirstGet(p) => FirstGet(p)'
    BY <2>1, AsksMoves
  <2>4. wk[w].at = "check" => wk[w].pos = 0 /\ Fresh(p)' /\ Rest(p)' = 1 /\ Asked(disk[p])' = 2
    BY <1>0, <2>1, <2>2, FreshMoves DEF Works, Asked
  <2>5. wk[w].at \in {"have", "check", "length", "send"} => wk[w].md5 \in Contained /\ Settled(wk[w].md5)'
    <3>1. \A m : Settled(m) => Settled(m)'
      BY <1>0, SettledLasts
    <3> QED
      BY <3>1 DEF Works, Settled
  <2>6. wk[w].at \in {"length", "send"} => Sends(w, p)'
    <3> SUFFICES ASSUME wk[w].at \in {"length", "send"} PROVE Sends(w, p)'
      OBVIOUS
    <3>1. Sends(w, p)
      BY DEF Works
    <3>2. PICK B : B = Content(wk[w].md5)
      OBVIOUS
    <3>7. xf[p].at \in {"check", "length", "receiving"} /\ Follows(p, B)
          /\ IF wk[w].at = "length" THEN wk[w].pos = Offset(p) /\ Len(down[Xfer(p)]) + 1 = Answers(p)
             ELSE /\ wk[w].pos >= Offset(p) /\ Len(down[Xfer(p)]) = Answers(p) + wk[w].pos - Offset(p)
                  /\ xf[p].at # "receiving" => ~ Unmapped(Offset(p), Len(B))
      BY <1>0, <3>1, <3>2 DEF Sends, Follows
    <3>8. ~ Stops(p, B)
      <4> SUFFICES ASSUME Stops(p, B) PROVE FALSE
        OBVIOUS
      <4>1. xf[p].at = "length" /\ Len(down[Xfer(p)]) >= 1 /\ Unmapped(Offset(p), Len(B)) /\ Answers(p) = 1
        BY DEF Stops, Answers
      <4>2. Len(down[Xfer(p)]) \in Nat
        BY <1>0, DownIs DEF Xfer, Conns
      <4> QED
        BY <3>7, <4>1, <4>2
    <3>3. (Follows(p, B)' /\ Turn(p)) \/ Ended(p, B)
      BY <1>0, <2>1, <3>7, <3>8, <3>2, ContentIs, FollowsMoves
    <3>4. Rest(p)' = 0 /\ wk'[w].pos \in Nat
      BY <2>2, <3>1 DEF Sends
    <3>5. CASE Ended(p, B)
      BY <3>4, <3>5 DEF Ended, Sends
    <3>6. CASE Follows(p, B)' /\ Turn(p)
      <4>1. Follows(p, Content(wk[w].md5))'
        BY <3>2, <3>6 DEF Content
      <4>2. Answers(p) \in {0, 1, 2} /\ Answers(p)' \in {0, 1, 2}
        BY DEF Answers
      <4>n. Offset(p) \in Nat /\ Offset(p)' \in Nat
        <5>1. Len(B) \in Nat
          BY <3>2, ContentIs
        <5>2. Offset(p) \in 0..Len(B)
          BY <1>0, <3>1, <3>2 DEF Sends, Follows
        <5>3. Offset(p)' \in 0..Len(B)
          BY <3>6 DEF Follows
        <5> QED
          BY <5>1, <5>2, <5>3
      <4>w. wk[w].pos \in Nat /\ Turn(p)
        BY <3>1, <3>6 DEF Sends
      <4>5. wk[w].at # "length" /\ xf'[p].at # "receiving" => ~ Unmapped(Offset(p)', Len(B))
        <5> SUFFICES ASSUME wk[w].at # "length", xf'[p].at # "receiving" PROVE ~ Unmapped(Offset(p)', Len(B))
          OBVIOUS
        <5>1. Answers(p)' \in {1, 2}
          BY <3>6 DEF Follows, Answers
        <5>2. Offset(p)' = Offset(p) /\ Answers(p) # 0
          BY <4>w, <4>2, <5>1 DEF Turn
        <5>3. xf[p].at # "receiving"
          BY <5>2 DEF Answers
        <5> QED
          BY <3>7, <5>2, <5>3
      <4>6. (wk[w].at # "length" /\ xf[p].at # "receiving" => ~ Unmapped(Offset(p), Len(Content(wk[w].md5))))'
        BY <3>2, <4>5 DEF Content, Unmapped, Big
      <4>3. IF wk[w].at = "length" THEN wk[w].pos = Offset(p) /\ Len(down[Xfer(p)]) + 1 = Answers(p)
            ELSE wk[w].pos >= Offset(p) /\ Len(down[Xfer(p)]) = Answers(p) + wk[w].pos - Offset(p)
        BY <1>0, <3>1 DEF Sends
      <4>4. IF wk[w].at = "length" THEN wk[w].pos = Offset(p)' /\ Len(down[Xfer(p)])' + 1 = Answers(p)'
            ELSE wk[w].pos >= Offset(p)' /\ Len(down[Xfer(p)])' = Answers(p)' + wk[w].pos - Offset(p)'
        <5>1. PICK o, a, l, x, y, z, n : /\ o = Offset(p) /\ a = Answers(p) /\ l = Len(down[Xfer(p)])
                                         /\ x = Offset(p)' /\ y = Answers(p)' /\ z = Len(down[Xfer(p)])'
                                         /\ n = wk[w].pos
          OBVIOUS
        <5>2. o \in Nat /\ x \in Nat /\ a \in {0, 1, 2} /\ y \in {0, 1, 2} /\ n \in Nat
          BY <4>2, <4>n, <4>w, <5>1
        <5>3. z \in Nat /\ z + 1 = l /\ ((y + 1 = a /\ x = o) \/ (a = 0 /\ y = 0 /\ x = o + 1))
          BY <4>w, <5>1 DEF Turn
        <5>4. CASE wk[w].at = "length"
          <6>1. n = o /\ l + 1 = a
            BY <4>3, <5>1, <5>4
          <6>2. n = x /\ z + 1 = y
            BY <5>2, <5>3, <6>1
          <6> QED
            BY <5>1, <5>4, <6>2
        <5>5. CASE wk[w].at # "length"
          <6>1. n >= o /\ l = a + n - o
            BY <4>3, <5>1, <5>5
          <6>2. n >= x /\ z = y + n - x
            BY <5>2, <5>3, <6>1
          <6> QED
            BY <5>1, <5>5, <6>2
        <5> QED
          BY <5>4, <5>5
      <4> QED
        BY <3>4, <4>1, <4>4, <4>6 DEF Sends
    <3> QED
      BY <3>3, <3>5, <3>6
  <2> QED
    BY <1>1, <1>3, <2>1, <2>2, <2>3, <2>4, <2>5, <2>6 DEF Works, PutsAt, GetsAt, Contained
<1>4. CASE wk[w].at \notin PutsAt \cup GetsAt
  BY <1>4 DEF Works, PutsAt, GetsAt
<1> QED
  BY <1>2, <1>3, <1>4
-----------------------------------------------------------------------------
(* Tasks that others leave alone *)

Steady(d) ==
    \A p \in Procs : sock[d] = Xfer(p) =>
       /\ sock'[d] = Xfer(p)
       /\ \A c : Asks(p, c) => Asks(p, c)'
       /\ \A w \in Workers : wk'[w] = wk[w] /\ Works(w, p) => Works(w, p)'
Working(w) == wk[w].at \in PutsAt \cup GetsAt =>
                 \E p \in Procs : sock[wk[w].fd] = Xfer(p) /\ Works(w, p)

LEMMA ServedSteady ==
    ASSUME NEW d, Steady(d), NEW c, Served(d, c)
    PROVE  Served(d, c)'
BY DEF Steady, Served

LEMMA WorkSteady ==
    ASSUME NEW w \in Workers, wk'[w] = wk[w], Steady(wk[w].fd), Working(w)
    PROVE  Working(w)'
<1>1. CASE wk[w].at \in PutsAt \cup GetsAt
  <2>1. PICK p \in Procs : sock[wk[w].fd] = Xfer(p) /\ Works(w, p)
    BY <1>1 DEF Working
  <2>2. sock'[wk'[w].fd] = Xfer(p) /\ Works(w, p)'
    BY <2>1 DEF Steady
  <2> QED
    BY <2>2 DEF Working
<1>2. CASE wk[w].at \notin PutsAt \cup GetsAt
  BY <1>2 DEF Working, PutsAt, GetsAt
<1> QED
  BY <1>1, <1>2

LEMMA TaskingSteady ==
    ASSUME CalmStep, UNCHANGED <<wk, que>>, \A d \in Fds : sock[d] # NULL /\ d \notin watched => Steady(d)
    PROVE  Tasking'
<1>0. Shapes /\ Handed /\ Tasking /\ que \in Seq(Tasks)
  BY DEF CalmStep, Calm, Shapes, PoolOK
<1>1. ASSUME NEW i \in 1..Len(que) PROVE Served(que[i].fd, que[i].type)'
  <2>1. que[i] \in Tasks
    BY <1>0
  <2>2. PICK d \in Fds : d = que[i].fd
    BY <2>1 DEF Tasks
  <2>3. PICK c : c = que[i].type
    OBVIOUS
  <2>4. Steady(d)
    <3>1. i \in Waits(d)
      BY <2>2 DEF Waits
    <3> QED
      BY <1>0, <3>1 DEF Handed
  <2>5. Served(d, c)'
    BY <1>0, <2>2, <2>3, <2>4, ServedSteady DEF Tasking
  <2> QED
    BY <2>2, <2>3, <2>5 DEF Served
<1>2. ASSUME NEW w \in Workers PROVE Working(w)'
  <2>1. CASE wk[w].at \in PutsAt \cup GetsAt
    <3>1. wk[w].at \notin {"idle", "status"}
      BY <2>1 DEF PutsAt, GetsAt
    <3>2. wk[w].fd \in Fds /\ w \in Held(wk[w].fd)
      BY <1>0, <3>1, HandWords DEF Held
    <3>3. Steady(wk[w].fd)
      BY <1>0, <3>2 DEF Handed
    <3> QED
      BY <1>0, <3>3, WorkSteady DEF Tasking, Working
  <2>2. CASE wk[w].at \notin PutsAt \cup GetsAt
    BY <2>2 DEF Working, PutsAt, GetsAt
  <2> QED
    BY <2>1, <2>2
<1> QED
  BY <1>1, <1>2 DEF Tasking, Working

\* Where nothing about p changes but that its process may end.
LEMMA SteadySame ==
    ASSUME CalmStep, NEW p \in Procs, Same(p), up'[Xfer(p)] = up[Xfer(p)], Alive(p)' => Alive(p)
    PROVE  /\ \A c : Asks(p, c) => Asks(p, c)'
           /\ \A w \in Workers : wk'[w] = wk[w] /\ Works(w, p) => Works(w, p)'
BY AsksSame, WorksSame

\* What the user does.
LEMMA UserSame ==
    ASSUME Shapes, NEW q \in Procs, User(q), NEW p \in Procs, p # q \/ ~ \E c \in {"puts", "gets"} : SendToken(q, c)
    PROVE  Same(p) /\ up'[Xfer(p)] = up[Xfer(p)] /\ (Alive(p)' => Alive(p))
<1>0. /\ Xfer(p) \in Conns /\ DOMAIN up = Conns /\ DOMAIN down = Conns /\ DOMAIN xf = Procs /\ DOMAIN cl = Procs
      /\ Xfer(p) # Main(q) /\ (p # q => Xfer(p) # Xfer(q))
      /\ UNCHANGED disk
  BY UserFrame DEF Xfer, Main, Conns, Shapes, WordOK, ClientOK
<1>1. Alive(p)' => Alive(p)
  BY <1>0 DEF User, Alive, Start, TypeLogin, RecvLogin, Quit, TypeCommand, SendToken, Type
<1>2. xf'[p] = xf[p]
  <2>1. CASE \E c \in {"puts", "gets"} : SendToken(q, c)
    BY <1>0, <2>1 DEF SendToken
  <2> QED
    BY <2>1, UserFrame
<1>3. down'[Xfer(p)] = down[Xfer(p)]
  <2>1. CASE RecvLogin(q)
    BY <1>0, <2>1 DEF RecvLogin
  <2> QED
    BY <2>1, UserFrame
<1>4. up'[Xfer(p)] = up[Xfer(p)]
  <2>1. CASE TypeLogin(q)
    BY <1>0, <2>1 DEF TypeLogin, Put
  <2>2. ASSUME NEW c \in {"cd", "ls", "mkdir", "rm"}, NEW n \in Names, TypeCommand(q, c, n)
        PROVE  up'[Xfer(p)] = up[Xfer(p)]
    BY <1>0, <2>2 DEF TypeCommand, Put
  <2>3. CASE \E c \in {"puts", "gets"} : SendToken(q, c)
    BY <1>0, <2>3 DEF SendToken, Put
  <2> QED
    BY <2>1, <2>2, <2>3, UserFrame
<1> QED
  BY <1>0, <1>1, <1>2, <1>3, <1>4 DEF Same

LEMMA TransferSame ==
    ASSUME Shapes, NEW q \in Procs, Transfer(q), NEW p \in Procs, p # q
    PROVE  Same(p) /\ up'[Xfer(p)] = up[Xfer(p)] /\ (Alive(p)' => Alive(p))
<1>0. /\ Xfer(p) \in Conns /\ DOMAIN up = Conns /\ DOMAIN down = Conns /\ DOMAIN xf = Procs /\ DOMAIN disk = Procs
      /\ Xfer(p) # Xfer(q) /\ UNCHANGED cl
  BY TransferFrame DEF Xfer, Conns, Shapes, WordOK, ClientOK
<1>1. UNCHANGED up \/ \E ws : up' = Put(up, Xfer(q), ws)
  BY TransferSends DEF Sent
<1>2. up'[Xfer(p)] = up[Xfer(p)]
  BY <1>0, <1>1 DEF Put
<1>3. xf'[p] = xf[p] /\ disk'[p] = disk[p]
  BY <1>0 DEF Transfer, SendMd5, SendContent, SendBuffer, SendLocal, RecvCheck, RecvLength, RecvUnmapped, RecvBuffer
<1>4. UNCHANGED down \/ TailDown(q)
  BY DEF Transfer, SendMd5, SendContent, SendBuffer, SendLocal, RecvCheck, RecvLength, RecvUnmapped, RecvBuffer
<1>5. down'[Xfer(p)] = down[Xfer(p)]
  BY <1>0, <1>4 DEF TailDown
<1> QED
  BY <1>0, <1>2, <1>3, <1>5 DEF Same, Alive

LEMMA ClientsCalm ==
    ASSUME CalmStep, NEW q \in Procs, User(q) \/ Transfer(q)
    PROVE  Tasking' /\ \A p \in Procs : Getting(p)'
<1>0. Shapes /\ UNCHANGED <<wk, que, sock>>
  BY UserFrame, TransferFrame DEF CalmStep, Calm
<1>1. CASE Transfer(q)
  <2>1. ASSUME NEW p \in Procs
        PROVE  /\ Getting(p)'
               /\ \A c : Asks(p, c) => Asks(p, c)'
               /\ \A w \in Workers : wk'[w] = wk[w] /\ Works(w, p) => Works(w, p)'
    <3>1. CASE p = q
      BY <1>1, <3>1, GettingMoves, AsksMoves, WorksMoves
    <3>2. CASE p # q
      BY <1>0, <1>1, <3>2, TransferSame, GettingSame, SteadySame
    <3> QED
      BY <3>1, <3>2
  <2>2. \A d \in Fds : Steady(d)
    BY <1>0, <2>1 DEF Steady
  <2> QED
    BY <1>0, <2>1, <2>2, TaskingSteady
<1>2. CASE User(q) /\ ~ \E c \in {"puts", "gets"} : SendToken(q, c)
  <2>1. ASSUME NEW p \in Procs
        PROVE  /\ Getting(p)'
               /\ \A c : Asks(p, c) => Asks(p, c)'
               /\ \A w \in Workers : wk'[w] = wk[w] /\ Works(w, p) => Works(w, p)'
    BY <1>0, <1>2, UserSame, GettingSame, SteadySame
  <2>2. \A d \in Fds : Steady(d)
    BY <1>0, <2>1 DEF Steady
  <2> QED
    BY <1>0, <2>1, <2>2, TaskingSteady
<1>3. ASSUME NEW c \in {"puts", "gets"}, SendToken(q, c) PROVE Tasking' /\ \A p \in Procs : Getting(p)'
  <2>0. User(q)
    BY <1>3 DEF User
  <2>1. ASSUME NEW p \in Procs, p # q
        PROVE  /\ Getting(p)'
               /\ \A b : Asks(p, b) => Asks(p, b)'
               /\ \A w \in Workers : wk'[w] = wk[w] /\ Works(w, p) => Works(w, p)'
    BY <1>0, <2>0, <2>1, UserSame, GettingSame, SteadySame
  <2>2. /\ xf[q].at = "none" /\ DOMAIN xf = Procs /\ UNCHANGED down
        /\ xf' = [xf EXCEPT ![q] = [at |-> "start", type |-> c, len |-> 0, pos |-> 0]]
    BY <1>0, <1>3 DEF SendToken, Shapes, ClientOK
  <2>3. xf'[q].at = "start" /\ xf'[q].type = c /\ xf'[q].pos = 0
    BY <2>2
  <2>4. down[Xfer(q)] = << >>
    <3>1. Sender(q) /\ Getting(q)
      BY DEF CalmStep, Calm, Senders
    <3>2. xf[q].type = "none"
      BY <2>2, <3>1 DEF Sender
    <3> QED
      BY <3>1, <3>2 DEF Getting
  <2>5. Fresh(q)'
    BY <2>2, <2>3, <2>4 DEF Fresh
  <2>6. Getting(q)'
    BY <2>3, <2>5 DEF Getting
  <2>7. \A d \in Fds : sock[d] # Xfer(q)
    <3>1. ~ Made(Xfer(q)) /\ Xfer(q) # NULL
      <4>1. Xfer(q)[1] = q /\ Xfer(q)[2] = "xfer" /\ Xfer(q) \in Conns
        BY DEF Xfer, Conns
      <4> QED
        BY <2>2, <4>1, ValuesAssumption DEF Made
    <3> QED
      BY <1>0, <3>1 DEF Shapes, NetOK
  <2>8. \A d \in Fds : Steady(d)
    BY <1>0, <2>1, <2>7 DEF Steady
  <2> QED
    BY <1>0, <2>1, <2>6, <2>8, TaskingSteady
<1> QED
  BY <1>1, <1>2, <1>3
-----------------------------------------------------------------------------
(* What the event loop does *)

\* The event loop answers no transfer connection.
LEMMA ServeSame ==
    ASSUME CalmStep, NEW e \in Fds, Serve(e), NEW p \in Procs
    PROVE  /\ Same(p) /\ (Alive(p)' => Alive(p))
           /\ sock[e] # Xfer(p) => up'[Xfer(p)] = up[Xfer(p)]
           /\ \A d \in Fds \ {e} : sock'[d] = sock[d]
<1>0. /\ Shapes /\ UNCHANGED <<cl, xf, disk>> /\ e \in watched
      /\ Xfer(p) \in Conns /\ DOMAIN down = Conns /\ DOMAIN up = Conns /\ DOMAIN sock = Fds /\ sock[e] \in Conns
      /\ IsSeq(up[Xfer(p)]) /\ Orders(up[Xfer(p)], xf[p].type, xf[p].at)
  <2>1. Shapes /\ Spelt(p)
    BY DEF CalmStep, Calm, Spelling
  <2>2. UNCHANGED <<cl, xf, disk>> /\ e \in watched
    BY ServeFrame
  <2>3. Xfer(p) \in Conns
    BY DEF Xfer, Conns
  <2>4. DOMAIN down = Conns /\ DOMAIN up = Conns /\ DOMAIN sock = Fds /\ sock[e] \in Conns
    BY <2>1, <2>2 DEF Shapes, WordOK, NetOK
  <2>5. IsSeq(up[Xfer(p)]) /\ Orders(up[Xfer(p)], xf[p].type, xf[p].at)
    BY <2>1, <2>3, WordsIs DEF Spelt
  <2> QED
    BY <2>1, <2>2, <2>3, <2>4, <2>5
<1>1. down'[Xfer(p)] = down[Xfer(p)]
  <2>1. CASE LoginPassword(e)
    <3>1. up[sock[e]] # << >> /\ up[sock[e]][1].k = "zero" /\ \E ws : Reply(e, ws)
      BY <2>1 DEF LoginPassword, Readable
    <3>2. sock[e] # Xfer(p)
      <4> SUFFICES ASSUME sock[e] = Xfer(p) PROVE FALSE
        OBVIOUS
      <4>1. 1 \in 1..Len(up[Xfer(p)])
        BY <1>0, <3>1 DEF IsSeq
      <4> QED
        BY <1>0, <3>1, <4>1 DEF Orders
    <3> QED
      BY <1>0, <3>1, <3>2 DEF Reply, Put
  <2> QED
    BY <2>1, ServeFrame
<1>2. sock[e] # Xfer(p) => up'[Xfer(p)] = up[Xfer(p)]
  BY <1>0, ServeTakes DEF Taken
<1>3. \A d \in Fds \ {e} : sock'[d] = sock[d]
  <2>1. CASE LoginEof(e) \/ CommandEof(e) \/ CommandReset(e)
    BY <1>0, <2>1 DEF LoginEof, CommandEof, CommandReset, Closed
  <2> QED
    BY <2>1, ServeFrame
<1> QED
  BY <1>0, <1>1, <1>2, <1>3 DEF Same, Alive

\* A transfer that is handed to the pool has its command read, and nothing else.
LEMMA PushServes ==
    ASSUME CalmStep, NEW e \in Fds, NEW c \in {"puts", "gets"}, Serve(e), Command(e, c), sock'[e] = sock[e]
    PROVE  Served(e, c)'
<1>0. /\ Shapes /\ e \in watched /\ sock[e] \in Conns /\ up[sock[e]] # << >> /\ DOMAIN up = Conns
      /\ up[sock[e]][1].k = "cmd" /\ up[sock[e]][1].v = c /\ Consume(e, 1) /\ IsSeq(up[sock[e]])
  BY ServeFrame, WordsIs DEF CalmStep, Calm, Shapes, NetOK, WordOK, Command, Readable
<1>1. PICK p \in Procs : sock[e] = Main(p) \/ sock[e] = Xfer(p)
  BY <1>0 DEF Conns, Main, Xfer
<1>2. /\ Spelt(p) /\ Sender(p) /\ Getting(p) /\ Rest(p) \in Nat /\ Xfer(p) \in Conns /\ Main(p) \in Conns
  BY DEF CalmStep, Calm, Spelling, Senders, Xfer, Main, Conns
<1> DEFINE s == up[sock[e]]
           t == up'[sock[e]]
<1>3. Len(s) \in Nat /\ Len(s) >= 1 /\ 1 \in 1..Len(s)
  BY <1>0 DEF IsSeq
<1>4. sock[e] = Xfer(p)
  <2>1. ~ Bare(s)
    BY <1>0, <1>3 DEF Bare
  <2> QED
    BY <1>1, <1>2, <2>1 DEF Spelt
<1>5. /\ xf[p].type = c
      /\ c = "puts" => IF 1 < Len(s) THEN s[1 + 1].k = "md5" ELSE xf[p].at = "start"
  BY <1>0, <1>2, <1>3, <1>4 DEF Spelt, Orders
<1>6. t = SubSeq(s, 1 + 1, Len(s))
  BY <1>0 DEF Consume
<1>7. IsSeq(t) /\ Len(t) = Len(s) - 1 /\ \A i \in 1..(Len(s) - 1) : t[i] = s[i + 1]
  <2>1. 1 \in Nat /\ 1 <= Len(s) /\ IsSeq(s)
    BY <1>0, <1>3
  <2> HIDE DEF s, t
  <2> QED
    BY <1>6, <2>1, Dropped
<1>z. ~ (1 < Len(s)) => Len(t) = 0
  <2> HIDE DEF s, t
  <2> QED
    BY <1>3, <1>7
<1>8. Same(p)
  BY ServeSame
<1>9. Asks(p, c)'
  <2>1. CASE c = "puts"
    <3>1. CASE 1 < Len(s)
      <4>1. t # << >> /\ t[1] = s[1 + 1]
        <5>1. 1 \in 1..(Len(s) - 1) /\ Len(t) # 0
          BY <1>3, <1>7, <3>1
        <5> QED
          BY <1>7, <5>1, Pair
      <4> QED
        BY <1>4, <1>5, <1>8, <2>1, <3>1, <4>1 DEF Asks, FirstPut, Same
    <3>2. CASE ~ (1 < Len(s))
      <4>1. Len(t) = 0
        BY <1>z, <3>2
      <4>2. t = << >>
        BY <1>7, <4>1 DEF IsSeq
      <4> QED
        BY <1>4, <1>5, <1>8, <2>1, <3>2, <4>2 DEF Asks, FirstPut, Same
    <3> QED
      BY <3>1, <3>2
  <2>2. CASE c = "gets"
    <3>1. Rest(p)' = Rest(p) - 1
      BY <1>0, <1>2, <1>3, <1>4, <1>6, <1>8, StreamTaken DEF Same
    <3>2. Rest(p) # 0
      <4>1. Unsent(p) \in Nat
        BY <1>2, UnsentIs
      <4> QED
        BY <1>3, <1>4, <4>1 DEF Rest
    <3>3. Fresh(p)
      BY <1>2, <1>5, <2>2, <3>2 DEF Getting
    <3>4. GetsWord(disk[p], s[1], Rest(p) - 1 + 1)
      BY <1>2, <1>3, <1>4, <1>5, <2>2, <3>3 DEF Fresh, Spelt, GetsWords
    <3>5. Rest(p) = Asked(disk[p]) + 1
      <4>1. Asked(disk[p]) \in {1, 2} /\ Rest(p) - 1 + 1 = Rest(p)
        BY <1>2 DEF Asked
      <4>2. s[1].k = "cmd"
        BY <1>0
      <4> HIDE DEF s
      <4> QED
        BY <1>2, <3>4, <4>1, <4>2 DEF GetsWord
    <3>6. Asked(disk[p])' = Asked(disk[p]) /\ Asked(disk[p]) \in {1, 2}
      BY <1>8 DEF Asked, Same
    <3>7. Rest(p)' = Asked(disk[p])'
      BY <3>1, <3>5, <3>6
    <3>8. Fresh(p)'
      BY <1>8, <3>3, SameFollows
    <3> QED
      BY <1>5, <1>8, <2>2, <3>7, <3>8 DEF Asks, FirstGet, Same
  <2> QED
    BY <2>1, <2>2
<1> QED
  BY <1>4, <1>9 DEF Served

LEMMA ServeCalm ==
    ASSUME CalmStep, NEW e \in Fds, Serve(e)
    PROVE  Tasking' /\ \A p \in Procs : Getting(p)'
<1>0. /\ Shapes /\ Handed /\ Tasking /\ UNCHANGED wk /\ e \in watched /\ que \in Seq(Tasks)
      /\ \A d, f \in Fds : sock[d] = sock[f] /\ sock[d] # NULL => d = f
  BY ServeFrame DEF CalmStep, Calm, Shapes, NetOK, PoolOK
<1>1. \A p \in Procs : Getting(p)'
  BY ServeSame, GettingSame
<1>2. ASSUME NEW d \in Fds, d # e, sock[d] # NULL PROVE Steady(d)
  <2>1. ASSUME NEW p \in Procs, sock[d] = Xfer(p)
        PROVE  /\ sock'[d] = Xfer(p)
               /\ \A c : Asks(p, c) => Asks(p, c)'
               /\ \A w \in Workers : wk'[w] = wk[w] /\ Works(w, p) => Works(w, p)'
    <3>1. sock[e] # Xfer(p)
      BY <1>0, <1>2, <2>1
    <3> QED
      BY <1>2, <2>1, <3>1, ServeSame, SteadySame
  <2> QED
    BY <2>1 DEF Steady
<1>3. CASE UNCHANGED que
  BY <1>0, <1>1, <1>2, <1>3, TaskingSteady
<1>4. CASE Push(e)
  <2>1. PICK c \in {"puts", "gets"} : Command(e, c) /\ que' = Append(que, [fd |-> e, type |-> c])
    BY <1>4 DEF Push
  <2>2. sock' = sock
    BY <1>4 DEF Push
  <2>3. Served(e, c)'
    BY <2>1, <2>2, PushServes
  <2> DEFINE n == Len(que)
  <2>4. /\ Len(que') = n + 1 /\ n \in Nat
        /\ \A i \in 1..(n + 1) : que'[i] = IF i <= n THEN que[i] ELSE [fd |-> e, type |-> c]
    BY <1>0, <2>1
  <2>5. ASSUME NEW i \in 1..(n + 1) PROVE Served(que[i].fd, que[i].type)'
    <3>1. CASE i <= n
      <4>1. i \in 1..Len(que) /\ que'[i] = que[i]
        BY <2>4, <3>1
      <4>2. que[i] \in Tasks
        BY <1>0, <4>1
      <4>3. PICK d \in Fds : d = que[i].fd
        BY <4>2 DEF Tasks
      <4>4. PICK b : b = que[i].type
        OBVIOUS
      <4>5. sock[d] # NULL /\ d # e
        <5>1. i \in Waits(d)
          BY <4>1, <4>3 DEF Waits
        <5> QED
          BY <1>0, <5>1 DEF Handed
      <4>6. Served(d, b)'
        BY <1>0, <1>2, <4>1, <4>3, <4>4, <4>5, ServedSteady DEF Tasking
      <4>7. que'[i].fd = d /\ que'[i].type = b
        BY <4>1, <4>3, <4>4
      <4> QED
        BY <4>6, <4>7 DEF Served
    <3>2. CASE ~ (i <= n)
      <4>1. que'[i].fd = e /\ que'[i].type = c
        BY <2>4, <3>2
      <4> QED
        BY <2>3, <4>1 DEF Served
    <3> QED
      BY <3>1, <3>2
  <2>6. ASSUME NEW w \in Workers PROVE Working(w)'
    <3>1. CASE wk[w].at \in PutsAt \cup GetsAt
      <4>1. wk[w].at \notin {"idle", "status"}
        BY <3>1 DEF PutsAt, GetsAt
      <4>2. wk[w].fd \in Fds /\ w \in Held(wk[w].fd)
        BY <1>0, <4>1, HandWords DEF Held
      <4>3. Steady(wk[w].fd)
        BY <1>0, <1>2, <4>2 DEF Handed
      <4> QED
        BY <1>0, <4>3, WorkSteady DEF Tasking, Working
    <3>2. CASE wk[w].at \notin PutsAt \cup GetsAt
      BY <1>0, <3>2 DEF Working, PutsAt, GetsAt
    <3> QED
      BY <3>1, <3>2
  <2> HIDE DEF n
  <2>7. \A i \in 1..Len(que') : Served(que[i].fd, que[i].type)'
    BY <2>4, <2>5
  <2> QED
    BY <1>1, <2>6, <2>7 DEF Tasking, Working
<1> QED
  BY <1>3, <1>4, ServeFrame

LEMMA OthersCalm ==
    ASSUME CalmStep, Accept \/ SetOnline \/ ServerEnds \/ UNCHANGED vars
    PROVE  Tasking' /\ \A p \in Procs : Getting(p)'
<1>0. /\ UNCHANGED <<wk, que, up, down, cl, xf, disk>>
      /\ UNCHANGED sock \/ \E d \in Fds : sock[d] = NULL /\ sock' = [sock EXCEPT ![d] = backlog[1]]
  BY DEF Accept, SetOnline, ServerEnds, vars, poolVars, clientVars, netVars
<1>1. \A p \in Procs : Same(p) /\ up'[Xfer(p)] = up[Xfer(p)] /\ (Alive(p)' => Alive(p))
  BY <1>0 DEF Same, Alive
<1>2. \A p \in Procs : Getting(p)'
  BY <1>1, GettingSame
<1>3. \A d \in Fds : sock[d] # NULL => sock'[d] = sock[d]
  BY <1>0 DEF CalmStep, Calm, Shapes, NetOK
<1>4. ASSUME NEW d \in Fds, sock[d] # NULL PROVE Steady(d)
  BY <1>1, <1>3, <1>4, SteadySame DEF Steady
<1> QED
  BY <1>0, <1>2, <1>4, TaskingSteady
-----------------------------------------------------------------------------
(* What the workers do *)

\* A worker speaks and listens on its own connection.
LEMMA ThreadSame ==
    ASSUME CalmStep, NEW w \in Workers, Thread(w), NEW p \in Procs
    PROVE  /\ xf'[p] = xf[p] /\ disk'[p] = disk[p] /\ (Alive(p)' <=> Alive(p))
           /\ wk[w].at = "idle" \/ sock[wk[w].fd] # Xfer(p) => Same(p) /\ up'[Xfer(p)] = up[Xfer(p)]
<1>0. /\ Shapes /\ UNCHANGED <<cl, xf, disk>> /\ Xfer(p) \in Conns /\ DOMAIN down = Conns /\ DOMAIN up = Conns
  BY ThreadFrame DEF CalmStep, Calm, Shapes, WordOK, Xfer, Conns
<1>1. CASE wk[w].at = "idle"
  <2>1. UNCHANGED <<up, down>>
    <3>1. ~ Reads(w) /\ ~ ResultMd5(w) /\ ~ CheckMd5(w) /\ ~ SendLength(w) /\ ~ SendFile(w)
      BY <1>1 DEF Reads, RecvMd5, RecvSize, RecvContent, RecvHave, ResultMd5, CheckMd5, SendLength, SendFile
    <3> QED
      BY <3>1, ThreadFrame
  <2> QED
    BY <1>0, <2>1 DEF Same, Alive
<1>2. ASSUME sock[wk[w].fd] # Xfer(p) PROVE Same(p) /\ up'[Xfer(p)] = up[Xfer(p)]
  <2>1. UNCHANGED down \/ \E ws : Answer(w, ws)
    BY ThreadFrame DEF ResultMd5, CheckMd5, SendLength, SendFile
  <2>2. down'[Xfer(p)] = down[Xfer(p)]
    BY <1>0, <1>2, <2>1 DEF Answer, Reply, Put
  <2>3. up'[Xfer(p)] = up[Xfer(p)]
    BY <1>0, <1>2, ThreadTakes DEF Taken
  <2> QED
    BY <1>0, <2>2, <2>3 DEF Same
<1> QED
  BY <1>0, <1>1, <1>2 DEF Alive

LEMMA ThreadSock ==
    ASSUME CalmStep, NEW w \in Workers, Thread(w)
    PROVE  IF TaskClose(w) THEN \A d \in Fds \ {wk[w].fd} : sock'[d] = sock[d] ELSE sock' = sock
<1>1. CASE TaskClose(w)
  BY <1>1 DEF TaskClose, Closed, CalmStep, Calm, Shapes, NetOK
<1>2. CASE ~ TaskClose(w)
  BY <1>2, ThreadFrame, LostCuts DEF Take, CalmStep
<1> QED
  BY <1>1, <1>2

LEMMA ThreadSteady ==
    ASSUME CalmStep, NEW w \in Workers, Thread(w), NEW d \in Fds, sock[d] # NULL,
           wk[w].at = "idle" \/ d # wk[w].fd
    PROVE  Steady(d)
<1>0. Shapes /\ \A e, f \in Fds : sock[e] = sock[f] /\ sock[e] # NULL => e = f
  BY DEF CalmStep, Calm, Shapes, NetOK
<1>1. sock'[d] = sock[d]
  <2>1. wk[w].at = "idle" => ~ TaskClose(w)
    BY DEF TaskClose
  <2> QED
    BY <2>1, ThreadSock
<1>2. ASSUME NEW p \in Procs, sock[d] = Xfer(p)
      PROVE  /\ sock'[d] = Xfer(p)
             /\ \A c : Asks(p, c) => Asks(p, c)'
             /\ \A v \in Workers : wk'[v] = wk[v] /\ Works(v, p) => Works(v, p)'
  <2>1. wk[w].at = "idle" \/ sock[wk[w].fd] # Xfer(p)
    BY <1>0, <1>2, HandWords
  <2> QED
    BY <1>1, <1>2, <2>1, ThreadSame, SteadySame
<1> QED
  BY <1>2 DEF Steady

LEMMA Appended ==
    ASSUME NEW s, IsSeq(s), NEW y
    PROVE  /\ IsSeq(s \o <<y>>) /\ Len(s) \in Nat /\ Len(s \o <<y>>) = Len(s) + 1
           /\ \A i \in 1..(Len(s) + 1) : (s \o <<y>>)[i] = IF i <= Len(s) THEN s[i] ELSE y
<1>1. PICK t : t = <<y>>
  OBVIOUS
<1>2. IsSeq(t) /\ Len(t) = 1 /\ t[1] = y
  BY <1>1, Pair
<1>3. /\ IsSeq(s \o t) /\ Len(s \o t) = Len(s) + Len(t) /\ Len(s) \in Nat
      /\ \A i \in 1..(Len(s) + Len(t)) : (s \o t)[i] = IF i <= Len(s) THEN s[i] ELSE t[i - Len(s)]
  BY <1>2, Joined
<1>4. ASSUME NEW i \in 1..(Len(s) + 1) PROVE (s \o t)[i] = IF i <= Len(s) THEN s[i] ELSE y
  <2>1. (s \o t)[i] = IF i <= Len(s) THEN s[i] ELSE t[i - Len(s)]
    BY <1>2, <1>3
  <2>2. ASSUME ~ (i <= Len(s)) PROVE i - Len(s) = 1
    BY <1>3, <2>2
  <2> QED
    BY <1>2, <2>1, <2>2
<1> QED
  BY <1>1, <1>2, <1>3, <1>4

\* What a word adds to what is under way to the client.
LEMMA FollowsGrown ==
    ASSUME Shapes, NEW p \in Procs, xf'[p] = xf[p], disk'[p] = disk[p],
           NEW B, IsSeq(B), Follows(p, B), NEW y, down'[Xfer(p)] = down[Xfer(p)] \o <<y>>,
           \/ Len(down[Xfer(p)]) + 1 = Answers(p) /\ y.k = "length" /\ y.v = Len(B)
           \/ /\ Len(down[Xfer(p)]) >= Answers(p) /\ y.k = "buf"
              /\ Offset(p) + (Len(down[Xfer(p)]) + 1) - Answers(p) \in 1..Len(B)
              /\ y.v = B[Offset(p) + (Len(down[Xfer(p)]) + 1) - Answers(p)]
    PROVE  /\ Follows(p, B)' /\ Offset(p)' = Offset(p) /\ Answers(p)' = Answers(p)
           /\ Len(down[Xfer(p)])' = Len(down[Xfer(p)]) + 1
<1> DEFINE s == down[Xfer(p)]
           t == down'[Xfer(p)]
           h == Answers(p)
           c == Offset(p)
<1>1. IsSeq(s) /\ Len(s) \in Nat /\ Len(B) \in Nat
  BY DownIs DEF Xfer, Conns, IsSeq
<1>2. Len(t) = Len(s) + 1 /\ \A i \in 1..(Len(s) + 1) : t[i] = IF i <= Len(s) THEN s[i] ELSE y
  <2>1. t = s \o <<y>> /\ IsSeq(s)
    BY <1>1
  <2> HIDE DEF s, t
  <2> QED
    BY <2>1, Appended
<1>3. /\ xf[p].at \in {"check", "length", "receiving"}
      /\ xf[p].at = "check" => Len(s) >= 1 /\ s[1].k = "check" /\ s[1].v \in BOOLEAN
      /\ xf[p].at = "receiving" => xf[p].len = Len(B)
      /\ h > 0 /\ h <= Len(s) => s[h].k = "length" /\ s[h].v = Len(B)
      /\ c \in 0..Len(B) /\ c <= Len(disk[p]) /\ \A j \in 1..c : disk[p][j] = B[j]
      /\ \A i \in (h + 1)..Len(s) : s[i].k = "buf" /\ c + i - h \in 1..Len(B) /\ s[i].v = B[c + i - h]
  BY DEF Follows
<1>4. xf[p].at = "check" => t[1] = s[1] /\ Len(t) >= 1
  BY <1>1, <1>2, <1>3
<1>5. Answers(p)' = h /\ h \in {0, 1, 2}
  BY DEF Answers
<1>6. Offset(p)' = c
  BY <1>4 DEF Offset
<1> HIDE DEF h, c, s, t
<1>7. h > 0 /\ h <= Len(t) => t[h].k = "length" /\ t[h].v = Len(B)
  <2>1. CASE Len(s) + 1 = h /\ y.k = "length" /\ y.v = Len(B)
    BY <1>1, <1>2, <2>1
  <2>2. CASE Len(s) >= h
    BY <1>1, <1>2, <1>3, <1>5, <2>2
  <2> QED
    BY <2>1, <2>2 DEF h, s
<1>8. ASSUME NEW i \in (h + 1)..Len(t) PROVE t[i].k = "buf" /\ c + i - h \in 1..Len(B) /\ t[i].v = B[c + i - h]
  <2>0. i \in Nat /\ h + 1 <= i /\ i <= Len(s) + 1 /\ i >= 1
    BY <1>1, <1>2, <1>5
  <2>1. CASE i <= Len(s)
    <3>1. i \in (h + 1)..Len(s) /\ t[i] = s[i]
      BY <1>1, <1>2, <1>5, <2>0, <2>1
    <3> QED
      BY <1>3, <3>1
  <2>2. CASE ~ (i <= Len(s))
    <3>1. i = Len(s) + 1 /\ t[i] = y /\ Len(s) >= h
      BY <1>1, <1>2, <1>5, <2>0, <2>2
    <3>2. y.k = "buf" /\ c + (Len(s) + 1) - h \in 1..Len(B) /\ y.v = B[c + (Len(s) + 1) - h]
      <4>1. ~ (Len(s) + 1 = h)
        BY <1>1, <1>5, <3>1
      <4> QED
        BY <4>1 DEF h, c, s
    <3> QED
      BY <3>1, <3>2
  <2> QED
    BY <2>1, <2>2
<1>9. Follows(p, B)'
  <2>1. Answers(p)' = h /\ Offset(p)' = c /\ xf'[p] = xf[p] /\ disk'[p] = disk[p] /\ down'[Xfer(p)] = t
    BY <1>5, <1>6 DEF t
  <2>2. xf[p].at = "check" => t[1].k = "check" /\ t[1].v \in BOOLEAN
    BY <1>3, <1>4
  <2>3. /\ xf[p].at \in {"check", "length", "receiving"}
        /\ xf[p].at = "receiving" => xf[p].len = Len(B)
        /\ c \in 0..Len(B) /\ c <= Len(disk[p]) /\ \A j \in 1..c : disk[p][j] = B[j]
    BY <1>3
  <2>4. /\ xf[p].at = "check" => Len(t) >= 1 /\ t[1].k = "check" /\ t[1].v \in BOOLEAN
        /\ h > 0 /\ h <= Len(t) => t[h].k = "length" /\ t[h].v = Len(B)
        /\ \A i \in (h + 1)..Len(t) : t[i].k = "buf" /\ c + i - h \in 1..Len(B) /\ t[i].v = B[c + i - h]
    BY <1>4, <1>7, <1>8, <2>2
  <2>5. /\ xf'[p].at \in {"check", "length", "receiving"}
        /\ xf'[p].at = "check" =>
              Len(down'[Xfer(p)]) >= 1 /\ down'[Xfer(p)][1].k = "check" /\ down'[Xfer(p)][1].v \in BOOLEAN
        /\ xf'[p].at = "receiving" => xf'[p].len = Len(B)
    BY <2>1, <2>3, <2>4
  <2>6. /\ Answers(p)' > 0 /\ Answers(p)' <= Len(down'[Xfer(p)]) =>
              down'[Xfer(p)][Answers(p)'].k = "length" /\ down'[Xfer(p)][Answers(p)'].v = Len(B)
        /\ Offset(p)' \in 0..Len(B) /\ Offset(p)' <= Len(disk'[p])
        /\ \A j \in 1..Offset(p)' : disk'[p][j] = B[j]
    <3>1. /\ Answers(p)' > 0 /\ Answers(p)' <= Len(down'[Xfer(p)]) =>
              down'[Xfer(p)][Answers(p)'].k = "length" /\ down'[Xfer(p)][Answers(p)'].v = Len(B)
      BY <2>1, <2>4
    <3>2. Offset(p)' \in 0..Len(B) /\ Offset(p)' <= Len(disk'[p])
      BY <2>1, <2>3
    <3>3. \A j \in 1..Offset(p)' : disk'[p][j] = B[j]
      BY <2>1, <2>3
    <3> QED
      BY <3>1, <3>2, <3>3
  <2>7. ASSUME NEW i \in (Answers(p)' + 1)..Len(down'[Xfer(p)])
        PROVE  /\ down'[Xfer(p)][i].k = "buf" /\ Offset(p)' + i - Answers(p)' \in 1..Len(B)
               /\ down'[Xfer(p)][i].v = B[Offset(p)' + i - Answers(p)']
    BY <2>1, <2>4
  <2> QED
    BY <2>5, <2>6, <2>7 DEF Follows
<1> QED
  BY <1>2, <1>5, <1>6, <1>9 DEF h, c, s, t

\* What a worker finds in the storage.
LEMMA StoredIs ==
    ASSUME Calm, NEW w \in Workers, wk[w].md5 \in Contained, Settled(wk[w].md5)
    PROVE  Stored(w) = Content(wk[w].md5) /\ FileSize(w) = Len(Content(wk[w].md5))
<1>1. CASE wk[w].md5 \in Md5s
  <2>1. PICK m \in Md5s : m = wk[w].md5
    BY <1>1
  <2>2. PICK r \in files : r.md5 = m
    BY <2>1 DEF Settled
  <2>3. ~ \E v \in Workers : Writing(v, m)
    BY <2>2 DEF Calm, Rows
  <2>4. store[m] = Body[m]
    BY <2>2, <2>3 DEF Calm, RowHasContent
  <2>5. m \in Stores(w)
    BY <2>1 DEF Stores
  <2> QED
    BY <2>1, <2>4, <2>5 DEF Stored, FileSize, Content
<1>2. CASE wk[w].md5 \notin Md5s
  <2>1. Stores(w) = {}
    BY <1>2 DEF Stores
  <2> QED
    BY <1>2, <2>1, Pair DEF Stored, FileSize, Content
<1> QED
  BY <1>1, <1>2

\* What a gets says to the worker that listens.
LEMMA GetsTakes ==
    ASSUME CalmStep, NEW w \in Workers, Thread(w), Take(w), wk[w].at # "idle",
           NEW p \in Procs, sock[wk[w].fd] = Xfer(p), xf[p].type = "gets", Fresh(p)
    PROVE  /\ Rest(p)' = Rest(p) - 1 /\ Rest(p) \in Nat
           /\ \A x : x = Next1(w) => GetsWord(disk[p], x, Rest(p))
<1>0. Shapes /\ Senders /\ Spelt(p) /\ UNCHANGED <<xf, disk>> /\ Xfer(p) \in Conns
  BY ThreadFrame DEF CalmStep, Calm, Spelling, Xfer, Conns
<1>1. Rest(p)' = Rest(p) - 1 /\ Rest(p) \in Nat
  BY <1>0, TakeRest
<1>2. up[Xfer(p)] # << >> /\ Next1(w) = up[Xfer(p)][1] /\ IsSeq(up[Xfer(p)])
  BY <1>0, WordsIs DEF Take, HasWord, Next1
<1>3. 1 \in 1..Len(up[Xfer(p)])
  BY <1>2 DEF IsSeq
<1>4. GetsWord(disk[p], up[Xfer(p)][1], Rest(p) - 1 + 1)
  BY <1>0, <1>3 DEF Spelt, GetsWords, Fresh
<1>5. Rest(p) - 1 + 1 = Rest(p)
  BY <1>1
<1> QED
  BY <1>1, <1>2, <1>4, <1>5

\* Which step a worker takes, by where it is.
LEMMA ActsAt ==
    ASSUME NEW w \in Workers, Thread(w)
    PROVE  /\ wk[w].at = "idle" => Pop(w)
           /\ wk[w].at = "find" => Query(w)
           /\ wk[w].at = "row" => FindRow(w)
           /\ wk[w].at = "have" => RecvHave(w)
           /\ wk[w].at = "check" => CheckMd5(w)
           /\ wk[w].at = "length" => SendLength(w)
           /\ wk[w].at = "send" => SendFile(w)
           /\ wk[w].at = "done" => TaskOffline(w)
           /\ wk[w].at = "close" => TaskClose(w)
           /\ wk[w].at = "status" => TaskStatus(w)
BY DEF Thread, Pop, Query, RecvMd5, ResultMd5, Open, RecvSize, RecvContent, InsertRow, FindRow, RecvHave,
       CheckMd5, SendLength, SendFile, TaskOffline, TaskClose, TaskStatus

LEMMA PutsNext ==
    ASSUME Shapes, NEW w \in Workers, Thread(w), wk[w].at \in PutsAt
    PROVE  wk'[w].at \in (PutsAt \ {"md5"}) \cup {"done"}
<1> USE DEF Goto, Step, PutsAt
<1>0. DOMAIN wk = Workers /\ DOMAIN wk[w] = {"at", "fd", "type", "md5", "parent", "pos"}
  BY DEF Shapes, PoolOK, TaskOK
<1>1. CASE RecvMd5(w)
  BY <1>1, RecvMd5Steps
<1>2. CASE Query(w)
  BY <1>0, <1>2 DEF Query
<1>3. CASE ResultMd5(w)
  BY <1>0, <1>3 DEF ResultMd5
<1>4. CASE Open(w)
  BY <1>0, <1>4 DEF Open
<1>5. CASE RecvSize(w)
  BY <1>0, <1>5 DEF RecvSize
<1>6. CASE RecvContent(w)
  BY <1>0, <1>6 DEF RecvContent
<1>7. CASE InsertRow(w)
  BY <1>0, <1>7 DEF InsertRow
<1>8. ~ Pop(w) /\ ~ FindRow(w) /\ ~ RecvHave(w) /\ ~ CheckMd5(w) /\ ~ SendLength(w) /\ ~ SendFile(w)
      /\ ~ TaskOffline(w) /\ ~ TaskClose(w) /\ ~ TaskStatus(w)
  BY DEF Pop, FindRow, RecvHave, CheckMd5, SendLength, SendFile, TaskOffline, TaskClose, TaskStatus
<1> QED
  BY <1>1, <1>2, <1>3, <1>4, <1>5, <1>6, <1>7, <1>8 DEF Thread

\* An upload says nothing to a gets.
LEMMA PutsOwn ==
    ASSUME CalmStep, NEW w \in Workers, Thread(w), wk[w].at \in PutsAt,
           NEW p \in Procs, sock[wk[w].fd] = Xfer(p), Works(w, p)
    PROVE  Getting(p)' /\ Working(w)'
<1>1. xf'[p].type = "puts"
  BY ThreadFrame DEF Works
<1>2. Shapes /\ wk'[w].at \in (PutsAt \ {"md5"}) \cup {"done"}
  BY PutsNext DEF CalmStep, Calm
<1>3. Works(w, p)'
  BY <1>1, <1>2 DEF Works, PutsAt, GetsAt
<1>4. ~ Pop(w) /\ ~ TaskStatus(w) /\ ~ TaskClose(w)
  BY DEF PutsAt, Pop, TaskStatus, TaskClose
<1>5. wk'[w].fd = wk[w].fd /\ sock' = sock
  BY <1>2, <1>4, WorkerStep, ThreadSock
<1> QED
  BY <1>1, <1>3, <1>5 DEF Getting, Working

\* A worker that says nothing and takes nothing leaves its client as it is.
LEMMA QuietOwn ==
    ASSUME CalmStep, NEW w \in Workers, Thread(w), UNCHANGED <<up, down>>, NEW p \in Procs
    PROVE  /\ Same(p) /\ up'[Xfer(p)] = up[Xfer(p)] /\ (Alive(p)' <=> Alive(p)) /\ Getting(p)'
           /\ Rest(p)' = Rest(p) /\ (FirstGet(p) => FirstGet(p)')
<1>1. Same(p) /\ up'[Xfer(p)] = up[Xfer(p)] /\ (Alive(p)' <=> Alive(p))
  BY ThreadFrame DEF Same, Alive
<1> QED
  BY <1>1, GettingSame, AsksSame

LEMMA FindOwn ==
    ASSUME CalmStep, NEW w \in Workers, Thread(w), wk[w].at = "find",
           NEW p \in Procs, sock[wk[w].fd] = Xfer(p), Works(w, p)
    PROVE  Getting(p)' /\ Works(w, p)'
<1>1. Query(w)
  BY ActsAt
<1>2. UNCHANGED <<up, down>> /\ xf'[p] = xf[p]
  BY <1>1, ThreadFrame DEF Query
<1>3. wk'[w].at = "row" /\ wk'[w].pos = wk[w].pos
  BY <1>1 DEF Query, Goto, Step, CalmStep, Calm, Shapes, PoolOK, TaskOK
<1> QED
  BY <1>2, <1>3, QuietOwn DEF Works, PutsAt, GetsAt

\* A row that is found has a content or is a directory's.
LEMMA RowOwn ==
    ASSUME CalmStep, NEW w \in Workers, Thread(w), wk[w].at = "row",
           NEW p \in Procs, sock[wk[w].fd] = Xfer(p), Works(w, p)
    PROVE  Getting(p)' /\ Works(w, p)'
<1>1. FindRow(w)
  BY ActsAt
<1>2. UNCHANGED <<up, down, files>> /\ xf'[p] = xf[p]
  BY <1>1, ThreadFrame DEF FindRow, dbVars
<1>3. CASE UNCHANGED wk
  BY <1>2, <1>3, QuietOwn, WorksSame
<1>4. CASE ~ UNCHANGED wk
  <2> DEFINE rs == {r \in files : r.parent = PwdToId(slot[wk[w].fd].id, slot[wk[w].fd].pwd) /\ r.name = File}
  <2>1. rs # {} /\ Step(w, [wk[w] EXCEPT !.at = "have",
                                         !.md5 = (CHOOSE r \in rs : \A q \in rs : r.id <= q.id).md5])
    BY <1>1, <1>4 DEF FindRow
  <2>2. \E r \in rs : \A q \in rs : r.id <= q.id
    <3>1. \A r \in rs : r.id \in Nat
      BY DEF CalmStep, Calm, Shapes, FileOK
    <3>2. {q.id : q \in rs} \in SUBSET Nat /\ {q.id : q \in rs} # {}
      BY <2>1, <3>1
    <3>3. \E m \in {q.id : q \in rs} : \A k \in {q.id : q \in rs} : m <= k
      BY <3>2, LeastNumber
    <3> QED
      BY <3>3
  <2>3. PICK r \in rs : r = CHOOSE x \in rs : \A q \in rs : x.id <= q.id
    BY <2>2
  <2>4. r \in files /\ r.name = File
    BY <2>3
  <2> HIDE DEF rs
  <2>5. wk'[w].at = "have" /\ wk'[w].md5 = r.md5 /\ wk'[w].pos = wk[w].pos
    BY <2>1, <2>3 DEF Step, CalmStep, Calm, Shapes, PoolOK, TaskOK
  <2>6. r.md5 \in Contained /\ (r.md5 \in Md5s \/ r.type = "d")
    BY <2>4 DEF CalmStep, Calm, Rows, Contained
  <2>7. Settled(wk[w].md5)'
    BY <1>2, <2>4, <2>5, <2>6 DEF Settled
  <2> QED
    BY <1>2, <2>5, <2>6, <2>7, QuietOwn DEF Works, PutsAt, GetsAt, Contained
<1> QED
  BY <1>3, <1>4

\* What is said to a client that is gone is lost, and to one that is there is on its way.
LEMMA AnswerIs ==
    ASSUME Shapes, NEW w \in Workers, NEW p \in Procs, sock[wk[w].fd] = Xfer(p), NEW ws, Answer(w, ws)
    PROVE  IF Alive(p) /\ xf[p].at # "over" THEN down'[Xfer(p)] = down[Xfer(p)] \o ws
           ELSE down' = down
<1>1. Xfer(p) \in Conns /\ DOMAIN down = Conns /\ Xfer(p) # NULL
  BY ValuesAssumption DEF Shapes, WordOK, Xfer, Conns
<1>2. Gone(Xfer(p)) <=> ~ (Alive(p) /\ xf[p].at # "over")
  BY DEF Gone, Alive, Xfer
<1> QED
  BY <1>1, <1>2 DEF Answer, Reply, Put

LEMMA SaysOwn ==
    ASSUME CalmStep, NEW w \in Workers, Thread(w), NEW p \in Procs, sock[wk[w].fd] = Xfer(p),
           xf[p].type = "gets", UNCHANGED up, Rest(p) = 0, NEW m \in Contained, Settled(m),
           NEW y, Answer(w, <<y>>),
           Alive(p) /\ xf[p].at # "over" =>
              /\ Follows(p, Content(m))
              /\ \/ Len(down[Xfer(p)]) + 1 = Answers(p) /\ y.k = "length" /\ y.v = Len(Content(m))
                 \/ /\ Len(down[Xfer(p)]) >= Answers(p) /\ y.k = "buf"
                    /\ Offset(p) + (Len(down[Xfer(p)]) + 1) - Answers(p) \in 1..Len(Content(m))
                    /\ y.v = Content(m)[Offset(p) + (Len(down[Xfer(p)]) + 1) - Answers(p)]
    PROVE  /\ Getting(p)' /\ Rest(p)' = 0 /\ Settled(m)'
           /\ Alive(p)' /\ xf'[p].at # "over" =>
                 /\ Follows(p, Content(m))' /\ Offset(p)' = Offset(p) /\ Answers(p)' = Answers(p)
                 /\ Len(down[Xfer(p)])' = Len(down[Xfer(p)]) + 1
<1>0. Shapes /\ [Next]_vars /\ xf'[p] = xf[p] /\ disk'[p] = disk[p] /\ (Alive(p)' <=> Alive(p))
  BY ThreadSame DEF CalmStep, Calm
<1>1. Rest(p)' = 0 /\ Settled(m)'
  BY <1>0, RestOver, SettledLasts
<1>2. CASE Alive(p) /\ xf[p].at # "over"
  <2>1. PICK B : B = Content(m)
    OBVIOUS
  <2>2. IsSeq(B) /\ Follows(p, B)
    BY <1>2, <2>1, ContentIs
  <2>3. down'[Xfer(p)] = down[Xfer(p)] \o <<y>>
    BY <1>0, <1>2, AnswerIs
  <2>4. \/ Len(down[Xfer(p)]) + 1 = Answers(p) /\ y.k = "length" /\ y.v = Len(B)
        \/ /\ Len(down[Xfer(p)]) >= Answers(p) /\ y.k = "buf"
           /\ Offset(p) + (Len(down[Xfer(p)]) + 1) - Answers(p) \in 1..Len(B)
           /\ y.v = B[Offset(p) + (Len(down[Xfer(p)]) + 1) - Answers(p)]
    BY <1>2, <2>1
  <2>5. /\ Follows(p, B)' /\ Offset(p)' = Offset(p) /\ Answers(p)' = Answers(p)
        /\ Len(down[Xfer(p)])' = Len(down[Xfer(p)]) + 1
    BY <1>0, <2>2, <2>3, <2>4, FollowsGrown
  <2>6. Follows(p, Content(m))'
    BY <2>1, <2>5 DEF Content
  <2>7. Getting(p)'
    BY <1>0, <1>1, <2>6 DEF Getting, Contained
  <2> QED
    BY <1>1, <2>5, <2>6, <2>7
<1>3. CASE ~ (Alive(p) /\ xf[p].at # "over")
  <2>1. Same(p)
    BY <1>0, <1>3, AnswerIs DEF Same
  <2> QED
    BY <1>0, <1>1, <1>3, <2>1, GettingSame
<1> QED
  BY <1>2, <1>3

LEMMA LengthOwn ==
    ASSUME CalmStep, NEW w \in Workers, Thread(w), wk[w].at = "length",
           NEW p \in Procs, sock[wk[w].fd] = Xfer(p), Works(w, p)
    PROVE  Getting(p)' /\ Works(w, p)'
<1>1. SendLength(w)
  BY ActsAt
<1>2. /\ UNCHANGED up /\ Answer(w, <<W("length", FileSize(w))>>) /\ xf'[p] = xf[p]
      /\ wk'[w].at = IF Unmapped(wk[w].pos, FileSize(w)) THEN "done" ELSE "send"
      /\ wk'[w].pos = wk[w].pos /\ wk'[w].md5 = wk[w].md5
  BY <1>1, ThreadFrame DEF SendLength, Goto, Step, CalmStep, Calm, Shapes, PoolOK, TaskOK
<1>3. PICK m \in Contained : m = wk[w].md5
  BY DEF Works
<1>4. xf[p].type = "gets" /\ Settled(m) /\ Sends(w, p) /\ wk[w].pos \in Nat /\ Rest(p) = 0
  BY <1>3 DEF Works, GetsAt, Sends
<1>5. FileSize(w) = Len(Content(m))
  BY <1>3, <1>4, StoredIs DEF CalmStep
<1>6. PICK y : y = W("length", FileSize(w))
  OBVIOUS
<1>7. Alive(p) /\ xf[p].at # "over" =>
         /\ Follows(p, Content(m)) /\ wk[w].pos = Offset(p)
         /\ Len(down[Xfer(p)]) + 1 = Answers(p) /\ y.k = "length" /\ y.v = Len(Content(m))
  BY <1>3, <1>4, <1>5, <1>6 DEF Sends, W
<1>8. /\ Getting(p)' /\ Rest(p)' = 0 /\ Settled(m)'
      /\ Alive(p)' /\ xf'[p].at # "over" =>
            /\ Follows(p, Content(m))' /\ Offset(p)' = Offset(p) /\ Answers(p)' = Answers(p)
            /\ Len(down[Xfer(p)])' = Len(down[Xfer(p)]) + 1
  BY <1>2, <1>4, <1>6, <1>7, SaysOwn
<1>9. (Alive(p)' /\ xf'[p].at # "over") => Alive(p) /\ xf[p].at # "over"
  BY <1>2, ThreadSame
<1>10. CASE Unmapped(wk[w].pos, FileSize(w))
  <2>1. wk'[w].at = "done"
    BY <1>2, <1>10
  <2> QED
    BY <1>8, <2>1 DEF Works, PutsAt, GetsAt
<1>11. CASE ~ Unmapped(wk[w].pos, FileSize(w))
  <2>0. wk'[w].at = "send"
    BY <1>2, <1>11
  <2>1. wk'[w].pos \in Nat
    BY <1>2, <1>4
  <2>2. ASSUME Alive(p)', xf'[p].at # "over"
        PROVE  /\ Follows(p, Content(wk[w].md5))'
               /\ wk'[w].pos >= Offset(p)' /\ Len(down[Xfer(p)])' = Answers(p)' + wk'[w].pos - Offset(p)'
               /\ (~ Unmapped(Offset(p), Len(Content(wk[w].md5))))'
    <3>1. Follows(p, Content(wk[w].md5))'
      BY <1>2, <1>3, <1>8, <2>2
    <3>2. /\ Offset(p)' = wk[w].pos /\ Answers(p)' = Answers(p) /\ Len(down[Xfer(p)])' = Answers(p)
          /\ Answers(p) \in {0, 1, 2}
      BY <1>7, <1>8, <1>9, <2>2 DEF Answers
    <3>3. wk'[w].pos >= wk[w].pos /\ Answers(p) = Answers(p) + wk'[w].pos - wk[w].pos
      BY <1>2, <1>4, <3>2
    <3>4. (~ Unmapped(Offset(p), Len(Content(wk[w].md5))))'
      BY <1>2, <1>3, <1>5, <1>11, <3>2 DEF Unmapped, Big, Content
    <3> QED
      BY <3>1, <3>2, <3>3, <3>4
  <2>3. Sends(w, p)'
    BY <1>8, <2>0, <2>1, <2>2 DEF Sends
  <2> QED
    BY <1>2, <1>3, <1>4, <1>8, <2>0, <2>3 DEF Works, PutsAt, GetsAt, Contained
<1> QED
  BY <1>10, <1>11

LEMMA SendOwn ==
    ASSUME CalmStep, NEW w \in Workers, Thread(w), wk[w].at = "send",
           NEW p \in Procs, sock[wk[w].fd] = Xfer(p), Works(w, p)
    PROVE  Getting(p)' /\ Works(w, p)'
<1>1. SendFile(w)
  BY ActsAt
<1>2. UNCHANGED up /\ xf'[p] = xf[p]
  BY <1>1, ThreadFrame DEF SendFile
<1>3. PICK m \in Contained : m = wk[w].md5
  BY DEF Works
<1>4. xf[p].type = "gets" /\ Settled(m) /\ Sends(w, p) /\ wk[w].pos \in Nat /\ Rest(p) = 0
  BY <1>3 DEF Works, GetsAt, Sends
<1>5. FileSize(w) = Len(Content(m)) /\ Stored(w) = Content(m) /\ Len(Content(m)) \in Nat
  BY <1>3, <1>4, StoredIs, ContentIs DEF CalmStep
<1>6. CASE wk[w].pos >= FileSize(w)
  <2>1. wk'[w].at = "done" /\ UNCHANGED down
    BY <1>1, <1>4, <1>5, <1>6 DEF SendFile, Goto, Step, CalmStep, Calm, Shapes, PoolOK, TaskOK
  <2> QED
    BY <1>2, <2>1, QuietOwn DEF Works, PutsAt, GetsAt
<1>7. CASE wk[w].pos < FileSize(w)
  <2>1. PICK y : y = W("buf", IF wk[w].pos + 1 <= Len(Stored(w)) THEN Stored(w)[wk[w].pos + 1] ELSE Junk)
    OBVIOUS
  <2>2. /\ Answer(w, <<y>>)
        /\ wk'[w].at = "send" /\ wk'[w].pos = wk[w].pos + 1 /\ wk'[w].md5 = wk[w].md5
    <3>1. ~ (wk[w].pos >= FileSize(w))
      BY <1>4, <1>5, <1>7
    <3> QED
      BY <1>1, <2>1, <3>1 DEF SendFile, Step, CalmStep, Calm, Shapes, PoolOK, TaskOK
  <2>3. y.k = "buf" /\ y.v = Content(m)[wk[w].pos + 1] /\ wk[w].pos + 1 \in 1..Len(Content(m))
    <3>1. PICK B : B = Content(m)
      OBVIOUS
    <3>2. wk[w].pos + 1 <= Len(B) /\ wk[w].pos + 1 \in 1..Len(B)
      BY <1>4, <1>5, <1>7, <3>1
    <3> QED
      BY <1>5, <2>1, <3>1, <3>2 DEF W
  <2>4. Alive(p) /\ xf[p].at # "over" =>
           /\ Follows(p, Content(m)) /\ wk[w].pos >= Offset(p)
           /\ Len(down[Xfer(p)]) = Answers(p) + wk[w].pos - Offset(p)
           /\ Offset(p) \in Nat
    <3>1. Alive(p) /\ xf[p].at # "over" =>
             /\ Follows(p, Content(m)) /\ wk[w].pos >= Offset(p)
             /\ Len(down[Xfer(p)]) = Answers(p) + wk[w].pos - Offset(p)
      BY <1>3, <1>4 DEF Sends
    <3>2. ASSUME NEW B, Follows(p, B), Len(B) \in Nat PROVE Offset(p) \in Nat
      <4>1. Offset(p) \in 0..Len(B)
        BY <3>2 DEF Follows
      <4> QED
        BY <3>2, <4>1
    <3> QED
      BY <1>5, <3>1, <3>2
  <2>5. Answers(p) \in {0, 1, 2}
    BY DEF Answers
  <2>6. ASSUME Alive(p), xf[p].at # "over"
        PROVE  /\ Len(down[Xfer(p)]) >= Answers(p)
               /\ Offset(p) + (Len(down[Xfer(p)]) + 1) - Answers(p) = wk[w].pos + 1
    <3> DEFINE l == Len(down[Xfer(p)])
               h == Answers(p)
               c == Offset(p)
    <3>1. h \in {0, 1, 2} /\ c \in Nat /\ wk[w].pos \in Nat /\ wk[w].pos >= c /\ l = h + wk[w].pos - c
      BY <1>4, <2>4, <2>5, <2>6
    <3> HIDE DEF l, h, c
    <3>2. l >= h /\ c + (l + 1) - h = wk[w].pos + 1
      BY <3>1
    <3> QED
      BY <3>2 DEF l, h, c
  <2>7. Alive(p) /\ xf[p].at # "over" =>
           /\ Follows(p, Content(m)) /\ Len(down[Xfer(p)]) >= Answers(p) /\ y.k = "buf"
           /\ Offset(p) + (Len(down[Xfer(p)]) + 1) - Answers(p) \in 1..Len(Content(m))
           /\ y.v = Content(m)[Offset(p) + (Len(down[Xfer(p)]) + 1) - Answers(p)]
    BY <2>3, <2>4, <2>6
  <2>8. /\ Getting(p)' /\ Rest(p)' = 0 /\ Settled(m)'
        /\ Alive(p)' /\ xf'[p].at # "over" =>
              /\ Follows(p, Content(m))' /\ Offset(p)' = Offset(p) /\ Answers(p)' = Answers(p)
              /\ Len(down[Xfer(p)])' = Len(down[Xfer(p)]) + 1
    BY <1>2, <1>4, <2>2, <2>7, SaysOwn
  <2>9. (Alive(p)' /\ xf'[p].at # "over") => Alive(p) /\ xf[p].at # "over"
    BY <1>2, ThreadSame
  <2>10. Sends(w, p)'
    <3>1. wk'[w].pos \in Nat /\ wk'[w].at = "send"
      BY <1>4, <2>2
    <3>2. ASSUME Alive(p)', xf'[p].at # "over"
          PROVE  /\ Follows(p, Content(wk[w].md5))'
                 /\ wk'[w].pos >= Offset(p)' /\ Len(down[Xfer(p)])' = Answers(p)' + wk'[w].pos - Offset(p)'
                 /\ (xf[p].at # "receiving" => ~ Unmapped(Offset(p), Len(Content(wk[w].md5))))'
      <4>1. Follows(p, Content(wk[w].md5))'
        BY <1>3, <2>2, <2>8, <3>2
      <4>2. /\ Offset(p)' = Offset(p) /\ Answers(p)' = Answers(p) /\ Len(down[Xfer(p)])' = Len(down[Xfer(p)]) + 1
            /\ wk[w].pos >= Offset(p) /\ Offset(p) \in Nat /\ wk[w].pos \in Nat /\ Answers(p) \in {0, 1, 2}
            /\ Len(down[Xfer(p)]) = Answers(p) + wk[w].pos - Offset(p) /\ wk'[w].pos = wk[w].pos + 1
        BY <1>4, <2>2, <2>4, <2>5, <2>8, <2>9, <3>2
      <4>3. PICK o, a, l, n, u : /\ o = Offset(p)' /\ a = Answers(p)' /\ l = Len(down[Xfer(p)])'
                                 /\ n = wk[w].pos /\ u = Len(down[Xfer(p)])
        OBVIOUS
      <4>n. /\ n \in Nat /\ o \in Nat /\ a \in {0, 1, 2} /\ n >= o /\ u = a + n - o /\ l = u + 1
            /\ wk'[w].pos = n + 1
        BY <4>2, <4>3
      <4>l. n + 1 >= o /\ l = a + (n + 1) - o
        BY <4>n
      <4>4. wk'[w].pos >= o /\ l = a + wk'[w].pos - o
        BY <4>n, <4>l
      <4>5. xf[p].at # "receiving" => ~ Unmapped(Offset(p), Len(Content(wk[w].md5)))
        BY <1>4, <2>9, <3>2 DEF Sends
      <4>6. (xf[p].at # "receiving" => ~ Unmapped(Offset(p), Len(Content(wk[w].md5))))'
        BY <1>2, <2>2, <4>2, <4>5 DEF Unmapped, Big, Content
      <4> QED
        BY <4>1, <4>3, <4>4, <4>6
    <3> QED
      BY <2>8, <3>1, <3>2 DEF Sends
  <2> QED
    BY <1>2, <1>3, <1>4, <2>2, <2>8, <2>10 DEF Works, PutsAt, GetsAt, Contained
<1> QED
  BY <1>4, <1>5, <1>6, <1>7

\* A worker that listens to a gets gets a word of it.
LEMMA ListenOwn ==
    ASSUME CalmStep, NEW w \in Workers, Thread(w), wk[w].at \in {"have", "check"},
           NEW p \in Procs, sock[wk[w].fd] = Xfer(p), xf[p].type = "gets", Fresh(p)
    PROVE  /\ Take(w) /\ Rest(p)' = Rest(p) - 1 /\ Rest(p) \in Nat /\ UNCHANGED <<xf, disk>>
           /\ \A x : x = Next1(w) => GetsWord(disk[p], x, Rest(p))
           /\ xf[p].at = "start" => Rest(p) > Asked(disk[p])
<1>1. ASSUME Lost(w) PROVE FALSE
  BY <1>1, LostNow DEF CalmStep
<1>2. Take(w)
  BY <1>1, ActsAt DEF RecvHave, CheckMd5
<1>3. /\ Rest(p)' = Rest(p) - 1 /\ Rest(p) \in Nat /\ UNCHANGED <<xf, disk>>
      /\ \A x : x = Next1(w) => GetsWord(disk[p], x, Rest(p))
  BY <1>2, GetsTakes, ThreadFrame
<1>4. ASSUME xf[p].at = "start" PROVE Rest(p) > Asked(disk[p])
  <2>1. Unsent(p) = Asked(disk[p]) /\ Asked(disk[p]) \in {1, 2}
    BY <1>4 DEF Unsent, Asked
  <2>2. Len(up[Xfer(p)]) \in Nat /\ Len(up[Xfer(p)]) >= 1
    <3>1. HasWord(w) /\ Xfer(p) \in Conns
      BY <1>2 DEF Take, Xfer, Conns
    <3> QED
      BY <3>1, HandWords, WordsIs DEF CalmStep, Calm
  <2> QED
    BY <2>1, <2>2 DEF Rest
<1> QED
  BY <1>2, <1>3, <1>4

\* Without a local copy the client waits for all of the content.
LEMMA FollowsFresh ==
    ASSUME NEW p \in Procs, down[Xfer(p)] = << >>, xf[p].pos = 0, xf[p].at = "length", disk[p] = << >>,
           NEW B, IsSeq(B)
    PROVE  Follows(p, B) /\ Offset(p) = 0 /\ Answers(p) = 1 /\ Len(down[Xfer(p)]) = 0
<1>1. Offset(p) = 0 /\ Answers(p) = 1
  BY DEF Offset, Answers
<1>2. Len(down[Xfer(p)]) = 0 /\ Len(disk[p]) = 0 /\ Len(B) \in Nat
  BY Pair DEF IsSeq
<1>3. 0 \in 0..Len(B) /\ (\A j \in 1..0 : FALSE) /\ (\A i \in 2..0 : FALSE) /\ ~ (1 <= 0) /\ 1 + 1 = 2
  BY <1>2
<1> QED
  BY <1>1, <1>2, <1>3 DEF Follows

LEMMA HaveOwn ==
    ASSUME CalmStep, NEW w \in Workers, Thread(w), wk[w].at = "have",
           NEW p \in Procs, sock[wk[w].fd] = Xfer(p), Works(w, p)
    PROVE  Getting(p)' /\ Works(w, p)'
<1>1. RecvHave(w)
  BY ActsAt
<1>2. /\ xf[p].type = "gets" /\ FirstGet(p) /\ wk[w].pos = 0
      /\ wk[w].md5 \in Contained /\ Settled(wk[w].md5)
  BY DEF Works, GetsAt
<1>3. Fresh(p) /\ Rest(p) = Asked(disk[p])
  BY <1>2 DEF FirstGet
<1>4. /\ Take(w) /\ Rest(p)' = Rest(p) - 1 /\ Rest(p) \in Nat /\ UNCHANGED <<xf, disk, down>>
      /\ GetsWord(disk[p], Next1(w), Rest(p)) /\ xf[p].at # "start"
  <2>1. UNCHANGED down
    BY <1>1 DEF RecvHave
  <2> QED
    BY <1>2, <1>3, <2>1, ListenOwn
<1>5. Same(p) /\ Getting(p)' /\ Fresh(p)'
  <2>1. Same(p)
    BY <1>4 DEF Same
  <2> QED
    BY <1>3, <2>1, GettingSame, SameFollows
<1>6. Next1(w).k = "have" /\ (Next1(w).v = 0 <=> Asked(disk[p]) = 1)
  BY <1>3, <1>4 DEF GetsWord
<1>7. PICK m \in Contained : m = wk[w].md5 /\ Settled(m)'
  <2>1. PICK m \in Contained : m = wk[w].md5
    BY <1>2
  <2>2. Settled(m)'
    BY <1>2, <2>1, SettledLasts DEF CalmStep, Calm
  <2> QED
    BY <2>1, <2>2
<1>8. /\ wk'[w].at = IF Asked(disk[p]) = 1 THEN "length" ELSE "check"
      /\ wk'[w].pos = 0 /\ wk'[w].md5 = m
  <2>1. ~ Lost(w)
    BY LostNow DEF CalmStep
  <2>2. Goto(w, IF Next1(w).k = "have" /\ Next1(w).v # 0 THEN "check" ELSE "length")
    BY <1>1, <2>1 DEF RecvHave
  <2> QED
    BY <1>2, <1>6, <1>7, <2>2 DEF Goto, Step, CalmStep, Calm, Shapes, PoolOK, TaskOK
<1>9. CASE Asked(disk[p]) = 1
  <2>1. disk[p] = << >> /\ Rest(p)' = 0
    BY <1>3, <1>4, <1>9 DEF Asked
  <2>2. xf[p].at = "length" /\ xf[p].pos = 0 /\ down[Xfer(p)] = << >>
    BY <1>3, <1>4, <2>1 DEF Fresh
  <2>3. PICK B : B = Content(m) /\ IsSeq(B)
    BY ContentIs
  <2>4. Follows(p, B) /\ Offset(p) = 0 /\ Answers(p) = 1 /\ Len(down[Xfer(p)]) = 0
    BY <2>1, <2>2, <2>3, FollowsFresh
  <2>5. Follows(p, B)' /\ Offset(p)' = 0 /\ Answers(p)' = 1 /\ Len(down[Xfer(p)])' = 0
    BY <1>5, <2>4, SameFollows DEF Same
  <2>6. Follows(p, Content(wk[w].md5))'
    BY <1>8, <2>3, <2>5 DEF Content
  <2>7. Sends(w, p)'
    <3>1. wk'[w].at = "length" /\ wk'[w].pos = 0
      BY <1>8, <1>9
    <3> QED
      BY <2>1, <2>5, <2>6, <3>1 DEF Sends
  <2> QED
    BY <1>2, <1>4, <1>5, <1>7, <1>8, <1>9, <2>7 DEF Works, PutsAt, GetsAt, Contained
<1>10. CASE Asked(disk[p]) # 1
  <2>1. Asked(disk[p]) = 2 /\ Asked(disk[p])' = 2 /\ Rest(p)' = 1 /\ wk'[w].at = "check"
    BY <1>3, <1>4, <1>8, <1>10 DEF Asked
  <2> QED
    BY <1>2, <1>4, <1>5, <1>7, <1>8, <2>1 DEF Works, PutsAt, GetsAt, Contained
<1> QED
  BY <1>9, <1>10

\* The answer to the MD5 of the local copy is what both sides go on with.
LEMMA FollowsChecked ==
    ASSUME NEW p \in Procs, xf[p].at = "check", IsSeq(disk[p]), NEW B, IsSeq(B),
           NEW ok \in BOOLEAN, ok <=> IsPrefix(disk[p], B), down[Xfer(p)] = <<W("check", ok)>>
    PROVE  /\ Follows(p, B) /\ Offset(p) = (IF ok THEN Len(disk[p]) ELSE 0)
           /\ Answers(p) = 2 /\ Len(down[Xfer(p)]) = 1
<1>1. PICK y : y = W("check", ok)
  OBVIOUS
<1>2. /\ Len(down[Xfer(p)]) = 1 /\ down[Xfer(p)][1] = y /\ y.k = "check" /\ y.v = ok
      /\ Len(B) \in Nat /\ Len(disk[p]) \in Nat
  BY <1>1, Pair DEF W, IsSeq
<1>3. Offset(p) = (IF ok THEN Len(disk[p]) ELSE 0) /\ Answers(p) = 2
  BY <1>2 DEF Offset, Answers
<1>4. ASSUME ok PROVE Len(disk[p]) <= Len(B) /\ \A j \in 1..Len(disk[p]) : disk[p][j] = B[j]
  <2>1. PICK d, l : d = disk[p] /\ l = Len(d)
    OBVIOUS
  <2>2. l \in Nat /\ l <= Len(B) /\ SubSeq(B, 1, l) = d
    BY <1>2, <1>4, <2>1 DEF IsPrefix
  <2>3. B \in Seq({B[i] : i \in 1..Len(B)})
    BY IsSeqIn
  <2>4. ASSUME NEW j \in 1..l PROVE d[j] = B[j]
    <3>1. SubSeq(B, 1, l)[j] = B[1 + j - 1]
      BY <1>2, <2>2, <2>3
    <3> QED
      BY <2>2, <3>1
  <2> QED
    BY <2>1, <2>2, <2>4
<1>5. PICK c, n : c = Offset(p) /\ n = Len(B)
  OBVIOUS
<1>6. c \in 0..n /\ c <= Len(disk[p]) /\ \A j \in 1..c : disk[p][j] = B[j]
  BY <1>2, <1>3, <1>4, <1>5
<1>7. ~ (2 <= 1) /\ (\A i \in 3..1 : FALSE) /\ 2 + 1 = 3 /\ 1 >= 1
  OBVIOUS
<1> QED
  BY <1>2, <1>3, <1>5, <1>6, <1>7 DEF Follows

\* The same, to be used of the next state.
ChecksAlong ==
    \A p \in Procs : \A B : \A ok \in BOOLEAN :
       /\ xf[p].at = "check" /\ IsSeq(disk[p]) /\ IsSeq(B)
       /\ (ok <=> IsPrefix(disk[p], B)) /\ down[Xfer(p)] = <<W("check", ok)>>
       => /\ Follows(p, B) /\ Offset(p) = (IF ok THEN Len(disk[p]) ELSE 0)
          /\ Answers(p) = 2 /\ Len(down[Xfer(p)]) = 1

LEMMA FollowsCheckedNow == ChecksAlong
BY FollowsChecked DEF ChecksAlong

LEMMA FollowsCheckedThen == ChecksAlong'
BY FollowsCheckedNow, PTL

LEMMA CheckOwn ==
    ASSUME CalmStep, NEW w \in Workers, Thread(w), wk[w].at = "check",
           NEW p \in Procs, sock[wk[w].fd] = Xfer(p), Works(w, p)
    PROVE  Getting(p)' /\ Works(w, p)'
<1>1. CheckMd5(w)
  BY ActsAt
<1>2. /\ xf[p].type = "gets" /\ Fresh(p) /\ Rest(p) = 1 /\ Asked(disk[p]) = 2 /\ wk[w].pos = 0
      /\ wk[w].md5 \in Contained /\ Settled(wk[w].md5)
  BY DEF Works, GetsAt
<1>3. /\ Take(w) /\ Rest(p)' = 0 /\ UNCHANGED <<xf, disk>>
      /\ GetsWord(disk[p], Next1(w), 1) /\ xf[p].at # "start"
  BY <1>2, ListenOwn
<1>4. Next1(w).k = "md5" /\ Next1(w).v = disk[p]
  BY <1>2, <1>3 DEF GetsWord
<1>5. PICK m \in Contained : m = wk[w].md5 /\ Settled(m)'
  <2>1. PICK m \in Contained : m = wk[w].md5
    BY <1>2
  <2>2. Settled(m)'
    BY <1>2, <2>1, SettledLasts DEF CalmStep, Calm
  <2> QED
    BY <2>1, <2>2
<1>6. Stored(w) = Content(m)
  BY <1>2, <1>5, StoredIs DEF CalmStep
<1>7. PICK B : B = Content(m) /\ IsSeq(B)
  BY ContentIs
<1>8. PICK ok \in BOOLEAN : ok <=> IsPrefix(disk[p], B)
  OBVIOUS
<1>9. /\ Answer(w, <<W("check", ok)>>)
      /\ wk'[w].at = "length" /\ wk'[w].md5 = m /\ wk'[w].pos = (IF ok THEN Len(disk[p]) ELSE 0)
  <2>1. ~ Lost(w)
    BY LostNow DEF CalmStep
  <2>2. PICK b \in BOOLEAN : /\ b <=> Next1(w).k = "md5" /\ IsPrefix(Next1(w).v, Stored(w))
                             /\ Answer(w, <<W("check", b)>>)
                             /\ Step(w, [wk[w] EXCEPT !.at = "length", !.pos = IF b THEN Len(Next1(w).v) ELSE 0])
    BY <1>1, <2>1 DEF CheckMd5
  <2>3. b = ok
    BY <1>4, <1>6, <1>7, <1>8, <2>2
  <2> QED
    BY <1>4, <1>5, <2>2, <2>3 DEF Step, CalmStep, Calm, Shapes, PoolOK, TaskOK
<1>10. Local(p) /\ Shapes /\ DOMAIN xf = Procs /\ IsSeq(disk[p]) /\ Len(disk[p]) \in Nat
  BY DEF CalmStep, Calm, Spelling, Spelt, Local, Shapes, ClientOK, IsSeq
<1>11. xf[p].at = "check" /\ down[Xfer(p)] = << >>
  BY <1>2, <1>3 DEF Fresh, Asked
<1>12. (Alive(p)' <=> Alive(p)) /\ xf'[p] = xf[p] /\ disk'[p] = disk[p]
  BY ThreadSame
<1>13. CASE ~ Alive(p)
  <2>1. Same(p)
    BY <1>9, <1>10, <1>12, <1>13, AnswerIs DEF Same
  <2>2. Sends(w, p)'
    BY <1>3, <1>9, <1>10, <1>12, <1>13 DEF Sends
  <2> QED
    BY <1>2, <1>5, <1>9, <1>12, <2>1, <2>2, GettingSame DEF Works, PutsAt, GetsAt, Contained
<1>14. CASE Alive(p)
  <2>1. down'[Xfer(p)] = <<W("check", ok)>>
    <3>1. down'[Xfer(p)] = down[Xfer(p)] \o <<W("check", ok)>>
      BY <1>9, <1>10, <1>11, <1>14, AnswerIs
    <3> QED
      BY <1>11, <3>1
  <2>2. /\ Follows(p, B)' /\ Offset(p)' = (IF ok THEN Len(disk[p]) ELSE 0)
        /\ Answers(p)' = 2 /\ Len(down[Xfer(p)])' = 1
    BY <1>7, <1>8, <1>10, <1>11, <1>12, <2>1, FollowsCheckedThen DEF ChecksAlong
  <2>3. Follows(p, Content(wk[w].md5))' /\ Follows(p, Content(m))'
    BY <1>7, <1>9, <2>2 DEF Content
  <2>4. Sends(w, p)'
    <3>1. wk'[w].at = "length" /\ wk'[w].pos \in Nat /\ wk'[w].pos = Offset(p)' /\ 1 + 1 = 2
      BY <1>9, <1>10, <2>2
    <3> QED
      BY <1>3, <2>2, <2>3, <3>1 DEF Sends
  <2>5. Getting(p)'
    BY <1>2, <1>3, <1>5, <1>12, <2>3 DEF Getting, Contained
  <2> QED
    BY <1>2, <1>5, <1>9, <1>12, <2>4, <2>5 DEF Works, PutsAt, GetsAt, Contained
<1> QED
  BY <1>13, <1>14

\* A worker's step, for its own client.
LEMMA GetsOwn ==
    ASSUME CalmStep, NEW w \in Workers, Thread(w), wk[w].at \in GetsAt,
           NEW p \in Procs, sock[wk[w].fd] = Xfer(p), Works(w, p)
    PROVE  Getting(p)' /\ Working(w)'
<1>1. Getting(p)' /\ Works(w, p)'
  BY FindOwn, RowOwn, HaveOwn, CheckOwn, LengthOwn, SendOwn DEF GetsAt
<1>2. ~ Pop(w) /\ ~ TaskStatus(w) /\ ~ TaskClose(w)
  BY DEF GetsAt, Pop, TaskStatus, TaskClose
<1>3. wk'[w].fd = wk[w].fd /\ sock' = sock
  BY <1>2, WorkerStep, ThreadSock DEF CalmStep, Calm
<1> QED
  BY <1>1, <1>3 DEF Working

LEMMA EndsOwn ==
    ASSUME CalmStep, NEW w \in Workers, Thread(w), wk[w].at \in {"done", "close", "status"}
    PROVE  /\ UNCHANGED <<up, down, que>> /\ Working(w)'
           /\ wk[w].at = "status" => UNCHANGED sock
<1> USE DEF Goto, Step, PutsAt, GetsAt
<1>0. DOMAIN wk = Workers /\ DOMAIN wk[w] = {"at", "fd", "type", "md5", "parent", "pos"}
  BY DEF CalmStep, Calm, Shapes, PoolOK, TaskOK
<1>1. CASE wk[w].at = "done"
  <2>1. TaskOffline(w)
    BY <1>1, ActsAt
  <2> QED
    BY <1>0, <1>1, <2>1 DEF TaskOffline, Working, wkFrame
<1>2. CASE wk[w].at = "close"
  <2>1. TaskClose(w)
    BY <1>2, ActsAt
  <2> QED
    BY <1>0, <1>2, <2>1 DEF TaskClose, Working, wkFrame
<1>3. CASE wk[w].at = "status"
  <2>1. TaskStatus(w)
    BY <1>3, ActsAt
  <2> QED
    BY <1>0, <1>3, <2>1 DEF TaskStatus, Working, Idle, wkFrame
<1> QED
  BY <1>1, <1>2, <1>3

LEMMA OthersSteady ==
    ASSUME CalmStep, NEW w \in Workers, Thread(w), NEW d \in Fds, sock[d] # NULL, w \notin Held(d)
    PROVE  Steady(d)
<1>1. CASE wk[w].at = "idle" \/ wk[w].fd # d
  BY <1>1, ThreadSteady
<1>2. CASE wk[w].at = "status"
  <2>1. UNCHANGED <<up, down, sock>>
    BY <1>2, EndsOwn
  <2>2. ASSUME NEW p \in Procs, sock[d] = Xfer(p)
        PROVE  /\ \A c : Asks(p, c) => Asks(p, c)'
               /\ \A v \in Workers : wk'[v] = wk[v] /\ Works(v, p) => Works(v, p)'
    BY <2>1, QuietOwn, SteadySame
  <2> QED
    BY <2>1, <2>2 DEF Steady
<1> QED
  BY <1>1, <1>2 DEF Held

\* A task that is taken from the queue is begun as it was asked for.
LEMMA PopOwn ==
    ASSUME CalmStep, NEW w \in Workers, Pop(w)
    PROVE  Working(w)' /\ que # << >> /\ que' = Tail(que)
<1>0. /\ Thread(w) /\ DOMAIN wk = Workers /\ UNCHANGED <<up, down, sock>>
      /\ que # << >> /\ que' = Tail(que) /\ que \in Seq(Tasks)
  BY DEF Pop, Thread, netVars, CalmStep, Calm, Shapes, PoolOK
<1>1. 1 \in 1..Len(que) /\ que[1] \in Tasks
  BY <1>0
<1>2. PICK p \in Procs : sock[que[1].fd] = Xfer(p) /\ Asks(p, que[1].type)
  BY <1>1 DEF CalmStep, Calm, Tasking, Served
<1>3. /\ wk'[w].at = (IF que[1].type = "puts" THEN "md5" ELSE "find")
      /\ wk'[w].fd = que[1].fd /\ wk'[w].pos = 0
  BY <1>0 DEF Pop, Step, Idle
<1>4. xf'[p] = xf[p] /\ (FirstPut(p) => FirstPut(p)') /\ (FirstGet(p) => FirstGet(p)')
  BY <1>0, QuietOwn, AsksSame DEF Same
<1>5. que[1].type \in {"puts", "gets"}
  BY <1>1 DEF Tasks
<1>6. Works(w, p)'
  BY <1>2, <1>3, <1>4, <1>5 DEF Works, Asks, PutsAt, GetsAt
<1> QED
  BY <1>0, <1>2, <1>3, <1>6 DEF Working

\* What the other workers do and what waits stays as it is.
LEMMA TasksStay ==
    ASSUME CalmStep, NEW w \in Workers, Thread(w), Working(w)',
           que' = que \/ (que # << >> /\ que' = Tail(que))
    PROVE  Tasking'
<1>0. /\ Shapes /\ Handed /\ Tasking /\ que \in Seq(Tasks)
      /\ \A v \in Workers \ {w} : wk'[v] = wk[v]
  BY WorkerStep DEF CalmStep, Calm, Shapes, PoolOK
<1>1. ASSUME NEW v \in Workers, v # w PROVE Working(v)'
  <2>1. CASE wk[v].at \in PutsAt \cup GetsAt
    <3>1. wk[v].at \notin {"idle", "status"}
      BY <2>1 DEF PutsAt, GetsAt
    <3>2. wk[v].fd \in Fds /\ v \in Held(wk[v].fd)
      BY <1>0, <3>1, HandWords DEF Held
    <3>3. sock[wk[v].fd] # NULL /\ w \notin Held(wk[v].fd)
      BY <1>0, <1>1, <3>2 DEF Handed
    <3>4. Steady(wk[v].fd)
      BY <3>2, <3>3, OthersSteady
    <3>5. Working(v)
      BY <1>0 DEF Tasking, Working
    <3> QED
      BY <1>0, <1>1, <3>4, <3>5, WorkSteady
  <2>2. CASE wk[v].at \notin PutsAt \cup GetsAt
    BY <1>0, <1>1, <2>2 DEF Working
  <2> QED
    BY <2>1, <2>2
<1>2. ASSUME NEW j \in 1..Len(que), NEW t, t = que[j] PROVE Served(t.fd, t.type)'
  <2>1. que[j] \in Tasks
    BY <1>0, <1>2
  <2>2. PICK d \in Fds : d = t.fd
    BY <1>2, <2>1 DEF Tasks
  <2>3. j \in Waits(d)
    BY <1>2, <2>2 DEF Waits
  <2>4. sock[d] # NULL /\ w \notin Held(d)
    BY <1>0, <2>3 DEF Handed
  <2>5. Served(d, t.type)
    BY <1>0, <1>2, <2>2 DEF Tasking
  <2> QED
    BY <2>2, <2>4, <2>5, OthersSteady, ServedSteady
<1>3. ASSUME NEW i \in 1..Len(que') PROVE Served(que[i].fd, que[i].type)'
  <2>1. PICK j \in 1..Len(que) : que'[i] = que[j]
    <3>1. CASE que' = que
      BY <3>1
    <3>2. CASE que # << >> /\ que' = Tail(que)
      <4>1. i + 1 \in 1..Len(que) /\ que'[i] = que[i + 1]
        BY <1>0, <3>2
      <4> QED
        BY <4>1
    <3> QED
      BY <3>1, <3>2
  <2>2. PICK t : t = que[j]
    OBVIOUS
  <2>3. Served(t.fd, t.type)'
    BY <1>2, <2>2
  <2> QED
    BY <2>1, <2>2, <2>3 DEF Served
<1> QED
  BY <1>1, <1>3 DEF Tasking, Working

LEMMA ThreadCalm ==
    ASSUME CalmStep, NEW w \in Workers, Thread(w)
    PROVE  Tasking' /\ \A p \in Procs : Getting(p)'
<1>0. /\ Shapes /\ Handed /\ Tasking /\ que \in Seq(Tasks) /\ TaskOK(wk[w])
      /\ \A v \in Workers \ {w} : wk'[v] = wk[v]
  BY WorkerStep DEF CalmStep, Calm, Shapes, PoolOK
<1>1. CASE wk[w].at \in PutsAt \cup GetsAt
  <2>1. PICK q \in Procs : sock[wk[w].fd] = Xfer(q) /\ Works(w, q)
    BY <1>0, <1>1 DEF Tasking
  <2>2. Getting(q)' /\ Working(w)'
    BY <1>1, <2>1, PutsOwn, GetsOwn
  <2>3. ASSUME NEW p \in Procs, p # q PROVE Getting(p)'
    <3>1. sock[wk[w].fd] # Xfer(p)
      BY <2>1, <2>3 DEF Xfer
    <3> QED
      BY <3>1, ThreadSame, GettingSame
  <2>4. ~ Pop(w)
    BY <1>1 DEF Pop, PutsAt, GetsAt
  <2>5. que' = que
    BY <2>4, ThreadFrame
  <2>6. \A p \in Procs : Getting(p)'
    BY <2>2, <2>3
  <2>9. (\A p \in Procs : Getting(p)') /\ Working(w)' /\ que' = que
    BY <2>2, <2>5, <2>6
  <2> QED
    BY <1>0, <2>9, TasksStay
<1>2. CASE wk[w].at \in {"done", "close", "status"}
  <2>1. UNCHANGED <<up, down, que>> /\ Working(w)'
    BY <1>2, EndsOwn
  <2> QED
    BY <1>0, <2>1, QuietOwn, TasksStay
<1>3. CASE wk[w].at = "idle"
  <2>1. Pop(w)
    BY <1>3, ActsAt
  <2>2. UNCHANGED <<up, down>> /\ Working(w)' /\ que # << >> /\ que' = Tail(que)
    BY <2>1, PopOwn DEF Pop
  <2> QED
    BY <1>0, <2>2, QuietOwn, TasksStay
<1> QED
  BY <1>0, <1>1, <1>2, <1>3 DEF TaskOK

-----------------------------------------------------------------------------
(* Downloads are whole *)

DownloadsIndeed == FilesIndeed /\ Spelling /\ Downloads

LEMMA DownloadsInit == ASSUME Init PROVE DownloadsIndeed
<1>0. FilesIndeed
  BY FilesInit
<1>1. ASSUME NEW p \in Procs
      PROVE  /\ xf[p].at = "none" /\ xf[p].type = "none" /\ xf[p].pos = 0
             /\ up[Xfer(p)] = << >> /\ up[Main(p)] = << >> /\ down[Xfer(p)] = << >> /\ IsSeq(disk[p])
  BY ScenarioAssumption DEF Init, Xfer, Main, Conns
<1>2. Spelling
  <2> SUFFICES ASSUME NEW p \in Procs PROVE Spelt(p)
    BY DEF Spelling
  <2>1. Len(up[Xfer(p)]) = 0 /\ Len(up[Main(p)]) = 0
    BY <1>1, Pair
  <2> QED
    BY <1>1, <2>1 DEF Spelt, Local, GetsWords, Bare, Orders
<1>3. Downloads
  <2>1. \A w \in Workers : wk[w].at = "idle"
    BY DEF Init, Idle
  <2>2. Rows
    BY <2>1 DEF Rows, Init, Writing, PutsAt
  <2>3. Tasking
    <3>1. Len(que) = 0
      BY Pair DEF Init
    <3> QED
      BY <2>1, <3>1 DEF Tasking, PutsAt, GetsAt
  <2>4. \A p \in Procs : Getting(p)
    BY <1>1 DEF Getting
  <2> QED
    BY <2>2, <2>3, <2>4 DEF Downloads
<1> QED
  BY <1>0, <1>2, <1>3 DEF DownloadsIndeed

\* How many words are to come is a number, now and in the next state.
RestsAre == Shapes => \A p \in Procs : Sender(p) => Rest(p) \in Nat

LEMMA RestsNow == RestsAre
BY RestIs DEF RestsAre

LEMMA RestsThen == RestsAre'
BY RestsNow, PTL

LEMMA DownloadsStep == ASSUME DownloadsIndeed, [Next]_vars PROVE DownloadsIndeed'
<1>0. FilesIndeed /\ Shapes /\ Sessions /\ Senders /\ Spelling
  BY DEF DownloadsIndeed, FilesIndeed, SessionsIndeed
<1>1. FilesIndeed'
  BY <1>0, FilesStep
<1>2. Spelling'
  BY <1>0, SpellingStep
<1>3. ASSUME cut' = {}, twice' = {} PROVE Rows' /\ Tasking' /\ \A p \in Procs : Getting(p)'
  <2>1. cut = {} /\ twice = {}
    BY <1>0, <1>3, CutStep, TwiceStep
  <2>2. Calm
    <3>1. Rows /\ Tasking /\ \A p \in Procs : Getting(p)
      BY <2>1 DEF DownloadsIndeed, Downloads
    <3>2. Handed /\ RowHasContent
      BY <1>0, <2>1, FilesMean DEF Sessions, Kept, FilesInv
    <3> QED
      BY <1>0, <2>1, <3>1, <3>2 DEF Calm
  <2>3. \A p \in Procs : Stream(p) /\ Rest(p) \in Nat /\ Rest(p)' \in Nat
    <3>1. \A p \in Procs : Stream(p)
      BY <1>0, SendersStep
    <3>2. Shapes'
      BY <1>1 DEF FilesIndeed, SessionsIndeed
    <3> QED
      BY <1>0, <3>1, <3>2, RestsNow, RestsThen DEF RestsAre, Stream, Senders
  <2>4. CalmStep
    BY <1>3, <2>2, <2>3 DEF CalmStep
  <2>5. Rows'
    BY <2>4, RowsCalm
  <2>6. Tasking' /\ \A p \in Procs : Getting(p)'
    <3>1. ASSUME NEW q \in Procs, User(q) \/ Transfer(q) PROVE Tasking' /\ \A p \in Procs : Getting(p)'
      BY <2>4, <3>1, ClientsCalm
    <3>2. ASSUME NEW d \in Fds, Serve(d) PROVE Tasking' /\ \A p \in Procs : Getting(p)'
      BY <2>4, <3>2, ServeCalm
    <3>3. ASSUME NEW w \in Workers, Thread(w) PROVE Tasking' /\ \A p \in Procs : Getting(p)'
      BY <2>4, <3>3, ThreadCalm
    <3>4. CASE Accept \/ SetOnline \/ ServerEnds \/ UNCHANGED vars
      BY <2>4, <3>4, OthersCalm
    <3> QED
      BY <3>1, <3>2, <3>3, <3>4 DEF Next, EventLoop
  <2> QED
    BY <2>5, <2>6
<1>4. Downloads'
  BY <1>3 DEF Downloads
<1> QED
  BY <1>1, <1>2, <1>4 DEF DownloadsIndeed

LEMMA DownloadsMean == ASSUME DownloadsIndeed PROVE DownloadWhole
<1> SUFFICES ASSUME NEW p \in Procs, xf[p].at = "over", xf[p].type = "gets", cut = {}, twice = {},
                    ~ Unmapped(xf[p].pos, xf[p].len)
             PROVE  \/ \E m \in Md5s : SubSeq(disk[p], 1, xf[p].len) = Body[m]
                    \/ xf[p].len = 0 /\ \E r \in files : r.type = "d" /\ r.name = File
  BY DEF DownloadWhole
<1>1. Getting(p)
  BY DEF DownloadsIndeed, Downloads
<1>2. ~ Fresh(p) /\ \A m \in Contained : ~ Follows(p, Content(m))
  BY DEF Fresh, Follows
<1>3. PICK m \in Contained : Complete(p, m)
  BY <1>1, <1>2 DEF Getting, Stuck
<1>4. CASE m \in Md5s
  BY <1>3, <1>4 DEF Complete, Content
<1>5. CASE m \notin Md5s
  <2>1. xf[p].len = 0
    BY <1>3, <1>5, Pair DEF Complete, Content
  <2>2. \E r \in files : r.type = "d" /\ r.name = File
    BY <1>3, <1>5 DEF Complete, Settled
  <2> QED
    BY <2>1, <2>2
<1> QED
  BY <1>4, <1>5

\* What a gets has received when recv_file returns is one stored content from beginning to
\* end, resumed or not, or nothing if the row was a directory's: send_file and recv_file
\* agree on the offset and on the length, as long as no transfer has lost its connection,
\* no content that has a row is uploaded again and the offset can be mapped.
THEOREM DownloadsWhole == Spec => []DownloadWhole
<1>1. Init => DownloadsIndeed
  BY DownloadsInit
<1>2. DownloadsIndeed /\ [Next]_vars => DownloadsIndeed'
  BY DownloadsStep
<1>3. DownloadsIndeed => DownloadWhole
  BY DownloadsMean
<1> QED
  BY <1>1, <1>2, <1>3, PTL DEF Spec
=============================================================================
