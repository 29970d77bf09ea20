----------------------------- MODULE VfsProofs -----------------------------
(***************************************************************************)
(* Proofs about Vfs, for every set of sessions, names and contents, every  *)
(* number of workers and every bound on rows and depth, and on top of them *)
(* about EarlyServer, whose handlers are those of Vfs, for every set of    *)
(* sessions, descriptors, threads and scripts.                             *)
(***************************************************************************)
EXTENDS EarlyServer, FiniteSetTheorems, WellFoundedInduction, TLAPS

\* Every session is of a user of its own.
OwnUsers == \A s, t \in Sessions : Owner[s] = Owner[t] => s = t

-----------------------------------------------------------------------------
(* Invariants *)

ClientType == [code : {0} \cup Codes, pre_code : {-1, 0} \cup Codes, path : Seq(Names)]

OpType == [at : {"idle"} \cup Reading \cup Between, name : Names \cup {NULL},
           md5 : Md5s \cup {NULL}, dir : Codes \cup {NULL}, rows : SUBSET Row,
           place : Places \cup {NULL}]

\* Steps of commands on the main connection, and of those on the transfer thread's.
MainSteps  == {"cd_rows", "ls_rows", "rm_rows", "rm_update", "rmdir_rows", "rmdir_check",
               "rmdir_content", "rmdir_delete"}
ChildSteps == {"gets_rows"} \cup Uploading

\* o can be in hand on c.
OpOf(c, o) == /\ o.at = "idle" => o = Idle
              /\ c \in Main => o.at \in {"idle"} \cup MainSteps
              /\ c \in Child => o.at \in {"idle"} \cup ChildSteps
              /\ o.at \in MainSteps \ {"cd_rows", "ls_rows"} => o.name \in Names
              /\ o.at \in ChildSteps => o.name \in Names
              /\ o.at \in Uploading => o.md5 \in Md5s

ConnType == /\ op \in [Conns -> OpType]
            /\ live \subseteq Conns
            /\ sql_conn \in Conns \cup {NULL}
            /\ \A c \in Conns : OpOf(c, op[c])

\* The table: codes are handed out upwards, and only files have contents.
RowsInv == /\ vfs \subseteq Row
           /\ auto_inc \in 1..(MaxRows + 1)
           /\ \A r \in vfs : /\ r.code < auto_inc
                             /\ r.pre_code < r.code
                             /\ r.file_type = "d" => r.file_md5 = NULL /\ r.file_count = 1
                             /\ r.file_type = "f" => r.file_md5 # NULL
           /\ \A r, q \in vfs : r.code = q.code => r = q

\* Clients are in directories of the table, or of what was the table.
ClientInv == /\ client \in [Conns -> ClientType]
             /\ \A c \in Conns : /\ client[c].code < auto_inc
                                 /\ \A r \in op[c].rows : r.code < auto_inc

\* Commands that may still insert find room.
Uploaders == {c \in Conns : op[c].at \in Uploading}
RoomInv == auto_inc + Cardinality(Uploaders) <= MaxRows + 1

\* The result on the connection is of the command that is about to read it.
ResultInv == \A c \in Conns : op[c].at \in Reading <=> sql_conn = c

BaseInv == ConnType /\ RowsInv /\ ClientInv /\ RoomInv /\ ResultInv

\* What a puts is about to insert was placed; so was what a quick upload has found.
PlacedInv ==
    /\ ContentPlaced
    /\ \A c \in Conns :
         /\ op[c].at \in {"puts_insert", "quick_insert"} => <<op[c].md5, op[c].place>> \in placed
         /\ op[c].at = "quick_rows" => \A r \in op[c].rows : <<op[c].md5, r.place>> \in placed

\* The directories of a user.
Dirs(u) == {r \in vfs : r.file_type = "d" /\ r.owner_uid = u}

\* Directories of D with the same name in the same place.
Twins(D, pre, n) == {r \in D : r.pre_code = pre /\ r.file_name = n}

\* q is the one of its twins that a lookup finds.
Lead(D, q) == q \in D /\ \A r \in Twins(D, q.pre_code, q.file_name) : q.code <= r.code

\* Every directory is in one that a lookup finds.
Tree(D) == \A r \in D : r.pre_code # -1 => \E q \in D : q.code = r.pre_code /\ Lead(D, q)

\* The current directory of a session is one that a lookup finds, and pre_code its parent.
HereInv(c) ==
    LET D == Dirs(Uid(c)) IN
    client[c].code # 0 =>
        \E q \in D : q.code = client[c].code /\ Lead(D, q) /\ client[c].pre_code = PreCode(q)

\* What a command on directories knows stays true while it is in hand.
CmdInv(c) ==
    LET D == Dirs(Uid(c))
        o == op[c]
    IN /\ o.at = "cd_rows" =>
             IF o.name = NULL
             THEN /\ o.rows = {r \in D : r.code = client[c].pre_code}
                  /\ client[c].code # 0 /\ client[c].pre_code # 0
             ELSE o.rows = Twins(D, Here(c), o.name)
       /\ o.at = "rmdir_rows" => o.rows = Twins(D, Here(c), o.name)
       /\ o.at \in {"rmdir_check", "rmdir_content", "rmdir_delete"} =>
             \E q \in Twins(D, Here(c), o.name) : q.code = o.dir /\ Lead(D, q)
       /\ o.at = "rmdir_content" /\ o.rows = {} => \A r \in D : r.pre_code # o.dir
       /\ o.at = "rmdir_delete" => \A r \in D : r.pre_code # o.dir

Users == {Owner[s] : s \in Sessions}

TreeInv == /\ \A u \in Users : Tree(Dirs(u))
           /\ \A c \in Main : HereInv(c) /\ CmdInv(c)

\* The rows on the way to the current directory, in the order they were made.
Way(c, a) ==
    LET p == client[c].path
        d == Len(p)
    IN /\ a \in [1..d -> Codes]
       /\ IF d = 0 THEN client[c].code = 0
          ELSE /\ a[d] = client[c].code
               /\ client[c].pre_code = IF d = 1 THEN 0 ELSE a[d - 1]
       /\ \A i \in 1..d : \E r \in Dirs(Uid(c)) :
             /\ r.code = a[i] /\ r.file_name = p[i]
             /\ r.pre_code = IF i = 1 THEN -1 ELSE a[i - 1]
       /\ \A i, j \in 1..d : i < j => a[i] < a[j]

PathInv == \A c \in Main : \E a \in [1..Len(client[c].path) -> Codes] : Way(c, a)
-----------------------------------------------------------------------------
(* The operators *)

\* A set of numbers has a least one.
LEMMA LeastNumber ==
    ASSUME NEW T \in SUBSET Nat, T # {}
    PROVE  \E m \in T : \A n \in T : m <= n
<1>1. \E m \in T : \A n \in T : ~ (<<n, m>> \in OpToRel(<, Nat))
  BY WFMin, NatLessThanWellFounded
<1>2. PICK m \in T : \A n \in T : ~ (<<n, m>> \in OpToRel(<, Nat))
  BY <1>1
<1>3. \A n \in T : ~ (n < m)
  BY <1>2 DEF OpToRel
<1> QED
  BY <1>3

\* mysql_fetch_row gives the row with the least code.
LEMMA FirstRow ==
    ASSUME NEW rows \in SUBSET Row, rows # {}
    PROVE  /\ First(rows) \in rows
           /\ \A q \in rows : First(rows).code <= q.code
<1>1. {q.code : q \in rows} \in SUBSET Nat /\ {q.code : q \in rows} # {}
  BY DEF Row, Codes
<1>2. \E m \in {q.code : q \in rows} : \A n \in {q.code : q \in rows} : m <= n
  BY <1>1, LeastNumber
<1>3. \E r \in rows : \A q \in rows : r.code <= q.code
  BY <1>2
<1> QED
  BY <1>3 DEF First

LEMMA IdleOp == Idle \in OpType /\ Idle.at = "idle" /\ Idle.rows = {} /\ \A c \in Conns : OpOf(c, Idle)
BY DEF Idle, Op, OpType, OpOf, MainSteps, ChildSteps, Uploading

\* Connections are finitely many.
LEMMA ConnsFinite == IsFiniteSet(Conns) /\ NULL \notin Conns /\ Main \cap Child = {}
<1>1. IsFiniteSet(Sessions \X {"main"}) /\ IsFiniteSet(Sessions \X {"child"})
  BY VfsAssumption, FS_Product, FS_Singleton
<1>2. IsFiniteSet(Main \cup Child)
  BY <1>1, FS_Union DEF Main, Child
<1> QED
  BY <1>2, VfsAssumption DEF Conns, Main, Child

-----------------------------------------------------------------------------
(* One step of one command *)

\* The command of c goes on as o.
Moved(c, o) == /\ op' = [op EXCEPT ![c] = o]
               /\ ConnType'
               /\ ResultInv'

LEMMA SelectStep ==
    ASSUME BaseInv, NEW c \in Conns, NEW o \in OpType, OpOf(c, o), o.at \in Reading, Select(c, o)
    PROVE  Moved(c, o)
BY ConnsFinite DEF BaseInv, ConnType, ResultInv, Moved, Select, OutOfSync

LEMMA FreeStep ==
    ASSUME BaseInv, NEW c \in Conns, NEW o \in OpType, OpOf(c, o), o.at \notin Reading,
           op[c].at \in Reading, sql_conn' = NULL, live' \subseteq Conns,
           op' = [op EXCEPT ![c] = o]
    PROVE  Moved(c, o)
BY ConnsFinite DEF BaseInv, ConnType, ResultInv, Moved

LEMMA KeepStep ==
    ASSUME BaseInv, NEW c \in Conns, NEW o \in OpType, OpOf(c, o), o.at \notin Reading,
           op[c].at \notin Reading, UNCHANGED sql_conn, live' \subseteq Conns,
           op' = [op EXCEPT ![c] = o]
    PROVE  Moved(c, o)
BY ConnsFinite DEF BaseInv, ConnType, ResultInv, Moved

LEMMA AnswerStep ==
    ASSUME BaseInv, NEW c \in Conns, NEW what, Answer(c, what),
           \/ op[c].at \notin Reading /\ UNCHANGED sql_conn
           \/ op[c].at \in Reading /\ sql_conn' = NULL
    PROVE  Moved(c, Idle)
<1>1. Idle \in OpType /\ OpOf(c, Idle) /\ Idle.at \notin Reading
  BY IdleOp DEF Reading
<1>2. op' = [op EXCEPT ![c] = Idle] /\ live' \subseteq Conns
  BY DEF BaseInv, ConnType, Answer
<1> QED
  BY <1>1, <1>2, FreeStep, KeepStep

\* The uploads in hand, as a command goes on.
LEMMA UploadersStep ==
    ASSUME BaseInv, NEW c \in Conns, NEW o, op' = [op EXCEPT ![c] = o]
    PROVE  /\ Cardinality(Uploaders) \in Nat /\ Cardinality(Uploaders') \in Nat
           /\ Cardinality(Uploaders') = Cardinality(Uploaders)
                                        + (IF o.at \in Uploading THEN 1 ELSE 0)
                                        - (IF c \in Uploaders THEN 1 ELSE 0)
<1>1. IsFiniteSet(Uploaders)
  BY ConnsFinite, FS_Subset DEF Uploaders
<1>2. Uploaders' = IF o.at \in Uploading THEN Uploaders \cup {c} ELSE Uploaders \ {c}
  BY DEF Uploaders, BaseInv, ConnType
<1>3. CASE o.at \in Uploading
  <2>1. Uploaders' = Uploaders \cup {c}
    BY <1>2, <1>3
  <2> QED
    BY <1>1, <1>3, <2>1, FS_AddElement, FS_CardinalityType
<1>4. CASE o.at \notin Uploading
  <2>1. Uploaders' = Uploaders \ {c}
    BY <1>2, <1>4
  <2> QED
    BY <1>1, <1>4, <2>1, FS_RemoveElement, FS_CardinalityType
<1> QED
  BY <1>3, <1>4

\* A step that leaves the table alone.
LEMMA NoTableStep ==
    ASSUME BaseInv, NEW c \in Conns, NEW o \in OpType, Moved(c, o), UNCHANGED tableVars,
           c \in Uploaders \/ o.at \notin Uploading \/ RoomForRow,
           \A r \in o.rows : r.code < auto_inc,
           client' \in [Conns -> ClientType],
           \A d \in Conns : client'[d].code < auto_inc
    PROVE  BaseInv'
<1>1. op' = [op EXCEPT ![c] = o] /\ ConnType' /\ ResultInv' /\ vfs' = vfs /\ auto_inc' = auto_inc
  BY DEF Moved, tableVars
<1>2. RowsInv'
  BY <1>1 DEF BaseInv, RowsInv
<1>3. ClientInv'
  BY <1>1 DEF BaseInv, ClientInv, ConnType
<1>4. RoomInv'
  <2>1. auto_inc \in Nat /\ auto_inc + Cardinality(Uploaders) <= MaxRows + 1
    BY VfsAssumption DEF BaseInv, RoomInv, RowsInv
  <2>2. RoomForRow => auto_inc + Cardinality(Uploaders) <= MaxRows
    BY DEF RoomForRow, Uploaders
  <2>3. /\ Cardinality(Uploaders) \in Nat /\ Cardinality(Uploaders') \in Nat
        /\ \/ Cardinality(Uploaders') <= Cardinality(Uploaders)
           \/ RoomForRow /\ Cardinality(Uploaders') = Cardinality(Uploaders) + 1
    <3>1. /\ Cardinality(Uploaders) \in Nat /\ Cardinality(Uploaders') \in Nat
          /\ Cardinality(Uploaders') = Cardinality(Uploaders)
                                        + (IF o.at \in Uploading THEN 1 ELSE 0)
                                        - (IF c \in Uploaders THEN 1 ELSE 0)
      BY <1>1, UploadersStep
    <3> QED
      BY <3>1
  <2>4. auto_inc + Cardinality(Uploaders') <= MaxRows + 1
    BY <2>1, <2>2, <2>3, VfsAssumption
  <2> QED
    BY <1>1, <2>4 DEF RoomInv
<1> QED
  BY <1>1, <1>2, <1>3, <1>4 DEF BaseInv

\* ... and the clients, too.
LEMMA QuietStep ==
    ASSUME BaseInv, NEW c \in Conns, NEW o \in OpType, Moved(c, o), UNCHANGED <<tableVars, client>>,
           c \in Uploaders \/ o.at \notin Uploading \/ RoomForRow,
           o.rows \subseteq vfs
    PROVE  BaseInv'
<1>1. client' \in [Conns -> ClientType] /\ \A d \in Conns : client'[d].code < auto_inc
  BY DEF BaseInv, ClientInv
<1>2. \A r \in o.rows : r.code < auto_inc
  BY DEF BaseInv, RowsInv
<1> QED
  BY <1>1, <1>2, NoTableStep

\* An INSERT gives a row with a new code in the current directory.
NewRow(c, n, t, m, pl) ==
    [code |-> auto_inc, pre_code |-> Here(c), file_name |-> n, file_type |-> t,
     file_count |-> 1, owner_uid |-> Uid(c), file_md5 |-> m, place |-> pl]

LEMMA InsertStep ==
    ASSUME BaseInv, NEW c \in Conns, NEW n \in Names, NEW m, NEW pl \in Places \cup {NULL}, NEW t,
           \/ t = "d" /\ m = NULL
           \/ t = "f" /\ m \in Md5s,
           Moved(c, Idle), Insert(c, n, t, m, pl), UNCHANGED client,
           c \in Uploaders \/ RoomForRow
    PROVE  /\ BaseInv'
           /\ NewRow(c, n, t, m, pl) \in Row
           /\ vfs' = vfs \cup {NewRow(c, n, t, m, pl)}
<1> DEFINE r0 == NewRow(c, n, t, m, pl)
<1>1. /\ vfs' = vfs \cup {r0} /\ auto_inc' = auto_inc + 1
      /\ op' = [op EXCEPT ![c] = Idle] /\ ConnType' /\ ResultInv'
  BY DEF Moved, Insert, NewRow
<1>2. /\ auto_inc \in Nat /\ auto_inc > 0
      /\ auto_inc + Cardinality(Uploaders) <= MaxRows + 1
      /\ RoomForRow => auto_inc + Cardinality(Uploaders) <= MaxRows
  BY VfsAssumption DEF BaseInv, RoomInv, RowsInv, RoomForRow, Uploaders
<1>3. /\ Idle.at \notin Uploading /\ Idle.rows = {}
      /\ Cardinality(Uploaders) \in Nat /\ Cardinality(Uploaders') \in Nat
      /\ Cardinality(Uploaders') = Cardinality(Uploaders)
                                    + (IF Idle.at \in Uploading THEN 1 ELSE 0)
                                    - (IF c \in Uploaders THEN 1 ELSE 0)
  <2>1. Idle.at \notin Uploading /\ Idle.rows = {}
    BY IdleOp DEF Uploading
  <2> QED
    BY <1>1, <2>1, UploadersStep
<1>4. auto_inc' + Cardinality(Uploaders') <= MaxRows + 1
  BY <1>1, <1>2, <1>3, VfsAssumption
<1>5. auto_inc \in Codes /\ auto_inc' \in 1..(MaxRows + 1)
  BY <1>1, <1>2, <1>3, <1>4, VfsAssumption DEF Codes
<1>6. Here(c) \in {-1} \cup Codes /\ Here(c) < auto_inc
  BY <1>2 DEF Here, BaseInv, ClientInv, ClientType
<1>7. Uid(c) \in {Owner[s] : s \in Sessions}
  BY DEF Uid, Conns, Main, Child
<1>8. /\ r0 \in Row /\ r0.code = auto_inc /\ r0.pre_code = Here(c) /\ r0.file_type = t
      /\ r0.file_md5 = m /\ r0.file_count = 1
  BY <1>5, <1>6, <1>7 DEF NewRow, Row
<1> HIDE DEF r0
<1>9. RowsInv'
  <2>1. vfs' \subseteq Row
    BY <1>1, <1>8 DEF BaseInv, RowsInv
  <2>2. \A r \in vfs' : /\ r.code < auto_inc'
                        /\ r.pre_code < r.code
                        /\ r.file_type = "d" => r.file_md5 = NULL /\ r.file_count = 1
                        /\ r.file_type = "f" => r.file_md5 # NULL
    <3> SUFFICES ASSUME NEW r \in vfs'
                 PROVE  /\ r.code < auto_inc'
                        /\ r.pre_code < r.code
                        /\ r.file_type = "d" => r.file_md5 = NULL /\ r.file_count = 1
                        /\ r.file_type = "f" => r.file_md5 # NULL
      OBVIOUS
    <3>1. CASE r \in vfs
      <4>1. r.code \in Nat
        BY <3>1 DEF BaseInv, RowsInv, Row, Codes
      <4> QED
        BY <3>1, <4>1, <1>1, <1>2 DEF BaseInv, RowsInv
    <3>2. CASE r = r0
      BY <3>2, <1>1, <1>2, <1>6, <1>8, VfsAssumption
    <3> QED
      BY <3>1, <3>2, <1>1
  <2>3. \A r, q \in vfs' : r.code = q.code => r = q
    BY <1>1, <1>2, <1>8 DEF BaseInv, RowsInv
  <2> QED
    BY <1>5, <2>1, <2>2, <2>3 DEF RowsInv
<1>10. ClientInv'
  <2>1. /\ \A d \in Conns : client[d].code < auto_inc /\ client[d].code \in Nat
        /\ \A d \in Conns : \A r \in op[d].rows : r.code < auto_inc /\ r.code \in Nat
    BY DEF BaseInv, ClientInv, ClientType, ConnType, OpType, Row, Codes
  <2>2. \A d \in Conns : op'[d].rows = {} \/ op'[d].rows = op[d].rows
    BY <1>1, <1>3 DEF BaseInv, ConnType
  <2> QED
    BY <1>1, <1>2, <2>1, <2>2 DEF BaseInv, ClientInv
<1> QED
  BY <1>1, <1>4, <1>8, <1>9, <1>10 DEF BaseInv, RoomInv, r0

\* The rows a SELECT finds are rows of the table.
LEMMA NamedRows ==
    ASSUME BaseInv, NEW c \in Conns, NEW n, NEW t
    PROVE  Named(c, n, t) \subseteq vfs
BY DEF Named

\* An operation's record has the fields it was made with.
LEMMA OpRecord ==
    ASSUME NEW at \in {"idle"} \cup Reading \cup Between, NEW n \in Names \cup {NULL},
           NEW m \in Md5s \cup {NULL}, NEW dir \in Codes \cup {NULL}, NEW rows \in SUBSET Row,
           NEW pl \in Places \cup {NULL}
    PROVE  /\ Op(at, n, m, dir, rows, pl) \in OpType
           /\ Op(at, n, m, dir, rows, pl).at = at
           /\ Op(at, n, m, dir, rows, pl).name = n
           /\ Op(at, n, m, dir, rows, pl).md5 = m
           /\ Op(at, n, m, dir, rows, pl).dir = dir
           /\ Op(at, n, m, dir, rows, pl).rows = rows
           /\ Op(at, n, m, dir, rows, pl).place = pl
BY DEF Op, OpType

LEMMA BaseInit == Init => BaseInv
<1> SUFFICES ASSUME Init PROVE BaseInv
  OBVIOUS
<1> USE VfsAssumption DEF Init
<1>1. ConnType /\ ResultInv
  BY IdleOp, ConnsFinite DEF ConnType, ResultInv, Conns, Reading
<1>2. RowsInv
  BY DEF RowsInv
<1>3. ClientInv
  BY IdleOp DEF ClientInv, ClientType
<1>4. Uploaders = {}
  BY IdleOp DEF Uploaders, Uploading
<1>5. RoomInv
  BY <1>4, FS_EmptySet DEF RoomInv
<1> QED
  BY <1>1, <1>2, <1>3, <1>5 DEF BaseInv
-----------------------------------------------------------------------------
(* BaseInv is kept *)

\* Which steps a command is made of, by the connection it came on.
StepOf(c, at, n, m) ==
    \/ c \in Main /\ at \in MainSteps /\ (n \in Names \/ at \in {"cd_rows", "ls_rows"})
    \/ c \in Child /\ at \in ChildSteps /\ n \in Names /\ (at \in Uploading => m \in Md5s)

LEMMA OpMade ==
    ASSUME NEW c \in Conns, NEW at, NEW n \in Names \cup {NULL}, NEW m \in Md5s \cup {NULL},
           NEW dir \in Codes \cup {NULL}, NEW rows \in SUBSET Row, NEW pl \in Places \cup {NULL},
           StepOf(c, at, n, m)
    PROVE  /\ Op(at, n, m, dir, rows, pl) \in OpType
           /\ OpOf(c, Op(at, n, m, dir, rows, pl))
           /\ at # "idle"
<1>1. at \in Reading \cup Between /\ at # "idle"
  BY DEF StepOf, MainSteps, ChildSteps, Uploading, Reading, Between
<1>2. /\ Op(at, n, m, dir, rows, pl) \in OpType
      /\ Op(at, n, m, dir, rows, pl).at = at
      /\ Op(at, n, m, dir, rows, pl).name = n
      /\ Op(at, n, m, dir, rows, pl).md5 = m
  BY <1>1 DEF Op, OpType
<1>3. Main \cap Child = {}
  BY ConnsFinite
<1> QED
  BY <1>1, <1>2, <1>3 DEF StepOf, OpOf, MainSteps, ChildSteps, Uploading

\* A command of c is at one of its steps.
LEMMA StepAt ==
    ASSUME BaseInv, NEW c \in Conns
    PROVE  /\ op[c] \in OpType
           /\ op[c].at \in MainSteps => c \in Main
           /\ op[c].at \in ChildSteps => c \in Child /\ op[c].name \in Names
           /\ op[c].at \in MainSteps \ {"cd_rows", "ls_rows"} => op[c].name \in Names
           /\ op[c].at \in Uploading => op[c].md5 \in Md5s /\ c \in Uploaders
           /\ Start(c) => op[c].at = "idle"
BY ConnsFinite, IdleOp
DEF BaseInv, ConnType, OpOf, MainSteps, ChildSteps, Uploading, Uploaders, Conns, Start

LEMMA SelectQuiet ==
    ASSUME BaseInv, NEW c \in Conns, NEW at \in Reading, NEW n \in Names \cup {NULL},
           NEW m \in Md5s \cup {NULL}, NEW dir \in Codes \cup {NULL}, NEW rows \in SUBSET vfs,
           StepOf(c, at, n, m), Select(c, Op(at, n, m, dir, rows, NULL)),
           UNCHANGED <<tableVars, client>>,
           c \in Uploaders \/ at \notin Uploading \/ RoomForRow
    PROVE  BaseInv'
<1> DEFINE o == Op(at, n, m, dir, rows, NULL)
<1>0. rows \in SUBSET Row
  BY DEF BaseInv, RowsInv
<1>1. o \in OpType /\ OpOf(c, o) /\ o.at = at /\ o.rows = rows
  <2>1. o \in OpType /\ OpOf(c, o)
    BY <1>0, OpMade, Zenon
  <2> QED
    BY <2>1 DEF Op
<1> HIDE DEF o
<1>2. Select(c, o)
  BY DEF o
<1>3. Moved(c, o)
  BY <1>1, <1>2, SelectStep
<1> QED
  BY <1>1, <1>3, QuietStep

LEMMA FreeQuiet ==
    ASSUME BaseInv, NEW c \in Conns, op[c].at \in Reading, NEW at \in Between,
           NEW n \in Names, NEW m \in Md5s \cup {NULL}, NEW dir \in Codes \cup {NULL},
           NEW pl \in Places \cup {NULL}, StepOf(c, at, n, m),
           sql_conn' = NULL, op' = [op EXCEPT ![c] = Op(at, n, m, dir, {}, pl)],
           UNCHANGED <<tableVars, client, live>>,
           c \in Uploaders \/ at \notin Uploading
    PROVE  BaseInv'
<1> DEFINE o == Op(at, n, m, dir, {}, pl)
<1>1. o \in OpType /\ OpOf(c, o) /\ o.at = at /\ o.rows = {}
  <2>1. {} \in SUBSET Row
    OBVIOUS
  <2>2. o \in OpType /\ OpOf(c, o)
    BY <2>1, OpMade, Zenon
  <2> QED
    BY <2>2 DEF Op
<1>2. o.at \notin Reading
  BY <1>1 DEF Between, Reading
<1> HIDE DEF o
<1>3. op' = [op EXCEPT ![c] = o] /\ live' \subseteq Conns
  BY DEF o, BaseInv, ConnType
<1>4. Moved(c, o)
  BY <1>1, <1>2, <1>3, FreeStep
<1> QED
  BY <1>1, <1>4, QuietStep

LEMMA AnswerQuiet ==
    ASSUME BaseInv, NEW c \in Conns, NEW what, Answer(c, what),
           \/ op[c].at \notin Reading /\ UNCHANGED sql_conn
           \/ op[c].at \in Reading /\ sql_conn' = NULL,
           UNCHANGED <<tableVars, client>>
    PROVE  BaseInv'
<1>1. Moved(c, Idle)
  BY AnswerStep
<1>2. Idle \in OpType /\ Idle.at \notin Uploading /\ Idle.rows \subseteq vfs
  BY IdleOp DEF Uploading
<1> QED
  BY <1>1, <1>2, QuietStep

LEMMA BaseCd == ASSUME BaseInv, NEW c \in Conns,
                       \/ CdAtRoot(c) \/ CdToRoot(c) \/ CdUp(c) \/ CdResult(c)
                       \/ \E n \in Names : CdDown(c, n)
                PROVE  BaseInv'
<1> USE VfsAssumption
<1>a. op[c] \in OpType /\ (Start(c) => op[c].at = "idle" /\ op[c].at \notin Reading)
  BY StepAt DEF Reading
<1>b. client[c] \in ClientType /\ client \in [Conns -> ClientType]
  BY DEF BaseInv, ClientInv
<1>1. ASSUME NEW v \in ClientType, client' = [client EXCEPT ![c] = v], v.code < auto_inc,
             UNCHANGED tableVars, NEW o \in OpType, Moved(c, o), o.at \notin Uploading,
             \A r \in o.rows : r.code < auto_inc
      PROVE  BaseInv'
  <2>1. client' \in [Conns -> ClientType] /\ \A d \in Conns : client'[d].code < auto_inc
    BY <1>b, <1>1 DEF BaseInv, ClientInv
  <2> QED
    BY <1>1, <2>1, NoTableStep
<1>2. ASSUME NEW v \in ClientType, client' = [client EXCEPT ![c] = v], v.code < auto_inc,
             UNCHANGED tableVars, NEW what, Answer(c, what),
             \/ op[c].at \notin Reading /\ UNCHANGED sql_conn
             \/ op[c].at \in Reading /\ sql_conn' = NULL
      PROVE  BaseInv'
  <2>1. Moved(c, Idle)
    BY <1>2, AnswerStep
  <2>2. Idle \in OpType /\ Idle.at \notin Uploading /\ \A r \in Idle.rows : r.code < auto_inc
    BY IdleOp DEF Uploading
  <2> QED
    BY <1>1, <1>2, <2>1, <2>2
<1>u. \A p \in Seq(Names) : Up(p) \in Seq(Names) /\ \A n \in Names : Down(p, n) \in Seq(Names)
  BY DEF Up, Down
<1>3. CASE CdAtRoot(c)
  BY <1>3, <1>a, AnswerQuiet DEF CdAtRoot
<1>4. CASE CdToRoot(c)
  <2> DEFINE v == [code |-> 0, pre_code |-> -1, path |-> Up(client[c].path)]
  <2>1. v \in ClientType /\ v.code < auto_inc
    BY <1>b, <1>u DEF ClientType, BaseInv, RowsInv
  <2>2. client' = [client EXCEPT ![c] = v] /\ Answer(c, "ok") /\ UNCHANGED <<tableVars, sql_conn>>
    BY <1>4, <1>b DEF CdToRoot
  <2>3. op[c].at \notin Reading
    BY <1>4, <1>a DEF CdToRoot
  <2> HIDE DEF v
  <2> QED
    BY <1>2, <2>1, <2>2, <2>3
<1>5. CASE CdUp(c)
  <2> DEFINE rows == {r \in vfs : /\ r.owner_uid = Uid(c)
                                  /\ r.code = client[c].pre_code
                                  /\ r.file_type = "d"}
  <2>1. CASE Select(c, Op("cd_rows", NULL, NULL, NULL, rows, NULL)) /\ UNCHANGED client
    <3>1. rows \in SUBSET vfs /\ "cd_rows" \in Reading /\ "cd_rows" \notin Uploading
      BY DEF Reading, Uploading
    <3>2. StepOf(c, "cd_rows", NULL, NULL) /\ UNCHANGED tableVars
      BY <1>5 DEF CdUp, StepOf, MainSteps
    <3> QED
      BY <2>1, <3>1, <3>2, SelectQuiet
  <2>2. CASE /\ OutOfSync
             /\ client' = [client EXCEPT ![c].path = Up(@)]
             /\ Answer(c, "ok")
             /\ UNCHANGED sql_conn
    <3> DEFINE v == [client[c] EXCEPT !.path = Up(@)]
    <3>1. v \in ClientType /\ v.code < auto_inc
      BY <1>b, <1>u DEF ClientType, BaseInv, ClientInv
    <3>2. client' = [client EXCEPT ![c] = v] /\ UNCHANGED tableVars
      BY <1>5, <1>b, <2>2 DEF CdUp
    <3>3. op[c].at \notin Reading
      BY <1>5, <1>a DEF CdUp
    <3> HIDE DEF v
    <3> QED
      BY <1>2, <2>2, <3>1, <3>2, <3>3
  <2> QED
    BY <1>5, <2>1, <2>2 DEF CdUp
<1>6. ASSUME NEW n \in Names, CdDown(c, n) PROVE BaseInv'
  <2> DEFINE pre == IF client[c].code = 0 THEN 0 ELSE client[c].pre_code
  <2>1. CASE /\ Select(c, Op("cd_rows", n, NULL, NULL, Named(c, n, "d"), NULL))
             /\ client' = [client EXCEPT ![c].pre_code = pre]
    <3> DEFINE v == [client[c] EXCEPT !.pre_code = pre]
               o == Op("cd_rows", n, NULL, NULL, Named(c, n, "d"), NULL)
    <3>1. v \in ClientType /\ v.code < auto_inc
      BY <1>b DEF ClientType, BaseInv, ClientInv
    <3>2. client' = [client EXCEPT ![c] = v] /\ UNCHANGED tableVars
      BY <1>6, <1>b, <2>1 DEF CdDown
    <3>3. Named(c, n, "d") \in SUBSET Row /\ \A r \in Named(c, n, "d") : r.code < auto_inc
      BY DEF Named, BaseInv, RowsInv
    <3>4. StepOf(c, "cd_rows", n, NULL) /\ "cd_rows" \in Reading /\ "cd_rows" \notin Uploading
      BY <1>6 DEF CdDown, StepOf, MainSteps, Reading, Uploading
    <3>5. o \in OpType /\ OpOf(c, o) /\ o.at = "cd_rows" /\ o.rows = Named(c, n, "d")
      BY <3>3, <3>4, OpMade, OpRecord
    <3>6. Select(c, o)
      BY <2>1
    <3> HIDE DEF v, o
    <3>7. Moved(c, o)
      BY <3>4, <3>5, <3>6, SelectStep
    <3> QED
      BY <1>1, <3>1, <3>2, <3>3, <3>4, <3>5, <3>7
  <2>2. CASE /\ OutOfSync
             /\ client' = [client EXCEPT ![c] = [code |-> @.code, pre_code |-> pre,
                                                 path |-> Down(@.path, n)]]
             /\ Answer(c, "ok")
             /\ UNCHANGED sql_conn
    <3> DEFINE v == [code |-> client[c].code, pre_code |-> pre, path |-> Down(client[c].path, n)]
    <3>1. v \in ClientType /\ v.code < auto_inc
      BY <1>b, <1>u DEF ClientType, BaseInv, ClientInv
    <3>2. client' = [client EXCEPT ![c] = v] /\ UNCHANGED tableVars
      BY <1>6, <1>b, <2>2 DEF CdDown
    <3>3. op[c].at \notin Reading
      BY <1>6, <1>a DEF CdDown
    <3> HIDE DEF v
    <3> QED
      BY <1>2, <2>2, <3>1, <3>2, <3>3
  <2> QED
    BY <1>6, <2>1, <2>2 DEF CdDown
<1>7. CASE CdResult(c)
  <2>0. op[c].at \in Reading
    BY <1>7 DEF CdResult, Reading
  <2>1. CASE op[c].rows = {} /\ FreeAndAnswer(c, "error") /\ UNCHANGED client
    BY <1>7, <2>0, <2>1, AnswerQuiet DEF CdResult, FreeAndAnswer
  <2>2. CASE op[c].rows # {} /\ FreeAndAnswer(c, "ok")
    <3> DEFINE r == First(op[c].rows)
               n == op[c].name
               v == [code |-> r.code, pre_code |-> PreCode(r),
                     path |-> IF n = NULL THEN Up(client[c].path) ELSE Down(client[c].path, n)]
    <3>1. r \in op[c].rows /\ r \in Row
      BY <1>a, <2>2, FirstRow DEF OpType
    <3>2. v.path \in Seq(Names)
      BY <1>a, <1>b, <1>u DEF ClientType, OpType
    <3>3. v \in ClientType
      BY <3>1, <3>2 DEF ClientType, PreCode, Row
    <3>4. v.code < auto_inc
      BY <3>1 DEF BaseInv, ClientInv
    <3>5. client' = [client EXCEPT ![c] = v] /\ UNCHANGED tableVars
      BY <1>7, <1>b, <2>2 DEF CdResult
    <3> HIDE DEF v
    <3> QED
      BY <1>2, <2>0, <2>2, <3>3, <3>4, <3>5 DEF FreeAndAnswer
  <2> QED
    BY <1>7, <2>1, <2>2 DEF CdResult
<1> QED
  BY <1>3, <1>4, <1>5, <1>6, <1>7

\* A step that leaves AUTO_INCREMENT and the clients alone.
LEMMA RowsStep ==
    ASSUME BaseInv, NEW c \in Conns, Moved(c, Idle), RowsInv', UNCHANGED <<auto_inc, client>>
    PROVE  BaseInv'
<1>1. op' = [op EXCEPT ![c] = Idle] /\ ConnType' /\ ResultInv' /\ auto_inc' = auto_inc
  BY DEF Moved
<1>2. Idle.at \notin Uploading /\ Idle.rows = {}
  BY IdleOp DEF Uploading
<1>3. ClientInv'
  BY <1>1, <1>2 DEF BaseInv, ClientInv, ConnType
<1>4. /\ Cardinality(Uploaders) \in Nat /\ Cardinality(Uploaders') \in Nat
      /\ Cardinality(Uploaders') = Cardinality(Uploaders)
                                    + (IF Idle.at \in Uploading THEN 1 ELSE 0)
                                    - (IF c \in Uploaders THEN 1 ELSE 0)
  BY <1>1, UploadersStep
<1>5. auto_inc \in Nat /\ auto_inc + Cardinality(Uploaders) <= MaxRows + 1
  BY VfsAssumption DEF BaseInv, RoomInv, RowsInv
<1>6. auto_inc + Cardinality(Uploaders') <= MaxRows + 1
  BY <1>2, <1>4, <1>5, VfsAssumption
<1> QED
  BY <1>1, <1>3, <1>6 DEF BaseInv, RoomInv

LEMMA BaseDirs == ASSUME BaseInv, NEW c \in Conns,
                         \/ Ls(c) \/ LsResult(c)
                         \/ \E n \in Names : Mkdir(c, n) \/ Rm(c, n) \/ Rmdir(c, n)
                         \/ RmResult(c) \/ RmUpdate(c)
                         \/ RmdirResult(c) \/ RmdirCheck(c) \/ RmdirContent(c) \/ RmdirDelete(c)
                  PROVE  BaseInv'
<1> USE VfsAssumption
<1>a. /\ op[c] \in OpType
      /\ Start(c) => op[c].at = "idle" /\ op[c].at \notin Reading
      /\ op[c].at \in MainSteps => c \in Main
      /\ op[c].at \in MainSteps \ {"cd_rows", "ls_rows"} => op[c].name \in Names
  BY StepAt DEF Reading
<1>1. CASE Ls(c)
  <2> DEFINE rows == Listed(Uid(c), Here(c))
  <2>1. CASE Select(c, Op("ls_rows", NULL, NULL, NULL, rows, NULL))
    <3>1. rows \in SUBSET vfs /\ "ls_rows" \in Reading /\ "ls_rows" \notin Uploading
      BY DEF Listed, Reading, Uploading
    <3>2. StepOf(c, "ls_rows", NULL, NULL) /\ UNCHANGED <<tableVars, client>>
      BY <1>1 DEF Ls, StepOf, MainSteps
    <3> QED
      BY <2>1, <3>1, <3>2, SelectQuiet
  <2> QED
    BY <1>1, <1>a, <2>1, AnswerQuiet DEF Ls
<1>2. CASE LsResult(c)
  <2>1. op[c].at \in Reading
    BY <1>2 DEF LsResult, Reading
  <2> QED
    BY <1>2, <2>1, AnswerQuiet DEF LsResult, FreeAndAnswer
<1>3. ASSUME NEW n \in Names, Mkdir(c, n) PROVE BaseInv'
  <2>0. op[c].at \notin Reading /\ UNCHANGED <<client, sql_conn>> /\ RoomForRow
    BY <1>3, <1>a DEF Mkdir
  <2>1. CASE Insert(c, n, "d", NULL, NULL) /\ Answer(c, "ok")
    <3>1. Moved(c, Idle)
      BY <2>0, <2>1, AnswerStep
    <3> QED
      BY <2>0, <2>1, <3>1, InsertStep
  <2>2. CASE Answer(c, "error") /\ UNCHANGED tableVars
    BY <2>0, <2>2, AnswerQuiet
  <2> QED
    BY <1>3, <2>1, <2>2 DEF Mkdir
<1>4. ASSUME NEW n \in Names, Rm(c, n) PROVE BaseInv'
  <2> DEFINE rows == {r \in Named(c, n, "f") : r.file_count = 1}
  <2>1. CASE Select(c, Op("rm_rows", n, NULL, NULL, rows, NULL))
    <3>1. rows \in SUBSET vfs /\ "rm_rows" \in Reading /\ "rm_rows" \notin Uploading
      BY DEF Named, Reading, Uploading
    <3>2. StepOf(c, "rm_rows", n, NULL) /\ UNCHANGED <<tableVars, client>>
      BY <1>4 DEF Rm, StepOf, MainSteps
    <3> QED
      BY <2>1, <3>1, <3>2, SelectQuiet
  <2> QED
    BY <1>4, <1>a, <2>1, AnswerQuiet DEF Rm
<1>5. ASSUME NEW n \in Names, Rmdir(c, n) PROVE BaseInv'
  <2> DEFINE rows == {r \in Named(c, n, "d") : r.file_count = 1}
  <2>1. CASE Select(c, Op("rmdir_rows", n, NULL, NULL, rows, NULL))
    <3>1. rows \in SUBSET vfs /\ "rmdir_rows" \in Reading /\ "rmdir_rows" \notin Uploading
      BY DEF Named, Reading, Uploading
    <3>2. StepOf(c, "rmdir_rows", n, NULL) /\ UNCHANGED <<tableVars, client>>
      BY <1>5 DEF Rmdir, StepOf, MainSteps
    <3> QED
      BY <2>1, <3>1, <3>2, SelectQuiet
  <2> QED
    BY <1>5, <1>a, <2>1, AnswerQuiet DEF Rmdir
<1>6. CASE RmResult(c)
  <2>0. /\ op[c].at \in Reading /\ op[c].name \in Names
        /\ StepOf(c, "rm_update", op[c].name, NULL)
        /\ "rm_update" \in Between /\ "rm_update" \notin Uploading
        /\ UNCHANGED <<tableVars, client>>
    BY <1>6, <1>a DEF RmResult, Reading, Between, MainSteps, StepOf, Uploading
  <2>1. CASE FreeAndAnswer(c, "error")
    BY <2>0, <2>1, AnswerQuiet DEF FreeAndAnswer
  <2>2. CASE Free(c, Op("rm_update", op[c].name, NULL, NULL, {}, NULL))
    BY <2>0, <2>2, FreeQuiet DEF Free
  <2> QED
    BY <1>6, <2>1, <2>2 DEF RmResult
<1>7. CASE RmUpdate(c)
  <2> DEFINE removed == Named(c, op[c].name, "f")
  <2>0. /\ op[c].at \notin Reading /\ UNCHANGED <<auto_inc, client, sql_conn>>
    BY <1>7 DEF RmUpdate, Reading
  <2>1. CASE /\ vfs' = (vfs \ removed) \cup {[r EXCEPT !.file_count = 0] : r \in removed}
             /\ Answer(c, "ok")
    <3>1. Moved(c, Idle)
      BY <2>0, <2>1, AnswerStep
    <3>2. \A r \in vfs' : \E q \in vfs :
             /\ r \in Row
             /\ r.code = q.code /\ r.pre_code = q.pre_code /\ r.file_type = q.file_type
             /\ r.file_md5 = q.file_md5
             /\ IF q \in removed THEN r = [q EXCEPT !.file_count = 0] ELSE r = q
             /\ q.file_type = "d" => r = q
      BY <2>1 DEF Named, BaseInv, RowsInv, Row
    <3>3. RowsInv'
      BY <2>0, <3>2 DEF BaseInv, RowsInv
    <3> QED
      BY <2>0, <3>1, <3>3, RowsStep
  <2>2. CASE Answer(c, "error") /\ UNCHANGED vfs
    BY <2>0, <2>2, AnswerQuiet DEF tableVars
  <2> QED
    BY <1>7, <2>1, <2>2 DEF RmUpdate
<1>8. CASE RmdirResult(c)
  <2>0. /\ op[c].at \in Reading /\ op[c].name \in Names
        /\ StepOf(c, "rmdir_check", op[c].name, NULL)
        /\ "rmdir_check" \in Between /\ "rmdir_check" \notin Uploading
        /\ UNCHANGED <<tableVars, client>>
    BY <1>8, <1>a DEF RmdirResult, Reading, Between, MainSteps, StepOf, Uploading
  <2>1. CASE FreeAndAnswer(c, "no such directory")
    BY <2>0, <2>1, AnswerQuiet DEF FreeAndAnswer
  <2>2. CASE /\ op[c].rows # {}
             /\ Free(c, Op("rmdir_check", op[c].name, NULL, First(op[c].rows).code, {}, NULL))
    <3>1. First(op[c].rows).code \in Codes \cup {NULL}
      BY <1>a, <2>2, FirstRow DEF OpType, Row
    <3> QED
      BY <2>0, <2>2, <3>1, FreeQuiet DEF Free
  <2> QED
    BY <1>8, <2>1, <2>2 DEF RmdirResult
<1>9. CASE RmdirCheck(c)
  <2> DEFINE rows == {r \in vfs : r.owner_uid = Uid(c) /\ r.pre_code = op[c].dir}
  <2>0. /\ op[c].at \notin Reading /\ op[c].name \in Names /\ op[c].dir \in Codes \cup {NULL}
        /\ StepOf(c, "rmdir_content", op[c].name, NULL)
        /\ "rmdir_content" \in Reading /\ "rmdir_content" \notin Uploading
        /\ UNCHANGED <<tableVars, client>> /\ rows \in SUBSET vfs
    BY <1>9, <1>a DEF RmdirCheck, Reading, MainSteps, StepOf, Uploading, OpType
  <2>1. CASE Select(c, Op("rmdir_content", op[c].name, NULL, op[c].dir, rows, NULL))
    BY <2>0, <2>1, SelectQuiet
  <2>2. CASE Answer(c, "error") /\ UNCHANGED sql_conn
    BY <2>0, <2>2, AnswerQuiet
  <2> QED
    BY <1>9, <2>1, <2>2 DEF RmdirCheck
<1>10. CASE RmdirContent(c)
  <2>0. /\ op[c].at \in Reading /\ op[c].name \in Names /\ op[c].dir \in Codes \cup {NULL}
        /\ StepOf(c, "rmdir_delete", op[c].name, NULL)
        /\ "rmdir_delete" \in Between /\ "rmdir_delete" \notin Uploading
        /\ UNCHANGED <<tableVars, client>>
    BY <1>10, <1>a DEF RmdirContent, Reading, Between, MainSteps, StepOf, Uploading, OpType
  <2>1. CASE FreeAndAnswer(c, "not empty")
    BY <2>0, <2>1, AnswerQuiet DEF FreeAndAnswer
  <2>2. CASE Free(c, Op("rmdir_delete", op[c].name, NULL, op[c].dir, {}, NULL))
    BY <2>0, <2>2, FreeQuiet DEF Free
  <2> QED
    BY <1>10, <2>1, <2>2 DEF RmdirContent
<1>11. CASE RmdirDelete(c)
  <2>0. /\ op[c].at \notin Reading /\ UNCHANGED <<auto_inc, client, sql_conn>>
    BY <1>11 DEF RmdirDelete, Reading
  <2>1. CASE vfs' = vfs \ Named(c, op[c].name, "d") /\ Answer(c, "ok")
    <3>1. Moved(c, Idle)
      BY <2>0, <2>1, AnswerStep
    <3>2. RowsInv'
      BY <2>0, <2>1 DEF BaseInv, RowsInv
    <3> QED
      BY <2>0, <3>1, <3>2, RowsStep
  <2>2. CASE Answer(c, "error") /\ UNCHANGED vfs
    BY <2>0, <2>2, AnswerQuiet DEF tableVars
  <2> QED
    BY <1>11, <2>1, <2>2 DEF RmdirDelete
<1> QED
  BY <1>1, <1>2, <1>3, <1>4, <1>5, <1>6, <1>7, <1>8, <1>9, <1>10, <1>11

LEMMA BaseTransfer == ASSUME BaseInv, NEW c \in Conns,
                             \/ Token(c)
                             \/ \E n \in Names : Gets(c, n) \/ \E m \in Md5s : Puts(c, n, m)
                             \/ GetsResult(c) \/ PutsResult(c) \/ PutsInsert(c)
                             \/ QuickPuts(c) \/ QuickResult(c) \/ QuickInsert(c)
                      PROVE  BaseInv'
<1> USE VfsAssumption
<1>a. /\ op[c] \in OpType
      /\ Start(c) => op[c].at = "idle" /\ op[c].at \notin Reading
      /\ op[c].at \in ChildSteps => c \in Child /\ op[c].name \in Names
      /\ op[c].at \in Uploading => op[c].md5 \in Md5s /\ c \in Uploaders
  BY StepAt DEF Reading
<1>1. CASE Token(c)
  <2>1. /\ c \in Child /\ MainOf(c) \in Conns
        /\ client' = [client EXCEPT ![c] = client[MainOf(c)]]
        /\ UNCHANGED <<vfs, auto_inc, op, sql_conn>> /\ live' \subseteq Conns
    BY <1>1 DEF Token, Child, Main, Conns, MainOf, tableVars, BaseInv, ConnType
  <2>2. ConnType' /\ ResultInv' /\ RowsInv'
    BY <2>1 DEF BaseInv, ConnType, ResultInv, RowsInv
  <2>3. ClientInv'
    BY <2>1 DEF BaseInv, ClientInv
  <2>4. Uploaders' = Uploaders
    BY <2>1 DEF Uploaders
  <2>5. RoomInv'
    BY <2>1, <2>4 DEF BaseInv, RoomInv
  <2> QED
    BY <2>2, <2>3, <2>5 DEF BaseInv
<1>2. ASSUME NEW n \in Names, Gets(c, n) PROVE BaseInv'
  <2>1. CASE Select(c, Op("gets_rows", n, NULL, NULL, Named(c, n, "f"), NULL))
    <3>1. Named(c, n, "f") \in SUBSET vfs /\ "gets_rows" \in Reading /\ "gets_rows" \notin Uploading
      BY DEF Named, Reading, Uploading
    <3>2. StepOf(c, "gets_rows", n, NULL) /\ UNCHANGED <<tableVars, client>>
      BY <1>2 DEF Gets, StepOf, ChildSteps, Uploading
    <3> QED
      BY <2>1, <3>1, <3>2, SelectQuiet
  <2> QED
    BY <1>2, <1>a, <2>1, AnswerQuiet DEF Gets
<1>3. CASE GetsResult(c)
  <2>1. op[c].at \in Reading
    BY <1>3 DEF GetsResult, Reading
  <2> QED
    BY <1>3, <2>1, AnswerQuiet DEF GetsResult, FreeAndAnswer
<1>4. ASSUME NEW n \in Names, NEW m \in Md5s, c \in Child, PutsUpload(c, n, m),
             \/ op[c].at \notin Reading /\ UNCHANGED sql_conn
             \/ op[c].at \in Reading /\ sql_conn' = NULL,
             UNCHANGED <<tableVars, client>>, c \in Uploaders \/ RoomForRow
      PROVE  BaseInv'
  <2>1. PICK pl \in Places : op' = [op EXCEPT ![c] = Op("puts_insert", n, m, NULL, {}, pl)]
    BY <1>4 DEF PutsUpload
  <2> DEFINE o == Op("puts_insert", n, m, NULL, {}, pl)
  <2>2. StepOf(c, "puts_insert", n, m)
    BY <1>4 DEF StepOf, ChildSteps, Uploading
  <2>3. o \in OpType /\ OpOf(c, o)
    BY <2>2, OpMade
  <2>4. o.at \notin Reading /\ o.rows \subseteq vfs
    BY DEF Op, Reading
  <2>5. live' \subseteq Conns
    BY <1>4 DEF PutsUpload, BaseInv, ConnType
  <2> HIDE DEF o
  <2>6. op' = [op EXCEPT ![c] = o]
    BY <2>1 DEF o
  <2>7. Moved(c, o)
    BY <1>4, <2>3, <2>4, <2>5, <2>6, FreeStep, KeepStep
  <2> QED
    BY <1>4, <2>3, <2>4, <2>7, QuietStep
<1>5. ASSUME NEW n \in Names, NEW m \in Md5s, Puts(c, n, m) PROVE BaseInv'
  <2>0. RoomForRow /\ c \in Child /\ UNCHANGED <<tableVars, client>> /\ op[c].at \notin Reading
    BY <1>5, <1>a DEF Puts
  <2>1. CASE Select(c, Op("exist_rows", n, m, NULL, WithMd5(m), NULL))
    <3>1. WithMd5(m) \in SUBSET vfs /\ "exist_rows" \in Reading
      BY DEF WithMd5, Reading
    <3>2. StepOf(c, "exist_rows", n, m)
      BY <2>0 DEF StepOf, ChildSteps, Uploading
    <3> QED
      BY <2>0, <2>1, <3>1, <3>2, SelectQuiet
  <2>2. CASE PutsUpload(c, n, m) /\ UNCHANGED sql_conn
    BY <1>4, <2>0, <2>2
  <2> QED
    BY <1>5, <2>1, <2>2 DEF Puts
<1>6. CASE PutsResult(c)
  <2>0. /\ op[c].at \in Reading /\ op[c].name \in Names /\ op[c].md5 \in Md5s
        /\ c \in Child /\ c \in Uploaders
        /\ StepOf(c, "quick_select", op[c].name, op[c].md5) /\ "quick_select" \in Between
        /\ UNCHANGED <<tableVars, client>>
    BY <1>6, <1>a DEF PutsResult, Reading, Between, ChildSteps, StepOf, Uploading
  <2>1. CASE PutsUpload(c, op[c].name, op[c].md5) /\ sql_conn' = NULL
    BY <1>4, <2>0, <2>1
  <2>2. CASE Free(c, Op("quick_select", op[c].name, op[c].md5, NULL, {}, NULL))
    BY <2>0, <2>2, FreeQuiet DEF Free
  <2> QED
    BY <1>6, <2>1, <2>2 DEF PutsResult
<1>7. ASSUME op[c].at \in {"puts_insert", "quick_insert"}, NEW what, Answer(c, what),
             \/ Insert(c, op[c].name, "f", op[c].md5, op[c].place)
             \/ UNCHANGED tableVars,
             UNCHANGED <<client, sql_conn>>
      PROVE  BaseInv'
  <2>0. /\ op[c].at \notin Reading /\ op[c].name \in Names /\ op[c].md5 \in Md5s
        /\ op[c].place \in Places \cup {NULL} /\ c \in Uploaders
    BY <1>7, <1>a DEF Reading, ChildSteps, Uploading, OpType
  <2>1. Moved(c, Idle)
    BY <1>7, <2>0, AnswerStep
  <2>2. CASE Insert(c, op[c].name, "f", op[c].md5, op[c].place)
    BY <1>7, <2>0, <2>1, <2>2, InsertStep
  <2>3. CASE UNCHANGED tableVars
    BY <1>7, <2>0, <2>3, AnswerQuiet
  <2> QED
    BY <1>7, <2>2, <2>3
<1>8. CASE PutsInsert(c)
  BY <1>7, <1>8 DEF PutsInsert
<1>9. CASE QuickInsert(c)
  BY <1>7, <1>9 DEF QuickInsert
<1>10. CASE QuickPuts(c)
  <2>0. /\ op[c].at \notin Reading /\ op[c].name \in Names /\ op[c].md5 \in Md5s /\ c \in Uploaders
        /\ StepOf(c, "quick_rows", op[c].name, op[c].md5) /\ "quick_rows" \in Reading
        /\ UNCHANGED <<tableVars, client>> /\ WithMd5(op[c].md5) \in SUBSET vfs
    BY <1>10, <1>a DEF QuickPuts, Reading, ChildSteps, StepOf, Uploading, WithMd5
  <2>1. CASE Select(c, Op("quick_rows", op[c].name, op[c].md5, NULL, WithMd5(op[c].md5), NULL))
    BY <2>0, <2>1, SelectQuiet
  <2>2. CASE Answer(c, "quick") /\ UNCHANGED sql_conn
    BY <2>0, <2>2, AnswerQuiet
  <2> QED
    BY <1>10, <2>1, <2>2 DEF QuickPuts
<1>11. CASE QuickResult(c)
  <2>0. /\ op[c].at \in Reading /\ op[c].name \in Names /\ op[c].md5 \in Md5s /\ c \in Uploaders
        /\ StepOf(c, "quick_insert", op[c].name, op[c].md5) /\ "quick_insert" \in Between
        /\ UNCHANGED <<tableVars, client>>
    BY <1>11, <1>a DEF QuickResult, Reading, Between, ChildSteps, StepOf, Uploading
  <2>1. CASE FreeAndAnswer(c, "quick")
    BY <2>0, <2>1, AnswerQuiet DEF FreeAndAnswer
  <2>2. CASE /\ op[c].rows # {}
             /\ Free(c, Op("quick_insert", op[c].name, op[c].md5, NULL, {}, First(op[c].rows).place))
    <3>1. First(op[c].rows).place \in Places \cup {NULL}
      BY <1>a, <2>2, FirstRow DEF OpType, Row
    <3> QED
      BY <2>0, <2>2, <3>1, FreeQuiet DEF Free
  <2> QED
    BY <1>11, <2>1, <2>2 DEF QuickResult
<1> QED
  BY <1>1, <1>2, <1>3, <1>5, <1>6, <1>8, <1>9, <1>10, <1>11

\* The bookkeeping every other proof about the commands starts from.
LEMMA BaseNext == BaseInv /\ [Next]_vars => BaseInv'
<1> SUFFICES ASSUME BaseInv, [Next]_vars PROVE BaseInv'
  OBVIOUS
<1>1. CASE UNCHANGED vars
  <2>1. Uploaders' = Uploaders
    BY <1>1 DEF vars, Uploaders
  <2> QED
    BY <1>1, <2>1 DEF vars, BaseInv, ConnType, RowsInv, ClientInv, RoomInv, ResultInv
<1>2. CASE Next
  <2>1. PICK c \in Conns : Command(c) \/ Continue(c)
    BY <1>2 DEF Next
  <2> QED
    BY <2>1, BaseCd, BaseDirs, BaseTransfer DEF Command, Continue
<1> QED
  BY <1>1, <1>2

LEMMA BaseHolds == Spec => []BaseInv
BY BaseInit, BaseNext, PTL DEF Spec

\* Whoever has the connection is going to read and free its result, on all paths and
\* with any number of workers: no command leaves it out of sync behind.
THEOREM ResultsFreed == Spec => []ResultFreed
<1>1. BaseInv => ResultFreed
  BY DEF BaseInv, ResultInv, ConnType, ResultFreed
<1> QED
  BY <1>1, BaseHolds, PTL

\* The table and the sessions keep their types, and no bound but MaxRows is needed for it.
THEOREM TypeCorrect == Spec => []TypeOK
<1>1. BaseInv => TypeOK
  BY DEF BaseInv, ConnType, RowsInv, ClientInv, ClientType, OpType, TypeOK
<1> QED
  BY <1>1, BaseHolds, PTL
-----------------------------------------------------------------------------
(* Contents *)

\* Steps that carry the place of a content.
Carrying == {"puts_insert", "quick_insert", "quick_rows"}

LEMMA PlacedMove ==
    ASSUME BaseInv, PlacedInv, NEW c \in Conns, NEW o, op' = [op EXCEPT ![c] = o],
           placed \subseteq placed',
           o.at \in {"puts_insert", "quick_insert"} => <<o.md5, o.place>> \in placed',
           o.at = "quick_rows" => \A r \in o.rows : <<o.md5, r.place>> \in placed',
           \A r \in vfs' : r.file_type = "f" => <<r.file_md5, r.place>> \in placed'
    PROVE  PlacedInv'
<1>1. \A d \in Conns : op'[d] = IF d = c THEN o ELSE op[d]
  BY DEF BaseInv, ConnType
<1>2. ContentPlaced'
  BY DEF ContentPlaced
<1> QED
  BY <1>1, <1>2 DEF PlacedInv

\* Commands that neither upload nor change the table.
Plain(c) == \/ CdAtRoot(c) \/ CdToRoot(c) \/ CdUp(c) \/ CdResult(c)
            \/ \E n \in Names : CdDown(c, n) \/ Rm(c, n) \/ Rmdir(c, n) \/ Gets(c, n)
            \/ Ls(c) \/ LsResult(c) \/ RmResult(c) \/ GetsResult(c)
            \/ RmdirResult(c) \/ RmdirCheck(c) \/ RmdirContent(c)

LEMMA PlainStep ==
    ASSUME NEW c \in Conns, Plain(c)
    PROVE  /\ \E o : op' = [op EXCEPT ![c] = o] /\ o.at \notin Carrying
           /\ UNCHANGED <<vfs, auto_inc, placed>>
<1> USE IdleOp DEF Carrying, Select, Answer, Free, FreeAndAnswer, Op, tableVars
<1>1. CASE CdAtRoot(c)
  BY <1>1 DEF CdAtRoot
<1>2. CASE CdToRoot(c)
  BY <1>2 DEF CdToRoot
<1>3. CASE CdUp(c)
  BY <1>3 DEF CdUp
<1>4. CASE CdResult(c)
  BY <1>4 DEF CdResult
<1>5. ASSUME NEW n \in Names, CdDown(c, n)
      PROVE  /\ \E o : op' = [op EXCEPT ![c] = o] /\ o.at \notin Carrying
             /\ UNCHANGED <<vfs, auto_inc, placed>>
  BY <1>5 DEF CdDown
<1>6. ASSUME NEW n \in Names, Rm(c, n) \/ Rmdir(c, n) \/ Gets(c, n)
      PROVE  /\ \E o : op' = [op EXCEPT ![c] = o] /\ o.at \notin Carrying
             /\ UNCHANGED <<vfs, auto_inc, placed>>
  BY <1>6 DEF Rm, Rmdir, Gets
<1>7. CASE Ls(c) \/ LsResult(c) \/ GetsResult(c)
  BY <1>7 DEF Ls, LsResult, GetsResult
<1>8. CASE RmResult(c)
  BY <1>8 DEF RmResult
<1>9. CASE RmdirResult(c)
  BY <1>9 DEF RmdirResult
<1>10. CASE RmdirCheck(c) \/ RmdirContent(c)
  BY <1>10 DEF RmdirCheck, RmdirContent
<1> QED
  BY <1>1, <1>2, <1>3, <1>4, <1>5, <1>6, <1>7, <1>8, <1>9, <1>10 DEF Plain

\* Rows come and go by INSERT, by the mark of rm and by the DELETE of rmdir.
LEMMA PlacedNext == BaseInv /\ PlacedInv /\ [Next]_vars => PlacedInv'
<1> SUFFICES ASSUME BaseInv, PlacedInv, [Next]_vars PROVE PlacedInv'
  OBVIOUS
<1>i. Idle.at = "idle" /\ Idle.at \notin Carrying
  BY IdleOp DEF Carrying
<1>f. \A r \in vfs : r.file_type = "f" => <<r.file_md5, r.place>> \in placed
  BY DEF PlacedInv, ContentPlaced
<1>1. CASE UNCHANGED vars
  BY <1>1 DEF vars, PlacedInv, ContentPlaced
<1>2. ASSUME NEW c \in Conns, Command(c) \/ Continue(c) PROVE PlacedInv'
  <2>a. /\ op[c] \in OpType
        /\ op[c].at \in Uploading => op[c].md5 \in Md5s
    BY StepAt
  <2>1. CASE Plain(c)
    <3>1. PICK o : op' = [op EXCEPT ![c] = o] /\ o.at \notin Carrying
      BY <2>1, PlainStep
    <3>2. UNCHANGED <<vfs, placed>>
      BY <2>1, PlainStep
    <3> QED
      BY <1>f, <3>1, <3>2, PlacedMove DEF Carrying
  <2>2. CASE Token(c)
    BY <2>2 DEF Token, tableVars, PlacedInv, ContentPlaced
  <2>3. ASSUME NEW n \in Names, Mkdir(c, n) PROVE PlacedInv'
    <3>1. op' = [op EXCEPT ![c] = Idle] /\ placed' = placed
      BY <2>3 DEF Mkdir, Answer
    <3>2. \A r \in vfs' : r \in vfs \/ r.file_type = "d"
      BY <2>3 DEF Mkdir, Insert, tableVars
    <3> QED
      BY <1>f, <1>i, <3>1, <3>2, PlacedMove DEF Carrying
  <2>4. CASE RmUpdate(c)
    <3>1. op' = [op EXCEPT ![c] = Idle] /\ placed' = placed
      BY <2>4 DEF RmUpdate, Answer
    <3>2. vfs \subseteq Row
      BY DEF BaseInv, RowsInv
    <3>3. \A r \in vfs' : \E q \in vfs : /\ r.file_type = q.file_type /\ r.place = q.place
                                         /\ r.file_md5 = q.file_md5
      BY <2>4, <3>2 DEF RmUpdate, Named, Row
    <3> QED
      BY <1>f, <1>i, <3>1, <3>3, PlacedMove DEF Carrying
  <2>5. CASE RmdirDelete(c)
    <3>1. op' = [op EXCEPT ![c] = Idle] /\ placed' = placed /\ vfs' \subseteq vfs
      BY <2>5 DEF RmdirDelete, Answer
    <3> QED
      BY <1>f, <1>i, <3>1, PlacedMove DEF Carrying
  <2>6. ASSUME NEW n, NEW m, PutsUpload(c, n, m), UNCHANGED vfs PROVE PlacedInv'
    <3>1. PICK pl \in Places : /\ placed' = placed \cup {<<m, pl>>}
                               /\ op' = [op EXCEPT ![c] = Op("puts_insert", n, m, NULL, {}, pl)]
      BY <2>6 DEF PutsUpload
    <3> DEFINE o == Op("puts_insert", n, m, NULL, {}, pl)
    <3>2. o.at = "puts_insert" /\ o.md5 = m /\ o.place = pl
      BY DEF Op
    <3> HIDE DEF o
    <3>3. op' = [op EXCEPT ![c] = o]
      BY <3>1 DEF o
    <3> QED
      BY <1>f, <2>6, <3>1, <3>2, <3>3, PlacedMove
  <2>7. ASSUME NEW n \in Names, NEW m \in Md5s, Puts(c, n, m) PROVE PlacedInv'
    <3>1. CASE Select(c, Op("exist_rows", n, m, NULL, WithMd5(m), NULL)) /\ UNCHANGED placed
      <4> DEFINE o == Op("exist_rows", n, m, NULL, WithMd5(m), NULL)
      <4>1. op' = [op EXCEPT ![c] = o] /\ o.at \notin Carrying /\ UNCHANGED <<vfs, placed>>
        BY <2>7, <3>1 DEF Puts, Select, Op, Carrying, tableVars
      <4> HIDE DEF o
      <4> QED
        BY <1>f, <4>1, PlacedMove DEF Carrying
    <3> QED
      BY <2>6, <2>7, <3>1 DEF Puts, tableVars
  <2>8. CASE PutsResult(c)
    <3>1. CASE Free(c, Op("quick_select", op[c].name, op[c].md5, NULL, {}, NULL)) /\ UNCHANGED placed
      <4> DEFINE o == Op("quick_select", op[c].name, op[c].md5, NULL, {}, NULL)
      <4>1. op' = [op EXCEPT ![c] = o] /\ o.at \notin Carrying /\ UNCHANGED <<vfs, placed>>
        BY <2>8, <3>1 DEF PutsResult, Free, Op, Carrying, tableVars
      <4> HIDE DEF o
      <4> QED
        BY <1>f, <4>1, PlacedMove DEF Carrying
    <3> QED
      BY <2>6, <2>8, <3>1 DEF PutsResult, tableVars
  <2>9. CASE PutsInsert(c) \/ QuickInsert(c)
    <3>1. /\ op' = [op EXCEPT ![c] = Idle] /\ placed' = placed
          /\ <<op[c].md5, op[c].place>> \in placed
      BY <2>9 DEF PutsInsert, QuickInsert, Answer, PlacedInv
    <3>2. \A r \in vfs' : r \in vfs \/ (r.file_md5 = op[c].md5 /\ r.place = op[c].place)
      BY <2>9 DEF PutsInsert, QuickInsert, Insert, tableVars
    <3> QED
      BY <1>f, <1>i, <3>1, <3>2, PlacedMove DEF Carrying
  <2>10. CASE QuickPuts(c)
    <3> DEFINE o == Op("quick_rows", op[c].name, op[c].md5, NULL, WithMd5(op[c].md5), NULL)
    <3>0. UNCHANGED <<vfs, placed>>
      BY <2>10 DEF QuickPuts, tableVars
    <3>1. CASE op' = [op EXCEPT ![c] = Idle]
      BY <1>f, <1>i, <3>0, <3>1, PlacedMove DEF Carrying
    <3>2. CASE op' = [op EXCEPT ![c] = o]
      <4>1. op[c].md5 # NULL
        BY <2>10, <2>a, VfsAssumption DEF QuickPuts, Uploading
      <4>2. \A r \in WithMd5(op[c].md5) : r \in vfs /\ r.file_md5 = op[c].md5 /\ r.file_type = "f"
        BY <4>1 DEF WithMd5, BaseInv, RowsInv, Row
      <4>3. o.at = "quick_rows" /\ o.rows = WithMd5(op[c].md5) /\ o.md5 = op[c].md5
        BY DEF Op
      <4> HIDE DEF o
      <4> QED
        BY <1>f, <3>0, <3>2, <4>2, <4>3, PlacedMove
    <3> QED
      BY <2>10, <3>1, <3>2 DEF QuickPuts, Select, Answer
  <2>11. CASE QuickResult(c)
    <3> DEFINE o == Op("quick_insert", op[c].name, op[c].md5, NULL, {}, First(op[c].rows).place)
    <3>0. UNCHANGED <<vfs, placed>> /\ op[c].at = "quick_rows"
      BY <2>11 DEF QuickResult, tableVars
    <3>1. CASE op' = [op EXCEPT ![c] = Idle]
      BY <1>f, <1>i, <3>0, <3>1, PlacedMove DEF Carrying
    <3>2. CASE op' = [op EXCEPT ![c] = o] /\ op[c].rows # {}
      <4>1. First(op[c].rows) \in op[c].rows
        BY <2>a, <3>2, FirstRow DEF OpType
      <4>2. <<op[c].md5, First(op[c].rows).place>> \in placed
        BY <3>0, <4>1 DEF PlacedInv
      <4>3. o.at = "quick_insert" /\ o.place = First(op[c].rows).place /\ o.md5 = op[c].md5
        BY DEF Op
      <4> HIDE DEF o
      <4> QED
        BY <1>f, <3>0, <3>2, <4>2, <4>3, PlacedMove
    <3> QED
      BY <2>11, <3>1, <3>2 DEF QuickResult, Free, FreeAndAnswer, Answer
  <2> QED
    BY <1>2, <2>1, <2>2, <2>3, <2>4, <2>5, <2>7, <2>8, <2>9, <2>10, <2>11
    DEF Command, Continue, Plain
<1> QED
  BY <1>1, <1>2 DEF Next

\* Every file row names servers that were told to take this very content, whoever's rows
\* the quick uploads have copied and whatever failed on a connection out of sync.
THEOREM ContentsPlaced == Spec => []ContentPlaced
<1>1. Init => PlacedInv
  BY IdleOp DEF Init, PlacedInv, ContentPlaced
<1>2. PlacedInv => ContentPlaced
  BY DEF PlacedInv
<1> QED
  BY <1>1, <1>2, BaseHolds, PlacedNext, PTL DEF Spec

\* No step loses or redirects the row of a file.
THEOREM ContentsKept == Spec => ContentKept
<1> DEFINE A == \A r \in vfs : r.file_type = "f" =>
                  \E q \in vfs' : /\ q.code = r.code /\ q.file_md5 = r.file_md5
                                  /\ q.place = r.place /\ q.file_type = "f"
<1>1. BaseInv /\ [Next]_vars => [A]_vars
  <2> SUFFICES ASSUME BaseInv, Next, NEW r \in vfs, r.file_type = "f"
               PROVE  \E q \in vfs' : /\ q.code = r.code /\ q.file_md5 = r.file_md5
                                      /\ q.place = r.place /\ q.file_type = "f"
    OBVIOUS
  <2>1. PICK c \in Conns : Command(c) \/ Continue(c)
    BY DEF Next
  <2>2. CASE RmUpdate(c)
    <3>1. vfs \subseteq Row
      BY DEF BaseInv, RowsInv
    <3>2. CASE r \in vfs'
      BY <3>2
    <3>3. CASE r \notin vfs'
      <4>1. [r EXCEPT !.file_count = 0] \in vfs'
        BY <2>2, <3>3 DEF RmUpdate
      <4> QED
        BY <3>1, <4>1 DEF Row
    <3> QED
      BY <3>2, <3>3
  <2>3. CASE RmdirDelete(c)
    BY <2>3 DEF RmdirDelete, Named
  <2>4. CASE Plain(c)
    BY <2>4, PlainStep
  <2>5. CASE \/ Token(c) \/ PutsResult(c) \/ PutsInsert(c) \/ QuickPuts(c)
             \/ QuickResult(c) \/ QuickInsert(c)
             \/ \E n \in Names : Mkdir(c, n) \/ \E m \in Md5s : Puts(c, n, m)
    <3>1. vfs \subseteq vfs'
      BY <2>5 DEF Token, PutsResult, PutsInsert, QuickPuts, QuickResult, QuickInsert, Mkdir,
                  Puts, Insert, tableVars
    <3> QED
      BY <3>1
  <2> QED
    BY <2>1, <2>2, <2>3, <2>4, <2>5 DEF Command, Continue, Plain
<1> QED
  BY <1>1, BaseHolds, PTL DEF Spec, ContentKept
-----------------------------------------------------------------------------
(* Directories *)

\* A directory made later does not come before q.
LEMMA LeadAdd ==
    ASSUME NEW D, NEW q, Lead(D, q), NEW r, q.code <= r.code
    PROVE  Lead(D \cup {r}, q)
BY DEF Lead, Twins

\* Directories that go leave q where it is.
LEMMA LeadKeep ==
    ASSUME NEW D, NEW q, Lead(D, q), NEW E \in SUBSET D, q \in E
    PROVE  Lead(E, q)
BY DEF Lead, Twins

\* What a session knows depends on its own directories only.
LEMMA SessionFrame ==
    ASSUME NEW d \in Main, HereInv(d), CmdInv(d), client'[d] = client[d], op'[d] = op[d],
           Dirs(Uid(d))' = Dirs(Uid(d))
    PROVE  HereInv(d)' /\ CmdInv(d)'
<1>1. Here(d)' = Here(d)
  BY DEF Here
<1>2. HereInv(d)'
  BY DEF HereInv
<1>3. CmdInv(d)'
  BY <1>1 DEF CmdInv
<1> QED
  BY <1>2, <1>3

\* A connection is of its session's user, and has a session of its own.
LEMMA ConnUsers ==
    ASSUME OwnUsers
    PROVE  /\ \A c \in Conns : Uid(c) \in Users
           /\ \A c, d \in Main : Uid(c) = Uid(d) => c = d
BY DEF OwnUsers, Users, Uid, Conns, Main, Child

\* A step of c that leaves the directories alone.
LEMMA TreeQuiet ==
    ASSUME BaseInv, TreeInv, NEW c \in Conns, NEW v, NEW o,
           client' = [client EXCEPT ![c] = v], op' = [op EXCEPT ![c] = o],
           \A u \in Users : Dirs(u)' = Dirs(u),
           \A d \in Main : Uid(d) \in Users,
           c \in Main => HereInv(c)' /\ CmdInv(c)'
    PROVE  TreeInv'
<1>1. \A u \in Users : Tree(Dirs(u))'
  BY DEF TreeInv, Tree
<1>2. ASSUME NEW d \in Main PROVE HereInv(d)' /\ CmdInv(d)'
  <2>1. CASE d = c
    BY <2>1
  <2>2. CASE d # c
    <3>1. client'[d] = client[d] /\ op'[d] = op[d] /\ Dirs(Uid(d))' = Dirs(Uid(d))
      BY <2>2 DEF BaseInv, ConnType, ClientInv, Conns
    <3>2. HereInv(d) /\ CmdInv(d)
      BY DEF TreeInv
    <3> QED
      BY <3>1, <3>2, SessionFrame
  <2> QED
    BY <2>1, <2>2
<1> QED
  BY <1>1, <1>2 DEF TreeInv

\* Back at the prompt nothing is left to know.
LEMMA CmdIdle ==
    ASSUME NEW c \in Conns, BaseInv, op' = [op EXCEPT ![c] = Idle]
    PROVE  CmdInv(c)'
<1>1. op'[c].at = "idle"
  BY IdleOp DEF BaseInv, ConnType
<1> QED
  BY <1>1 DEF CmdInv

\* A SELECT of directories by name.
LEMMA NamedDirs ==
    ASSUME BaseInv, NEW c \in Conns, NEW n
    PROVE  /\ Named(c, n, "d") = Twins(Dirs(Uid(c)), Here(c), n)
           /\ {r \in Named(c, n, "d") : r.file_count = 1} = Twins(Dirs(Uid(c)), Here(c), n)
BY DEF Named, Twins, Dirs, BaseInv, RowsInv

\* The first of a name's directories is the one that a lookup finds.
LEMMA FirstLead ==
    ASSUME BaseInv, NEW c \in Conns, NEW n, Twins(Dirs(Uid(c)), Here(c), n) # {}
    PROVE  LET q == First(Twins(Dirs(Uid(c)), Here(c), n)) IN
           q \in Twins(Dirs(Uid(c)), Here(c), n) /\ Lead(Dirs(Uid(c)), q)
<1> DEFINE T == Twins(Dirs(Uid(c)), Here(c), n)
<1>1. T \in SUBSET Row
  BY DEF Twins, Dirs, BaseInv, RowsInv
<1>2. First(T) \in T /\ \A q \in T : First(T).code <= q.code
  BY <1>1, FirstRow
<1> QED
  BY <1>2 DEF Lead, Twins

\* Commands that only look, and those on files.
LEMMA TreeFiles ==
    ASSUME BaseInv, TreeInv, OwnUsers, NEW c \in Conns,
           \/ Ls(c) \/ LsResult(c) \/ RmResult(c) \/ RmUpdate(c) \/ CdAtRoot(c)
           \/ \E n \in Names : Rm(c, n) \/ Gets(c, n) \/ \E m \in Md5s : Puts(c, n, m)
           \/ GetsResult(c) \/ PutsResult(c) \/ PutsInsert(c)
           \/ QuickPuts(c) \/ QuickResult(c) \/ QuickInsert(c) \/ Token(c)
    PROVE  TreeInv'
<1>a. \A u \in Users : Dirs(u)' = Dirs(u)
  <2>1. CASE RmUpdate(c)
    <3>1. vfs \subseteq Row
      BY DEF BaseInv, RowsInv
    <3>2. CASE UNCHANGED vfs
      BY <3>2 DEF Dirs
    <3>3. CASE vfs' = (vfs \ Named(c, op[c].name, "f"))
                        \cup {[r EXCEPT !.file_count = 0] : r \in Named(c, op[c].name, "f")}
      <4>1. \A r \in vfs' : r.file_type = "d" => r \in vfs
        BY <3>1, <3>3 DEF Named, Row
      <4>2. \A r \in vfs : r.file_type = "d" => r \in vfs'
        BY <3>3 DEF Named
      <4> QED
        BY <4>1, <4>2 DEF Dirs
    <3> QED
      BY <2>1, <3>2, <3>3 DEF RmUpdate
  <2>2. CASE ~RmUpdate(c)
    <3>1. CASE PutsInsert(c) \/ QuickInsert(c)
      <4>1. /\ \A r \in vfs' : r \in vfs \/ r.file_type = "f"
            /\ vfs \subseteq vfs'
        BY <3>1 DEF PutsInsert, QuickInsert, Insert, tableVars
      <4> QED
        BY <4>1 DEF Dirs
    <3>2. CASE ~(PutsInsert(c) \/ QuickInsert(c))
      <4>1. vfs' = vfs
        BY <2>2, <3>2 DEF Ls, LsResult, RmResult, CdAtRoot, Rm, Gets, Puts, GetsResult,
             PutsResult, QuickPuts, QuickResult, Token, tableVars
      <4> QED
        BY <4>1 DEF Dirs
    <3> QED
      BY <3>1, <3>2
  <2> QED
    BY <2>1, <2>2
<1>b. /\ \A d \in Main : Uid(d) \in Users
      /\ client \in [Conns -> ClientType]
      /\ Uid(c) \in Users
      /\ c \in Main => HereInv(c)
  BY ConnUsers DEF Conns, BaseInv, ClientInv, TreeInv
<1>1. CASE Token(c)
  <2>1. /\ client' = [client EXCEPT ![c] = client[MainOf(c)]] /\ op' = op /\ c \in Child
        /\ op' = [op EXCEPT ![c] = op[c]]
    BY <1>1 DEF Token, BaseInv, ConnType
  <2> QED
    BY <1>a, <1>b, <2>1, ConnsFinite, TreeQuiet
<1>2. CASE ~Token(c)
  <2>1. client' = client /\ client' = [client EXCEPT ![c] = client[c]]
    BY <1>b, <1>2 DEF Ls, LsResult, RmResult, RmUpdate, CdAtRoot, Rm, Gets, Puts, GetsResult,
         PutsResult, PutsInsert, QuickPuts, QuickResult, QuickInsert
  <2>2. \E o : /\ op' = [op EXCEPT ![c] = o]
               /\ o.at \in {"idle", "ls_rows", "rm_rows", "rm_update"} \cup ChildSteps
    BY <1>2, IdleOp
    DEF Ls, LsResult, RmResult, RmUpdate, CdAtRoot, Rm, Gets, Puts, GetsResult,
        PutsResult, PutsInsert, QuickPuts, QuickResult, QuickInsert, PutsUpload, Select, Free,
        FreeAndAnswer, Answer, Op, ChildSteps, Uploading
  <2>3. PICK o : /\ op' = [op EXCEPT ![c] = o]
                 /\ o.at \in {"idle", "ls_rows", "rm_rows", "rm_update"} \cup ChildSteps
    BY <2>2
  <2>4. op'[c] = o
    BY <2>3 DEF BaseInv, ConnType
  <2>5. CmdInv(c)'
    BY <2>3, <2>4 DEF CmdInv, ChildSteps, Uploading
  <2>6. c \in Main => HereInv(c)'
    BY <1>a, <1>b, <2>1 DEF HereInv
  <2> QED
    BY <1>a, <1>b, <2>1, <2>3, <2>5, <2>6, TreeQuiet
<1> QED
  BY <1>1, <1>2

LEMMA TreeCd ==
    ASSUME BaseInv, TreeInv, OwnUsers, NEW c \in Conns,
           \/ CdToRoot(c) \/ CdUp(c) \/ CdResult(c)
           \/ \E n \in Names : CdDown(c, n)
    PROVE  TreeInv'
<1> DEFINE D == Dirs(Uid(c))
<1>a. /\ c \in Main
      /\ op[c] \in OpType /\ op \in [Conns -> OpType]
      /\ client \in [Conns -> ClientType] /\ client[c] \in ClientType
      /\ HereInv(c) /\ CmdInv(c)
      /\ Uid(c) \in Users /\ Tree(D)
      /\ \A d \in Main : Uid(d) \in Users
  <2>1. c \in Main
    BY StepAt DEF CdToRoot, CdUp, CdResult, CdDown, MainSteps
  <2> QED
    BY <2>1, ConnUsers DEF Conns, BaseInv, ConnType, ClientInv, TreeInv
<1>b. vfs' = vfs /\ Dirs(Uid(c))' = Dirs(Uid(c)) /\ \A u \in Users : Dirs(u)' = Dirs(u)
  BY DEF CdToRoot, CdUp, CdResult, CdDown, tableVars, Dirs
\* The client may change its path and, in the root, pre_code.
<1>c. ASSUME NEW v \in ClientType, client' = [client EXCEPT ![c] = v],
             v.code = client[c].code, v.code # 0 => v.pre_code = client[c].pre_code
      PROVE  HereInv(c)'
  <2>1. client'[c] = v
    BY <1>a, <1>c
  <2> QED
    BY <1>a, <1>b, <1>c, <2>1 DEF HereInv
<1>d. ASSUME NEW v \in ClientType, client' = [client EXCEPT ![c] = v],
             NEW o, op' = [op EXCEPT ![c] = o],
             HereInv(c)', CmdInv(c)'
      PROVE  TreeInv'
  BY <1>a, <1>b, <1>d, TreeQuiet
<1>1. CASE CdToRoot(c)
  <2> DEFINE v == [code |-> 0, pre_code |-> -1, path |-> Up(client[c].path)]
  <2>1. v \in ClientType /\ v.code = 0
    BY <1>a DEF ClientType, Up
  <2>2. client' = [client EXCEPT ![c] = v] /\ op' = [op EXCEPT ![c] = Idle]
    BY <1>1, <1>a DEF CdToRoot, Answer
  <2> HIDE DEF v
  <2>3. HereInv(c)'
    BY <1>a, <2>1, <2>2 DEF HereInv
  <2> QED
    BY <1>d, <2>1, <2>2, <2>3, CmdIdle
<1>2. CASE CdUp(c)
  <2> DEFINE rows == {r \in vfs : /\ r.owner_uid = Uid(c)
                                  /\ r.code = client[c].pre_code
                                  /\ r.file_type = "d"}
             o == Op("cd_rows", NULL, NULL, NULL, rows, NULL)
             v == [client[c] EXCEPT !.path = Up(@)]
  <2>1. CASE op' = [op EXCEPT ![c] = o] /\ UNCHANGED client
    <3>1. client' = [client EXCEPT ![c] = client[c]]
      BY <1>a, <2>1
    <3>2. /\ op'[c].at = "cd_rows" /\ op'[c].name = NULL /\ op'[c].rows = rows
          /\ client'[c] = client[c]
      BY <1>a, <2>1 DEF Op
    <3>3. rows = {r \in Dirs(Uid(c)) : r.code = client[c].pre_code}
      BY DEF Dirs
    <3>4. client[c].code # 0 /\ client[c].pre_code # 0
      BY <1>2 DEF CdUp
    <3>5. CmdInv(c)'
      BY <1>b, <3>2, <3>3, <3>4 DEF CmdInv
    <3> QED
      BY <1>a, <1>c, <1>d, <2>1, <3>1, <3>5
  <2>2. CASE client' = [client EXCEPT ![c].path = Up(@)] /\ op' = [op EXCEPT ![c] = Idle]
    <3>1. /\ v \in ClientType /\ v.code = client[c].code /\ v.pre_code = client[c].pre_code
          /\ client' = [client EXCEPT ![c] = v]
      <4>1. Up(client[c].path) \in Seq(Names)
        BY <1>a DEF ClientType, Up
      <4> QED
        BY <1>a, <2>2, <4>1 DEF ClientType
    <3> HIDE DEF v
    <3> QED
      BY <1>c, <1>d, <2>2, <3>1, CmdIdle
  <2> QED
    BY <1>2, <2>1, <2>2 DEF CdUp, Select, Answer
<1>3. ASSUME NEW n \in Names, CdDown(c, n) PROVE TreeInv'
  <2> DEFINE pre == IF client[c].code = 0 THEN 0 ELSE client[c].pre_code
             o == Op("cd_rows", n, NULL, NULL, Named(c, n, "d"), NULL)
  <2>1. CASE op' = [op EXCEPT ![c] = o] /\ client' = [client EXCEPT ![c].pre_code = pre]
    <3> DEFINE v == [client[c] EXCEPT !.pre_code = pre]
    <3>1. /\ v \in ClientType /\ v.code = client[c].code
          /\ v.code # 0 => v.pre_code = client[c].pre_code
          /\ client' = [client EXCEPT ![c] = v] /\ client'[c].code = client[c].code
      BY <1>a, <2>1 DEF ClientType
    <3>2. op'[c].at = "cd_rows" /\ op'[c].name = n /\ op'[c].rows = Named(c, n, "d") /\ n # NULL
      BY <1>a, <2>1, VfsAssumption DEF Op
    <3>3. Here(c)' = Here(c)
      BY <3>1 DEF Here
    <3>4. op'[c].rows = Twins(D, Here(c), n)
      BY <3>2, NamedDirs
    <3>5. CmdInv(c)'
      BY <1>b, <3>2, <3>3, <3>4 DEF CmdInv
    <3> HIDE DEF v
    <3> QED
      BY <1>c, <1>d, <2>1, <3>1, <3>5
  <2>2. CASE /\ client' = [client EXCEPT ![c] = [code |-> @.code, pre_code |-> pre,
                                                 path |-> Down(@.path, n)]]
             /\ op' = [op EXCEPT ![c] = Idle]
    <3> DEFINE v == [code |-> client[c].code, pre_code |-> pre, path |-> Down(client[c].path, n)]
    <3>1. /\ v \in ClientType /\ v.code = client[c].code
          /\ v.code # 0 => v.pre_code = client[c].pre_code
          /\ client' = [client EXCEPT ![c] = v]
      BY <1>a, <2>2 DEF ClientType, Down
    <3> HIDE DEF v
    <3> QED
      BY <1>c, <1>d, <2>2, <3>1, CmdIdle
  <2> QED
    BY <1>3, <2>1, <2>2 DEF CdDown, Select, Answer
<1>4. CASE CdResult(c)
  <2>0. op' = [op EXCEPT ![c] = Idle] /\ op[c].at = "cd_rows"
    BY <1>4 DEF CdResult, FreeAndAnswer, Answer
  <2>1. CASE UNCHANGED client
    <3>1. client' = [client EXCEPT ![c] = client[c]]
      BY <1>a, <2>1
    <3> QED
      BY <1>a, <1>c, <1>d, <2>0, <3>1, CmdIdle
  <2> DEFINE r == First(op[c].rows)
             n == op[c].name
             v == [code |-> r.code, pre_code |-> PreCode(r),
                   path |-> IF n = NULL THEN Up(client[c].path) ELSE Down(client[c].path, n)]
  <2>2. CASE op[c].rows # {} /\ client' = [client EXCEPT ![c] = v]
    <3>1. r \in op[c].rows /\ r \in Row
      BY <1>a, <2>2, FirstRow DEF OpType
    <3>2. v \in ClientType /\ v.code = r.code /\ v.pre_code = PreCode(r) /\ client'[c] = v
      <4>1. v.path \in Seq(Names)
        BY <1>a DEF ClientType, OpType, Up, Down
      <4> QED
        BY <1>a, <2>2, <3>1, <4>1 DEF ClientType, PreCode, Row
    <3>3. r \in D /\ Lead(D, r)
      <4>1. CASE n = NULL
        <5>1. r \in D /\ r.code = client[c].pre_code /\ client[c].code # 0 /\ client[c].pre_code # 0
          BY <1>a, <2>0, <3>1, <4>1 DEF CmdInv
        <5>2. PICK q \in D : q.code = client[c].code /\ client[c].pre_code = PreCode(q)
          BY <1>a, <5>1 DEF HereInv
        <5>3. q.pre_code # -1 /\ q.pre_code = r.code
          BY <5>1, <5>2 DEF PreCode
        <5>4. PICK p \in D : p.code = q.pre_code /\ Lead(D, p)
          BY <1>a, <5>3 DEF Tree
        <5>5. p = r
          BY <5>1, <5>3, <5>4 DEF Dirs, BaseInv, RowsInv
        <5> QED
          BY <5>1, <5>4, <5>5
      <4>2. CASE n # NULL
        <5>1. op[c].rows = Twins(D, Here(c), n)
          BY <1>a, <2>0, <4>2 DEF CmdInv
        <5>2. r \in Twins(D, Here(c), n) /\ Lead(D, r)
          BY <2>2, <5>1, FirstLead
        <5> QED
          BY <5>2 DEF Lead
      <4> QED
        BY <4>1, <4>2
    <3> HIDE DEF v, r
    <3>4. HereInv(c)'
      BY <1>b, <3>2, <3>3 DEF HereInv
    <3> QED
      BY <1>d, <2>0, <2>2, <3>2, <3>4, CmdIdle
  <2> QED
    BY <1>4, <2>1, <2>2 DEF CdResult
<1> QED
  BY <1>1, <1>2, <1>3, <1>4

\* rmdir up to the DELETE: what it has looked up stays true.
LEMMA TreeLook ==
    ASSUME BaseInv, TreeInv, OwnUsers, NEW c \in Conns,
           \/ \E n \in Names : Rmdir(c, n)
           \/ RmdirResult(c) \/ RmdirCheck(c) \/ RmdirContent(c)
    PROVE  TreeInv'
<1> DEFINE D == Dirs(Uid(c))
<1>a. /\ c \in Main
      /\ op[c] \in OpType /\ op \in [Conns -> OpType]
      /\ client \in [Conns -> ClientType]
      /\ HereInv(c) /\ CmdInv(c)
      /\ Uid(c) \in Users
      /\ \A d \in Main : Uid(d) \in Users
  <2>1. c \in Main
    BY StepAt DEF Rmdir, RmdirResult, RmdirCheck, RmdirContent, MainSteps
  <2> QED
    BY <2>1, ConnUsers DEF Conns, BaseInv, ConnType, ClientInv, TreeInv
<1>b. /\ vfs' = vfs /\ client' = client /\ client' = [client EXCEPT ![c] = client[c]]
      /\ Dirs(Uid(c))' = Dirs(Uid(c)) /\ \A u \in Users : Dirs(u)' = Dirs(u)
  BY <1>a DEF Rmdir, RmdirResult, RmdirCheck, RmdirContent, tableVars, Dirs
<1>c. HereInv(c)' /\ Here(c)' = Here(c)
  BY <1>a, <1>b DEF HereInv, Here
<1>d. ASSUME NEW o, op' = [op EXCEPT ![c] = o], CmdInv(c)'
      PROVE  TreeInv'
  BY <1>a, <1>b, <1>c, <1>d, TreeQuiet
<1>e. CASE op' = [op EXCEPT ![c] = Idle]
  BY <1>d, <1>e, CmdIdle
<1>1. ASSUME NEW n \in Names, Rmdir(c, n) PROVE TreeInv'
  <2> DEFINE rows == {r \in Named(c, n, "d") : r.file_count = 1}
             o == Op("rmdir_rows", n, NULL, NULL, rows, NULL)
  <2>1. CASE op' = [op EXCEPT ![c] = o]
    <3>1. op'[c].at = "rmdir_rows" /\ op'[c].name = n /\ op'[c].rows = rows
      BY <1>a, <2>1 DEF Op
    <3>2. rows = Twins(D, Here(c), n)
      BY NamedDirs
    <3>3. CmdInv(c)'
      BY <1>b, <1>c, <3>1, <3>2 DEF CmdInv
    <3> QED
      BY <1>d, <2>1, <3>3
  <2> QED
    BY <1>1, <1>e, <2>1 DEF Rmdir, Select, Answer
<1>2. CASE RmdirResult(c)
  <2> DEFINE o == Op("rmdir_check", op[c].name, NULL, First(op[c].rows).code, {}, NULL)
  <2>1. CASE op' = [op EXCEPT ![c] = o] /\ op[c].rows # {}
    <3>1. /\ op'[c].at = "rmdir_check" /\ op'[c].name = op[c].name
          /\ op'[c].dir = First(op[c].rows).code
      BY <1>a, <2>1 DEF Op
    <3>2. op[c].rows = Twins(D, Here(c), op[c].name)
      BY <1>2, <1>a DEF RmdirResult, CmdInv
    <3>3. First(op[c].rows) \in Twins(D, Here(c), op[c].name) /\ Lead(D, First(op[c].rows))
      BY <2>1, <3>2, FirstLead
    <3>4. CmdInv(c)'
      BY <1>b, <1>c, <3>1, <3>3 DEF CmdInv
    <3> QED
      BY <1>d, <2>1, <3>4
  <2> QED
    BY <1>2, <1>e, <2>1 DEF RmdirResult, Free, FreeAndAnswer, Answer
<1>3. CASE RmdirCheck(c)
  <2> DEFINE rows == {r \in vfs : r.owner_uid = Uid(c) /\ r.pre_code = op[c].dir}
             o == Op("rmdir_content", op[c].name, NULL, op[c].dir, rows, NULL)
  <2>1. CASE op' = [op EXCEPT ![c] = o]
    <3>1. /\ op'[c].at = "rmdir_content" /\ op'[c].name = op[c].name
          /\ op'[c].dir = op[c].dir /\ op'[c].rows = rows
      BY <1>a, <2>1 DEF Op
    <3>2. \E q \in Twins(D, Here(c), op[c].name) : q.code = op[c].dir /\ Lead(D, q)
      BY <1>3, <1>a DEF RmdirCheck, CmdInv
    <3>3. rows = {} => \A r \in D : r.pre_code # op[c].dir
      BY DEF Dirs
    <3>4. CmdInv(c)'
      BY <1>b, <1>c, <3>1, <3>2, <3>3 DEF CmdInv
    <3> QED
      BY <1>d, <2>1, <3>4
  <2> QED
    BY <1>3, <1>e, <2>1 DEF RmdirCheck, Select, Answer
<1>4. CASE RmdirContent(c)
  <2> DEFINE o == Op("rmdir_delete", op[c].name, NULL, op[c].dir, {}, NULL)
  <2>1. CASE op' = [op EXCEPT ![c] = o] /\ op[c].rows = {}
    <3>1. op'[c].at = "rmdir_delete" /\ op'[c].name = op[c].name /\ op'[c].dir = op[c].dir
      BY <1>a, <2>1 DEF Op
    <3>2. /\ \E q \in Twins(D, Here(c), op[c].name) : q.code = op[c].dir /\ Lead(D, q)
          /\ \A r \in D : r.pre_code # op[c].dir
      BY <1>4, <1>a, <2>1 DEF RmdirContent, CmdInv
    <3>3. CmdInv(c)'
      BY <1>b, <1>c, <3>1, <3>2 DEF CmdInv
    <3> QED
      BY <1>d, <2>1, <3>3
  <2> QED
    BY <1>4, <1>e, <2>1 DEF RmdirContent, Free, FreeAndAnswer, Answer
<1> QED
  BY <1>1, <1>2, <1>3, <1>4

\* A step that changes the directories of c's user and ends the command of c.
LEMMA TreeChange ==
    ASSUME BaseInv, TreeInv, OwnUsers, NEW c \in Main,
           op' = [op EXCEPT ![c] = Idle], client' = client,
           \A u \in Users : u # Uid(c) => Dirs(u)' = Dirs(u),
           Tree(Dirs(Uid(c))'), HereInv(c)'
    PROVE  TreeInv'
<1>0. c \in Conns
  BY DEF Conns
<1>1. \A u \in Users : Tree(Dirs(u))'
  BY DEF TreeInv, Tree
<1>2. ASSUME NEW d \in Main PROVE HereInv(d)' /\ CmdInv(d)'
  <2>1. CASE d = c
    BY <1>0, <2>1, CmdIdle
  <2>2. CASE d # c
    <3>1. client'[d] = client[d] /\ op'[d] = op[d] /\ Dirs(Uid(d))' = Dirs(Uid(d))
      BY <2>2, ConnUsers DEF BaseInv, ConnType, Conns
    <3>2. HereInv(d) /\ CmdInv(d)
      BY DEF TreeInv
    <3> QED
      BY <3>1, <3>2, SessionFrame
  <2> QED
    BY <2>1, <2>2
<1> QED
  BY <1>1, <1>2 DEF TreeInv

\* The directories of a user are rows with numbers for codes.
LEMMA DirsOrdered ==
    ASSUME BaseInv, NEW u
    PROVE  \A q \in Dirs(u) : /\ q.code \in Nat /\ q.code < auto_inc
                              /\ q.pre_code \in Int /\ q.pre_code < q.code
                              /\ auto_inc \in Nat
BY VfsAssumption DEF Dirs, BaseInv, RowsInv, Row, Codes

\* mkdir puts a directory in one that a lookup finds, and does not hide another.
LEMMA TreeMkdir ==
    ASSUME BaseInv, TreeInv, OwnUsers, NEW c \in Conns, NEW n \in Names, Mkdir(c, n)
    PROVE  TreeInv'
<1> DEFINE D == Dirs(Uid(c))
           r0 == NewRow(c, n, "d", NULL, NULL)
<1>a. /\ c \in Main /\ HereInv(c) /\ Tree(D)
      /\ op' = [op EXCEPT ![c] = Idle] /\ client' = client
  BY ConnUsers DEF Mkdir, Answer, TreeInv
<1>1. CASE UNCHANGED vfs
  <2>1. \A u : Dirs(u)' = Dirs(u)
    BY <1>1 DEF Dirs
  <2>2. HereInv(c)'
    BY <1>a, <2>1 DEF HereInv
  <2>3. Tree(Dirs(Uid(c))')
    BY <1>a, <2>1
  <2> QED
    BY <1>a, <2>1, <2>2, <2>3, TreeChange
<1>2. CASE Insert(c, n, "d", NULL, NULL)
  <2>1. /\ vfs' = vfs \cup {r0} /\ r0.code = auto_inc /\ r0.pre_code = Here(c)
        /\ r0.file_type = "d" /\ r0.owner_uid = Uid(c)
    BY <1>2 DEF Insert, NewRow
  <2> HIDE DEF r0
  <2>2. Dirs(Uid(c))' = D \cup {r0} /\ \A u : u # Uid(c) => Dirs(u)' = Dirs(u)
    BY <2>1 DEF Dirs
  <2>3. \A q \in D : q.code <= r0.code
    BY <2>1, DirsOrdered
  <2>4. \A q \in D : Lead(D, q) => Lead(D \cup {r0}, q)
    BY <2>3, LeadAdd
  <2>5. HereInv(c)'
    BY <1>a, <2>2, <2>4 DEF HereInv
  <2>6. Tree(D \cup {r0})
    <3> SUFFICES ASSUME NEW r \in D \cup {r0}, r.pre_code # -1
                 PROVE  \E q \in D : q.code = r.pre_code /\ Lead(D \cup {r0}, q)
      BY DEF Tree
    <3>1. CASE r \in D
      BY <1>a, <2>4, <3>1 DEF Tree
    <3>2. CASE r = r0
      BY <1>a, <2>1, <2>4, <3>2 DEF HereInv, Here
    <3> QED
      BY <3>1, <3>2
  <2> QED
    BY <1>a, <2>2, <2>5, <2>6, TreeChange
<1> QED
  BY <1>1, <1>2 DEF Mkdir, tableVars

\* rmdir deletes all directories of a name after having looked into one of them: the
\* others never had a directory below.
LEMMA TreeDelete ==
    ASSUME BaseInv, TreeInv, OwnUsers, NEW c \in Conns, RmdirDelete(c)
    PROVE  TreeInv'
<1> DEFINE D == Dirs(Uid(c))
           T == Twins(D, Here(c), op[c].name)
<1>a. /\ c \in Main /\ HereInv(c) /\ CmdInv(c) /\ Tree(D)
      /\ op' = [op EXCEPT ![c] = Idle] /\ client' = client /\ op[c].at = "rmdir_delete"
  <2>1. c \in Main
    BY StepAt DEF RmdirDelete, MainSteps
  <2> QED
    BY <2>1, ConnUsers DEF RmdirDelete, Answer, TreeInv
<1>1. CASE UNCHANGED vfs
  <2>1. \A u : Dirs(u)' = Dirs(u)
    BY <1>1 DEF Dirs
  <2>2. HereInv(c)'
    BY <1>a, <2>1 DEF HereInv
  <2>3. Tree(Dirs(Uid(c))')
    BY <1>a, <2>1
  <2> QED
    BY <1>a, <2>1, <2>2, <2>3, TreeChange
<1>2. CASE vfs' = vfs \ Named(c, op[c].name, "d")
  <2>1. vfs' = vfs \ T
    BY <1>2, NamedDirs
  <2>2. Dirs(Uid(c))' = D \ T /\ \A u : u # Uid(c) => Dirs(u)' = Dirs(u)
    BY <2>1 DEF Dirs, Twins
  <2>3. PICK q0 \in T : q0.code = op[c].dir /\ Lead(D, q0)
    BY <1>a DEF CmdInv
  <2>4. \A r \in D : r.pre_code # q0.code
    BY <1>a, <2>3 DEF CmdInv
  <2>5. \A q \in D \ T : Lead(D, q) => Lead(D \ T, q)
    BY LeadKeep
  <2>6. \A q \in T : Lead(D, q) => q.code = q0.code
    <3> SUFFICES ASSUME NEW q \in T, Lead(D, q) PROVE q.code = q0.code
      OBVIOUS
    <3>1. q.code <= q0.code /\ q0.code <= q.code
      BY <2>3 DEF Lead, Twins
    <3>2. q.code \in Nat /\ q0.code \in Nat
      BY DirsOrdered DEF Twins
    <3> QED
      BY <3>1, <3>2
  <2>7. Tree(D \ T)
    BY <1>a, <2>4, <2>5, <2>6 DEF Tree
  <2>8. HereInv(c)'
    <3> SUFFICES ASSUME client[c].code # 0
                 PROVE  \E q \in D \ T : /\ q.code = client[c].code /\ Lead(D \ T, q)
                                         /\ client[c].pre_code = PreCode(q)
      BY <1>a, <2>2 DEF HereInv
    <3>1. PICK q \in D : q.code = client[c].code /\ Lead(D, q) /\ client[c].pre_code = PreCode(q)
      BY <1>a DEF HereInv
    <3>2. q.pre_code # Here(c)
      BY <3>1, DirsOrdered DEF Here
    <3>3. q \notin T
      BY <3>2 DEF Twins
    <3> QED
      BY <2>5, <3>1, <3>3
  <2> QED
    BY <1>a, <2>2, <2>7, <2>8, TreeChange
<1> QED
  BY <1>1, <1>2 DEF RmdirDelete

LEMMA TreeNext == BaseInv /\ TreeInv /\ OwnUsers /\ [Next]_vars => TreeInv'
<1> SUFFICES ASSUME BaseInv, TreeInv, OwnUsers, [Next]_vars PROVE TreeInv'
  OBVIOUS
<1>1. CASE UNCHANGED vars
  <2>1. \A u : Dirs(u)' = Dirs(u)
    BY <1>1 DEF vars, Dirs
  <2>2. \A d \in Main : client'[d] = client[d] /\ op'[d] = op[d]
    BY <1>1 DEF vars
  <2> QED
    BY <2>1, <2>2, SessionFrame DEF TreeInv, Tree
<1>2. CASE Next
  <2>1. PICK c \in Conns : Command(c) \/ Continue(c)
    BY <1>2 DEF Next
  <2> QED
    BY <2>1, TreeFiles, TreeCd, TreeLook, TreeMkdir, TreeDelete DEF Command, Continue
<1> QED
  BY <1>1, <1>2

LEMMA TreeInit == Init => TreeInv
<1> SUFFICES ASSUME Init PROVE TreeInv
  OBVIOUS
<1>1. \A c \in Main : client[c].code = 0 /\ op[c].at = "idle"
  BY IdleOp DEF Init, Conns
<1>2. \A u : Dirs(u) = {}
  BY DEF Init, Dirs
<1> QED
  BY <1>1, <1>2 DEF TreeInv, Tree, HereInv, CmdInv

LEMMA TreeHolds == OwnUsers => (Spec => []TreeInv)
<1> SUFFICES ASSUME OwnUsers PROVE Spec => []TreeInv
  OBVIOUS
<1>1. BaseInv /\ TreeInv /\ [Next]_vars => TreeInv'
  BY TreeNext
<1> QED
  BY <1>1, TreeInit, BaseHolds, PTL DEF Spec

\* Where every session is of a user of its own, rmdir leaves no directory without its
\* parent, whatever the workers interleave and whichever queries fail.
THEOREM NoDirOrphaned == ASSUME OwnUsers PROVE Spec => []NoOrphanDirs
<1>1. BaseInv /\ TreeInv => NoOrphanDirs
  <2> SUFFICES ASSUME BaseInv, TreeInv, NEW r \in vfs, r.file_type = "d", r.pre_code # -1
               PROVE  \E q \in vfs : /\ q.code = r.pre_code
                                     /\ q.file_type = "d" /\ q.owner_uid = r.owner_uid
    BY DEF NoOrphanDirs
  <2>1. r.owner_uid \in Users /\ r \in Dirs(r.owner_uid)
    BY DEF BaseInv, RowsInv, Row, Users, Dirs
  <2>2. PICK q \in Dirs(r.owner_uid) : q.code = r.pre_code
    BY <2>1 DEF TreeInv, Tree
  <2> QED
    BY <2>2 DEF Dirs
<1> QED
  BY <1>1, BaseHolds, TreeHolds, PTL
-----------------------------------------------------------------------------
(* The path *)

\* Directories that are made leave the way as it is.
LEMMA WayFrame ==
    ASSUME NEW d \in Main, NEW a, Way(d, a), client'[d] = client[d],
           Dirs(Uid(d)) \subseteq Dirs(Uid(d))'
    PROVE  Way(d, a)'
BY DEF Way

\* A session is in the root or in the last directory of its way.
LEMMA WayEnd ==
    ASSUME BaseInv, NEW c \in Main, NEW a, Way(c, a)
    PROVE  /\ Len(client[c].path) \in Nat
           /\ client[c].path \in Seq(Names)
           /\ a \in [1..Len(client[c].path) -> Codes]
           /\ client[c].code = 0 <=> Len(client[c].path) = 0
           /\ client[c].code # 0 => client[c].code = a[Len(client[c].path)]
           /\ client[c].code # 0 /\ client[c].pre_code = 0 => Len(client[c].path) = 1
           /\ client[c].code # 0 /\ client[c].pre_code # 0 =>
                 Len(client[c].path) > 1 /\ client[c].pre_code = a[Len(client[c].path) - 1]
<1>1. client[c] \in ClientType
  BY DEF BaseInv, ClientInv, Conns
<1>2. client[c].path \in Seq(Names) /\ Len(client[c].path) \in Nat
  BY <1>1 DEF ClientType
<1> DEFINE d == Len(client[c].path)
<1>3. /\ a \in [1..d -> Codes]
      /\ IF d = 0 THEN client[c].code = 0
         ELSE /\ a[d] = client[c].code
              /\ client[c].pre_code = IF d = 1 THEN 0 ELSE a[d - 1]
  BY DEF Way
<1>4. \A i \in 1..d : a[i] \in Nat /\ a[i] > 0
  BY <1>3, VfsAssumption DEF Codes
<1> HIDE DEF d
<1>5. d \in Nat
  BY <1>2 DEF d
<1>6. d # 0 => a[d] > 0
  BY <1>4, <1>5
<1>7. d # 0 /\ d # 1 => a[d - 1] > 0
  BY <1>4, <1>5
<1>8. /\ client[c].code = 0 <=> d = 0
      /\ client[c].code # 0 => client[c].code = a[d]
  BY <1>3, <1>6
<1>9. client[c].code # 0 => client[c].pre_code = IF d = 1 THEN 0 ELSE a[d - 1]
  BY <1>3, <1>8
<1>10. client[c].code # 0 /\ client[c].pre_code = 0 => d = 1
  BY <1>7, <1>8, <1>9
<1>11. client[c].code # 0 /\ client[c].pre_code # 0 => d > 1 /\ client[c].pre_code = a[d - 1]
  BY <1>5, <1>8, <1>9
<1> QED
  BY <1>2, <1>3, <1>8, <1>10, <1>11 DEF d

LEMMA CodeNumbers == \A k \in Codes : k \in Nat /\ k > 0
BY VfsAssumption DEF Codes

\* The way to a directory below the current one.
LEMMA WayDown ==
    ASSUME BaseInv, NEW c \in Main, NEW a, Way(c, a), NEW n \in Names,
           NEW r \in Twins(Dirs(Uid(c)), Here(c), n), NEW v,
           client' = [client EXCEPT ![c] = v], UNCHANGED vfs,
           v.code = r.code, v.pre_code = PreCode(r), v.path = Append(client[c].path, n)
    PROVE  \E b : Way(c, b)'
<1> DEFINE p == client[c].path
           d == Len(p)
<1>1. /\ d \in Nat /\ p \in Seq(Names) /\ a \in [1..d -> Codes]
      /\ client[c].code = 0 <=> d = 0
      /\ client[c].code # 0 => client[c].code = a[d]
  BY WayEnd
<1>2. client'[c] = v
  BY DEF BaseInv, ClientInv, Conns
<1>3. /\ v.path \in Seq(Names) /\ Len(v.path) = d + 1 /\ v.path[d + 1] = n
      /\ \A i \in 1..d : v.path[i] = p[i]
  BY <1>1
<1>4. /\ r \in Dirs(Uid(c)) /\ r.pre_code = Here(c) /\ r.file_name = n
      /\ r.code \in Codes /\ r.code \in Nat /\ r.pre_code < r.code
  BY DirsOrdered DEF Twins, Dirs, BaseInv, RowsInv, Row
<1>5. r.pre_code = IF d = 0 THEN -1 ELSE a[d]
  BY <1>1, <1>4 DEF Here
<1>6. \A i \in 1..d : a[i] \in Nat /\ a[i] > 0
  BY <1>1, CodeNumbers
<1>7. \A i \in 1..d : \E q \in Dirs(Uid(c)) :
             /\ q.code = a[i] /\ q.file_name = p[i]
             /\ q.pre_code = IF i = 1 THEN -1 ELSE a[i - 1]
  BY DEF Way
<1>8. \A i, j \in 1..d : i < j => a[i] < a[j]
  BY DEF Way
<1> HIDE DEF p, d
<1>b. PICK b : b = [i \in 1..(d + 1) |-> IF i <= d THEN a[i] ELSE r.code]
  OBVIOUS
<1>9. /\ b \in [1..(d + 1) -> Codes] /\ b[d + 1] = r.code
      /\ \A i \in 1..d : b[i] = a[i]
  BY <1>1, <1>4, <1>b
<1>10. v.pre_code = IF d + 1 = 1 THEN 0 ELSE b[d]
  <2>1. CASE d = 0
    BY <1>1, <1>5, <2>1 DEF PreCode
  <2>2. CASE d # 0
    <3>1. d \in 1..d /\ a[d] # -1
      BY <1>1, <1>6, <2>2
    <3> QED
      BY <1>1, <1>5, <1>9, <2>2, <3>1 DEF PreCode
  <2> QED
    BY <2>1, <2>2
<1>11. \A i \in 1..(d + 1) : \E q \in Dirs(Uid(c)) :
             /\ q.code = b[i] /\ q.file_name = v.path[i]
             /\ q.pre_code = IF i = 1 THEN -1 ELSE b[i - 1]
  <2> SUFFICES ASSUME NEW i \in 1..(d + 1)
               PROVE  \E q \in Dirs(Uid(c)) : /\ q.code = b[i] /\ q.file_name = v.path[i]
                                              /\ q.pre_code = IF i = 1 THEN -1 ELSE b[i - 1]
    OBVIOUS
  <2>1. CASE i = d + 1
    <3>1. d # 0 => d \in 1..d
      BY <1>1
    <3> QED
      BY <1>1, <1>3, <1>4, <1>5, <1>9, <2>1, <3>1
  <2>2. CASE i # d + 1
    <3>1. i \in 1..d /\ (i # 1 => i - 1 \in 1..d)
      BY <1>1, <2>2
    <3> QED
      BY <1>3, <1>7, <1>9, <3>1
  <2> QED
    BY <2>1, <2>2
<1>12. \A i, j \in 1..(d + 1) : i < j => b[i] < b[j]
  <2> SUFFICES ASSUME NEW i \in 1..(d + 1), NEW j \in 1..(d + 1), i < j PROVE b[i] < b[j]
    OBVIOUS
  <2>1. i \in 1..d /\ d \in 1..d
    BY <1>1
  <2>2. CASE j = d + 1
    <3>1. a[i] <= a[d]
      BY <1>1, <1>6, <1>8, <2>1
    <3>2. a[d] < r.code
      BY <1>1, <1>4, <1>5, <2>1
    <3> QED
      BY <1>4, <1>6, <1>9, <2>1, <2>2, <3>1, <3>2
  <2>3. CASE j # d + 1
    BY <1>1, <1>8, <1>9, <2>1, <2>3
  <2> QED
    BY <2>2, <2>3
<1>13. Dirs(Uid(c))' = Dirs(Uid(c))
  BY DEF Dirs
<1>14. d + 1 # 0 /\ (d + 1) - 1 = d
  BY <1>1
<1>15. /\ b \in [1..Len(v.path) -> Codes]
       /\ IF Len(v.path) = 0 THEN v.code = 0
          ELSE /\ b[Len(v.path)] = v.code
               /\ v.pre_code = IF Len(v.path) = 1 THEN 0 ELSE b[Len(v.path) - 1]
  BY <1>3, <1>9, <1>10, <1>14
<1>16. \A i \in 1..Len(v.path) : \E q \in Dirs(Uid(c))' :
             /\ q.code = b[i] /\ q.file_name = v.path[i]
             /\ q.pre_code = IF i = 1 THEN -1 ELSE b[i - 1]
  BY <1>3, <1>11, <1>13
<1>17. \A i, j \in 1..Len(v.path) : i < j => b[i] < b[j]
  BY <1>3, <1>12
<1>18. Way(c, b)'
  BY ONLY <1>2, <1>15, <1>16, <1>17 DEF Way
<1> QED
  BY <1>18

\* The way to the parent.
LEMMA WayUp ==
    ASSUME BaseInv, NEW c \in Main, NEW a, Way(c, a), client[c].code # 0, UNCHANGED vfs, NEW v,
           client' = [client EXCEPT ![c] = v], v.path = Up(client[c].path),
           \/ client[c].pre_code = 0 /\ v.code = 0
           \/ /\ client[c].pre_code # 0
              /\ \E r \in Dirs(Uid(c)) : /\ r.code = client[c].pre_code
                                         /\ v.code = r.code /\ v.pre_code = PreCode(r)
    PROVE  \E b : Way(c, b)'
<1> DEFINE p == client[c].path
           d == Len(p)
<1>1. /\ d \in Nat /\ p \in Seq(Names) /\ a \in [1..d -> Codes] /\ d # 0
      /\ client[c].pre_code = 0 => d = 1
      /\ client[c].pre_code # 0 => d > 1 /\ client[c].pre_code = a[d - 1]
  BY WayEnd
<1>2. client'[c] = v
  BY DEF BaseInv, ClientInv, Conns
<1>3. /\ v.path \in Seq(Names) /\ Len(v.path) = d - 1
      /\ \A i \in 1..(d - 1) : v.path[i] = p[i]
  <2>1. p # <<>>
    BY <1>1
  <2>2. v.path = SubSeq(p, 1, d - 1)
    BY <2>1 DEF Up
  <2> QED
    BY <1>1, <2>2
<1>6. \A i \in 1..d : a[i] \in Nat /\ a[i] > 0
  BY <1>1, CodeNumbers
<1>7. \A i \in 1..d : \E q \in Dirs(Uid(c)) :
             /\ q.code = a[i] /\ q.file_name = p[i]
             /\ q.pre_code = IF i = 1 THEN -1 ELSE a[i - 1]
  BY DEF Way
<1>8. \A i, j \in 1..d : i < j => a[i] < a[j]
  BY DEF Way
<1>u. \A r, q \in Dirs(Uid(c)) : r.code = q.code => r = q
  BY DEF Dirs, BaseInv, RowsInv
<1>o. \/ client[c].pre_code = 0 /\ v.code = 0
      \/ /\ client[c].pre_code # 0
         /\ \E r \in Dirs(Uid(c)) : /\ r.code = client[c].pre_code
                                    /\ v.code = r.code /\ v.pre_code = PreCode(r)
  OBVIOUS
<1> HIDE DEF p, d
<1>b. PICK b : b = [i \in 1..(d - 1) |-> a[i]]
  OBVIOUS
<1>9. b \in [1..(d - 1) -> Codes] /\ \A i \in 1..(d - 1) : b[i] = a[i]
  BY <1>1, <1>b
<1>10. IF d - 1 = 0 THEN v.code = 0
       ELSE b[d - 1] = v.code /\ v.pre_code = IF d - 1 = 1 THEN 0 ELSE b[d - 2]
  <2>1. CASE client[c].pre_code = 0
    BY <1>1, <1>o, <2>1
  <2>2. CASE client[c].pre_code # 0
    <3>1. PICK r \in Dirs(Uid(c)) : /\ r.code = a[d - 1]
                                    /\ v.code = r.code /\ v.pre_code = PreCode(r)
      BY <1>1, <1>o, <2>2
    <3>2. d - 1 \in 1..d /\ d - 1 \in 1..(d - 1) /\ d - 1 # 0
      BY <1>1, <2>2
    <3>3. PICK q \in Dirs(Uid(c)) : /\ q.code = a[d - 1]
                                    /\ q.pre_code = IF d - 1 = 1 THEN -1 ELSE a[(d - 1) - 1]
      BY <1>7, <3>2
    <3>4. q = r
      BY <1>u, <3>1, <3>3
    <3>5. CASE d - 1 = 1
      BY <1>9, <3>1, <3>2, <3>3, <3>4, <3>5 DEF PreCode
    <3>6. CASE d - 1 # 1
      <4>1. d - 2 \in 1..(d - 1) /\ d - 2 \in 1..d /\ (d - 1) - 1 = d - 2
        BY <1>1, <2>2, <3>6
      <4>2. r.pre_code = a[d - 2] /\ a[d - 2] # -1
        BY <1>6, <3>3, <3>4, <3>6, <4>1
      <4> QED
        BY <1>9, <3>1, <3>2, <3>6, <4>1, <4>2 DEF PreCode
    <3> QED
      BY <3>5, <3>6
  <2> QED
    BY <2>1, <2>2
<1>11. \A i \in 1..(d - 1) : \E q \in Dirs(Uid(c)) :
             /\ q.code = b[i] /\ q.file_name = v.path[i]
             /\ q.pre_code = IF i = 1 THEN -1 ELSE b[i - 1]
  <2> SUFFICES ASSUME NEW i \in 1..(d - 1)
               PROVE  \E q \in Dirs(Uid(c)) : /\ q.code = b[i] /\ q.file_name = v.path[i]
                                              /\ q.pre_code = IF i = 1 THEN -1 ELSE b[i - 1]
    OBVIOUS
  <2>1. i \in 1..d /\ (i # 1 => i - 1 \in 1..(d - 1))
    BY <1>1
  <2> QED
    BY <1>3, <1>7, <1>9, <2>1
<1>12. \A i, j \in 1..(d - 1) : i < j => b[i] < b[j]
  BY <1>1, <1>8, <1>9
<1>13. Dirs(Uid(c))' = Dirs(Uid(c))
  BY DEF Dirs
<1>14. (d - 1) - 1 = d - 2
  BY <1>1
<1>15. /\ b \in [1..Len(v.path) -> Codes]
       /\ IF Len(v.path) = 0 THEN v.code = 0
          ELSE /\ b[Len(v.path)] = v.code
               /\ v.pre_code = IF Len(v.path) = 1 THEN 0 ELSE b[Len(v.path) - 1]
  BY <1>3, <1>9, <1>10, <1>14
<1>16. \A i \in 1..Len(v.path) : \E q \in Dirs(Uid(c))' :
             /\ q.code = b[i] /\ q.file_name = v.path[i]
             /\ q.pre_code = IF i = 1 THEN -1 ELSE b[i - 1]
  BY <1>3, <1>11, <1>13
<1>17. \A i, j \in 1..Len(v.path) : i < j => b[i] < b[j]
  BY <1>3, <1>12
<1>18. Way(c, b)'
  BY ONLY <1>2, <1>15, <1>16, <1>17 DEF Way
<1> QED
  BY <1>18

\* A step of one connection leaves the other sessions where they are, and their directories.
LEMMA OthersStep ==
    ASSUME BaseInv, OwnUsers, NEW c \in Conns, Command(c) \/ Continue(c), NEW d \in Main, c # d
    PROVE  client'[d] = client[d] /\ Dirs(Uid(d)) \subseteq Dirs(Uid(d))'
<1>1. client \in [Conns -> ClientType] /\ d \in Conns
  BY DEF BaseInv, ClientInv, Conns
<1>2. client'[d] = client[d]
  BY <1>1
  DEF Command, Continue, CdAtRoot, CdToRoot, CdUp, CdDown, CdResult, Ls, LsResult, Mkdir, Rm, RmResult,
      RmUpdate, Rmdir, RmdirResult, RmdirCheck, RmdirContent, RmdirDelete, Token, Gets, GetsResult,
      Puts, PutsResult, PutsInsert, QuickPuts, QuickResult, QuickInsert
<1>3. CASE vfs \subseteq vfs'
  <2>1. \A u : \A r \in Dirs(u) : r \in Dirs(u)'
    BY <1>3 DEF Dirs
  <2> QED
    BY <1>2, <2>1
<1>4. CASE RmUpdate(c)
  BY <1>4 DEF RmUpdate, Dirs, Named
<1>5. CASE RmdirDelete(c)
  <2>1. c \in Main /\ Uid(c) # Uid(d)
    BY <1>5, StepAt, ConnUsers DEF RmdirDelete, MainSteps
  <2> QED
    BY <1>5, <2>1 DEF RmdirDelete, Dirs, Named
<1> QED
  BY <1>2, <1>3, <1>4, <1>5
  DEF Command, Continue, CdAtRoot, CdToRoot, CdUp, CdDown, CdResult, Ls, LsResult, Mkdir, Rm, RmResult,
      Rmdir, RmdirResult, RmdirCheck, RmdirContent, Token, Gets, GetsResult, Puts, PutsResult,
      PutsInsert, QuickPuts, QuickResult, QuickInsert, Insert, tableVars

\* A cd looks its directory up beside the open result of another command: sql_do_cd returns
\* 0 without a row, and do_cd changes the path alone.
CdMeets(c) == OutOfSync /\ (CdUp(c) \/ \E n \in Names : CdDown(c, n))

HasWay(d) == \E a : Way(d, a)

\* The path of a session is kept by every step, of whichever connection, that is no cd of
\* its own beside another's result.
LEMMA PathStep ==
    ASSUME BaseInv, TreeInv, OwnUsers, NEW d \in Main, HasWay(d),
           NEW c \in Conns, Command(c) \/ Continue(c), c = d => ~CdMeets(c)
    PROVE  HasWay(d)'
<1>t. client \in [Conns -> ClientType] /\ Main \subseteq Conns
  BY DEF BaseInv, ClientInv, Conns
\* Steps that leave the session where it is, and only add to the directories.
<1>a. ASSUME client'[d] = client[d], Dirs(Uid(d)) \subseteq Dirs(Uid(d))'
      PROVE  HasWay(d)'
  BY <1>a, WayFrame DEF HasWay
<1>1. CASE c # d
  BY <1>1, <1>a, OthersStep
<1>2. SUFFICES ASSUME c = d PROVE HasWay(d)'
  BY <1>1
<1>p. \E a : Way(c, a)
  BY <1>2 DEF HasWay
<1>q. ASSUME \E b : Way(c, b)' PROVE HasWay(d)'
  BY <1>2, <1>q DEF HasWay
<1> QED
  <2>a. ASSUME vfs' = vfs, client' = client PROVE HasWay(d)'
    BY <1>a, <2>a DEF Dirs
  <2>c. CdUp(c) \/ (\E n \in Names : CdDown(c, n)) => ~OutOfSync
    BY <1>2 DEF CdMeets
  <2>k. op[c].at \in MainSteps => c \in Main
    BY StepAt
  <2>1. CASE \/ CdAtRoot(c) \/ CdUp(c) \/ Ls(c) \/ LsResult(c) \/ RmResult(c)
             \/ \E n \in Names : Rm(c, n) \/ Rmdir(c, n) \/ Gets(c, n) \/ \E m \in Md5s : Puts(c, n, m)
             \/ RmdirResult(c) \/ RmdirCheck(c) \/ RmdirContent(c)
             \/ GetsResult(c) \/ PutsResult(c) \/ QuickPuts(c) \/ QuickResult(c)
    BY <2>1, <2>a, <2>c
    DEF CdAtRoot, CdUp, Ls, LsResult, RmResult, Rm, Rmdir, Gets, Puts, RmdirResult, RmdirCheck,
        RmdirContent, GetsResult, PutsResult, QuickPuts, QuickResult, tableVars
  <2>2. CASE Token(c)
    BY <1>2, <2>2, ConnsFinite DEF Token
  <2>3. CASE PutsInsert(c) \/ QuickInsert(c) \/ \E n \in Names : Mkdir(c, n)
    <3>1. vfs \subseteq vfs' /\ client' = client
      BY <2>3 DEF PutsInsert, QuickInsert, Mkdir, Insert, tableVars
    <3> QED
      BY <1>a, <3>1 DEF Dirs
  <2>4. CASE RmUpdate(c)
    <3>1. client' = client
      BY <2>4 DEF RmUpdate
    <3>2. \A r \in vfs : r.file_type = "d" => r \in vfs'
      BY <2>4 DEF RmUpdate, Named
    <3> QED
      BY <1>a, <3>1, <3>2 DEF Dirs
  <2>5. CASE CdToRoot(c)
    <3> DEFINE v == [code |-> 0, pre_code |-> -1, path |-> Up(client[c].path)]
    <3>1. /\ c \in Main /\ client[c].code # 0 /\ client[c].pre_code = 0 /\ UNCHANGED vfs
          /\ client' = [client EXCEPT ![c] = v]
      BY <2>5, <1>t DEF CdToRoot, tableVars
    <3>2. v.code = 0 /\ v.path = Up(client[c].path)
      OBVIOUS
    <3>3. PICK v0 : v0 = v
      OBVIOUS
    <3> HIDE DEF v
    <3>4. PICK a : Way(c, a)
      BY <1>p, <3>1
    <3>5. \E b : Way(c, b)'
      BY <3>1, <3>2, <3>3, <3>4, WayUp
    <3> QED
      BY <1>q, <3>5
  <2>6. ASSUME NEW n \in Names, CdDown(c, n) PROVE HasWay(d)'
    <3> DEFINE pre == IF client[c].code = 0 THEN 0 ELSE client[c].pre_code
               v   == [client[c] EXCEPT !.pre_code = pre]
    <3>1. /\ c \in Main /\ UNCHANGED vfs
          /\ client' = [client EXCEPT ![c] = v]
      BY <2>6, <2>c, <1>t DEF CdDown, tableVars
    <3>2. /\ v.code = client[c].code /\ v.path = client[c].path
          /\ v.code # 0 => v.pre_code = client[c].pre_code
          /\ client'[c] = v
      BY <1>t, <3>1 DEF ClientType
    <3>3. PICK a : Way(c, a)
      BY <1>p, <3>1
    <3>4. Len(client[c].path) # 0 => client[c].code # 0
      BY <3>1, <3>3, WayEnd
    <3>5. PICK v0 : v0 = v
      OBVIOUS
    <3> HIDE DEF v
    <3>6. Dirs(Uid(c))' = Dirs(Uid(c))
      BY <3>1 DEF Dirs
    <3>7. PICK w : /\ client'[c] = w /\ w.path = client[c].path /\ w.code = client[c].code
                   /\ w.code # 0 => w.pre_code = client[c].pre_code
      BY <3>2
    <3>8. /\ a \in [1..Len(w.path) -> Codes]
          /\ IF Len(w.path) = 0 THEN w.code = 0
             ELSE /\ a[Len(w.path)] = w.code
                  /\ w.pre_code = IF Len(w.path) = 1 THEN 0 ELSE a[Len(w.path) - 1]
          /\ \A i, j \in 1..Len(w.path) : i < j => a[i] < a[j]
      BY <3>3, <3>4, <3>7 DEF Way
    <3>9. \A i \in 1..Len(w.path) : \E q \in Dirs(Uid(c))' :
             /\ q.code = a[i] /\ q.file_name = w.path[i]
             /\ q.pre_code = IF i = 1 THEN -1 ELSE a[i - 1]
      <4>1. \A i \in 1..Len(client[c].path) : \E q \in Dirs(Uid(c)) :
               /\ q.code = a[i] /\ q.file_name = client[c].path[i]
               /\ q.pre_code = IF i = 1 THEN -1 ELSE a[i - 1]
        BY <3>3 DEF Way
      <4> QED
        BY ONLY <3>6, <3>7, <4>1
    <3>10. Way(c, a)'
      BY ONLY <3>7, <3>8, <3>9 DEF Way
    <3> QED
      BY <1>q, <3>10
  <2>7. CASE CdResult(c)
    <3>0. c \in Main /\ op[c].at = "cd_rows" /\ UNCHANGED vfs /\ op[c] \in OpType /\ CmdInv(c)
      BY <2>7, <2>k DEF CdResult, tableVars, MainSteps, BaseInv, ConnType, TreeInv
    <3> DEFINE r == First(op[c].rows)
               n == op[c].name
               v == [code |-> r.code, pre_code |-> PreCode(r),
                     path |-> IF n = NULL THEN Up(client[c].path) ELSE Down(client[c].path, n)]
    <3>1. CASE UNCHANGED client
      BY <2>a, <3>0, <3>1
    <3>2. CASE op[c].rows # {} /\ client' = [client EXCEPT ![c] = v]
      <4>1. r \in op[c].rows
        BY <3>0, <3>2, FirstRow DEF OpType
      <4>2. PICK a : Way(c, a)
        BY <1>p, <3>0
      <4>3. PICK v0, r0 : v0 = v /\ r0 = r
        OBVIOUS
      <4>4. /\ v0.code = r0.code /\ v0.pre_code = PreCode(r0)
            /\ n = NULL => v0.path = Up(client[c].path)
            /\ n # NULL => v0.path = Down(client[c].path, n)
            /\ client' = [client EXCEPT ![c] = v0]
        BY <3>2, <4>3
      <4> HIDE DEF v, r
      <4>5. CASE n = NULL
        <5>1. /\ r0 \in Dirs(Uid(c)) /\ r0.code = client[c].pre_code
              /\ client[c].code # 0 /\ client[c].pre_code # 0
          BY <3>0, <4>1, <4>3, <4>5 DEF CmdInv
        <5>2. \E b : Way(c, b)'
          BY <3>0, <4>2, <4>4, <4>5, <5>1, WayUp
        <5> QED
          BY <1>q, <5>2
      <4>6. CASE n # NULL
        <5>1. n \in Names /\ r0 \in Twins(Dirs(Uid(c)), Here(c), n)
          BY <3>0, <4>1, <4>3, <4>6 DEF CmdInv, OpType
        <5>2. PICK n0 : n0 = n
          OBVIOUS
        <5>3. n0 \in Names /\ r0 \in Twins(Dirs(Uid(c)), Here(c), n0)
              /\ v0.path = Append(client[c].path, n0)
          BY <4>4, <4>6, <5>1, <5>2 DEF Down
        <5> HIDE DEF n
        <5>4. \E b : Way(c, b)'
          BY <3>0, <4>2, <4>4, <5>3, WayDown
        <5> QED
          BY <1>q, <5>4
      <4> QED
        BY <4>5, <4>6
    <3> QED
      BY <2>7, <3>1, <3>2 DEF CdResult
  <2>8. CASE RmdirDelete(c)
    <3>0. c \in Main /\ client' = client
      BY <2>8, <2>k DEF RmdirDelete, MainSteps
    <3>1. CASE UNCHANGED vfs
      BY <2>a, <3>0, <3>1
    <3>2. CASE vfs' = vfs \ Named(c, op[c].name, "d")
      <4>1. PICK a : Way(c, a)
        BY <1>p, <3>0
      <4> DEFINE k == Len(client[c].path)
      <4>2. /\ k \in Nat /\ a \in [1..k -> Codes]
            /\ client[c].code = 0 <=> k = 0
            /\ client[c].code # 0 => client[c].code = a[k]
        BY <3>0, <4>1, WayEnd
      <4>3. \A i, j \in 1..k : i < j => a[i] < a[j]
        BY <4>1 DEF Way
      <4> HIDE DEF k
      <4>4. ASSUME NEW i \in 1..k, NEW r \in Dirs(Uid(c)),
                   r.pre_code = IF i = 1 THEN -1 ELSE a[i - 1]
            PROVE  r \in Dirs(Uid(c))'
        <5>1. k \in 1..k /\ a[k] \in Nat /\ a[k] > 0 /\ Here(c) = a[k]
          BY <4>2, CodeNumbers DEF Here
        <5>2. CASE i = 1
          <6>1. r.pre_code # Here(c)
            BY <4>4, <5>1, <5>2
          <6> QED
            BY <3>2, <6>1 DEF Dirs, Named
        <5>3. CASE i # 1
          <6>1. i - 1 \in 1..k /\ i - 1 < k
            BY <4>2, <5>3
          <6>2. a[i - 1] < a[k] /\ a[i - 1] \in Nat
            BY <4>2, <4>3, <5>1, <6>1, CodeNumbers
          <6>3. r.pre_code # Here(c)
            BY <4>4, <5>1, <5>3, <6>2
          <6> QED
            BY <3>2, <6>3 DEF Dirs, Named
        <5> QED
          BY <5>2, <5>3
      <4>5. Way(c, a)'
        BY <3>0, <4>1, <4>4 DEF Way, k
      <4> QED
        BY <1>q, <4>5
    <3> QED
      BY <2>8, <3>1, <3>2 DEF RmdirDelete
  <2> QED
    BY <2>1, <2>2, <2>3, <2>4, <2>5, <2>6, <2>7, <2>8 DEF Command, Continue

LEMMA PathInit == Init => PathInv
<1> SUFFICES ASSUME Init, NEW c \in Main
             PROVE  \E a \in [1..Len(client[c].path) -> Codes] : Way(c, a)
  BY DEF PathInv
<1>1. client[c].path = <<>> /\ client[c].code = 0
  BY DEF Init, Conns
<1>2. <<>> \in [1..0 -> Codes] /\ Len(<<>>) = 0 /\ 1..0 = {}
  OBVIOUS
<1>3. Way(c, <<>>)
  BY <1>1, <1>2 DEF Way
<1> QED
  BY <1>1, <1>2, <1>3

LEMMA WayShown ==
    ASSUME NEW c \in Main, HasWay(c)
    PROVE  PathOf(c)
<1>1. PICK a : Way(c, a)
  BY DEF HasWay
<1> QED
  BY <1>1 DEF Way, Dirs, PathOf

LEMMA WayIsPath == PathInv <=> \A d \in Main : HasWay(d)
<1>1. \A d \in Main : \A a : Way(d, a) => a \in [1..Len(client[d].path) -> Codes]
  BY DEF Way
<1> QED
  BY <1>1 DEF PathInv, HasWay

LEMMA AllPathsStep ==
    ASSUME BaseInv, TreeInv, PathInv, OwnUsers, NEW c \in Conns, Command(c) \/ Continue(c), ~CdMeets(c)
    PROVE  PathInv'
<1>1. \A d \in Main : HasWay(d)
  BY WayIsPath
<1>2. \A d \in Main : HasWay(d)'
  BY <1>1, PathStep
<1>3. \A d \in Main : \A a : Way(d, a)' => a \in [1..Len(client'[d].path) -> Codes]
  BY DEF Way
<1> QED
  BY <1>2, <1>3 DEF PathInv, HasWay

\* With any number of workers on the one connection to the database, and every session of a
\* user of its own: the path a client is shown is the way to the directory its commands work
\* on, as long as none of its own cd's looked a directory up beside another command's open
\* result (do_cd.c), whatever the other sessions' commands met, made and removed.
THEOREM PathKept ==
    ASSUME OwnUsers, NEW c \in Main
    PROVE  Spec /\ [][~CdMeets(c)]_vars => []PathOf(c)
<1>1. BaseInv /\ TreeInv /\ HasWay(c) /\ [Next]_vars /\ [~CdMeets(c)]_vars => HasWay(c)'
  <2> SUFFICES ASSUME BaseInv, TreeInv, HasWay(c), [Next]_vars, [~CdMeets(c)]_vars PROVE HasWay(c)'
    OBVIOUS
  <2>1. CASE UNCHANGED vars
    <3>1. PICK a : Way(c, a)
      BY DEF HasWay
    <3>2. Way(c, a)'
      BY <2>1, <3>1, SMTT(30) DEF vars, Way, Dirs, Uid
    <3> QED
      BY <3>2 DEF HasWay
  <2>2. CASE Next /\ ~CdMeets(c)
    BY <2>2, PathStep DEF Next
  <2> QED
    BY <2>1, <2>2
<1>2. Init => HasWay(c)
  BY PathInit, WayIsPath
<1>3. HasWay(c) => PathOf(c)
  BY WayShown
<1> QED
  BY <1>1, <1>2, <1>3, BaseHolds, TreeHolds, PTL DEF Spec

\* ... and so of all sessions: with one worker always, as no cd then meets another's result.
THEOREM SessionsCorrect ==
    ASSUME OwnUsers
    PROVE  Spec /\ [][\A c \in Main : ~CdMeets(c)]_vars => []SessionInv
<1>1. BaseInv /\ TreeInv /\ PathInv /\ [Next]_vars /\ [\A c \in Main : ~CdMeets(c)]_vars => PathInv'
  <2> SUFFICES ASSUME BaseInv, TreeInv, PathInv, [Next]_vars, [\A c \in Main : ~CdMeets(c)]_vars
               PROVE  PathInv'
    OBVIOUS
  <2>1. CASE UNCHANGED vars
    BY <2>1, SMTT(30) DEF vars, PathInv, Way, Dirs, Uid
  <2>2. CASE Next /\ \A c \in Main : ~CdMeets(c)
    <3>1. PICK c \in Conns : Command(c) \/ Continue(c)
      BY <2>2 DEF Next
    <3>2. c \notin Main => ~CdMeets(c)
      BY DEF CdMeets, CdUp, CdDown
    <3> QED
      BY <2>2, <3>1, <3>2, AllPathsStep
  <2> QED
    BY <2>1, <2>2
<1>2. PathInv => PathAgrees
  BY WayIsPath, WayShown DEF PathAgrees
<1> QED
  BY <1>1, <1>2, PathInit, BaseHolds, TreeHolds, TypeCorrect, PTL DEF Spec, SessionInv
-----------------------------------------------------------------------------
(* EarlyServer *)

-----------------------------------------------------------------------------
(* The inductive invariant *)

Trains     == Typed \cup {TokenTrain, ExitTrain}
UserTypes  == /\ script \in [Sessions -> Seq(Typed)]
              /\ want \in [Conns -> Typed \cup {NULL}] /\ inbox \in [Conns -> Seq(Trains)]
              /\ dirs \in [Child -> SUBSET ClientType]
TableTypes == /\ fd \in [Conns -> Fds \cup {NULL}] /\ map \in [Fds -> Conns \cup {NULL}]
              /\ cutOff \subseteq Conns /\ met \in BOOLEAN /\ stray \in Conns \cup {NULL}
PoolTypes  == /\ queue \in Seq(Tasks) /\ Len(queue) <= QueueSize + 1
              /\ hands \in [Pool -> Tasks \cup {NULL}]
EarlyTypes == UserTypes /\ TableTypes /\ PoolTypes

\* The table is the inverse of the descriptors that are in use.
MapInv == /\ \A c \in Conns : fd[c] # NULL => map[fd[c]] = c
          /\ \A f \in Fds : map[f] # NULL => fd[map[f]] = f

\* A main connection has the descriptor of its tokens until it is closed, and sends no
\* token and no transfer.
NoTransfer(trains) == \A i \in DOMAIN trains : trains[i].cmd \notin Transfers \cup {"token"}
MainInv == \A c \in Main : (c \notin cutOff => fd[c] = MainFd[c[1]]) /\ NoTransfer(inbox[c])

InServer(c) == c \in Queued \cup Held

\* How far a transfer connection is: nothing is under way, or the token, or the command.
NothingSent(c) == inbox[c] = <<>> /\ (want[c] # NULL => ~InServer(c))
TokenSent(c)   == inbox[c] = <<TokenTrain>> /\ want[c] # NULL /\ c \notin live /\ ~InServer(c)
CommandSent(c) == /\ \E line \in Typed : line.cmd \in Transfers /\ inbox[c] = <<line>>
                  /\ want[c] = NULL /\ c \in live /\ ~InServer(c)
Stage(c)       == /\ NothingSent(c) \/ TokenSent(c) \/ CommandSent(c)
                  /\ want[c] # NULL => want[c].cmd \in Transfers
                  /\ c \in live => Known(c)
ChildInv       == \A c \in Child : Stage(c)

\* A connection has one task, whose descriptor is its own unless it was closed.
Once     == /\ \A i, j \in DOMAIN queue : queue[i].from = queue[j].from => i = j
            /\ \A i \in DOMAIN queue, w \in Pool : hands[w] # NULL => hands[w].from # queue[i].from
            /\ \A v, w \in Pool : hands[v] # NULL /\ hands[w] # NULL /\ hands[v].from = hands[w].from => v = w
TaskInv  == /\ Once
            /\ \A i \in DOMAIN queue : \/ fd[queue[i].from] = queue[i].fd
                                       \/ fd[queue[i].from] = NULL /\ queue[i].from \in cutOff
            /\ stray = NULL => \A w \in Pool : hands[w] # NULL => fd[hands[w].from] = hands[w].fd

\* The directory of a transfer from its token to the end of its task.
DirsInv == \A c \in Child \cap live : want[c] # NULL \/ inbox[c] # <<>> \/ InServer(c) => client[c] \in dirs[c]

LoopInv == EarlyTypes /\ MapInv /\ MainInv /\ ChildInv /\ TaskInv /\ ForItsSender /\ DirsInv

-----------------------------------------------------------------------------
(* Names and kinds *)

LEMMA Kinds ==
    /\ NULL \notin Fds /\ NULL \notin Typed /\ NULL \notin Tasks /\ NULL \notin Conns
    /\ Main \subseteq Conns /\ Child \subseteq Conns /\ Main \cap Child = {} /\ Conns = Main \cup Child
    /\ \A c \in Conns : MainOf(c) \in Main /\ c[1] \in Sessions
    /\ \A s \in Sessions : <<s, "main">> \in Main /\ <<s, "child">> \in Child
BY EarlyAssumption, ConnsFinite DEF Conns, Main, Child, MainOf

LEMMA TrainIs ==
    /\ TokenTrain.cmd = "token" /\ ExitTrain.cmd = "exit" /\ TokenTrain \in Trains /\ ExitTrain \in Trains
    /\ \A t \in Typed : t.cmd \notin {"token", "exit"} /\ t.name \in Names /\ t.md5 \in Md5s /\ t \in Trains
    /\ \A t \in Trains : t.cmd \notin {"token", "exit"} => t \in Typed
BY DEF TokenTrain, ExitTrain, Line, Trains, Typed

LEMMA TaskIs ==
    \A t \in Tasks : t.fd \in Fds /\ t.from \in Child /\ t.line \in Typed
BY DEF Tasks

\* Who is in the server depends on queue and hands only.
LEMMA InServerIs ==
    ASSUME NEW c
    PROVE  InServer(c) <=> \/ \E i \in DOMAIN queue : queue[i].from = c
                           \/ \E w \in Pool : hands[w] # NULL /\ hands[w].from = c
BY DEF InServer, Queued, Held

\* The first train of a connection, and the rest.
LEMMA HeadTail ==
    ASSUME UserTypes, NEW c \in Conns, inbox[c] # <<>>
    PROVE  /\ Head(inbox[c]) \in Trains /\ Tail(inbox[c]) \in Seq(Trains)
           /\ 1 \in DOMAIN inbox[c] /\ Head(inbox[c]) = inbox[c][1]
           /\ \A i \in DOMAIN Tail(inbox[c]) : i + 1 \in DOMAIN inbox[c] /\ Tail(inbox[c])[i] = inbox[c][i + 1]
<1>1. inbox[c] \in Seq(Trains)
  BY DEF UserTypes
<1> PICK s \in Seq(Trains) : s = inbox[c] /\ s # <<>>
  BY <1>1
<1>2. /\ Head(s) \in Trains /\ Tail(s) \in Seq(Trains) /\ 1 \in DOMAIN s /\ Head(s) = s[1]
      /\ \A i \in DOMAIN Tail(s) : i + 1 \in DOMAIN s /\ Tail(s)[i] = s[i + 1]
  OBVIOUS
<1> QED
  BY <1>2

\* What a train on a transfer connection tells of it.
LEMMA ChildTrain ==
    ASSUME LoopInv, NEW c \in Child, inbox[c] # <<>>
    PROVE  /\ Tail(inbox[c]) = <<>> /\ ~InServer(c)
           /\ \/ Head(inbox[c]) = TokenTrain /\ TokenSent(c)
              \/ Head(inbox[c]) \in Typed /\ Head(inbox[c]).cmd \in Transfers /\ CommandSent(c)
<1>1. TokenSent(c) \/ CommandSent(c)
  BY DEF LoopInv, ChildInv, Stage, NothingSent
<1>2. \A t : Head(<<t>>) = t /\ Tail(<<t>>) = <<>>
  OBVIOUS
<1>3. CASE TokenSent(c)
  BY <1>2, <1>3 DEF TokenSent
<1>4. CASE CommandSent(c)
  <2>1. PICK line \in Typed : line.cmd \in Transfers /\ inbox[c] = <<line>>
    BY <1>4 DEF CommandSent
  <2> QED
    BY <1>2, <1>4, <2>1 DEF CommandSent
<1> QED
  BY <1>1, <1>3, <1>4

\* A main connection gets no token and no transfer command, a transfer connection
\* nothing else.
LEMMA WhoSends ==
    ASSUME LoopInv, NEW c \in Conns, inbox[c] # <<>>
    PROVE  IF c \in Main THEN Head(inbox[c]).cmd \notin Transfers \cup {"token"}
                         ELSE Head(inbox[c]).cmd \in Transfers \cup {"token"}
<1>1. CASE c \in Main
  BY <1>1, HeadTail DEF LoopInv, MainInv, NoTransfer, EarlyTypes
<1>2. CASE c \in Child
  BY <1>2, ChildTrain, TrainIs, Kinds
<1> QED
  BY <1>1, <1>2, Kinds

-----------------------------------------------------------------------------
(* The handlers in the loop and in the pool *)

\* A step that does nothing to the table, and to the clients at most that it closes them.
Quiet == UNCHANGED <<vfs, auto_inc, client, op, sql_conn, placed>> /\ live' \subseteq live

\* A step of a command; met tells of those that begin beside another's result.
TableStep == \E c \in Conns : /\ Command(c) \/ Continue(c)
                              /\ c \in Main /\ Start(c) /\ OutOfSync => met'

\* A short command, from the train it came with to its last query.
MainMoves(c) ==
    /\ c \in Main /\ LoopInv
    /\ UNCHANGED <<loopVars, poolVars, userVars, stray, live>> /\ dirs' = SeenDirs
    /\ \A d \in Child : client'[d] = client[d]
    /\ met' \in BOOLEAN
    /\ inbox' = inbox \/ (inbox[c] # <<>> /\ inbox' = [inbox EXCEPT ![c] = Tail(@)])

ShortStep(c) == \/ DoCd(c) \/ DoLs(c) \/ DoMkdir(c) \/ DoRm(c) \/ DoRmdir(c) \/ DoPwd(c)
                \/ SqlDoCd(c) \/ SqlDoLs(c) \/ SqlDoRm(c) \/ SqlDoRmdir(c)

\* The handlers of short commands, first and later steps.
Begun(c, n) == \/ CdAtRoot(c) \/ CdToRoot(c) \/ CdUp(c) \/ CdDown(c, n)
               \/ Ls(c) \/ Mkdir(c, n) \/ Rm(c, n) \/ Rmdir(c, n)
GoneOn(c)   == \/ CdResult(c) \/ RmResult(c) \/ RmUpdate(c) \/ LsResult(c)
               \/ RmdirResult(c) \/ RmdirCheck(c) \/ RmdirContent(c) \/ RmdirDelete(c)

LEMMA MainHandler ==
    ASSUME BaseInv, NEW c \in Main, NEW n, Begun(c, n) \/ GoneOn(c)
    PROVE  live' = live /\ \A d \in Child : client'[d] = client[d]
<1>1. client \in [Conns -> ClientType] /\ {c} \cap Child = {} /\ \A d \in Child : d \in Conns /\ d # c
  BY Kinds DEF BaseInv, ClientInv
<1>2. ASSUME NEW what, Answer(c, what) PROVE live' = live
  BY <1>1, <1>2 DEF Answer
<1>3. live' = live
  <2>1. CASE CdAtRoot(c) \/ CdToRoot(c) \/ CdUp(c) \/ CdDown(c, n) \/ Ls(c)
    BY <1>2, <2>1 DEF CdAtRoot, CdToRoot, CdUp, CdDown, Ls, Select
  <2>2. CASE Mkdir(c, n) \/ Rm(c, n) \/ Rmdir(c, n)
    BY <1>2, <2>2 DEF Mkdir, Rm, Rmdir, Select
  <2>3. CASE GoneOn(c)
    BY <1>2, <2>3 DEF GoneOn, CdResult, RmResult, RmUpdate, LsResult, RmdirResult, RmdirCheck,
                      RmdirContent, RmdirDelete, Select, Free, FreeAndAnswer
  <2> QED
    BY <2>1, <2>2, <2>3 DEF Begun
<1>4. \A d \in Child : client'[d] = client[d]
  <2>1. CASE Begun(c, n)
    BY <1>1, <2>1 DEF Begun, CdAtRoot, CdToRoot, CdUp, CdDown, Ls, Mkdir, Rm, Rmdir
  <2>2. CASE GoneOn(c)
    BY <1>1, <2>2 DEF GoneOn, CdResult, RmResult, RmUpdate, LsResult, RmdirResult, RmdirCheck,
                      RmdirContent, RmdirDelete
  <2> QED
    BY <2>1, <2>2
<1> QED
  BY <1>3, <1>4

LEMMA LoopCommands ==
    ASSUME BaseInv, LoopInv, NEW c \in Conns, ShortStep(c), dirs' = SeenDirs
    PROVE  (Quiet \/ TableStep) /\ (met => met') /\ MainMoves(c)
<1>a. (\E cmd : Short(c, cmd)) \/ GoesOn(c)
  BY DEF ShortStep, DoCd, DoLs, DoMkdir, DoRm, DoRmdir, DoPwd, SqlDoCd, SqlDoLs, SqlDoRm, SqlDoRmdir
<1>b. /\ c \in Main
      /\ UNCHANGED <<loopVars, poolVars, userVars, stray>>
      /\ inbox' = inbox \/ (inbox[c] # <<>> /\ inbox' = [inbox EXCEPT ![c] = Tail(@)])
  BY <1>a DEF Short, GoesOn, RecvCmd
<1>c. met => met'
  BY <1>a DEF Short, GoesOn
<1>d. met' \in BOOLEAN
  BY <1>a DEF Short, GoesOn
<1>1. ASSUME NEW n \in Names, Begun(c, n), OutOfSync => met' PROVE TableStep /\ MainMoves(c)
  <2>1. live' = live /\ \A d \in Child : client'[d] = client[d]
    BY <1>b, <1>1, MainHandler
  <2>2. Command(c)
    BY <1>1 DEF Begun, Command
  <2> QED
    BY <1>b, <1>d, <1>1, <2>1, <2>2 DEF TableStep, MainMoves
<1>2. ASSUME GoneOn(c) PROVE TableStep /\ MainMoves(c)
  <2>1. live' = live /\ \A d \in Child : client'[d] = client[d]
    BY <1>b, <1>2, MainHandler
  <2>2. Continue(c)
    BY <1>2 DEF GoneOn, Continue
  <2>3. op[c].at # "idle"
    BY <1>2 DEF GoneOn, CdResult, RmResult, RmUpdate, LsResult, RmdirResult, RmdirCheck, RmdirContent,
                RmdirDelete
  <2>4. ~Start(c)
    BY <2>3, IdleOp DEF Start
  <2> QED
    BY <1>b, <1>d, <2>1, <2>2, <2>4 DEF TableStep, MainMoves
<1>3. ASSUME DoPwd(c) PROVE Quiet /\ MainMoves(c)
  <2>1. op[c] = Idle /\ op' = [op EXCEPT ![c] = Idle] /\ live' = live /\ UNCHANGED <<tableVars, client, sql_conn, placed>>
    BY <1>b, <1>3, Kinds DEF DoPwd, Short, RecvCmd, LoopFree, Answer
  <2>2. op' = op
    BY <2>1 DEF BaseInv, ConnType
  <2> QED
    BY <1>b, <1>d, <2>1, <2>2 DEF Quiet, MainMoves, tableVars
<1>4. CASE \/ DoCd(c) \/ DoLs(c) \/ DoMkdir(c) \/ DoRm(c) \/ DoRmdir(c)
  <2>1. OutOfSync => met'
    BY <1>4 DEF DoCd, DoLs, DoMkdir, DoRm, DoRmdir, Short
  <2>2. inbox[c] # <<>> /\ Head(inbox[c]).cmd \notin {"token", "exit"}
    BY <1>4 DEF DoCd, DoLs, DoMkdir, DoRm, DoRmdir, Short, RecvCmd
  <2>3. Name(c) \in Names
    BY <2>2, HeadTail, TrainIs DEF Name, LoopInv, EarlyTypes
  <2>4. Begun(c, Name(c))
    BY <1>4 DEF DoCd, DoLs, DoMkdir, DoRm, DoRmdir, Begun
  <2> QED
    BY <1>1, <1>b, <1>c, <2>1, <2>3, <2>4
<1>5. CASE SqlDoCd(c) \/ SqlDoLs(c) \/ SqlDoRm(c) \/ SqlDoRmdir(c)
  BY <1>2, <1>5, <1>b, <1>c DEF SqlDoCd, SqlDoLs, SqlDoRm, SqlDoRmdir, GoneOn
<1> QED
  BY <1>3, <1>4, <1>5, <1>b, <1>c DEF ShortStep

\* What a thread does for its task.
WorkerMoves(w) ==
    /\ w \in Pool /\ LoopInv /\ stray = NULL /\ hands[w] # NULL
    /\ UNCHANGED ByWorker /\ UNCHANGED client
    /\ \E c \in Child : c = hands[w].from /\ (live' = live \/ live' = live \ {c})
    /\ hands' = hands \/ hands' = [hands EXCEPT ![w].at = "run"]

PoolStep(w) == DoGets(w) \/ SqlDoGets(w) \/ DoPuts(w) \/ SqlIsFileExist(w) \/ SqlDoPuts(w) \/ SqlDoQuickPuts(w)

\* The handlers of transfers.
Transfer(c, n, m) == \/ Gets(c, n) \/ GetsResult(c) \/ Puts(c, n, m) \/ PutsResult(c) \/ PutsInsert(c)
                     \/ QuickPuts(c) \/ QuickResult(c) \/ QuickInsert(c)

LEMMA ChildHandler ==
    ASSUME NEW c \in Child, NEW n, NEW m, Transfer(c, n, m)
    PROVE  client' = client /\ (live' = live \/ live' = live \ {c})
<1>1. ASSUME NEW what, Answer(c, what) PROVE live' = live \ {c}
  BY <1>1 DEF Answer
<1>2. live' = live \/ live' = live \ {c}
  <2>1. CASE Gets(c, n) \/ GetsResult(c) \/ Puts(c, n, m) \/ PutsResult(c)
    BY <1>1, <2>1 DEF Gets, GetsResult, Puts, PutsResult, Select, Free, FreeAndAnswer, PutsUpload
  <2>2. CASE PutsInsert(c) \/ QuickPuts(c) \/ QuickResult(c) \/ QuickInsert(c)
    BY <1>1, <2>2 DEF PutsInsert, QuickPuts, QuickResult, QuickInsert, Select, Free, FreeAndAnswer
  <2> QED
    BY <2>1, <2>2 DEF Transfer
<1>3. client' = client
  BY DEF Transfer, Gets, GetsResult, Puts, PutsResult, PutsInsert, QuickPuts, QuickResult, QuickInsert
<1> QED
  BY <1>2, <1>3

LEMMA PoolCommands ==
    ASSUME LoopInv, NEW w \in Pool, PoolStep(w)
    PROVE  TableStep /\ met' = met /\ WorkerMoves(w)
<1>1. /\ stray = NULL /\ hands[w] # NULL /\ UNCHANGED ByWorker
      /\ hands' = hands \/ hands' = [hands EXCEPT ![w].at = "run"]
  BY DEF PoolStep, DoGets, SqlDoGets, DoPuts, SqlIsFileExist, SqlDoPuts, SqlDoQuickPuts, Begins, Runs
<1>2. met' = met
  BY <1>1 DEF ByWorker
<1>3. hands[w] \in Tasks
  BY <1>1 DEF LoopInv, EarlyTypes, PoolTypes
<1>4. PICK c : c = hands[w].from
  OBVIOUS
<1>5. /\ c \in Child /\ c \in Conns /\ c \notin Main
      /\ hands[w].line.name \in Names /\ hands[w].line.md5 \in Md5s /\ EmptyMd5 \in Md5s
  BY <1>3, <1>4, TaskIs, TrainIs, Kinds, EarlyAssumption
<1>6. \E n \in Names, m \in Md5s : Transfer(c, n, m)
  BY <1>4, <1>5
  DEF PoolStep, DoGets, SqlDoGets, DoPuts, SqlIsFileExist, SqlDoPuts, SqlDoQuickPuts, Transfer
<1>7. client' = client /\ (live' = live \/ live' = live \ {c})
  BY <1>5, <1>6, ChildHandler
<1>8. Command(c) \/ Continue(c)
  BY <1>6 DEF Transfer, Command, Continue
<1>9. TableStep
  BY <1>5, <1>8 DEF TableStep
<1>10. WorkerMoves(w)
  BY <1>1, <1>4, <1>5, <1>7 DEF WorkerMoves
<1> QED
  BY <1>2, <1>9, <1>10

LEMMA TablePart ==
    ASSUME BaseInv, LoopInv, EarlyNext
    PROVE  (Quiet \/ TableStep) /\ (met => met')
<1>1. CASE UNCHANGED <<vars, met>>
  BY <1>1 DEF Quiet, vars
<1>2. ASSUME NEW c \in Conns, Drop(c), met' = met PROVE Quiet
  BY <1>2 DEF Quiet, Drop
<1>3. ASSUME NEW s \in Sessions, Type(s) \/ Process(s) \/ Leave(s) PROVE UNCHANGED <<vars, met>>
  BY <1>3 DEF Type, Process, SendCommand, SendMd5, Leave
<1>4. ASSUME NEW c \in Conns, CmdAnalyse(c) PROVE (Quiet \/ TableStep) /\ (met => met')
  <2>1. CASE ShortStep(c)
    BY <1>4, <2>1, LoopCommands DEF CmdAnalyse
  <2>2. CASE DoToken(c)
    <3>1. met' = met
      BY <2>2 DEF DoToken
    <3>2. CASE UNCHANGED vars
      BY <1>1, <3>1, <3>2
    <3>3. CASE Token(c)
      <4>1. c \notin Main /\ Command(c)
        BY <3>3, Kinds DEF Token, Command
      <4> QED
        BY <3>1, <4>1 DEF TableStep
    <3> QED
      BY <2>2, <3>2, <3>3 DEF DoToken
  <2>3. CASE TokenFailed(c)
    BY <1>2, <2>3 DEF TokenFailed
  <2> QED
    BY <1>4, <2>1, <2>2, <2>3 DEF CmdAnalyse, ShortStep
<1>5. ASSUME NEW c \in Conns, Sql(c) PROVE (Quiet \/ TableStep) /\ (met => met')
  <2>1. ShortStep(c) /\ dirs' = SeenDirs
    BY <1>5 DEF Sql, ShortStep
  <2> QED
    BY <2>1, LoopCommands
<1>6. ASSUME NEW c \in Conns, Accept(c) \/ Distribute(c) PROVE UNCHANGED <<vars, met>>
  BY <1>6 DEF Accept, Distribute
<1>7. ASSUME NEW c \in Conns, DoExit(c) \/ Disconnect(c) \/ Evict(c) PROVE Drop(c) /\ met' = met
  BY <1>7 DEF DoExit, Disconnect, Evict
<1>8. ASSUME NEW w \in Pool, Worker(w) PROVE (Quiet \/ TableStep) /\ (met => met')
  <2>1. CASE PoolStep(w)
    BY <2>1, PoolCommands
  <2>2. CASE Pop(w)
    BY <1>1, <2>2 DEF Pop
  <2>3. CASE Finish(w)
    BY <2>3 DEF Finish, Drop, Quiet
  <2> QED
    BY <1>8, <2>1, <2>2, <2>3 DEF Worker, PoolStep
<1> QED
  BY <1>1, <1>2, <1>3, <1>4, <1>5, <1>6, <1>7, <1>8 DEF EarlyNext, EventLoop

-----------------------------------------------------------------------------
(* What a step leaves alone *)

LEMMA TrainsStep ==
    ASSUME NEW s \in Seq(Trains), NoTransfer(s)
    PROVE  /\ s # <<>> => (NoTransfer(Tail(s)) /\ Tail(s) \in Seq(Trains))
           /\ \A t \in Trains : t.cmd \notin Transfers \cup {"token"} =>
                 (NoTransfer(Append(s, t)) /\ Append(s, t) \in Seq(Trains))
<1>1. ASSUME s # <<>> PROVE NoTransfer(Tail(s)) /\ Tail(s) \in Seq(Trains)
  <2>1. /\ Tail(s) \in Seq(Trains)
        /\ \A i \in DOMAIN Tail(s) : i + 1 \in DOMAIN s /\ Tail(s)[i] = s[i + 1]
    BY <1>1
  <2> QED
    BY <2>1 DEF NoTransfer
<1>2. ASSUME NEW t \in Trains, t.cmd \notin Transfers \cup {"token"}
      PROVE  NoTransfer(Append(s, t)) /\ Append(s, t) \in Seq(Trains)
  <2>1. /\ Append(s, t) \in Seq(Trains)
        /\ \A i \in DOMAIN Append(s, t) : (i \in DOMAIN s /\ Append(s, t)[i] = s[i]) \/ Append(s, t)[i] = t
    OBVIOUS
  <2> QED
    BY <1>2, <2>1 DEF NoTransfer
<1> QED
  BY <1>1, <1>2

\* A transfer connection that a step leaves alone.
LEMMA StageFrame ==
    ASSUME NEW c, Stage(c), inbox'[c] = inbox[c], want'[c] = want[c], InServer(c)' => InServer(c),
           c \in live' <=> c \in live, fd'[c] = fd[c]
    PROVE  Stage(c)'
BY DEF Stage, NothingSent, TokenSent, CommandSent, Known

LEMMA SameTasks ==
    ASSUME UNCHANGED poolVars
    PROVE  \A c : InServer(c)' <=> InServer(c)
BY DEF poolVars, InServer, Queued, Held

\* A step that leaves the client table and the tasks alone.
LEMMA LoopFrame ==
    ASSUME LoopInv, UNCHANGED <<loopVars, poolVars, stray>>, met' \in BOOLEAN
    PROVE  /\ TableTypes' /\ PoolTypes' /\ MapInv' /\ TaskInv' /\ ForItsSender'
           /\ \A c : InServer(c)' <=> InServer(c)
<1>1. fd' = fd /\ map' = map /\ cutOff' = cutOff /\ queue' = queue /\ hands' = hands /\ stray' = stray
  BY DEF loopVars, poolVars
<1>2. TableTypes' /\ PoolTypes'
  <2>1. TableTypes /\ PoolTypes
    BY DEF LoopInv, EarlyTypes
  <2>2. TableTypes'
    BY <1>1, <2>1 DEF TableTypes
  <2>3. PoolTypes'
    BY <1>1, <2>1 DEF PoolTypes
  <2> QED
    BY <2>2, <2>3
<1>3. MapInv'
  BY <1>1 DEF LoopInv, MapInv
<1>4. TaskInv'
  BY <1>1 DEF LoopInv, TaskInv, Once
<1>5. ForItsSender'
  BY <1>1 DEF LoopInv, ForItsSender
<1> QED
  BY <1>2, <1>3, <1>4, <1>5, SameTasks

-----------------------------------------------------------------------------
(* The users *)

LEMMA TypeStep ==
    ASSUME BaseInv, LoopInv, NEW s \in Sessions, Type(s)
    PROVE  LoopInv'
<1>1. /\ UNCHANGED <<loopVars, poolVars, stray>> /\ live' = live /\ client' = client
      /\ fd' = fd /\ cutOff' = cutOff
  BY DEF Type, vars, loopVars
<1>2. met' \in BOOLEAN
  BY DEF Type, LoopInv, EarlyTypes, TableTypes
<1> PICK c \in Child, m \in Main : c = <<s, "child">> /\ m = <<s, "main">>
  BY Kinds
<1> PICK line : line = Head(script[s])
  OBVIOUS
<1>3. /\ line \in Typed /\ line \in Trains /\ line.cmd \notin {"token", "exit"}
      /\ script' \in [Sessions -> Seq(Typed)]
  <2>1. script \in [Sessions -> Seq(Typed)] /\ script[s] \in Seq(Typed) /\ script[s] # <<>>
    BY DEF Type, LoopInv, EarlyTypes, UserTypes
  <2>2. line \in Typed /\ Tail(script[s]) \in Seq(Typed)
    BY <2>1
  <2> QED
    BY <2>1, <2>2, TrainIs DEF Type
<1>4. /\ want \in [Conns -> Typed \cup {NULL}] /\ inbox \in [Conns -> Seq(Trains)]
      /\ dirs \in [Child -> SUBSET ClientType] /\ client[MainOf(c)] \in ClientType
      /\ c \in Conns /\ m \in Conns /\ c \notin Main /\ m \notin Child
      /\ TokenTrain \in Trains
  BY Kinds, TrainIs DEF LoopInv, EarlyTypes, UserTypes, BaseInv, ClientInv
<1>5. CASE line.cmd \in Transfers
  <2>1. /\ fd[c] = NULL /\ want[c] = NULL /\ inbox[c] = <<>> /\ ~InServer(c)
        /\ want' = [want EXCEPT ![c] = line] /\ inbox' = [inbox EXCEPT ![c] = <<TokenTrain>>]
        /\ dirs' = [dirs EXCEPT ![c] = {client[MainOf(c)]}]
    BY <1>5 DEF Type, Known, InServer
  <2>2. UserTypes'
    <3>1. <<TokenTrain>> \in Seq(Trains)
      BY <1>4
    <3> QED
      BY <1>3, <1>4, <2>1, <3>1 DEF UserTypes
  <2>3. MainInv'
    BY <1>1, <1>4, <2>1, Kinds DEF LoopInv, MainInv
  <2>4. ChildInv'
    <3> SUFFICES ASSUME NEW d \in Child PROVE Stage(d)'
      BY DEF ChildInv
    <3>1. CASE d = c
      <4>1. c \notin live
        BY <2>1 DEF LoopInv, ChildInv, Stage, Known
      <4>2. want'[c] = line /\ inbox'[c] = <<TokenTrain>> /\ line # NULL
        BY <1>3, <1>4, <2>1, Kinds
      <4> QED
        BY <1>1, <1>2, <1>5, <2>1, <3>1, <4>1, <4>2, LoopFrame DEF Stage, TokenSent
    <3>2. CASE d # c
      <4>1. inbox'[d] = inbox[d] /\ want'[d] = want[d] /\ Stage(d) /\ (InServer(d)' => InServer(d))
        BY <1>1, <1>2, <1>4, <2>1, <3>2, LoopFrame, Kinds DEF LoopInv, ChildInv
      <4> QED
        BY <1>1, <4>1, StageFrame
    <3> QED
      BY <3>1, <3>2
  <2>5. DirsInv'
    BY <1>1, <1>2, <1>4, <2>1, LoopFrame, Kinds DEF LoopInv, DirsInv, ChildInv, Stage, Known
  <2> QED
    BY <1>1, <1>2, <2>2, <2>3, <2>4, <2>5, LoopFrame DEF LoopInv, EarlyTypes
<1>6. CASE line.cmd \notin Transfers
  <2>1. inbox' = [inbox EXCEPT ![m] = Append(@, line)] /\ want' = want /\ dirs' = dirs
    BY <1>6 DEF Type
  <2>2. NoTransfer(inbox[m]) /\ inbox[m] \in Seq(Trains)
    BY <1>4 DEF LoopInv, MainInv
  <2>3. NoTransfer(Append(inbox[m], line)) /\ Append(inbox[m], line) \in Seq(Trains)
    BY <1>3, <1>6, <2>2, TrainsStep
  <2>4. UserTypes'
    BY <1>3, <1>4, <2>1, <2>3 DEF UserTypes
  <2>5. MainInv'
    BY <1>1, <1>4, <2>1, <2>3, Kinds DEF LoopInv, MainInv
  <2>6. ChildInv'
    BY <1>1, <1>2, <1>4, <2>1, LoopFrame, StageFrame, Kinds DEF LoopInv, ChildInv
  <2>7. DirsInv'
    BY <1>1, <1>2, <1>4, <2>1, LoopFrame, Kinds DEF LoopInv, DirsInv
  <2> QED
    BY <1>1, <1>2, <2>4, <2>5, <2>6, <2>7, LoopFrame DEF LoopInv, EarlyTypes
<1> QED
  BY <1>5, <1>6

LEMMA SendCommandStep ==
    ASSUME BaseInv, LoopInv, NEW s \in Sessions, SendCommand(<<s, "child">>)
    PROVE  LoopInv'
<1> PICK c \in Child : c = <<s, "child">>
  BY Kinds
<1>1. /\ UNCHANGED <<loopVars, poolVars, stray>> /\ live' = live /\ client' = client
      /\ fd' = fd /\ cutOff' = cutOff /\ script' = script /\ dirs' = dirs
      /\ c \in live /\ fd[c] # NULL /\ want[c] # NULL
      /\ inbox' = [inbox EXCEPT ![c] = Append(@, want[c])] /\ want' = [want EXCEPT ![c] = NULL]
  BY DEF SendCommand, vars, loopVars, Known
<1>2. met' \in BOOLEAN
  BY DEF SendCommand, LoopInv, EarlyTypes, TableTypes
<1>3. /\ want \in [Conns -> Typed \cup {NULL}] /\ inbox \in [Conns -> Seq(Trains)]
      /\ script \in [Sessions -> Seq(Typed)] /\ dirs \in [Child -> SUBSET ClientType]
      /\ c \in Conns /\ c \notin Main /\ want[c] \in Typed /\ want[c] \in Trains
  BY <1>1, Kinds, TrainIs DEF LoopInv, EarlyTypes, UserTypes
<1>4. inbox[c] = <<>> /\ ~InServer(c) /\ want[c].cmd \in Transfers
  BY <1>1 DEF LoopInv, ChildInv, Stage, NothingSent, TokenSent, CommandSent
<1>5. inbox' = [inbox EXCEPT ![c] = <<want[c]>>] /\ <<want[c]>> \in Seq(Trains)
  BY <1>1, <1>3, <1>4
<1>6. UserTypes'
  BY <1>1, <1>3, <1>5 DEF UserTypes
<1>7. MainInv'
  BY <1>1, <1>3, <1>5, Kinds DEF LoopInv, MainInv
<1>8. ChildInv'
  <2> SUFFICES ASSUME NEW d \in Child PROVE Stage(d)'
    BY DEF ChildInv
  <2>1. CASE d = c
    <3>1. want'[c] = NULL /\ inbox'[c] = <<want[c]>>
      BY <1>1, <1>3, <1>5
    <3> QED
      BY <1>1, <1>2, <1>3, <1>4, <2>1, <3>1, LoopFrame DEF Stage, CommandSent, Known
  <2>2. CASE d # c
    <3>1. inbox'[d] = inbox[d] /\ want'[d] = want[d] /\ Stage(d) /\ (InServer(d)' => InServer(d))
      BY <1>1, <1>2, <1>3, <1>5, <2>2, LoopFrame, Kinds DEF LoopInv, ChildInv
    <3> QED
      BY <1>1, <3>1, StageFrame
  <2> QED
    BY <2>1, <2>2
<1>9. DirsInv'
  BY <1>1, <1>2, <1>3, <1>5, LoopFrame, Kinds DEF LoopInv, DirsInv
<1> QED
  BY <1>1, <1>2, <1>6, <1>7, <1>8, <1>9, LoopFrame DEF LoopInv, EarlyTypes

LEMMA SendMd5Step ==
    ASSUME BaseInv, LoopInv, NEW s \in Sessions, SendMd5(<<s, "child">>)
    PROVE  LoopInv'
<1>1. /\ UNCHANGED <<loopVars, poolVars, stray>> /\ live' = live /\ client' = client
      /\ fd' = fd /\ cutOff' = cutOff /\ script' = script /\ dirs' = dirs
      /\ inbox' = inbox /\ want' = want
  BY DEF SendMd5, vars, loopVars
<1>2. met' \in BOOLEAN
  BY DEF SendMd5, LoopInv, EarlyTypes, TableTypes
<1>3. UserTypes'
  BY <1>1 DEF LoopInv, EarlyTypes, UserTypes
<1>4. MainInv'
  BY <1>1 DEF LoopInv, MainInv
<1>5. ChildInv'
  BY <1>1, <1>2, LoopFrame, StageFrame DEF LoopInv, ChildInv
<1>6. DirsInv'
  BY <1>1, <1>2, LoopFrame DEF LoopInv, DirsInv
<1> QED
  BY <1>1, <1>2, <1>3, <1>4, <1>5, <1>6, LoopFrame DEF LoopInv, EarlyTypes

\* A step that changes only what has been sent on a main connection.
LEMMA MainSends ==
    ASSUME LoopInv, UNCHANGED <<loopVars, poolVars, stray, live, client, script, want>>, met' \in BOOLEAN,
           dirs' \in [Child -> SUBSET ClientType], \A d \in Child \cap live : dirs'[d] = dirs[d],
           NEW m \in Main, NEW trains \in Seq(Trains), NoTransfer(trains),
           inbox' = [inbox EXCEPT ![m] = trains]
    PROVE  LoopInv'
<1>1. fd' = fd /\ cutOff' = cutOff /\ live' = live
  BY DEF loopVars
<1>2. inbox \in [Conns -> Seq(Trains)] /\ m \in Conns /\ m \notin Child
  BY Kinds DEF LoopInv, EarlyTypes, UserTypes
<1>3. UserTypes'
  BY <1>2 DEF LoopInv, EarlyTypes, UserTypes
<1>4. MainInv'
  BY <1>1, <1>2, Kinds DEF LoopInv, MainInv
<1>5. \A d \in Child : inbox'[d] = inbox[d] /\ want'[d] = want[d] /\ (InServer(d)' => InServer(d))
  BY <1>2, LoopFrame, Kinds
<1>6. ChildInv'
  BY <1>1, <1>5, StageFrame DEF LoopInv, ChildInv
<1>7. DirsInv'
  BY <1>1, <1>5 DEF LoopInv, DirsInv
<1> QED
  BY <1>3, <1>4, <1>6, <1>7, LoopFrame DEF LoopInv, EarlyTypes

LEMMA LeaveStep ==
    ASSUME BaseInv, LoopInv, NEW s \in Sessions, Leave(s)
    PROVE  LoopInv'
<1> PICK m \in Main : m = <<s, "main">>
  BY Kinds
<1>1. UNCHANGED <<loopVars, poolVars, stray, live, client, script, want>> /\ dirs' = dirs /\ m \in Conns
  BY Kinds DEF Leave, vars
<1>2. met' \in BOOLEAN
  BY DEF Leave, LoopInv, EarlyTypes, TableTypes
<1>3. /\ inbox \in [Conns -> Seq(Trains)] /\ dirs' \in [Child -> SUBSET ClientType]
      /\ inbox[m] \in Seq(Trains) /\ NoTransfer(inbox[m])
  BY <1>1 DEF LoopInv, EarlyTypes, UserTypes, MainInv
<1>4. NoTransfer(Append(inbox[m], ExitTrain)) /\ Append(inbox[m], ExitTrain) \in Seq(Trains)
  BY <1>3, TrainsStep, TrainIs DEF Transfers
<1>5. \/ inbox' = [inbox EXCEPT ![m] = inbox[m]]
      \/ inbox' = [inbox EXCEPT ![m] = Append(inbox[m], ExitTrain)]
  BY <1>3 DEF Leave
<1>6. PICK trains \in Seq(Trains) : NoTransfer(trains) /\ inbox' = [inbox EXCEPT ![m] = trains]
  BY <1>3, <1>4, <1>5
<1>7. \A d \in Child \cap live : dirs'[d] = dirs[d]
  BY <1>1
<1> QED
  BY <1>1, <1>2, <1>3, <1>6, <1>7, MainSends

-----------------------------------------------------------------------------
(* The event loop *)

LEMMA AcceptStep ==
    ASSUME BaseInv, LoopInv, NEW c \in Conns, Accept(c)
    PROVE  LoopInv'
<1> PICK f : f = Min(Free0)
  OBVIOUS
<1>1. /\ c \in Child /\ fd[c] = NULL /\ inbox[c] # <<>>
      /\ fd' = [fd EXCEPT ![c] = f] /\ map' = [map EXCEPT ![f] = c]
      /\ UNCHANGED <<live, client, queue, hands, script, want, inbox, cutOff, stray, dirs>>
  BY DEF Accept, vars, poolVars, userVars, Known
<1>2. f \in Fds /\ \A d \in Conns : fd[d] # f
  <2>1. Free0 \subseteq Nat /\ Free0 # {}
    BY EarlyAssumption DEF Accept, Free0
  <2>2. \E k \in Free0 : \A j \in Free0 : k <= j
    BY <2>1, LeastNumber
  <2>3. f \in Free0
    BY <2>2 DEF Min
  <2> QED
    BY <2>3 DEF Free0
<1>3. fd \in [Conns -> Fds \cup {NULL}] /\ map \in [Fds -> Conns \cup {NULL}] /\ f # NULL
  BY <1>2, Kinds DEF LoopInv, EarlyTypes, TableTypes
<1>4. EarlyTypes'
  <2>1. UserTypes'
    BY <1>1 DEF LoopInv, EarlyTypes, UserTypes
  <2>2. fd' \in [Conns -> Fds \cup {NULL}] /\ map' \in [Fds -> Conns \cup {NULL}]
    BY <1>1, <1>2, <1>3
  <2>3. met' = met
    BY DEF Accept
  <2>4. TableTypes'
    BY <1>1, <2>2, <2>3 DEF LoopInv, EarlyTypes, TableTypes
  <2>5. PoolTypes'
    BY <1>1 DEF LoopInv, EarlyTypes, PoolTypes
  <2> QED
    BY <2>1, <2>4, <2>5 DEF EarlyTypes
<1>5. MapInv'
  <2>1. MapInv
    BY DEF LoopInv
  <2>2. \A d \in Conns : fd'[d] # NULL => map'[fd'[d]] = d
    BY <1>1, <1>2, <1>3, <2>1 DEF MapInv
  <2>3. ASSUME NEW g \in Fds, map'[g] # NULL PROVE fd'[map'[g]] = g
    <3>1. CASE g = f
      BY <1>1, <1>2, <1>3, <3>1
    <3>2. CASE g # f
      <4>1. map'[g] = map[g] /\ map[g] \in Conns /\ fd[map[g]] = g
        BY <1>1, <1>3, <2>1, <2>3, <3>2 DEF MapInv
      <4> QED
        BY <1>1, <1>3, <4>1, Kinds
    <3> QED
      BY <3>1, <3>2
  <2> QED
    BY <2>2, <2>3 DEF MapInv
<1>6. MainInv'
  BY <1>1, <1>3, Kinds DEF LoopInv, MainInv
<1>7. \A d : InServer(d)' <=> InServer(d)
  BY <1>1, SameTasks DEF poolVars
<1>8. ChildInv'
  <2> SUFFICES ASSUME NEW d \in Child PROVE Stage(d)'
    BY DEF ChildInv
  <2>1. Known(d) => Known(d)'
    BY <1>1, <1>3, Kinds DEF Known
  <2> QED
    BY <1>1, <1>7, <2>1 DEF LoopInv, ChildInv, Stage, NothingSent, TokenSent, CommandSent
<1>9. TaskInv'
  <2>1. ~InServer(c)
    BY <1>1, ChildTrain
  <2>2. /\ \A i \in DOMAIN queue : queue[i].from # c /\ queue[i].from \in Conns
        /\ \A w \in Pool : hands[w] # NULL => hands[w].from # c /\ hands[w].from \in Conns
    BY <2>1, InServerIs, TaskIs, Kinds DEF LoopInv, EarlyTypes, PoolTypes
  <2>3. Once'
    BY <1>1 DEF LoopInv, TaskInv, Once
  <2>4. \A d \in Conns : d # c => fd'[d] = fd[d]
    BY <1>1, <1>3
  <2>5. \A i \in DOMAIN queue' : \/ fd'[queue'[i].from] = queue'[i].fd
                                 \/ fd'[queue'[i].from] = NULL /\ queue'[i].from \in cutOff'
    BY <1>1, <2>2, <2>4 DEF LoopInv, TaskInv
  <2>6. stray' = NULL => \A w \in Pool : hands'[w] # NULL => fd'[hands'[w].from] = hands'[w].fd
    BY <1>1, <2>2, <2>4 DEF LoopInv, TaskInv
  <2> QED
    BY <2>3, <2>5, <2>6 DEF TaskInv
<1>10. ForItsSender' /\ DirsInv'
  BY <1>1, <1>7 DEF LoopInv, ForItsSender, DirsInv
<1> QED
  BY <1>4, <1>5, <1>6, <1>8, <1>9, <1>10 DEF LoopInv

\* The directories of the clients whose token is on its way are those of the session now.
LEMMA SeenTypes ==
    ASSUME LoopInv, BaseInv', dirs' = SeenDirs
    PROVE  dirs' \in [Child -> SUBSET ClientType] /\ \A d \in Child \cap live : dirs'[d] = dirs[d]
<1>1. dirs \in [Child -> SUBSET ClientType] /\ \A d \in Child : client'[MainOf(d)] \in ClientType
  BY Kinds DEF LoopInv, EarlyTypes, UserTypes, BaseInv, ClientInv
<1> QED
  BY <1>1 DEF SeenDirs

LEMMA MainMovesStep ==
    ASSUME BaseInv', LoopInv, NEW c \in Conns, MainMoves(c)
    PROVE  LoopInv'
<1>1. /\ c \in Main /\ UNCHANGED <<loopVars, poolVars, userVars, stray, live>> /\ dirs' = SeenDirs
      /\ \A d \in Child : client'[d] = client[d]
      /\ met' \in BOOLEAN
      /\ fd' = fd /\ cutOff' = cutOff /\ script' = script /\ want' = want /\ live' = live
  BY DEF MainMoves, userVars, loopVars
<1>2. dirs' \in [Child -> SUBSET ClientType] /\ \A d \in Child \cap live : dirs'[d] = dirs[d]
  BY <1>1, SeenTypes
<1>3. inbox \in [Conns -> Seq(Trains)] /\ inbox[c] \in Seq(Trains) /\ NoTransfer(inbox[c])
      /\ c \notin Child
  BY <1>1, Kinds DEF LoopInv, EarlyTypes, UserTypes, MainInv
<1>4. PICK trains \in Seq(Trains) : NoTransfer(trains) /\ inbox' = [inbox EXCEPT ![c] = trains]
  <2>1. CASE inbox' = inbox
    BY <1>3, <2>1
  <2>2. CASE inbox[c] # <<>> /\ inbox' = [inbox EXCEPT ![c] = Tail(@)]
    BY <1>3, <2>2, TrainsStep
  <2> QED
    BY <2>1, <2>2 DEF MainMoves
<1>5. UserTypes'
  BY <1>1, <1>2, <1>3, <1>4 DEF LoopInv, EarlyTypes, UserTypes
<1>6. MainInv'
  BY <1>1, <1>3, <1>4, Kinds DEF LoopInv, MainInv
<1>7. \A d \in Child : inbox'[d] = inbox[d] /\ (InServer(d)' <=> InServer(d))
  BY <1>1, <1>3, <1>4, LoopFrame, Kinds
<1>8. ChildInv'
  BY <1>1, <1>7, StageFrame DEF LoopInv, ChildInv
<1>9. DirsInv'
  BY <1>1, <1>2, <1>7 DEF LoopInv, DirsInv
<1> QED
  BY <1>1, <1>5, <1>6, <1>8, <1>9, LoopFrame DEF LoopInv, EarlyTypes

LEMMA DoTokenStep ==
    ASSUME BaseInv, BaseInv', LoopInv, NEW c \in Conns, DoToken(c), dirs' = SeenDirs
    PROVE  LoopInv'
<1>1. /\ inbox[c] # <<>> /\ Head(inbox[c]).cmd = "token" /\ inbox' = [inbox EXCEPT ![c] = Tail(@)]
      /\ UNCHANGED <<loopVars, poolVars, userVars, met>> /\ stray = NULL
      /\ fd' = fd /\ cutOff' = cutOff /\ map' = map
      /\ script' = script /\ want' = want /\ queue' = queue /\ hands' = hands
  BY DEF DoToken, RecvCmd, LoopFree, userVars, loopVars, poolVars
<1>2. c \in Child /\ c \notin Main
  BY <1>1, WhoSends, Kinds
<1>3. Tail(inbox[c]) = <<>> /\ TokenSent(c)
  BY <1>1, <1>2, ChildTrain DEF Transfers
<1>4. inbox \in [Conns -> Seq(Trains)] /\ <<>> \in Seq(Trains)
  BY DEF LoopInv, EarlyTypes, UserTypes
<1>5. inbox' = [inbox EXCEPT ![c] = <<>>]
  BY <1>1, <1>3
<1>6. dirs' \in [Child -> SUBSET ClientType] /\ \A d \in Child \cap live : dirs'[d] = dirs[d]
  BY SeenTypes
<1>7. \A d : InServer(d)' <=> InServer(d)
  BY <1>1, SameTasks
<1>8. UserTypes'
  BY <1>1, <1>4, <1>5, <1>6 DEF LoopInv, EarlyTypes, UserTypes
<1>9. MainInv'
  BY <1>1, <1>2, <1>4, <1>5, Kinds DEF LoopInv, MainInv
<1>10. CASE map[MainFd[c[1]]] = MainOf(c)
  <2>1. Token(c) /\ stray' = stray
    BY <1>10 DEF DoToken
  <2>2. /\ client' = [client EXCEPT ![c] = client[MainOf(c)]] /\ live' = live \cup {c}
        /\ client \in [Conns -> ClientType]
    BY <2>1 DEF Token, BaseInv, ClientInv
  <2>3. ChildInv'
    <3> SUFFICES ASSUME NEW d \in Child PROVE Stage(d)'
      BY DEF ChildInv
    <3>1. CASE d = c
      <4>1. Known(c) /\ inbox'[c] = <<>> /\ ~InServer(c) /\ want[c].cmd \in Transfers
        BY <1>2, <1>3, <1>4, <1>5 DEF DoToken, RecvCmd, TokenSent, LoopInv, ChildInv, Stage
      <4> QED
        BY <1>1, <1>7, <3>1, <4>1 DEF Stage, NothingSent, Known
    <3>2. CASE d # c
      <4>1. inbox'[d] = inbox[d] /\ Stage(d) /\ (d \in live' <=> d \in live)
        BY <1>4, <1>5, <2>2, <3>2, Kinds DEF LoopInv, ChildInv
      <4> QED
        BY <1>1, <1>7, <4>1, StageFrame
    <3> QED
      BY <3>1, <3>2
  <2>4. DirsInv'
    <3> SUFFICES ASSUME NEW d \in Child, d \in live', want'[d] # NULL \/ inbox'[d] # <<>> \/ InServer(d)'
                 PROVE  client'[d] \in dirs'[d]
      BY DEF DirsInv
    <3>1. CASE d = c
      <4>1. c \notin live /\ want[c] # NULL /\ MainOf(c) \in Conns /\ MainOf(c) # c
        BY <1>2, <1>3, Kinds DEF TokenSent
      <4>2. client'[c] = client[MainOf(c)] /\ client'[MainOf(c)] = client[MainOf(c)]
        BY <2>2, <4>1
      <4>3. dirs'[c] = dirs[c] \cup {client'[MainOf(c)]}
        BY <1>2, <4>1 DEF SeenDirs
      <4> QED
        BY <3>1, <4>2, <4>3
    <3>2. CASE d # c
      <4>1. inbox'[d] = inbox[d] /\ d \in live /\ client'[d] = client[d]
        BY <1>4, <1>5, <2>2, <3>2, Kinds
      <4> QED
        BY <1>1, <1>6, <1>7, <4>1 DEF LoopInv, DirsInv
    <3> QED
      BY <3>1, <3>2
  <2>5. met' \in BOOLEAN
    BY <1>1 DEF LoopInv, EarlyTypes, TableTypes
  <2> QED
    BY <1>1, <1>8, <1>9, <2>1, <2>3, <2>4, <2>5, LoopFrame DEF LoopInv, EarlyTypes
<1>11. CASE map[MainFd[c[1]]] # MainOf(c)
  <2>1. stray' = c /\ live' = live /\ client' = client
    BY <1>11 DEF DoToken, vars
  <2>2. c # NULL
    BY Kinds
  <2>3. TableTypes'
    <3>1. met' = met
      BY <1>1
    <3> QED
      BY <1>1, <2>1, <3>1 DEF LoopInv, EarlyTypes, TableTypes
  <2>4. PoolTypes'
    BY <1>1 DEF LoopInv, EarlyTypes, PoolTypes
  <2>5. MapInv'
    BY <1>1 DEF LoopInv, MapInv
  <2>6. ChildInv'
    <3> SUFFICES ASSUME NEW d \in Child PROVE Stage(d)'
      BY DEF ChildInv
    <3>1. CASE d = c
      <4>1. inbox'[c] = <<>> /\ ~InServer(c) /\ want[c].cmd \in Transfers /\ c \notin live
        BY <1>2, <1>3, <1>4, <1>5 DEF TokenSent, LoopInv, ChildInv, Stage
      <4> QED
        BY <1>1, <1>7, <2>1, <3>1, <4>1 DEF Stage, NothingSent
    <3>2. CASE d # c
      <4>1. inbox'[d] = inbox[d] /\ Stage(d) /\ (d \in live' <=> d \in live)
        BY <1>4, <1>5, <2>1, <3>2, Kinds DEF LoopInv, ChildInv
      <4> QED
        BY <1>1, <1>7, <4>1, StageFrame
    <3> QED
      BY <3>1, <3>2
  <2>7. TaskInv'
    BY <1>1, <2>1, <2>2 DEF LoopInv, TaskInv, Once
  <2>8. MainOf(c) \in cutOff
    <3>1. MainOf(c) \in Main /\ MainOf(c)[1] = c[1] /\ c[1] \in Sessions
      BY Kinds DEF MainOf
    <3>2. MainFd[c[1]] \in Fds
      BY <3>1, EarlyAssumption
    <3>3. SUFFICES ASSUME MainOf(c) \notin cutOff PROVE FALSE
      OBVIOUS
    <3>4. fd[MainOf(c)] = MainFd[c[1]] /\ MainFd[c[1]] # NULL
      BY <3>1, <3>2, <3>3, Kinds DEF LoopInv, MainInv
    <3> QED
      BY <1>11, <3>1, <3>4, Kinds DEF LoopInv, MapInv
  <2>9. ForItsSender'
    BY <1>1, <2>1, <2>8 DEF ForItsSender
  <2>10. DirsInv'
    <3>1. \A d \in Child : d # c => inbox'[d] = inbox[d]
      BY <1>4, <1>5, Kinds
    <3> QED
      BY <1>1, <1>3, <1>6, <1>7, <2>1, <3>1 DEF LoopInv, DirsInv, TokenSent
  <2> QED
    BY <1>8, <1>9, <2>3, <2>4, <2>5, <2>6, <2>7, <2>9, <2>10 DEF LoopInv, EarlyTypes
<1> QED
  BY <1>10, <1>11

LEMMA DistributeStep ==
    ASSUME BaseInv, LoopInv, NEW c \in Conns, Distribute(c)
    PROVE  LoopInv'
<1> DEFINE t == [fd |-> fd[c], from |-> c, at |-> "start", line |-> Head(inbox[c])]
<1>1. /\ inbox[c] # <<>> /\ Head(inbox[c]).cmd \in Transfers /\ inbox' = [inbox EXCEPT ![c] = Tail(@)]
      /\ queue' = Append(queue, t) /\ fd[c] # NULL /\ Len(queue) <= QueueSize
      /\ UNCHANGED <<live, client, loopVars, fd, map, cutOff, hands, script, want, stray, dirs>>
  BY DEF Distribute, RecvCmd, LoopFree, Known, vars, loopVars, userVars
<1>2. c \in Child /\ c \notin Main
  BY <1>1, WhoSends, Kinds
<1>3. /\ Tail(inbox[c]) = <<>> /\ CommandSent(c) /\ ~InServer(c) /\ Head(inbox[c]) \in Typed
      /\ want[c] = NULL
  BY <1>1, <1>2, ChildTrain, TrainIs DEF Transfers, CommandSent
<1>4. /\ inbox \in [Conns -> Seq(Trains)] /\ <<>> \in Seq(Trains)
      /\ queue \in Seq(Tasks) /\ hands \in [Pool -> Tasks \cup {NULL}]
      /\ fd[c] \in Fds
  BY <1>1 DEF LoopInv, EarlyTypes, UserTypes, PoolTypes, TableTypes
<1>5. inbox' = [inbox EXCEPT ![c] = <<>>]
  BY <1>1, <1>3
<1>6. t \in Tasks /\ t.fd = fd[c] /\ t.from = c
  BY <1>2, <1>3, <1>4 DEF Tasks
<1> HIDE DEF t
<1>7. /\ queue' \in Seq(Tasks) /\ Len(queue') = Len(queue) + 1 /\ DOMAIN queue' = DOMAIN queue \cup {Len(queue) + 1}
      /\ DOMAIN queue = 1..Len(queue) /\ Len(queue) \in Nat
      /\ \A i \in DOMAIN queue : queue'[i] = queue[i]
      /\ queue'[Len(queue) + 1] = t
  BY <1>1, <1>4, <1>6
<1>8. EarlyTypes'
  <2>1. UserTypes'
    BY <1>1, <1>4, <1>5 DEF LoopInv, EarlyTypes, UserTypes
  <2>2. met' = met
    BY DEF Distribute
  <2>3. TableTypes'
    BY <1>1, <2>2 DEF LoopInv, EarlyTypes, TableTypes
  <2>4. PoolTypes'
    <3>1. Len(queue') <= QueueSize + 1
      BY <1>1, <1>7, EarlyAssumption
    <3> QED
      BY <1>1, <1>4, <1>7, <3>1 DEF PoolTypes
  <2> QED
    BY <2>1, <2>3, <2>4 DEF EarlyTypes
<1>9. MapInv'
  BY <1>1 DEF LoopInv, MapInv
<1>10. MainInv'
  BY <1>1, <1>2, <1>4, <1>5, Kinds DEF LoopInv, MainInv
<1>11. \A d : d # c => (InServer(d)' => InServer(d))
  <2> SUFFICES ASSUME NEW d, d # c, InServer(d)' PROVE InServer(d)
    OBVIOUS
  <2>1. \/ \E i \in DOMAIN queue' : queue'[i].from = d
        \/ \E w \in Pool : hands'[w] # NULL /\ hands'[w].from = d
    BY DEF InServer, Queued, Held
  <2> QED
    BY <1>1, <1>6, <1>7, <2>1, InServerIs
<1>12. ChildInv'
  <2> SUFFICES ASSUME NEW d \in Child PROVE Stage(d)'
    BY DEF ChildInv
  <2>1. CASE d = c
    <3>1. inbox'[c] = <<>>
      BY <1>4, <1>5
    <3> QED
      BY <1>1, <1>3, <2>1, <3>1 DEF Stage, NothingSent, Known
  <2>2. CASE d # c
    <3>1. inbox'[d] = inbox[d] /\ Stage(d) /\ (InServer(d)' => InServer(d))
      BY <1>4, <1>5, <1>11, <2>2, Kinds DEF LoopInv, ChildInv
    <3> QED
      BY <1>1, <3>1, StageFrame
  <2> QED
    BY <2>1, <2>2
<1>13. TaskInv'
  <2>1. /\ \A i \in DOMAIN queue : queue[i].from # c
        /\ \A w \in Pool : hands[w] # NULL => hands[w].from # c
    BY <1>3, InServerIs
  <2>2. Len(queue) + 1 \notin DOMAIN queue
    BY <1>7
  <2>3. Once'
    <3>1. \A i, j \in DOMAIN queue' : queue'[i].from = queue'[j].from => i = j
      BY <1>6, <1>7, <2>1 DEF LoopInv, TaskInv, Once
    <3>2. \A i \in DOMAIN queue', w \in Pool : hands'[w] # NULL => hands'[w].from # queue'[i].from
      BY <1>1, <1>6, <1>7, <2>1 DEF LoopInv, TaskInv, Once
    <3> QED
      BY <1>1, <3>1, <3>2 DEF LoopInv, TaskInv, Once
  <2>4. \A i \in DOMAIN queue' : \/ fd'[queue'[i].from] = queue'[i].fd
                                 \/ fd'[queue'[i].from] = NULL /\ queue'[i].from \in cutOff'
    BY <1>1, <1>6, <1>7 DEF LoopInv, TaskInv
  <2> QED
    BY <1>1, <2>3, <2>4 DEF LoopInv, TaskInv
<1>14. ForItsSender'
  BY <1>1 DEF LoopInv, ForItsSender
<1>15. DirsInv'
  <2>1. \A d \in Child : d # c => inbox'[d] = inbox[d]
    BY <1>4, <1>5, Kinds
  <2> QED
    BY <1>1, <1>2, <1>11, <2>1 DEF LoopInv, DirsInv
<1> QED
  BY <1>8, <1>9, <1>10, <1>12, <1>13, <1>14, <1>15 DEF LoopInv

-----------------------------------------------------------------------------
(* Connections that are closed *)

\* del_client and close of c, whoever does it: what was under way for c is in cutOff if the
\* server still has it, and the thread that works for c, if any, has ended or goes astray.
Closed(c) ==
    /\ fd[c] # NULL /\ Drop(c)
    /\ inbox' \in [Conns -> Seq(Trains)] /\ \A d \in Conns : d # c => inbox'[d] = inbox[d]
    /\ c \in Child => inbox'[c] = <<>>
    /\ c \in Main => NoTransfer(inbox'[c]) /\ c \in cutOff'
    /\ queue' = queue /\ (\A i \in DOMAIN queue : queue[i].from = c => c \in cutOff')
    /\ hands' = hands \/ (\E w \in Pool : hands[w] # NULL /\ hands' = [hands EXCEPT ![w] = NULL])
    /\ cutOff \subseteq cutOff' /\ cutOff' \subseteq Conns
    /\ stray = NULL /\ (stray' = NULL \/ (stray' = c /\ c \in cutOff'))
    /\ stray' = NULL => \A w \in Pool : hands'[w] # NULL => hands'[w].from # c
    /\ dirs' \in [Child -> SUBSET ClientType] /\ \A d \in Child \cap live : dirs'[d] = dirs[d]
    /\ met' = met

LEMMA ClosedStep ==
    ASSUME BaseInv, LoopInv, NEW c \in Conns, Closed(c)
    PROVE  LoopInv'
<1>1. /\ fd[c] # NULL /\ fd' = [fd EXCEPT ![c] = NULL] /\ map' = [map EXCEPT ![fd[c]] = NULL]
      /\ want' = [want EXCEPT ![c] = NULL] /\ live' = live \ ({c} \cap Child)
      /\ UNCHANGED <<client, script>>
  BY DEF Closed, Drop
<1>2. /\ inbox' \in [Conns -> Seq(Trains)] /\ \A d \in Conns : d # c => inbox'[d] = inbox[d]
      /\ c \in Child => inbox'[c] = <<>>
      /\ c \in Main => NoTransfer(inbox'[c]) /\ c \in cutOff'
      /\ cutOff \subseteq cutOff' /\ cutOff' \subseteq Conns
      /\ dirs' \in [Child -> SUBSET ClientType] /\ \A d \in Child \cap live : dirs'[d] = dirs[d]
  BY DEF Closed
<1>3. /\ fd \in [Conns -> Fds \cup {NULL}] /\ map \in [Fds -> Conns \cup {NULL}]
      /\ want \in [Conns -> Typed \cup {NULL}]
      /\ fd[c] \in Fds /\ map[fd[c]] = c
      /\ hands \in [Pool -> Tasks \cup {NULL}]
  BY <1>1 DEF LoopInv, EarlyTypes, TableTypes, UserTypes, PoolTypes, MapInv
<1>4. queue' = queue /\ \A w \in Pool : hands'[w] = hands[w] \/ hands'[w] = NULL
  BY <1>3 DEF Closed
<1>5. \A d : InServer(d)' => InServer(d)
  <2> SUFFICES ASSUME NEW d, InServer(d)' PROVE InServer(d)
    OBVIOUS
  <2>1. \/ \E i \in DOMAIN queue' : queue'[i].from = d
        \/ \E w \in Pool : hands'[w] # NULL /\ hands'[w].from = d
    BY DEF InServer, Queued, Held
  <2> QED
    BY <1>4, <2>1, InServerIs
<1>6. EarlyTypes'
  <2>1. UserTypes'
    BY <1>1, <1>2, <1>3 DEF LoopInv, EarlyTypes, UserTypes
  <2>2. fd' \in [Conns -> Fds \cup {NULL}] /\ map' \in [Fds -> Conns \cup {NULL}]
    BY <1>1, <1>3
  <2>3. stray' \in Conns \cup {NULL}
    BY DEF Closed
  <2>4. met' = met
    BY DEF Closed
  <2>5. TableTypes'
    BY <1>2, <2>2, <2>3, <2>4 DEF LoopInv, EarlyTypes, TableTypes
  <2>6. hands' \in [Pool -> Tasks \cup {NULL}]
    BY <1>3 DEF Closed
  <2>7. PoolTypes'
    BY <1>4, <2>6 DEF LoopInv, EarlyTypes, PoolTypes
  <2> QED
    BY <2>1, <2>5, <2>7 DEF EarlyTypes
<1>7. MapInv'
  <2>1. MapInv
    BY DEF LoopInv
  <2>2. ASSUME NEW d \in Conns, fd'[d] # NULL PROVE map'[fd'[d]] = d
    <3>1. d # c /\ fd'[d] = fd[d] /\ fd[d] \in Fds
      BY <1>1, <1>3, <2>2
    <3>2. map[fd[d]] = d /\ fd[d] # fd[c]
      BY <1>3, <2>1, <2>2, <3>1 DEF MapInv
    <3> QED
      BY <1>1, <1>3, <3>1, <3>2
  <2>3. ASSUME NEW g \in Fds, map'[g] # NULL PROVE fd'[map'[g]] = g
    <3>1. g # fd[c] /\ map'[g] = map[g] /\ map[g] \in Conns
      BY <1>1, <1>3, <2>3
    <3>2. fd[map[g]] = g /\ map[g] # c
      BY <2>1, <2>3, <3>1 DEF MapInv
    <3> QED
      BY <1>1, <1>3, <3>1, <3>2
  <2> QED
    BY <2>2, <2>3 DEF MapInv
<1>8. MainInv'
  <2> SUFFICES ASSUME NEW d \in Main
               PROVE  (d \notin cutOff' => fd'[d] = MainFd[d[1]]) /\ NoTransfer(inbox'[d])
    BY DEF MainInv, NoTransfer
  <2>1. CASE d = c
    BY <1>2, <2>1
  <2>2. CASE d # c
    <3>1. fd'[d] = fd[d] /\ inbox'[d] = inbox[d] /\ NoTransfer(inbox[d])
      BY <1>1, <1>2, <1>3, <2>2, Kinds DEF LoopInv, MainInv
    <3> QED
      BY <1>2, <3>1 DEF LoopInv, MainInv
  <2> QED
    BY <2>1, <2>2
<1>9. ChildInv'
  <2> SUFFICES ASSUME NEW d \in Child PROVE Stage(d)'
    BY DEF ChildInv
  <2>1. CASE d = c
    <3>1. inbox'[c] = <<>> /\ want'[c] = NULL /\ c \notin live'
      BY <1>1, <1>2, <1>3, <2>1
    <3> QED
      BY <2>1, <3>1 DEF Stage, NothingSent
  <2>2. CASE d # c
    <3>1. /\ inbox'[d] = inbox[d] /\ want'[d] = want[d] /\ fd'[d] = fd[d] /\ Stage(d)
          /\ d \in live' <=> d \in live
      BY <1>1, <1>2, <1>3, <2>2, Kinds DEF LoopInv, ChildInv
    <3> QED
      BY <1>5, <3>1, StageFrame
  <2> QED
    BY <2>1, <2>2
<1>10. TaskInv'
  <2>1. Once'
    BY <1>4 DEF LoopInv, TaskInv, Once
  <2>2. ASSUME NEW i \in DOMAIN queue
        PROVE  \/ fd'[queue[i].from] = queue[i].fd
               \/ fd'[queue[i].from] = NULL /\ queue[i].from \in cutOff'
    <3>1. queue[i].from \in Conns
      BY TaskIs, Kinds DEF LoopInv, EarlyTypes, PoolTypes
    <3>2. CASE queue[i].from = c
      BY <1>1, <1>3, <3>2 DEF Closed
    <3>3. CASE queue[i].from # c
      <4>1. fd'[queue[i].from] = fd[queue[i].from]
        BY <1>1, <1>3, <3>1, <3>3
      <4> QED
        BY <1>2, <4>1 DEF LoopInv, TaskInv
    <3> QED
      BY <3>2, <3>3
  <2>3. ASSUME stray' = NULL, NEW w \in Pool, hands'[w] # NULL
        PROVE  fd'[hands'[w].from] = hands'[w].fd
    <3>1. hands'[w] = hands[w] /\ hands[w].from # c /\ stray = NULL
      BY <1>4, <2>3 DEF Closed
    <3>2. hands[w].from \in Conns
      BY <1>3, <2>3, <3>1, TaskIs, Kinds
    <3>3. fd'[hands[w].from] = fd[hands[w].from]
      BY <1>1, <1>3, <3>1, <3>2
    <3> QED
      BY <2>3, <3>1, <3>3 DEF LoopInv, TaskInv
  <2> QED
    BY <1>4, <2>1, <2>2, <2>3 DEF TaskInv
<1>11. ForItsSender'
  BY DEF Closed, ForItsSender
<1>12. DirsInv'
  <2> SUFFICES ASSUME NEW d \in Child, d \in live', want'[d] # NULL \/ inbox'[d] # <<>> \/ InServer(d)'
               PROVE  client'[d] \in dirs'[d]
    BY DEF DirsInv
  <2>1. d # c /\ d \in live /\ d \in Conns
    BY <1>1, Kinds
  <2>2. want'[d] = want[d] /\ inbox'[d] = inbox[d] /\ dirs'[d] = dirs[d] /\ client'[d] = client[d]
    BY <1>1, <1>2, <1>3, <2>1
  <2> QED
    BY <1>5, <2>1, <2>2 DEF LoopInv, DirsInv
<1> QED
  BY <1>6, <1>7, <1>8, <1>9, <1>10, <1>11, <1>12 DEF LoopInv

LEMMA TokenFailedStep ==
    ASSUME BaseInv, BaseInv', LoopInv, NEW c \in Conns, TokenFailed(c), dirs' = SeenDirs
    PROVE  LoopInv'
<1>1. /\ fd[c] # NULL /\ Drop(c) /\ inbox[c] # <<>> /\ Head(inbox[c]).cmd = "token" /\ stray = NULL
      /\ inbox' = [inbox EXCEPT ![c] = Tail(@)]
      /\ UNCHANGED <<queue, hands, cutOff, stray, met>>
  BY DEF TokenFailed, RecvCmd, LoopFree, Known, poolVars
<1>2. c \in Child /\ c \notin Main
  BY <1>1, WhoSends, Kinds
<1>3. Tail(inbox[c]) = <<>> /\ ~InServer(c)
  BY <1>1, <1>2, ChildTrain
<1>4. inbox \in [Conns -> Seq(Trains)] /\ <<>> \in Seq(Trains) /\ cutOff \subseteq Conns
  BY DEF LoopInv, EarlyTypes, UserTypes, TableTypes
<1>5. /\ inbox' \in [Conns -> Seq(Trains)] /\ \A d \in Conns : d # c => inbox'[d] = inbox[d]
      /\ inbox'[c] = <<>>
  BY <1>1, <1>3, <1>4
<1>6. /\ \A i \in DOMAIN queue : queue[i].from # c
      /\ \A w \in Pool : hands[w] # NULL => hands[w].from # c
  BY <1>3, InServerIs
<1>7. dirs' \in [Child -> SUBSET ClientType] /\ \A d \in Child \cap live : dirs'[d] = dirs[d]
  BY SeenTypes
<1>8. Closed(c)
  BY <1>1, <1>2, <1>4, <1>5, <1>6, <1>7 DEF Closed
<1> QED
  BY <1>8, ClosedStep

LEMMA DisconnectStep ==
    ASSUME BaseInv, LoopInv, NEW c \in Conns, Disconnect(c) \/ DoExit(c)
    PROVE  LoopInv'
<1>1. /\ fd[c] # NULL /\ Drop(c) /\ stray = NULL
      /\ UNCHANGED <<queue, hands, stray, met, dirs>>
  BY DEF Disconnect, DoExit, RecvCmd, LoopFree, Known, poolVars
<1>2. /\ inbox \in [Conns -> Seq(Trains)] /\ inbox[c] \in Seq(Trains)
      /\ cutOff \subseteq Conns /\ dirs \in [Child -> SUBSET ClientType]
      /\ c \in Main => NoTransfer(inbox[c])
  BY DEF LoopInv, EarlyTypes, UserTypes, TableTypes, MainInv
<1>3. ~InServer(c) /\ cutOff \subseteq cutOff' /\ cutOff' \subseteq Conns /\ (c \in Main => c \in cutOff')
      /\ inbox' \in [Conns -> Seq(Trains)] /\ (\A d \in Conns : d # c => inbox'[d] = inbox[d])
      /\ (c \in Child => inbox'[c] = <<>>) /\ (c \in Main => NoTransfer(inbox'[c]))
  <2>1. CASE Disconnect(c)
    <3>1. inbox' = inbox /\ inbox[c] = <<>> /\ cutOff' = cutOff \cup ({c} \cap Main) /\ ~InServer(c)
      BY <2>1 DEF Disconnect, InServer
    <3> QED
      BY <1>2, <3>1
  <2>2. CASE DoExit(c)
    <3>1. /\ inbox[c] # <<>> /\ Head(inbox[c]).cmd = "exit" /\ inbox' = [inbox EXCEPT ![c] = Tail(@)]
          /\ cutOff' = cutOff \cup {c}
      BY <2>2 DEF DoExit, RecvCmd
    <3>2. c \in Main /\ c \notin Child
      BY <3>1, WhoSends, Kinds DEF Transfers
    <3>3. ~InServer(c)
      BY <3>2, InServerIs, TaskIs DEF LoopInv, EarlyTypes, PoolTypes
    <3>4. NoTransfer(Tail(inbox[c])) /\ Tail(inbox[c]) \in Seq(Trains)
      BY <1>2, <3>1, <3>2, TrainsStep
    <3> QED
      BY <1>2, <3>1, <3>2, <3>3, <3>4
  <2> QED
    BY <2>1, <2>2
<1>4. /\ \A i \in DOMAIN queue : queue[i].from # c
      /\ \A w \in Pool : hands[w] # NULL => hands[w].from # c
  BY <1>3, InServerIs
<1>5. Closed(c)
  BY <1>1, <1>2, <1>3, <1>4 DEF Closed
<1> QED
  BY <1>5, ClosedStep

LEMMA EvictStep ==
    ASSUME BaseInv, LoopInv, NEW c \in Conns, Evict(c)
    PROVE  LoopInv'
<1>1. /\ fd[c] # NULL /\ Drop(c) /\ stray = NULL
      /\ UNCHANGED <<queue, hands, met, dirs>>
      /\ inbox' = [inbox EXCEPT ![c] = <<>>]
      /\ cutOff' = cutOff \cup ({c} \cap (Main \cup Queued \cup Held))
      /\ stray' = IF c \in Held THEN c ELSE NULL
  BY DEF Evict, Known, poolVars
<1>2. /\ inbox \in [Conns -> Seq(Trains)] /\ <<>> \in Seq(Trains) /\ NoTransfer(<<>>)
      /\ cutOff \subseteq Conns /\ dirs \in [Child -> SUBSET ClientType]
  BY DEF LoopInv, EarlyTypes, UserTypes, TableTypes, NoTransfer
<1>3. /\ inbox' \in [Conns -> Seq(Trains)] /\ \A d \in Conns : d # c => inbox'[d] = inbox[d]
      /\ inbox'[c] = <<>>
  BY <1>1, <1>2
<1>4. /\ cutOff \subseteq cutOff' /\ cutOff' \subseteq Conns
      /\ c \in Main => c \in cutOff'
      /\ \A i \in DOMAIN queue : queue[i].from = c => c \in cutOff'
      /\ stray' = NULL \/ (stray' = c /\ c \in cutOff')
  BY <1>1, <1>2 DEF Queued
<1>5. stray' = NULL => \A w \in Pool : hands[w] # NULL => hands[w].from # c
  BY <1>1, Kinds DEF Held
<1>6. Closed(c)
  BY <1>1, <1>2, <1>3, <1>4, <1>5 DEF Closed
<1> QED
  BY <1>6, ClosedStep

-----------------------------------------------------------------------------
(* The pool *)

LEMMA FinishStep ==
    ASSUME BaseInv, LoopInv, NEW w \in Pool, Finish(w)
    PROVE  LoopInv'
<1> PICK c : c = hands[w].from
  OBVIOUS
<1>1. /\ hands[w] # NULL /\ Drop(c) /\ stray = NULL
      /\ hands' = [hands EXCEPT ![w] = NULL]
      /\ UNCHANGED <<queue, inbox, cutOff, stray, met, dirs>>
  BY DEF Finish
<1>2. hands \in [Pool -> Tasks \cup {NULL}] /\ hands[w] \in Tasks
  BY <1>1 DEF LoopInv, EarlyTypes, PoolTypes
<1>3. c \in Child /\ c \in Conns /\ c \notin Main /\ InServer(c)
  BY <1>1, <1>2, TaskIs, InServerIs, Kinds
<1>4. fd[c] = hands[w].fd /\ fd[c] # NULL
  BY <1>1, <1>2, TaskIs, Kinds DEF LoopInv, TaskInv
<1>5. /\ inbox \in [Conns -> Seq(Trains)] /\ cutOff \subseteq Conns /\ dirs \in [Child -> SUBSET ClientType]
  BY DEF LoopInv, EarlyTypes, UserTypes, TableTypes
<1>6. inbox[c] = <<>>
  BY <1>3 DEF LoopInv, ChildInv, Stage, NothingSent, TokenSent, CommandSent
<1>7. /\ \A i \in DOMAIN queue : queue[i].from # c
      /\ \A v \in Pool : hands'[v] # NULL => hands'[v].from # c
  BY <1>1, <1>2 DEF LoopInv, TaskInv, Once
<1>8. Closed(c)
  BY <1>1, <1>3, <1>4, <1>5, <1>6, <1>7 DEF Closed
<1> QED
  BY <1>3, <1>8, ClosedStep

LEMMA PopStep ==
    ASSUME BaseInv, LoopInv, NEW w \in Pool, Pop(w)
    PROVE  LoopInv'
<1> PICK t : t = Head(queue)
  OBVIOUS
<1>1. /\ stray = NULL /\ hands[w] = NULL /\ queue # <<>>
      /\ hands' = [hands EXCEPT ![w] = t] /\ queue' = Tail(queue)
      /\ stray' = IF map[t.fd] = t.from THEN NULL ELSE t.from
      /\ UNCHANGED <<live, client, fd, map, cutOff, script, want, inbox, dirs>>
  BY DEF Pop, vars, loopVars, userVars
<1>2. queue \in Seq(Tasks) /\ hands \in [Pool -> Tasks \cup {NULL}] /\ Len(queue) <= QueueSize + 1
  BY DEF LoopInv, EarlyTypes, PoolTypes
<1>3. /\ t \in Tasks /\ queue[1] = t /\ 1 \in DOMAIN queue /\ queue' \in Seq(Tasks)
      /\ Len(queue') <= Len(queue) /\ Len(queue) \in Nat /\ Len(queue') \in Nat
      /\ \A i \in DOMAIN queue' : i + 1 \in DOMAIN queue /\ queue'[i] = queue[i + 1] /\ i + 1 # 1 /\ i \in Nat
      /\ \A i \in DOMAIN queue : i = 1 \/ (i - 1 \in DOMAIN queue' /\ queue'[i - 1] = queue[i])
  BY <1>1, <1>2
<1>4. t.from \in Child /\ t.from \in Conns /\ t.fd \in Fds /\ t.fd # NULL /\ t # NULL /\ t.from # NULL
  BY <1>3, TaskIs, Kinds
<1>5. EarlyTypes'
  <2>1. UserTypes'
    BY <1>1 DEF LoopInv, EarlyTypes, UserTypes
  <2>2. met' = met
    BY DEF Pop
  <2>3. TableTypes'
    BY <1>1, <1>4, <2>2 DEF LoopInv, EarlyTypes, TableTypes
  <2>4. Len(queue') <= QueueSize + 1
    BY <1>2, <1>3, EarlyAssumption
  <2>5. PoolTypes'
    BY <1>1, <1>2, <1>3, <2>4 DEF PoolTypes
  <2> QED
    BY <2>1, <2>3, <2>5 DEF EarlyTypes
<1>6. MapInv'
  BY <1>1 DEF LoopInv, MapInv
<1>7. MainInv'
  BY <1>1 DEF LoopInv, MainInv
<1>8. \A d : InServer(d)' => InServer(d)
  <2> SUFFICES ASSUME NEW d, InServer(d)' PROVE InServer(d)
    OBVIOUS
  <2>1. \/ \E i \in DOMAIN queue' : queue'[i].from = d
        \/ \E v \in Pool : hands'[v] # NULL /\ hands'[v].from = d
    BY DEF InServer, Queued, Held
  <2>2. \/ \E i \in DOMAIN queue : queue[i].from = d
        \/ \E v \in Pool : hands[v] # NULL /\ hands[v].from = d
    BY <1>1, <1>2, <1>3, <2>1
  <2> QED
    BY <2>2, InServerIs
<1>9. ChildInv'
  BY <1>1, <1>8, StageFrame DEF LoopInv, ChildInv
<1>10. TaskInv'
  <2>1. Once'
    <3>0. Once
      BY DEF LoopInv, TaskInv
    <3>1. ASSUME NEW i \in DOMAIN queue', NEW j \in DOMAIN queue', queue'[i].from = queue'[j].from
          PROVE  i = j
      <4>1. /\ i + 1 \in DOMAIN queue /\ queue'[i] = queue[i + 1] /\ i \in Nat
            /\ j + 1 \in DOMAIN queue /\ queue'[j] = queue[j + 1] /\ j \in Nat
        BY <1>3
      <4>2. i + 1 = j + 1
        BY <3>0, <3>1, <4>1 DEF Once
      <4> QED
        BY <4>1, <4>2
    <3>2. \A v \in Pool : v # w => hands'[v] = hands[v]
      BY <1>1, <1>2
    <3>3. hands'[w] = t
      BY <1>1, <1>2
    <3>4. ASSUME NEW i \in DOMAIN queue', NEW v \in Pool, hands'[v] # NULL
          PROVE  hands'[v].from # queue'[i].from
      <4>1. i + 1 \in DOMAIN queue /\ queue'[i] = queue[i + 1] /\ i + 1 # 1
        BY <1>3
      <4>2. CASE v = w
        BY <1>3, <3>0, <3>3, <4>1, <4>2, SMTT(30) DEF Once
      <4>3. CASE v # w
        BY <3>0, <3>2, <3>4, <4>1, <4>3 DEF Once
      <4> QED
        BY <4>2, <4>3
    <3>5. \A u, v \in Pool : hands'[u] # NULL /\ hands'[v] # NULL /\ hands'[u].from = hands'[v].from => u = v
      BY <1>3, <3>2, <3>3 DEF LoopInv, TaskInv, Once
    <3> QED
      BY <3>1, <3>4, <3>5 DEF Once
  <2>2. \A i \in DOMAIN queue' : \/ fd'[queue'[i].from] = queue'[i].fd
                                 \/ fd'[queue'[i].from] = NULL /\ queue'[i].from \in cutOff'
    BY <1>1, <1>3 DEF LoopInv, TaskInv
  <2>3. ASSUME stray' = NULL, NEW v \in Pool, hands'[v] # NULL PROVE fd'[hands'[v].from] = hands'[v].fd
    <3>1. CASE v = w
      <4>1. map[t.fd] = t.from
        BY <1>1, <1>4, <2>3
      <4>2. fd[t.from] = t.fd
        BY <1>4, <4>1, Kinds DEF LoopInv, MapInv
      <4> QED
        BY <1>1, <1>2, <3>1, <4>2
    <3>2. CASE v # w
      BY <1>1, <1>2, <2>3, <3>2 DEF LoopInv, TaskInv
    <3> QED
      BY <3>1, <3>2
  <2> QED
    BY <2>1, <2>2, <2>3 DEF TaskInv
<1>11. ForItsSender'
  <2> SUFFICES ASSUME stray' # NULL PROVE stray' \in cutOff'
    BY DEF ForItsSender
  <2>1. stray' = t.from /\ map[t.fd] # t.from
    BY <1>1
  <2>2. fd[t.from] # t.fd
    BY <1>4, <2>1 DEF LoopInv, MapInv
  <2> QED
    BY <1>1, <1>3, <2>1, <2>2 DEF LoopInv, TaskInv
<1>12. DirsInv'
  BY <1>1, <1>8 DEF LoopInv, DirsInv
<1> QED
  BY <1>5, <1>6, <1>7, <1>9, <1>10, <1>11, <1>12 DEF LoopInv

LEMMA WorkerMovesStep ==
    ASSUME BaseInv, LoopInv, NEW w \in Pool, WorkerMoves(w)
    PROVE  LoopInv'
<1> PICK c \in Child : c = hands[w].from /\ (live' = live \/ live' = live \ {c})
  BY DEF WorkerMoves
<1>1. /\ stray = NULL /\ hands[w] # NULL /\ client' = client
      /\ UNCHANGED <<fd, map, cutOff, queue, script, want, inbox, stray, dirs>>
  BY DEF WorkerMoves, ByWorker, loopVars, userVars
<1>2. hands \in [Pool -> Tasks \cup {NULL}] /\ hands[w] \in Tasks
  BY <1>1 DEF LoopInv, EarlyTypes, PoolTypes
<1>3. /\ hands' \in [Pool -> Tasks \cup {NULL}]
      /\ \A v \in Pool : (hands'[v] # NULL <=> hands[v] # NULL) /\ hands'[v].from = hands[v].from
                         /\ hands'[v].fd = hands[v].fd
  <2>1. CASE hands' = hands
    BY <1>2, <2>1
  <2>2. CASE hands' = [hands EXCEPT ![w].at = "run"]
    <3>1. PICK t : t = [hands[w] EXCEPT !.at = "run"]
      OBVIOUS
    <3>2. t \in Tasks /\ t.from = hands[w].from /\ t.fd = hands[w].fd
      BY <1>2, <3>1 DEF Tasks
    <3>3. hands' = [hands EXCEPT ![w] = t] /\ t # NULL
      BY <2>2, <3>1, <3>2, Kinds
    <3> QED
      BY <1>1, <1>2, <3>2, <3>3
  <2> QED
    BY <2>1, <2>2 DEF WorkerMoves
<1>4. \A d : InServer(d)' <=> InServer(d)
  <2>1. Held' = Held /\ Queued' = Queued
    BY <1>1, <1>3 DEF Held, Queued
  <2> QED
    BY <2>1 DEF InServer
<1>5. InServer(c)
  BY <1>1, InServerIs
<1>6. EarlyTypes'
  <2>1. UserTypes'
    BY <1>1 DEF LoopInv, EarlyTypes, UserTypes
  <2>2. met' = met
    BY DEF WorkerMoves, ByWorker
  <2>3. TableTypes'
    BY <1>1, <2>2 DEF LoopInv, EarlyTypes, TableTypes
  <2>4. PoolTypes'
    BY <1>1, <1>3 DEF LoopInv, EarlyTypes, PoolTypes
  <2> QED
    BY <2>1, <2>3, <2>4 DEF EarlyTypes
<1>7. MapInv' /\ MainInv' /\ ForItsSender'
  BY <1>1 DEF LoopInv, MapInv, MainInv, ForItsSender
<1>8. ChildInv'
  <2> SUFFICES ASSUME NEW d \in Child PROVE Stage(d)'
    BY DEF ChildInv
  <2>1. Stage(d)
    BY DEF LoopInv, ChildInv
  <2>2. CASE d = c
    BY <1>1, <1>4, <1>5, <2>1, <2>2 DEF Stage, NothingSent, TokenSent, CommandSent, Known
  <2>3. CASE d # c
    <3>1. d \in live' <=> d \in live
      BY <2>3
    <3> QED
      BY <1>1, <1>4, <2>1, <3>1, StageFrame
  <2> QED
    BY <2>2, <2>3
<1>9. TaskInv'
  <2>1. Once'
    BY <1>1, <1>3 DEF LoopInv, TaskInv, Once
  <2> QED
    BY <1>1, <1>3, <2>1 DEF LoopInv, TaskInv
<1>10. DirsInv'
  BY <1>1, <1>4 DEF LoopInv, DirsInv
<1> QED
  BY <1>6, <1>7, <1>8, <1>9, <1>10 DEF LoopInv

-----------------------------------------------------------------------------
(* The theorems *)

LEMMA LoopInit == EarlyInit => LoopInv
<1> SUFFICES ASSUME EarlyInit PROVE LoopInv
  OBVIOUS
<1>1. /\ script \in Scripts /\ want = [c \in Conns |-> NULL] /\ inbox = [c \in Conns |-> <<>>]
      /\ fd = [c \in Conns |-> IF c \in Main THEN MainFd[c[1]] ELSE NULL]
      /\ queue = <<>> /\ hands = [w \in Pool |-> NULL]
      /\ cutOff = {} /\ stray = NULL /\ met = FALSE /\ dirs = [c \in Child |-> {}] /\ live = Main
  BY DEF EarlyInit, Init
<1>2. \A s \in Sessions : MainFd[s] \in Fds /\ MainFd[s] # NULL
  BY EarlyAssumption
<1>3. /\ map \in [Fds -> Conns \cup {NULL}]
      /\ \A f \in Fds : map[f] # NULL => \E s \in Sessions : MainFd[s] = f /\ map[f] = <<s, "main">>
      /\ \A s \in Sessions : map[MainFd[s]] = <<s, "main">>
  <2> DEFINE who(f) == CHOOSE s \in Sessions : MainFd[s] = f
  <2>1. map = [f \in Fds |-> IF \E s \in Sessions : MainFd[s] = f THEN <<who(f), "main">> ELSE NULL]
    BY DEF EarlyInit
  <2>2. \A f \in Fds : (\E s \in Sessions : MainFd[s] = f) => who(f) \in Sessions /\ MainFd[who(f)] = f
    OBVIOUS
  <2> HIDE DEF who
  <2>3. \A s \in Sessions : who(MainFd[s]) = s
    BY <1>2, <2>2, EarlyAssumption
  <2> QED
    BY <1>2, <2>1, <2>2, <2>3, Kinds
<1>4. EarlyTypes
  <2>1. UserTypes
    BY <1>1, EarlyAssumption DEF UserTypes
  <2>2. fd \in [Conns -> Fds \cup {NULL}]
    BY <1>1, <1>2, Kinds
  <2>3. TableTypes
    BY <1>1, <1>3, <2>2 DEF TableTypes
  <2>4. PoolTypes
    BY <1>1, EarlyAssumption DEF PoolTypes
  <2> QED
    BY <2>1, <2>3, <2>4 DEF EarlyTypes
<1>5. MapInv
  <2>1. ASSUME NEW c \in Conns, fd[c] # NULL PROVE map[fd[c]] = c
    <3>1. c \in Main /\ fd[c] = MainFd[c[1]]
      BY <1>1, <2>1
    <3> QED
      BY <1>3, <3>1 DEF Main
  <2>2. ASSUME NEW f \in Fds, map[f] # NULL PROVE fd[map[f]] = f
    <3>1. PICK s \in Sessions : MainFd[s] = f /\ map[f] = <<s, "main">>
      BY <1>3, <2>2
    <3>2. PICK c \in Main : c = <<s, "main">> /\ c \in Conns /\ c[1] = s
      BY Kinds
    <3>3. fd[c] = MainFd[c[1]]
      BY <1>1, <3>2
    <3> QED
      BY <3>1, <3>2, <3>3
  <2> QED
    BY <2>1, <2>2 DEF MapInv
<1>6. MainInv
  BY <1>1, Kinds DEF MainInv, NoTransfer
<1>7. ChildInv
  BY <1>1, Kinds DEF ChildInv, Stage, NothingSent
<1>8. TaskInv
  BY <1>1 DEF TaskInv, Once
<1>9. ForItsSender /\ DirsInv
  BY <1>1, Kinds DEF ForItsSender, DirsInv
<1> QED
  BY <1>4, <1>5, <1>6, <1>7, <1>8, <1>9 DEF LoopInv

\* The table, the clients and the connection to the database: what Vfs has shown of its
\* commands holds in this server, too.
LEMMA EarlyBase == BaseInv /\ LoopInv /\ [EarlyNext]_allVars => BaseInv'
<1> SUFFICES ASSUME BaseInv, LoopInv, [EarlyNext]_allVars PROVE BaseInv'
  OBVIOUS
<1>1. CASE UNCHANGED allVars
  BY <1>1, BaseNext DEF allVars
<1>2. CASE TableStep
  BY <1>2, BaseNext DEF TableStep, Next
<1>3. CASE Quiet
  <2>1. Uploaders' = Uploaders
    BY <1>3 DEF Quiet, Uploaders
  <2> QED
    BY <1>3, <2>1 DEF Quiet, BaseInv, ConnType, RowsInv, ClientInv, RoomInv, ResultInv
<1> QED
  BY <1>1, <1>2, <1>3, TablePart

LEMMA EarlyTree ==
    OwnUsers => (BaseInv /\ LoopInv /\ TreeInv /\ [EarlyNext]_allVars => TreeInv')
<1> SUFFICES ASSUME OwnUsers, BaseInv, LoopInv, TreeInv, [EarlyNext]_allVars PROVE TreeInv'
  OBVIOUS
<1>1. CASE UNCHANGED allVars
  BY <1>1, TreeNext DEF allVars
<1>2. CASE TableStep
  BY <1>2, TreeNext DEF TableStep, Next
<1>3. CASE Quiet
  <2>1. \A u : Dirs(u)' = Dirs(u)
    BY <1>3 DEF Quiet, Dirs
  <2> QED
    BY <1>3, <2>1 DEF Quiet, TreeInv, HereInv, CmdInv, Here, Uid
<1> QED
  BY <1>1, <1>2, <1>3, TablePart

LEMMA EarlyPath ==
    OwnUsers => (BaseInv /\ LoopInv /\ TreeInv /\ (~met => PathInv) /\ [EarlyNext]_allVars => (~met => PathInv)')
<1> SUFFICES ASSUME OwnUsers, BaseInv, LoopInv, TreeInv, ~met => PathInv, [EarlyNext]_allVars, ~met'
             PROVE  PathInv'
  OBVIOUS
<1>1. ASSUME vfs' = vfs, client' = client, PathInv PROVE PathInv'
  BY <1>1 DEF PathInv, Way, Dirs, Uid
<1>2. CASE UNCHANGED allVars
  BY <1>1, <1>2 DEF allVars, earlyVars, vars
<1>3. CASE EarlyNext
  <2>1. (Quiet \/ TableStep) /\ ~met /\ PathInv
    BY <1>3, TablePart
  <2>2. CASE Quiet
    BY <1>1, <2>1, <2>2 DEF Quiet
  <2>3. CASE TableStep
    <3>1. PICK c \in Conns : /\ Command(c) \/ Continue(c)
                             /\ c \in Main /\ Start(c) => ~OutOfSync
      BY <2>1, <2>3 DEF TableStep
    <3>2. ~CdMeets(c)
      BY <3>1 DEF CdMeets, CdUp, CdDown
    <3> QED
      BY <2>1, <3>1, <3>2, AllPathsStep
  <2> QED
    BY <2>1, <2>2, <2>3
<1> QED
  BY <1>2, <1>3

LEMMA LoopNext == BaseInv /\ BaseInv' /\ LoopInv /\ [EarlyNext]_allVars => LoopInv'
<1> SUFFICES ASSUME BaseInv, BaseInv', LoopInv, [EarlyNext]_allVars PROVE LoopInv'
  OBVIOUS
<1>1. CASE UNCHANGED allVars
  <2>1. /\ UNCHANGED <<loopVars, poolVars, stray, live, client, script, want>> /\ met' = met
        /\ inbox' = inbox /\ dirs' = dirs /\ fd' = fd /\ cutOff' = cutOff
    BY <1>1 DEF allVars, earlyVars, vars, userVars, loopVars
  <2>2. met' \in BOOLEAN
    BY <2>1 DEF LoopInv, EarlyTypes, TableTypes
  <2>3. UserTypes' /\ MainInv'
    BY <2>1 DEF LoopInv, EarlyTypes, UserTypes, MainInv
  <2>4. ChildInv' /\ DirsInv'
    BY <2>1, <2>2, LoopFrame, StageFrame DEF LoopInv, ChildInv, DirsInv
  <2> QED
    BY <2>1, <2>2, <2>3, <2>4, LoopFrame DEF LoopInv, EarlyTypes
<1>2. ASSUME NEW s \in Sessions, Type(s) \/ Process(s) \/ Leave(s) PROVE LoopInv'
  BY <1>2, TypeStep, SendCommandStep, SendMd5Step, LeaveStep DEF Process
<1>3. ASSUME NEW c \in Conns, Accept(c) \/ Distribute(c) \/ DoExit(c) \/ Disconnect(c) \/ Evict(c)
      PROVE  LoopInv'
  BY <1>3, AcceptStep, DistributeStep, DisconnectStep, EvictStep
<1>4. ASSUME NEW c \in Conns, CmdAnalyse(c) \/ Sql(c) PROVE LoopInv'
  <2>1. dirs' = SeenDirs /\ (ShortStep(c) \/ DoToken(c) \/ TokenFailed(c))
    BY <1>4 DEF CmdAnalyse, Sql, ShortStep
  <2> QED
    BY <2>1, LoopCommands, MainMovesStep, DoTokenStep, TokenFailedStep
<1>5. ASSUME NEW w \in Pool, Worker(w) PROVE LoopInv'
  BY <1>5, PopStep, FinishStep, PoolCommands, WorkerMovesStep DEF Worker, PoolStep
<1> QED
  BY <1>1, <1>2, <1>3, <1>4, <1>5 DEF EarlyNext, EventLoop

LEMMA LoopHolds == EarlySpec => [](BaseInv /\ LoopInv)
<1>1. EarlyInit => BaseInv /\ LoopInv
  BY BaseInit, LoopInit DEF EarlyInit
<1>2. BaseInv /\ LoopInv /\ [EarlyNext]_allVars => (BaseInv /\ LoopInv)'
  BY EarlyBase, LoopNext
<1> QED
  BY <1>1, <1>2, PTL DEF EarlySpec

\* The client table of Net_Disk_v1 is exact: whatever the loop, the pool and the timer's
\* signal handler close, and however descriptors are used again, an entry is of the
\* connection that has the descriptor, and a task of a transfer connection.
THEOREM TableExact == EarlySpec => []EarlyInv
<1>1. BaseInv => TypeOK
  BY DEF BaseInv, ConnType, RowsInv, ClientInv, ClientType, OpType, TypeOK
<1>2. LoopInv => MapAgrees
  BY Kinds DEF LoopInv, MapInv, MapAgrees, EarlyTypes, TableTypes
<1>3. BaseInv /\ LoopInv => EarlyTypeOK
  BY <1>1, TaskIs DEF EarlyTypeOK, LoopInv, EarlyTypes, TableTypes, PoolTypes
<1>4. BaseInv /\ LoopInv => EarlyInv
  BY <1>2, <1>3 DEF EarlyInv
<1> QED
  BY <1>4, LoopHolds, PTL

\* No thread takes another connection's client_t for its task's, and no token finds another
\* process's, unless the connection, or the main one of its process, was closed before.
THEOREM TasksForSender == EarlySpec => []ForItsSender
<1>1. LoopInv => ForItsSender
  BY DEF LoopInv
<1> QED
  BY <1>1, LoopHolds, PTL

\* A transfer works in a directory its user was in after typing it; and as long as no short
\* command meets the open result of a transfer, the path a client is shown is the way to
\* the directory its commands work on.
THEOREM DirsMeant == ASSUME OwnUsers PROVE EarlySpec => []DirInv
<1>1. EarlyInit => TreeInv /\ (~met => PathInv)
  BY TreeInit, PathInit DEF EarlyInit
<1>2. BaseInv /\ LoopInv /\ TreeInv /\ (~met => PathInv) /\ [EarlyNext]_allVars
         => (TreeInv /\ (~met => PathInv))'
  BY EarlyTree, EarlyPath
<1>3. LoopInv /\ (~met => PathInv) => DirInv
  BY WayIsPath, WayShown DEF LoopInv, DirsInv, InServer, DirInv, TransferDir, PathAgreesAlone, PathAgrees
<1>4. EarlySpec => [](TreeInv /\ (~met => PathInv))
  BY <1>1, <1>2, LoopHolds, PTL DEF EarlySpec
<1> QED
  BY <1>3, <1>4, LoopHolds, PTL
=============================================================================
