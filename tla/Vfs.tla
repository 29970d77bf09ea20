-------------------------------- MODULE Vfs --------------------------------
(***************************************************************************)
(* The virtual file system: the VFS table and the commands that work on it *)
(* (do_cd.c, do_ls.c, do_mkdir.c, do_rm.c, do_rmdir.c, do_puts.c,          *)
(* do_gets.c), run by pool workers that share one database connection.     *)
(*                                                                         *)
(* Every mysql_query is a step of its own.  A SELECT leaves its result on  *)
(* the connection (mysql_use_result) until the handler has fetched what it *)
(* wants and freed it; a query made meanwhile fails with "Commands out of  *)
(* sync", and the handlers' error paths follow.  The table is the          *)
(* database's: rows come back in primary key order, as InnoDB scans them.  *)
(***************************************************************************)
EXTENDS Integers, Sequences, FiniteSets

CONSTANTS Sessions,   \* logged-in client processes
          Owner,      \* Owner[s]: the uid of session s
          Names,      \* file and directory names
          Md5s,       \* file contents, named by their MD5
          Places,     \* the pairs of file servers load_balance picks from
          Workers,    \* threads of the pool
          MaxRows,    \* bound: rows ever inserted
          MaxDepth,   \* bound: directories below ~ in a path
          NULL

ASSUME VfsAssumption == /\ IsFiniteSet(Sessions)
                        /\ Workers \in Nat \ {0}
                        /\ MaxRows \in Nat
                        /\ MaxDepth \in Nat
                        /\ DOMAIN Owner = Sessions
                        /\ NULL \notin Names \cup Md5s \cup Places
                        /\ NULL \notin Sessions \X {"main", "child"}

VARIABLES vfs,        \* the VFS table
          auto_inc,   \* its AUTO_INCREMENT
          client,     \* client[c]: code, pre_code and path of connection c
          live,       \* connections the route server manages
          op,         \* op[c]: the command in hand on c, and how far it is
          sql_conn,   \* the connection whose result is not freed yet, or NULL
          answer,     \* what the last step told a client, or NULL
          placed      \* history: contents a client was told to upload, and where to

vars == <<vfs, auto_inc, client, live, op, sql_conn, answer, placed>>

\* A client process has its main connection and, for a gets or a puts, a
\* connection of the transfer thread.
Main  == Sessions \X {"main"}
Child == Sessions \X {"child"}
Conns == Main \cup Child
Uid(c)    == Owner[c[1]]
MainOf(c) == <<c[1], "main">>

Codes == 1..MaxRows
Row   == [code : Codes, pre_code : {-1} \cup Codes, file_name : Names,
          file_type : {"d", "f"}, file_count : {0, 1}, owner_uid : {Owner[s] : s \in Sessions},
          file_md5 : Md5s \cup {NULL}, place : Places \cup {NULL}]

Op(at, n, m, dir, rows, pl) ==
    [at |-> at, name |-> n, md5 |-> m, dir |-> dir, rows |-> rows, place |-> pl]
Idle == Op("idle", NULL, NULL, NULL, {}, NULL)

\* Steps at which a result waits on the connection to be fetched and freed.
Reading == {"cd_rows", "ls_rows", "rm_rows", "rmdir_rows", "rmdir_content",
            "exist_rows", "quick_rows", "gets_rows"}
Between == {"rm_update", "rmdir_check", "rmdir_delete", "quick_select",
            "quick_insert", "puts_insert"}

\* Steps of a puts, which may still insert a row.
Uploading == {"exist_rows", "puts_insert", "quick_select", "quick_rows", "quick_insert"}

First(rows) == CHOOSE r \in rows : \A q \in rows : r.code <= q.code

\* The pre_code of what lies in the current directory: the root's is -1.
Here(c) == IF client[c].code = 0 THEN -1 ELSE client[c].code

\* Rows of c's user named n, of type t, in its current directory.
Named(c, n, t) == {r \in vfs : /\ r.owner_uid = Uid(c)
                               /\ r.pre_code = Here(c)
                               /\ r.file_name = n
                               /\ r.file_type = t}

Init == /\ vfs = {}
        /\ auto_inc = 1
        /\ client = [c \in Conns |-> [code |-> 0, pre_code |-> -1, path |-> <<>>]]
        /\ live = Main
        /\ op = [c \in Conns |-> Idle]
        /\ sql_conn = NULL
        /\ answer = NULL
        /\ placed = {}

-----------------------------------------------------------------------------
(* What the handlers have in common *)

InHand == {c \in Conns : op[c] # Idle}

\* A worker takes a command of c.
Start(c) == /\ c \in live
            /\ op[c] = Idle
            /\ Cardinality(InHand) < Workers

\* Bound: a command that inserts starts only if MaxRows leaves it a row.
RoomForRow == auto_inc + Cardinality({c \in Conns : op[c].at \in Uploading}) <= MaxRows

OutOfSync == sql_conn # NULL

\* mysql_query of a SELECT: the command goes on as o when its rows have come.
Select(c, o) == /\ ~OutOfSync
                /\ sql_conn' = c
                /\ op' = [op EXCEPT ![c] = o]
                /\ answer' = NULL
                /\ UNCHANGED live

\* mysql_free_result, and on to the next query.
Free(c, o) == /\ sql_conn' = NULL
              /\ op' = [op EXCEPT ![c] = o]
              /\ answer' = NULL
              /\ UNCHANGED live

\* The handler answers and returns; the connection of a gets or puts is closed.
Answer(c, what) == /\ op' = [op EXCEPT ![c] = Idle]
                   /\ answer' = [to |-> c, what |-> what]
                   /\ live' = live \ ({c} \cap Child)

\* Free the result, then answer.
FreeAndAnswer(c, what) == sql_conn' = NULL /\ Answer(c, what)

\* mysql_query of an INSERT into VFS.
Insert(c, n, t, m, pl) ==
    /\ vfs' = vfs \cup {[code |-> auto_inc, pre_code |-> Here(c), file_name |-> n,
                         file_type |-> t, file_count |-> 1, owner_uid |-> Uid(c),
                         file_md5 |-> m, place |-> pl]}
    /\ auto_inc' = auto_inc + 1

tableVars == <<vfs, auto_inc>>

-----------------------------------------------------------------------------
(* do_cd *)

Up(path)      == IF path = <<>> THEN path ELSE SubSeq(path, 1, Len(path) - 1)
Down(path, n) == Append(path, n)

\* cd .. in the root is refused.
CdAtRoot(c) ==
    /\ Start(c) /\ c \in Main
    /\ client[c].code = 0
    /\ Answer(c, "error")
    /\ UNCHANGED <<tableVars, client, sql_conn, placed>>

\* cd .. in a directory of the root needs no query.
CdToRoot(c) ==
    /\ Start(c) /\ c \in Main
    /\ client[c].code # 0 /\ client[c].pre_code = 0
    /\ client' = [client EXCEPT ![c] = [code |-> 0, pre_code |-> -1, path |-> Up(@.path)]]
    /\ Answer(c, "ok")
    /\ UNCHANGED <<tableVars, sql_conn, placed>>

\* cd .. further down: look up the parent.  If the query fails, sql_do_cd returns 0
\* and do_cd changes the path all the same.
CdUp(c) ==
    /\ Start(c) /\ c \in Main
    /\ client[c].code # 0 /\ client[c].pre_code # 0
    /\ \/ /\ Select(c, Op("cd_rows", NULL, NULL, NULL,
                          {r \in vfs : /\ r.owner_uid = Uid(c)
                                       /\ r.code = client[c].pre_code
                                       /\ r.file_type = "d"}, NULL))
          /\ UNCHANGED client
       \/ /\ OutOfSync
          /\ client' = [client EXCEPT ![c].path = Up(@)]
          /\ Answer(c, "ok")
          /\ UNCHANGED sql_conn
    /\ UNCHANGED <<tableVars, placed>>

\* cd n: in the root pre_code is set before the query.
CdDown(c, n) ==
    /\ Start(c) /\ c \in Main
    /\ Len(client[c].path) < MaxDepth
    /\ LET pre == IF client[c].code = 0 THEN 0 ELSE client[c].pre_code IN
       \/ /\ Select(c, Op("cd_rows", n, NULL, NULL, Named(c, n, "d"), NULL))
          /\ client' = [client EXCEPT ![c].pre_code = pre]
       \/ /\ OutOfSync
          /\ client' = [client EXCEPT ![c] = [code |-> @.code, pre_code |-> pre,
                                              path |-> Down(@.path, n)]]
          /\ Answer(c, "ok")
          /\ UNCHANGED sql_conn
    /\ UNCHANGED <<tableVars, placed>>

\* Mutant: the -1 of the table is kept.
PreCodeRaw(r) == r.pre_code

\* pre_code of the directory in row r: a directory of the root has 0 there.
PreCode(r) == IF r.pre_code = -1 THEN 0 ELSE r.pre_code

\* Mutant: the result of a lookup without a row is not freed.
CdResultNoFree(c) ==
    /\ op[c].at = "cd_rows"
    /\ op[c].rows = {}
    /\ Answer(c, "error")
    /\ UNCHANGED <<tableVars, client, sql_conn, placed>>

CdResult(c) ==
    /\ op[c].at = "cd_rows"
    /\ \/ /\ op[c].rows = {}
          /\ FreeAndAnswer(c, "error")
          /\ UNCHANGED client
       \/ /\ op[c].rows # {}
          /\ LET r == First(op[c].rows)
                 n == op[c].name
             IN client' = [client EXCEPT ![c] =
                             [code |-> r.code, pre_code |-> PreCode(r),
                              path |-> IF n = NULL THEN Up(@.path) ELSE Down(@.path, n)]]
          /\ FreeAndAnswer(c, "ok")
    /\ UNCHANGED <<tableVars, placed>>

-----------------------------------------------------------------------------
(* do_ls, do_mkdir *)

\* What ls shows of the directory with this pre_code.
Listed(uid, pre) == {r \in vfs : r.owner_uid = uid /\ r.pre_code = pre /\ r.file_count = 1}

\* A failing query is not answered.
Ls(c) ==
    /\ Start(c) /\ c \in Main
    /\ \/ Select(c, Op("ls_rows", NULL, NULL, NULL, Listed(Uid(c), Here(c)), NULL))
       \/ OutOfSync /\ Answer(c, "none") /\ UNCHANGED sql_conn
    /\ UNCHANGED <<tableVars, client, placed>>

LsResult(c) ==
    /\ op[c].at = "ls_rows"
    /\ FreeAndAnswer(c, "ok")
    /\ UNCHANGED <<tableVars, client, placed>>

Mkdir(c, n) ==
    /\ Start(c) /\ c \in Main
    /\ RoomForRow
    /\ \/ ~OutOfSync /\ Insert(c, n, "d", NULL, NULL) /\ Answer(c, "ok")
       \/ OutOfSync /\ Answer(c, "error") /\ UNCHANGED tableVars
    /\ UNCHANGED <<client, sql_conn, placed>>

-----------------------------------------------------------------------------
(* do_rm: is there such a file?  Then mark it removed. *)

Rm(c, n) ==
    /\ Start(c) /\ c \in Main
    /\ \/ Select(c, Op("rm_rows", n, NULL, NULL,
                       {r \in Named(c, n, "f") : r.file_count = 1}, NULL))
       \/ OutOfSync /\ Answer(c, "error") /\ UNCHANGED sql_conn
    /\ UNCHANGED <<tableVars, client, placed>>

RmResult(c) ==
    /\ op[c].at = "rm_rows"
    /\ \/ op[c].rows = {} /\ FreeAndAnswer(c, "error")
       \/ op[c].rows # {} /\ Free(c, Op("rm_update", op[c].name, NULL, NULL, {}, NULL))
    /\ UNCHANGED <<tableVars, client, placed>>

\* Mutant: the rows are deleted instead of marked.
RmUpdateDeletes(c) ==
    /\ op[c].at = "rm_update"
    /\ \/ ~OutOfSync /\ vfs' = vfs \ Named(c, op[c].name, "f") /\ Answer(c, "ok")
       \/ OutOfSync /\ Answer(c, "error") /\ UNCHANGED vfs
    /\ UNCHANGED <<auto_inc, client, sql_conn, placed>>

RmUpdate(c) ==
    /\ op[c].at = "rm_update"
    /\ LET gone == Named(c, op[c].name, "f") IN
       \/ /\ ~OutOfSync
          /\ vfs' = (vfs \ gone) \cup {[r EXCEPT !.file_count = 0] : r \in gone}
          /\ Answer(c, "ok")
       \/ OutOfSync /\ Answer(c, "error") /\ UNCHANGED vfs
    /\ UNCHANGED <<auto_inc, client, sql_conn, placed>>

-----------------------------------------------------------------------------
(* do_rmdir: is there such a directory, has it any row, delete it *)

Rmdir(c, n) ==
    /\ Start(c) /\ c \in Main
    /\ \/ Select(c, Op("rmdir_rows", n, NULL, NULL,
                       {r \in Named(c, n, "d") : r.file_count = 1}, NULL))
       \/ OutOfSync /\ Answer(c, "error") /\ UNCHANGED sql_conn
    /\ UNCHANGED <<tableVars, client, placed>>

RmdirResult(c) ==
    /\ op[c].at = "rmdir_rows"
    /\ \/ op[c].rows = {} /\ FreeAndAnswer(c, "no such directory")
       \/ /\ op[c].rows # {}
          /\ Free(c, Op("rmdir_check", op[c].name, NULL, First(op[c].rows).code, {}, NULL))
    /\ UNCHANGED <<tableVars, client, placed>>

\* Mutant: only files count.
RmdirCheckFilesOnly(c) ==
    /\ op[c].at = "rmdir_check"
    /\ Select(c, Op("rmdir_content", op[c].name, NULL, op[c].dir,
                    {r \in vfs : /\ r.owner_uid = Uid(c) /\ r.pre_code = op[c].dir
                                 /\ r.file_type = "f"}, NULL))
    /\ UNCHANGED <<tableVars, client, placed>>

\* The second query asks for every row, removed files included.
RmdirCheck(c) ==
    /\ op[c].at = "rmdir_check"
    /\ \/ Select(c, Op("rmdir_content", op[c].name, NULL, op[c].dir,
                       {r \in vfs : r.owner_uid = Uid(c) /\ r.pre_code = op[c].dir}, NULL))
       \/ OutOfSync /\ Answer(c, "error") /\ UNCHANGED sql_conn
    /\ UNCHANGED <<tableVars, client, placed>>

RmdirContent(c) ==
    /\ op[c].at = "rmdir_content"
    /\ \/ op[c].rows # {} /\ FreeAndAnswer(c, "not empty")
       \/ /\ op[c].rows = {}
          /\ Free(c, Op("rmdir_delete", op[c].name, NULL, op[c].dir, {}, NULL))
    /\ UNCHANGED <<tableVars, client, placed>>

\* The DELETE names the directory, not the code that was checked.
RmdirDelete(c) ==
    /\ op[c].at = "rmdir_delete"
    /\ \/ ~OutOfSync /\ vfs' = vfs \ Named(c, op[c].name, "d") /\ Answer(c, "ok")
       \/ OutOfSync /\ Answer(c, "error") /\ UNCHANGED vfs
    /\ UNCHANGED <<auto_inc, client, sql_conn, placed>>

-----------------------------------------------------------------------------
(* Transfers: the token, then gets or puts on the transfer thread's own      *)
(* connection                                                                *)

\* do_token gives the connection the current directory of the main one.
Token(c) ==
    /\ c \in Child \ live
    /\ Cardinality(InHand) < Workers
    /\ client' = [client EXCEPT ![c] = client[MainOf(c)]]
    /\ live' = live \cup {c}
    /\ answer' = NULL
    /\ UNCHANGED <<tableVars, op, sql_conn, placed>>

\* sql_do_gets asks for removed files too, and returns 0 whatever has come.
Gets(c, n) ==
    /\ Start(c) /\ c \in Child
    /\ \/ Select(c, Op("gets_rows", n, NULL, NULL, Named(c, n, "f"), NULL))
       \/ OutOfSync /\ Answer(c, "valid") /\ UNCHANGED sql_conn
    /\ UNCHANGED <<tableVars, client, placed>>

GetsResult(c) ==
    /\ op[c].at = "gets_rows"
    /\ FreeAndAnswer(c, "valid")
    /\ UNCHANGED <<tableVars, client, placed>>

\* sql_is_file_exist: any row with this MD5, of any user, removed or not.  A
\* failing query counts as "no such content".
PutsUpload(c, n, m) ==
    \E pl \in Places :
       /\ placed' = placed \cup {<<m, pl>>}
       /\ op' = [op EXCEPT ![c] = Op("puts_insert", n, m, NULL, {}, pl)]
       /\ answer' = NULL
       /\ UNCHANGED live

WithMd5(m) == {r \in vfs : r.file_md5 = m}

Puts(c, n, m) ==
    /\ Start(c) /\ c \in Child
    /\ RoomForRow
    /\ \/ Select(c, Op("exist_rows", n, m, NULL, WithMd5(m), NULL)) /\ UNCHANGED placed
       \/ OutOfSync /\ PutsUpload(c, n, m) /\ UNCHANGED sql_conn
    /\ UNCHANGED <<tableVars, client>>

PutsResult(c) ==
    /\ op[c].at = "exist_rows"
    /\ \/ /\ op[c].rows = {}
          /\ PutsUpload(c, op[c].name, op[c].md5)
          /\ sql_conn' = NULL
       \/ /\ op[c].rows # {}
          /\ Free(c, Op("quick_select", op[c].name, op[c].md5, NULL, {}, NULL))
          /\ UNCHANGED placed
    /\ UNCHANGED <<tableVars, client>>

\* sql_do_puts; do_puts does not look at what it returns.
PutsInsert(c) ==
    /\ op[c].at = "puts_insert"
    /\ \/ ~OutOfSync /\ Insert(c, op[c].name, "f", op[c].md5, op[c].place)
       \/ OutOfSync /\ UNCHANGED tableVars
    /\ Answer(c, "uploaded")
    /\ UNCHANGED <<client, sql_conn, placed>>

\* sql_do_quick_puts: where is the content, then a row that says the same.
QuickPuts(c) ==
    /\ op[c].at = "quick_select"
    /\ \/ Select(c, Op("quick_rows", op[c].name, op[c].md5, NULL, WithMd5(op[c].md5), NULL))
       \/ OutOfSync /\ Answer(c, "quick") /\ UNCHANGED sql_conn
    /\ UNCHANGED <<tableVars, client, placed>>

\* Mutant: the new row gets servers of its own.
QuickResultBalanced(c) ==
    /\ op[c].at = "quick_rows"
    /\ op[c].rows # {}
    /\ \E pl \in Places :
          Free(c, Op("quick_insert", op[c].name, op[c].md5, NULL, {}, pl))
    /\ UNCHANGED <<tableVars, client, placed>>

QuickResult(c) ==
    /\ op[c].at = "quick_rows"
    /\ \/ op[c].rows = {} /\ FreeAndAnswer(c, "quick")
       \/ /\ op[c].rows # {}
          /\ Free(c, Op("quick_insert", op[c].name, op[c].md5, NULL, {},
                        First(op[c].rows).place))
    /\ UNCHANGED <<tableVars, client, placed>>

QuickInsert(c) ==
    /\ op[c].at = "quick_insert"
    /\ \/ ~OutOfSync /\ Insert(c, op[c].name, "f", op[c].md5, op[c].place)
       \/ OutOfSync /\ UNCHANGED tableVars
    /\ Answer(c, "quick")
    /\ UNCHANGED <<client, sql_conn, placed>>

-----------------------------------------------------------------------------

Command(c) == \/ CdAtRoot(c) \/ CdToRoot(c) \/ CdUp(c) \/ Ls(c) \/ Token(c)
              \/ \E n \in Names : \/ CdDown(c, n) \/ Mkdir(c, n)
                                  \/ Rm(c, n) \/ Rmdir(c, n) \/ Gets(c, n)
                                  \/ \E m \in Md5s : Puts(c, n, m)

Continue(c) == \/ CdResult(c) \/ LsResult(c)
               \/ RmResult(c) \/ RmUpdate(c)
               \/ RmdirResult(c) \/ RmdirCheck(c) \/ RmdirContent(c) \/ RmdirDelete(c)
               \/ GetsResult(c) \/ PutsResult(c) \/ PutsInsert(c)
               \/ QuickPuts(c) \/ QuickResult(c) \/ QuickInsert(c)

Next == \E c \in Conns : Command(c) \/ Continue(c)

Spec == Init /\ [][Next]_vars

-----------------------------------------------------------------------------
(* Properties *)

TypeOK ==
    /\ vfs \subseteq Row
    /\ \A r, q \in vfs : r.code = q.code => r = q
    /\ auto_inc \in 1..(MaxRows + 1)
    /\ \A c \in Conns : /\ client[c].code \in {0} \cup Codes
                        /\ client[c].pre_code \in {-1, 0} \cup Codes
                        /\ client[c].path \in Seq(Names)
                        /\ op[c].at \in {"idle"} \cup Reading \cup Between
    /\ live \subseteq Conns
    /\ sql_conn \in Conns \cup {NULL}

\* The path a client sees is the directory its commands work on: the names on the
\* way from ~ to the row with its code are its path, and pre_code is the way back.
PathOf(c) ==
    LET p == client[c].path
        d == Len(p)
    IN IF d = 0 THEN client[c].code = 0
       ELSE \E a \in [1..d -> Codes] :
               /\ a[d] = client[c].code
               /\ client[c].pre_code = IF d = 1 THEN 0 ELSE a[d - 1]
               /\ \A i \in 1..d : \E r \in vfs :
                     /\ r.code = a[i] /\ r.file_name = p[i]
                     /\ r.file_type = "d" /\ r.owner_uid = Uid(c)
                     /\ r.pre_code = IF i = 1 THEN -1 ELSE a[i - 1]

PathAgrees == \A c \in Main : PathOf(c)

\* A session is where its user sees it, with codes that the table has.
SessionInv == TypeOK /\ PathAgrees

\* rmdir never leaves a directory without its parent: checking one row for
\* emptiness and deleting by name comes to the same.
NoOrphanDirs ==
    \A r \in vfs : r.file_type = "d" /\ r.pre_code # -1 =>
        \E q \in vfs : /\ q.code = r.pre_code
                       /\ q.file_type = "d" /\ q.owner_uid = r.owner_uid

\* A file row names servers to which a client was told to upload this very
\* content, also when it was made by a quick upload from a row of another user
\* or of a removed file.
ContentPlaced == \A r \in vfs : r.file_type = "f" => <<r.file_md5, r.place>> \in placed

\* A row of a file is never lost or redirected: quick uploads may always copy it.
ContentKept ==
    [][\A r \in vfs : r.file_type = "f" =>
          \E q \in vfs' : /\ q.code = r.code /\ q.file_md5 = r.file_md5
                          /\ q.place = r.place /\ q.file_type = "f"]_vars

\* Every handler frees its result before it returns, on all paths: the connection
\* is never left out of sync for the commands to come.
ResultFreed == sql_conn # NULL => op[sql_conn].at \in Reading
=============================================================================
