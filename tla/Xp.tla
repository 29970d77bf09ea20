--------------------------------- MODULE Xp ---------------------------------
(***************************************************************************)
(* xp, a complete second implementation: an event loop with a table of     *)
(* sessions indexed by descriptor, password and token login, a file tree   *)
(* in MySQL, contents stored under their MD5, and pool workers for puts    *)
(* and gets, which the client makes on a connection of its own.            *)
(*                                                                         *)
(* recvn closes the descriptor when the peer has gone and its callers go   *)
(* on; the descriptor may by then be another connection's.  A read is      *)
(* therefore a read of the next word behind the descriptor number,         *)
(* whatever it was meant for; only the words that a transfer speaks to its *)
(* worker (md5, sizes, buffers) are left unread by the event loop.  The    *)
(* task queue is the one of module BlockQueue and is a sequence here.      *)
(***************************************************************************)
EXTENDS Integers, Sequences, FiniteSets

CONSTANTS Procs,       \* client processes, each with its user and a transfer thread
          Workers,     \* threads of the server's pool
          NFds,        \* bound: descriptors
          Scenarios,   \* bound: who runs a client (runs), what each user types (todo), whom the
                       \* users table knows (known), who may end (quit), the local copies of
                       \* File (disk)
          Dirs, File,  \* names of directories, and the name puts and gets use
          Md5,         \* Md5[p]: the content p uploads
          Body,        \* Body[m]: the buffers of content m
          BigSize,     \* BIG_FILE_SIZE, in buffers
          Pages,       \* positions that are multiples of the page size
          IntMax,      \* 2^31, in buffers
          MaxDepth,    \* bound: depth of a path
          NULL

VARIABLES loop,          \* where the main thread is
          slot,          \* user_info[fd]
          sock,          \* sock[fd]: the connection behind an open descriptor, or NULL
          watched,       \* descriptors in the epoll set
          backlog,       \* connections waiting for accept
          que, wk,       \* the task queue; the workers and their tasks
          sql,           \* the worker between mysql_query and mysql_store_result, or NULL
          users,         \* users[p]: password and pwd of the registered user, or NULL
          files, nextid, \* the files table and its next id
          store,         \* store[m]: the file named m in the server's storage, or NULL
          up, down,      \* strings and numbers under way on each connection
          quitters,      \* processes that may end, constant
          cl, xf,        \* cl[p], xf[p]: main and transfer thread of the client
          disk,          \* disk[p]: the local copy of File
          loose,         \* history: descriptors whose next client is online without a login
          cut,           \* history: contents whose transfer lost its connection, NULL or Junk
                         \* when it was not known yet
          twice          \* history: contents that had a row while an upload of them was writing

vars == <<loop, slot, sock, watched, backlog, que, wk, sql, users, files, nextid, store,
          up, down, quitters, cl, xf, disk, loose, cut, twice>>

Fds   == 1..NFds
Conns == Procs \X {"main", "xfer"}
Main(p) == <<p, "main">>
Xfer(p) == <<p, "xfer">>
Md5s  == {Md5[p] : p \in Procs}
Junk  == "junk"                       \* bytes nobody sent
NoFile == "0"                         \* the md5 column of a directory
Names == Dirs \cup {File, "..", "/"}
Paths == Seq(Dirs \cup {File})
IsSeq(s) == Len(s) \in Nat /\ s = [i \in 1..Len(s) |-> s[i]]

W(k, v) == [k |-> k, v |-> v]
Cmd(c, n) == [k |-> "cmd", v |-> c, name |-> n]
Slot(on, id, pwd, st) == [online |-> on, id |-> id, pwd |-> pwd, status |-> st]
Row(i, parent, n, t, id, m) ==
    [id |-> i, parent |-> parent, name |-> n, type |-> t, owner |-> id, md5 |-> m, tomb |-> 0]
Idle == [at |-> "idle", fd |-> 0, type |-> "none", md5 |-> NULL, parent |-> 0, pos |-> 0]

Init == /\ loop = [at |-> "wait", fd |-> 0]
        /\ slot = [d \in Fds |-> Slot(FALSE, NULL, <<>>, "RECV_CMD")]
        /\ sock = [d \in Fds |-> NULL] /\ watched = {} /\ backlog = <<>>
        /\ que = <<>> /\ wk = [w \in Workers |-> Idle] /\ sql = NULL
        /\ files = {} /\ nextid = 1 /\ store = [m \in Md5s |-> NULL]
        /\ up = [k \in Conns |-> <<>>] /\ down = [k \in Conns |-> <<>>]
        /\ \E s \in Scenarios :
              /\ cl = [p \in Procs |-> [at |-> IF p \in s.runs THEN "new" ELSE "dead", token |-> NULL, todo |-> s.todo[p]]]
              /\ users = [p \in Procs |-> IF p \in s.known THEN [pass |-> "right", pwd |-> <<>>]
                                         ELSE NULL]
              /\ disk = s.disk /\ quitters = s.quit
        /\ xf = [p \in Procs |-> [at |-> "none", type |-> "none", len |-> 0, pos |-> 0]]
        /\ loose = {} /\ cut = {} /\ twice = {}

clientVars == <<quitters, cl, xf, disk>>
dbVars     == <<users, files, nextid>>
netVars    == <<sock, watched, backlog>>
poolVars   == <<que, wk, sql, store>>
history    == <<loose, cut, twice>>

Running == loop.at # "down"
Gone(k) == \/ cl[k[1]].at = "dead"
           \/ k[2] = "xfer" /\ xf[k[1]].at = "over"
Put(s, k, ws) == [s EXCEPT ![k] = @ \o ws]

ASSUME XpAssumption == NFds \in Nat /\ MaxDepth \in Nat

\* NULL and what stands for no content are nothing else; contents are sequences.
ASSUME ValuesAssumption ==
    /\ NULL \notin Procs \cup Workers \cup Conns \cup Md5s
    /\ NULL \notin [pass : {"right", "wrong"}, pwd : Paths]
    /\ Junk \notin Md5s /\ NoFile \notin Md5s
    /\ \A m \in Md5s : IsSeq(Body[m])

\* Sizes go through atoi; those of 2^31 and more, which it does not give back, are left out.
ASSUME SizeAssumption == BigSize \in Nat /\ IntMax \in Nat /\ \A m \in Md5s : Len(Body[m]) < IntMax

ASSUME ScenarioAssumption ==
    \A s \in Scenarios : /\ s.disk = [p \in Procs |-> s.disk[p]]
                          /\ \A p \in Procs : IsSeq(s.disk[p])

-----------------------------------------------------------------------------
(* The client: main thread, cmd_handler, send_token *)

Start(p) ==
    /\ Running /\ cl[p].at = "new"
    /\ cl' = [cl EXCEPT ![p].at = "offline"]
    /\ backlog' = Append(backlog, Main(p))
    /\ UNCHANGED <<loop, slot, sock, watched, poolVars, dbVars, up, down, quitters, xf, disk, history>>

\* Offline, a line is user name and password: a token length of 0, then the line.
TypeLogin(p) ==
    /\ cl[p].at = "offline"
    /\ \E v \in {"right", "wrong"} :
          /\ cl[p].todo # <<>> /\ cl[p].todo[1] = <<"login", v>>
          /\ up' = Put(up, Main(p), <<W("zero", 0), W("cred", v)>>)
    /\ cl' = [cl EXCEPT ![p].at = "asked", ![p].todo = Tail(@)]
    /\ UNCHANGED <<loop, slot, netVars, poolVars, dbVars, down, quitters, xf, disk, history>>

\* An answer with "success" is followed by the token, which goes to a file.
RecvLogin(p) ==
    /\ cl[p].at = "asked" /\ down[Main(p)] # <<>>
    /\ LET r == down[Main(p)][1] IN
       \/ /\ r.k = "answer" /\ r.v = "error"
          /\ cl' = [cl EXCEPT ![p].at = "offline"]
          /\ down' = [down EXCEPT ![Main(p)] = Tail(@)]
       \/ /\ r.k = "answer" /\ r.v = "success" /\ Len(down[Main(p)]) > 1
          /\ cl' = [cl EXCEPT ![p].at = "online", ![p].token = down[Main(p)][2].v]
          /\ down' = [down EXCEPT ![Main(p)] = SubSeq(@, 3, Len(@))]
    /\ UNCHANGED <<loop, slot, netVars, poolVars, dbVars, up, quitters, xf, disk, history>>

\* The user types the next line.
Type(p, c, n) == /\ cl[p].todo # <<>> /\ cl[p].todo[1] = <<c, n>>
                 /\ cl' = [cl EXCEPT ![p].todo = Tail(@)]

TypeCommand(p, c, n) ==
    /\ cl[p].at = "online"
    /\ Type(p, c, n)
    /\ up' = Put(up, Main(p), <<Cmd(c, n)>>)
    /\ UNCHANGED <<loop, slot, netVars, poolVars, dbVars, down, quitters, xf, disk, history>>

\* puts and gets, online or not, connect again and send the token and the line.
SendToken(p, c) ==
    /\ cl[p].at \in {"offline", "online"}
    /\ xf[p].at = "none" /\ Running
    /\ Type(p, c, File)
    /\ backlog' = Append(backlog, Xfer(p))
    /\ up' = Put(up, Xfer(p), <<W("token", cl[p].token), Cmd(c, File)>>)
    /\ xf' = [xf EXCEPT ![p] = [at |-> "start", type |-> c, len |-> 0, pos |-> 0]]
    /\ UNCHANGED <<loop, slot, sock, watched, poolVars, dbVars, down, quitters, disk, history>>

\* The process is ended.
Quit(p) ==
    /\ p \in quitters /\ cl[p].at \notin {"new", "dead"}
    /\ cl' = [cl EXCEPT ![p].at = "dead"]
    /\ UNCHANGED <<loop, slot, netVars, poolVars, dbVars, up, down, quitters, xf, disk, history>>

-----------------------------------------------------------------------------
(* The client's pool: send_file and recv_file *)

Alive(p) == cl[p].at # "dead"
From(p, k) == down[Xfer(p)] # <<>> /\ down[Xfer(p)][1].k = k
TailDown(p) == down' = [down EXCEPT ![Xfer(p)] = Tail(@)]
xfFrame == <<loop, slot, netVars, poolVars, dbVars, quitters, cl, history>>

SendMd5(p) ==
    /\ Alive(p) /\ xf[p].at = "start" /\ xf[p].type = "puts"
    /\ up' = Put(up, Xfer(p), <<W("md5", Md5[p])>>)
    /\ xf' = [xf EXCEPT ![p].at = "fast"]
    /\ UNCHANGED <<down, disk, xfFrame>>

\* FAST_UPLOAD, or the size and the content.
SendContent(p) ==
    /\ Alive(p) /\ xf[p].at = "fast" /\ From(p, "fast")
    /\ \/ /\ down[Xfer(p)][1].v = TRUE
          /\ xf' = [xf EXCEPT ![p].at = "over"] /\ UNCHANGED up
       \/ /\ down[Xfer(p)][1].v = FALSE
          /\ up' = Put(up, Xfer(p), <<W("size", Len(Body[Md5[p]]))>>)
          /\ xf' = [xf EXCEPT ![p].at = "sending", ![p].pos = 0]
    /\ TailDown(p)
    /\ UNCHANGED <<disk, xfFrame>>

SendBuffer(p) ==
    /\ Alive(p) /\ xf[p].at = "sending"
    /\ LET b == Body[Md5[p]]
           i == xf[p].pos
       IN \/ /\ i < Len(b)
             /\ up' = Put(up, Xfer(p), <<W("buf", b[i + 1])>>)
             /\ xf' = [xf EXCEPT ![p].pos = i + 1]
          \/ i = Len(b) /\ xf' = [xf EXCEPT ![p].at = "over"] /\ UNCHANGED up
    /\ UNCHANGED <<down, disk, xfFrame>>

\* recv_file: the size of the local copy and, unless it is 0, its MD5.
SendLocal(p) ==
    /\ Alive(p) /\ xf[p].at = "start" /\ xf[p].type = "gets"
    /\ up' = Put(up, Xfer(p),
                 IF disk[p] = <<>> THEN <<W("have", 0)>>
                 ELSE <<W("have", Len(disk[p])), W("md5", disk[p])>>)
    /\ xf' = [xf EXCEPT ![p].at = IF disk[p] = <<>> THEN "length" ELSE "check"]
    /\ UNCHANGED <<down, disk, xfFrame>>

RecvCheck(p) ==
    /\ Alive(p) /\ xf[p].at = "check" /\ From(p, "check")
    /\ xf' = [xf EXCEPT ![p].at = "length",
                        ![p].pos = IF down[Xfer(p)][1].v THEN Len(disk[p]) ELSE 0]
    /\ TailDown(p)
    /\ UNCHANGED <<up, disk, xfFrame>>

\* A big file is mapped, from the offset on.  At one that is not a multiple of the page
\* size mmap fails, which nobody asks for.
Big(n)         == n >= BigSize
Unmapped(i, n) == Big(n) /\ i < n /\ i \notin Pages

\* The size; ftruncate gives it to the copy of a big file.
Truncated(s, n) == [i \in 1..n |-> IF i <= Len(s) THEN s[i] ELSE "hole"]
RecvLength(p) ==
    /\ Alive(p) /\ xf[p].at = "length" /\ From(p, "length")
    /\ LET n == down[Xfer(p)][1].v IN
       /\ xf' = [xf EXCEPT ![p].at = IF Unmapped(xf[p].pos, n) THEN "unmapped" ELSE "receiving",
                           ![p].len = n]
       /\ disk' = IF Big(n) THEN [disk EXCEPT ![p] = Truncated(@, n)] ELSE disk
    /\ TailDown(p)
    /\ UNCHANGED <<up, xfFrame>>

\* Nothing can be received where nothing is mapped: the loop ends with the connection.
RecvUnmapped(p) ==
    /\ Alive(p) /\ xf[p].at = "unmapped"
    /\ \A d \in Fds : sock[d] # Xfer(p)
    /\ xf' = [xf EXCEPT ![p].at = "over"]
    /\ UNCHANGED <<up, down, disk, xfFrame>>

\* A buffer is written at the offset; nothing shortens a small copy that is too long.
RecvBuffer(p) ==
    /\ Alive(p) /\ xf[p].at = "receiving"
    /\ LET i == xf[p].pos IN
       \/ /\ i < xf[p].len /\ From(p, "buf")
          /\ disk' = [disk EXCEPT ![p] = SubSeq(@, 1, i) \o <<down[Xfer(p)][1].v>>
                                            \o SubSeq(@, i + 2, Len(@))]
          /\ xf' = [xf EXCEPT ![p].pos = i + 1]
          /\ TailDown(p)
       \/ i >= xf[p].len /\ xf' = [xf EXCEPT ![p].at = "over"] /\ UNCHANGED <<down, disk>>
    /\ UNCHANGED <<up, xfFrame>>

-----------------------------------------------------------------------------
(* The server's event loop *)

At(at, d) == [at |-> at, fd |-> d]
Event(d) == loop.at = "wait" /\ d \in watched
Readable(d, k) == up[sock[d]] # <<>> /\ up[sock[d]][1].k = k
Eof(d) == Gone(sock[d]) /\ up[sock[d]] = <<>>
Consume(d, n) == up' = [up EXCEPT ![sock[d]] = SubSeq(@, n + 1, Len(@))]
Reply(d, ws) == down' = IF Gone(sock[d]) THEN down ELSE Put(down, sock[d], ws)

\* accept does not touch user_info.
Accept ==
    /\ loop.at = "wait" /\ backlog # <<>>
    /\ \E d \in Fds : /\ sock[d] = NULL /\ \A e \in 1..(d - 1) : sock[e] # NULL
                      /\ sock' = [sock EXCEPT ![d] = backlog[1]]
                      /\ watched' = watched \cup {d}
    /\ backlog' = Tail(backlog)
    /\ UNCHANGED <<loop, slot, poolVars, dbVars, up, down, clientVars, history>>

\* login_handler, password: an unknown user is registered.
LoginPassword(d) ==
    /\ Event(d) /\ ~slot[d].online /\ Readable(d, "zero") /\ sql = NULL
    /\ LET p == sock[d][1]
           v == up[sock[d]][2].v
       IN \/ /\ users[p] # NULL /\ users[p].pass # v
             /\ Reply(d, <<W("answer", "error")>>)
             /\ UNCHANGED <<users, slot, loose>>
          \/ /\ users[p] # NULL => users[p].pass = v
             /\ users' = IF users[p] = NULL THEN [users EXCEPT ![p] = [pass |-> v, pwd |-> <<>>]]
                         ELSE users
             /\ slot' = [slot EXCEPT ![d] = Slot(TRUE, p, users'[p].pwd, @.status)]
             /\ loose' = loose \ {d}
             /\ Reply(d, <<W("answer", "success"), W("token", p)>>)
    /\ Consume(d, 2)
    /\ UNCHANGED <<loop, netVars, poolVars, files, nextid, clientVars, cut, twice>>

\* login_handler, token: the pwd comes from the users table.
LoginToken(d) ==
    /\ Event(d) /\ ~slot[d].online /\ Readable(d, "token") /\ sql = NULL
    /\ LET id == up[sock[d]][1].v IN
       /\ id # NULL
       /\ slot' = [slot EXCEPT ![d] = Slot(TRUE, id, users[id].pwd, @.status)]
    /\ loose' = loose \ {d}
    /\ Consume(d, 1)
    /\ UNCHANGED <<loop, netVars, poolVars, dbVars, down, clientVars, cut, twice>>

\* login_handler when the token does not decode, or is none but a command or credentials:
\* nobody is looked up, yet online is set.
LoginAnyway(d) ==
    /\ Event(d) /\ ~slot[d].online
    /\ \/ Readable(d, "token") /\ up[sock[d]][1].v = NULL
       \/ Readable(d, "cmd") \/ Readable(d, "cred")
    /\ slot' = [slot EXCEPT ![d].online = TRUE]
    /\ loose' = loose \cup {d}
    /\ Consume(d, 1)
    /\ UNCHANGED <<loop, netVars, poolVars, dbVars, down, clientVars, cut, twice>>

\* Workers that have not done with the connection behind d.
Using(d) == {w \in Workers : wk[w].fd = d /\ wk[w].at \notin {"idle", "close", "status"}}

\* close, whoever calls it: workers that use the descriptor have lost their connection.
Closed(d) == /\ sock' = [sock EXCEPT ![d] = NULL]
             /\ watched' = watched \ {d}
             /\ cut' = cut \cup {wk[w].md5 : w \in Using(d)}

\* The peer leaves before it is known: recvn closes, the uninitialized length is taken
\* for a token's, and the slot is online for the next owner of the descriptor.
LoginEof(d) ==
    /\ Event(d) /\ ~slot[d].online /\ Eof(d)
    /\ Closed(d)
    /\ slot' = [slot EXCEPT ![d].online = TRUE]
    /\ loose' = loose \cup {d}
    /\ UNCHANGED <<loop, backlog, poolVars, dbVars, up, down, clientVars, twice>>

\* The event loop reads the length of a command.
Listens(d) == Event(d) /\ slot[d].online /\ slot[d].status = "RECV_CMD"

\* Mutant: recvn does not end the session.
CommandEofOnline(d) ==
    /\ Listens(d) /\ Eof(d)
    /\ Closed(d)
    /\ UNCHANGED <<loop, slot, backlog, poolVars, dbVars, up, down, clientVars, loose, twice>>

\* The peer of an online session leaves in order: recvn returns 0.
CommandEof(d) ==
    /\ Listens(d) /\ Eof(d)
    /\ Closed(d)
    /\ slot' = [slot EXCEPT ![d].online = FALSE]
    /\ UNCHANGED <<loop, backlog, poolVars, dbVars, up, down, clientVars, loose, twice>>

-----------------------------------------------------------------------------
(* cmd_handler *)

Command(d, c) == /\ Listens(d)
                 /\ Readable(d, "cmd") /\ up[sock[d]][1].v = c
                 /\ Consume(d, 1)
Arg(d) == up[sock[d]][1].name

\* mysql_pwd_to_id: the directory at the end of the path, 0 for /, or -1.
SubDir(id, parent, n) ==
    LET rs == {r \in files : r.parent = parent /\ r.type = "d" /\ r.name = n /\ r.owner = id}
    IN IF parent = -1 \/ rs = {} THEN -1
       ELSE (CHOOSE r \in rs : \A q \in rs : r.id <= q.id).id
PwdToId(id, pwd) ==
    LET dir[i \in 0..Len(pwd)] == IF i = 0 THEN 0 ELSE SubDir(id, dir[i - 1], pwd[i])
    IN dir[Len(pwd)]

NewPath(d) == LET old == slot[d].pwd IN
              IF Arg(d) = "/" THEN <<>>
              ELSE IF Arg(d) # ".." THEN Append(old, Arg(d))
              ELSE IF old = <<>> THEN old ELSE SubSeq(old, 1, Len(old) - 1)

\* cd: the new path is kept if it leads somewhere, and saved in the users table.
Cd(d) ==
    /\ Command(d, "cd") /\ sql = NULL
    /\ LET new == NewPath(d)
           id  == slot[d].id
       IN /\ Len(new) <= MaxDepth
          /\ \/ /\ PwdToId(id, new) = -1
                /\ UNCHANGED <<slot, users>>
             \/ /\ PwdToId(id, new) # -1
                /\ slot' = [slot EXCEPT ![d].pwd = new]
                /\ users' = IF id = NULL THEN users ELSE [users EXCEPT ![id].pwd = new]
    /\ UNCHANGED <<loop, netVars, poolVars, files, nextid, down, clientVars, history>>

\* ls and pwd report; what they and cd answer the client only shows.
Report(d) ==
    /\ Command(d, "ls") /\ sql = NULL
    /\ UNCHANGED <<loop, slot, netVars, poolVars, dbVars, down, clientVars, history>>

Insert(i, n, t, id, m) == /\ files' = files \cup {Row(nextid, i, n, t, id, m)}
                          /\ nextid' = nextid + 1

Mkdir(d) ==
    /\ Command(d, "mkdir") /\ sql = NULL
    /\ Insert(PwdToId(slot[d].id, slot[d].pwd), Arg(d), "d", slot[d].id, NoFile)
    /\ UNCHANGED <<loop, slot, netVars, poolVars, users, down, clientVars, history>>

\* rm: directory and name, files and directories, of whatever owner.
Rm(d) ==
    /\ Command(d, "rm") /\ sql = NULL
    /\ LET i == PwdToId(slot[d].id, slot[d].pwd) IN
       files' = {IF r.parent = i /\ r.name = Arg(d) THEN [r EXCEPT !.tomb = 1] ELSE r :
                    r \in files}
    /\ UNCHANGED <<loop, slot, netVars, poolVars, users, nextid, down, clientVars, history>>

\* A token or credentials where a command is due are a command nobody knows.
Unknown(d) ==
    /\ Listens(d) /\ (Readable(d, "token") \/ Readable(d, "cred"))
    /\ Consume(d, 1)
    /\ UNCHANGED <<loop, slot, netVars, poolVars, dbVars, down, clientVars, history>>

\* When no command is read, the one before it is still in the buffer, without the name
\* that strtok cut off: an mkdir then makes a directory "(null)".
LastCommand(d) ==
    \/ UNCHANGED <<files, nextid>>
    \/ /\ sql = NULL
       /\ Insert(PwdToId(slot[d].id, slot[d].pwd), Junk, "d", slot[d].id, NoFile)

\* The length 0 of a login by password where a command is due.
EmptyCommand(d) ==
    /\ Listens(d) /\ Readable(d, "zero")
    /\ LastCommand(d)
    /\ Consume(d, 1)
    /\ UNCHANGED <<loop, slot, netVars, poolVars, users, down, clientVars, history>>

\* The connection was reset: recvn closes and returns -1, which nobody asks for, and the
\* session stays online for the next owner of the descriptor.
CommandReset(d) ==
    /\ Listens(d) /\ Eof(d)
    /\ LastCommand(d)
    /\ Closed(d)
    /\ loose' = loose \cup {d}
    /\ UNCHANGED <<loop, slot, backlog, poolVars, users, up, down, clientVars, twice>>

\* puts and gets: the socket leaves the epoll set, the task goes to the pool ...
Push(d) ==
    /\ \E c \in {"puts", "gets"} :
          /\ Command(d, c)
          /\ que' = Append(que, [fd |-> d, type |-> c])
    /\ slot' = [slot EXCEPT ![d].status = "RECV_FILE"]
    /\ watched' = watched \ {d}
    /\ loop' = At("pushed", d)
    /\ UNCHANGED <<sock, backlog, wk, sql, store, dbVars, down, clientVars, history>>

\* ... and login_handler sets online, also when the worker is done and has cleared it.
SetOnline ==
    /\ loop.at = "pushed"
    /\ loop' = At("wait", 0)
    /\ slot' = [slot EXCEPT ![loop.fd].online = TRUE]
    /\ loose' = IF slot[loop.fd].online THEN loose ELSE loose \cup {loop.fd}
    /\ UNCHANGED <<netVars, poolVars, dbVars, up, down, clientVars, cut, twice>>

\* A query between the two calls of another thread's query.
QueryCollides ==
    /\ sql # NULL
    /\ \/ \E d \in Fds : /\ Event(d) /\ up[sock[d]] # <<>>
                         /\ LET x == up[sock[d]][1] IN
                            \/ /\ ~slot[d].online
                               /\ (x.k = "zero" \/ (x.k = "token" /\ x.v # NULL))
                            \/ /\ Listens(d)
                               /\ x.k = "cmd" /\ x.v \notin {"puts", "gets"}
       \/ \E w \in Workers : w # sql /\ wk[w].at \in {"query", "insert", "find"}

\* Of the command or the credentials in a buffer nobody wrote to, strtok may return NULL.
NameMissing ==
    \E d \in Fds : \/ Event(d) /\ Eof(d) /\ (~slot[d].online \/ Listens(d))
                   \/ Listens(d) /\ Readable(d, "zero")

\* Either ends the server.
ServerEnds ==
    /\ QueryCollides \/ NameMissing
    /\ loop' = At("down", 0)
    /\ UNCHANGED <<slot, netVars, poolVars, dbVars, up, down, clientVars, history>>

-----------------------------------------------------------------------------
(* The server's pool: event_loop, recv_file, send_file *)

wkFrame == <<loop, backlog, que, clientVars>>
Step(w, r) == wk' = [wk EXCEPT ![w] = r]
Goto(w, at) == Step(w, [wk[w] EXCEPT !.at = at])

Pop(w) ==
    /\ Running /\ wk[w].at = "idle" /\ que # <<>>
    /\ Step(w, [Idle EXCEPT !.at = IF que[1].type = "puts" THEN "md5" ELSE "find",
                            !.fd = que[1].fd, !.type = que[1].type])
    /\ que' = Tail(que)
    /\ UNCHANGED <<loop, slot, netVars, sql, store, dbVars, up, down, clientVars, history>>

\* recvn on the worker's descriptor: the next word, from whomever ...
HasWord(w) == sock[wk[w].fd] # NULL /\ up[sock[wk[w].fd]] # <<>>
Next1(w)   == up[sock[wk[w].fd]][1]
Take(w)    == HasWord(w) /\ Consume(wk[w].fd, 1) /\ UNCHANGED <<sock, watched, slot, loose>>

\* ... or nothing: the descriptor was closed before, or the peer has gone, in order or not.
Lost(w) ==
    /\ LET d == wk[w].fd IN
       \/ sock[d] = NULL /\ cut' = cut \cup {wk[w].md5} /\ UNCHANGED <<sock, watched, slot, loose>>
       \/ /\ sock[d] # NULL /\ Eof(d) /\ Closed(d)
          /\ \/ slot' = [slot EXCEPT ![d].online = FALSE] /\ UNCHANGED loose
             \/ loose' = loose \cup {d} /\ UNCHANGED slot
    /\ UNCHANGED up

\* sendn and send_string: nobody looks at what they return.
Answer(w, ws) == IF sock[wk[w].fd] = NULL THEN UNCHANGED down ELSE Reply(wk[w].fd, ws)

\* recv_file: the MD5.
RecvMd5(w) ==
    /\ Running /\ wk[w].at = "md5"
    /\ \/ /\ Take(w)
          /\ Step(w, [wk[w] EXCEPT !.at = "query",
                                   !.md5 = IF Next1(w).k = "md5" THEN Next1(w).v ELSE Junk])
          /\ UNCHANGED cut
       \/ Lost(w) /\ Step(w, [wk[w] EXCEPT !.at = "query", !.md5 = Junk])
    /\ UNCHANGED <<sql, store, dbVars, down, twice, wkFrame>>

\* mysql_disk_query is two calls, mysql_query and mysql_store_result.
Query(w) ==
    /\ Running /\ wk[w].at \in {"query", "find"} /\ sql = NULL
    /\ sql' = w
    /\ Goto(w, IF wk[w].at = "query" THEN "result" ELSE "row")
    /\ UNCHANGED <<slot, sock, watched, store, dbVars, up, down, history, wkFrame>>

\* Mutant: the client hears only of a FAST_UPLOAD.
ResultMd5Silent(w) ==
    /\ Running /\ wk[w].at = "result"
    /\ sql' = NULL
    /\ LET fast == \E r \in files : r.md5 = wk[w].md5
           s    == slot[wk[w].fd]
       IN /\ IF fast THEN Answer(w, <<W("fast", TRUE)>>) ELSE UNCHANGED down
          /\ Step(w, [wk[w] EXCEPT !.at = IF fast THEN "insert" ELSE "open",
                                   !.parent = PwdToId(s.id, s.pwd)])
    /\ UNCHANGED <<slot, sock, watched, store, dbVars, up, history, wkFrame>>

\* A row of any user with this MD5 makes it a FAST_UPLOAD.
ResultMd5(w) ==
    /\ Running /\ wk[w].at = "result"
    /\ sql' = NULL
    /\ LET fast == \E r \in files : r.md5 = wk[w].md5
           s    == slot[wk[w].fd]
       IN /\ Answer(w, <<W("fast", fast)>>)
          /\ Step(w, [wk[w] EXCEPT !.at = IF fast THEN "insert" ELSE "open",
                                   !.parent = PwdToId(s.id, s.pwd)])
    /\ UNCHANGED <<slot, sock, watched, store, dbVars, up, history, wkFrame>>

Stores(w) == {m \in Md5s : m = wk[w].md5}
Writing(w, m) == wk[w].md5 = m /\ wk[w].at \in {"size", "content"}

\* open with O_TRUNC.
Open(w) ==
    /\ Running /\ wk[w].at = "open"
    /\ store' = [m \in Md5s |-> IF m \in Stores(w) THEN <<>> ELSE store[m]]
    /\ twice' = twice \cup {m \in Stores(w) : \E r \in files : r.md5 = m}
    /\ Goto(w, "size")
    /\ UNCHANGED <<slot, sock, watched, sql, dbVars, up, down, loose, cut, wkFrame>>

\* The size; without it fsize is whatever was on the stack, here 0.
RecvSize(w) ==
    /\ Running /\ wk[w].at = "size"
    /\ \/ Take(w) /\ Goto(w, "content") /\ UNCHANGED cut
       \/ Lost(w) /\ Goto(w, "insert")
    /\ UNCHANGED <<sql, store, dbVars, down, twice, wkFrame>>

\* write at the worker's own position.
Written(s, i, v) == [j \in 1..(IF Len(s) > i THEN Len(s) ELSE i + 1) |->
                        IF j = i + 1 THEN v ELSE IF j <= Len(s) THEN s[j] ELSE "hole"]
Write(w, v) == store' = [m \in Md5s |-> IF m \in Stores(w) THEN Written(store[m], wk[w].pos, v)
                                        ELSE store[m]]
Finished(w) == \A m \in Stores(w) : wk[w].pos >= Len(Body[m])

\* Mutant: the row is inserted after the first buffer.
RecvContentFirst(w) ==
    /\ Running /\ wk[w].at = "content"
    /\ Take(w) /\ Write(w, Next1(w).v)
    /\ Goto(w, "insert")
    /\ UNCHANGED <<sql, dbVars, down, cut, twice, wkFrame>>

\* The content, buffer by buffer; one that did not come is written all the same.
RecvContent(w) ==
    /\ Running /\ wk[w].at = "content"
    /\ \/ /\ ~Finished(w) /\ Take(w)
          /\ Write(w, IF Next1(w).k = "buf" THEN Next1(w).v ELSE Junk)
          /\ cut' = IF Next1(w).k = "buf" THEN cut ELSE cut \cup Stores(w)
          /\ Step(w, [wk[w] EXCEPT !.pos = @ + 1])
       \/ /\ ~Finished(w) /\ Lost(w)
          /\ Write(w, Junk)
          /\ Step(w, [wk[w] EXCEPT !.pos = @ + 1])
       \/ /\ Finished(w)
          /\ Goto(w, "insert")
          /\ UNCHANGED <<sock, watched, slot, up, store, cut, loose>>
    /\ UNCHANGED <<sql, dbVars, down, twice, wkFrame>>

\* The row: the directory looked up before, the id the session has now.
InsertRow(w) ==
    /\ Running /\ wk[w].at = "insert" /\ sql = NULL
    /\ Insert(wk[w].parent, File, "f", slot[wk[w].fd].id, wk[w].md5)
    /\ twice' = twice \cup {m \in Stores(w) : \E v \in Workers : Writing(v, m)}
    /\ Goto(w, "done")
    /\ UNCHANGED <<slot, sock, watched, sql, store, users, up, down, loose, cut, wkFrame>>

\* send_file: the first row of this directory and name, of whatever owner, removed or
\* not; if there is none, the server dereferences NULL.
FindRow(w) ==
    /\ Running /\ wk[w].at = "row"
    /\ sql' = NULL
    /\ LET s  == slot[wk[w].fd]
           rs == {r \in files : r.parent = PwdToId(s.id, s.pwd) /\ r.name = File}
       IN \/ rs = {} /\ loop' = At("down", 0) /\ UNCHANGED wk
          \/ /\ rs # {}
             /\ Step(w, [wk[w] EXCEPT !.at = "have",
                            !.md5 = (CHOOSE r \in rs : \A q \in rs : r.id <= q.id).md5])
             /\ UNCHANGED loop
    /\ UNCHANGED <<slot, netVars, que, store, dbVars, up, down, clientVars, history>>

\* The size of the client's copy; its MD5 follows unless it is 0.
RecvHave(w) ==
    /\ Running /\ wk[w].at = "have"
    /\ \/ /\ Take(w) /\ Goto(w, IF Next1(w).k = "have" /\ Next1(w).v # 0 THEN "check" ELSE "length")
          /\ UNCHANGED cut
       \/ Lost(w) /\ Goto(w, "length")
    /\ UNCHANGED <<sql, store, dbVars, down, twice, wkFrame>>

Stored(w) == IF Stores(w) = {} THEN <<>> ELSE store[wk[w].md5]
FileSize(w) == IF Stores(w) = {} THEN 0 ELSE Len(Body[wk[w].md5])

\* Mutant: any copy is taken for the beginning of the file.
IsPrefixAlways(c, s) == Len(c) <= Len(s)

\* The MD5 of the client's copy is that of as many bytes of the file.
IsPrefix(c, s) == Len(c) <= Len(s) /\ SubSeq(s, 1, Len(c)) = c

CheckMd5(w) ==
    /\ Running /\ wk[w].at = "check"
    /\ \/ /\ Take(w)
          /\ LET ok == Next1(w).k = "md5" /\ IsPrefix(Next1(w).v, Stored(w)) IN
             /\ Answer(w, <<W("check", ok)>>)
             /\ Step(w, [wk[w] EXCEPT !.at = "length", !.pos = IF ok THEN Len(Next1(w).v) ELSE 0])
          /\ UNCHANGED cut
       \/ Lost(w) /\ Goto(w, "length") /\ UNCHANGED down
    /\ UNCHANGED <<sql, store, dbVars, twice, wkFrame>>

\* The size.  Of what is not mapped nothing is sent.
SendLength(w) ==
    /\ Running /\ wk[w].at = "length"
    /\ Answer(w, <<W("length", FileSize(w))>>)
    /\ Goto(w, IF Unmapped(wk[w].pos, FileSize(w)) THEN "done" ELSE "send")
    /\ UNCHANGED <<slot, sock, watched, sql, store, dbVars, up, history, wkFrame>>

SendFile(w) ==
    /\ Running /\ wk[w].at = "send"
    /\ LET i == wk[w].pos + 1 IN
       \/ /\ wk[w].pos < FileSize(w)
          /\ Answer(w, <<W("buf", IF i <= Len(Stored(w)) THEN Stored(w)[i] ELSE Junk)>>)
          /\ Step(w, [wk[w] EXCEPT !.pos = i])
       \/ wk[w].pos >= FileSize(w) /\ Goto(w, "done") /\ UNCHANGED down
    /\ UNCHANGED <<slot, sock, watched, sql, store, dbVars, up, history, wkFrame>>

\* event_loop, after the task: online, close, recv_status, in this order.
TaskOffline(w) ==
    /\ Running /\ wk[w].at = "done"
    /\ slot' = [slot EXCEPT ![wk[w].fd].online = FALSE]
    /\ Goto(w, "close")
    /\ UNCHANGED <<sock, watched, sql, store, dbVars, up, down, history, wkFrame>>

TaskClose(w) ==
    /\ Running /\ wk[w].at = "close"
    /\ Closed(wk[w].fd)
    /\ loose' = IF slot[wk[w].fd].online THEN loose \cup {wk[w].fd} ELSE loose
    /\ Goto(w, "status")
    /\ UNCHANGED <<slot, sql, store, dbVars, up, down, twice, wkFrame>>

TaskStatus(w) ==
    /\ Running /\ wk[w].at = "status"
    /\ slot' = [slot EXCEPT ![wk[w].fd].status = "RECV_CMD"]
    /\ Step(w, Idle)
    /\ UNCHANGED <<sock, watched, sql, store, dbVars, up, down, history, wkFrame>>

-----------------------------------------------------------------------------

Transfer(p) == \/ SendMd5(p) \/ SendContent(p) \/ SendBuffer(p)
               \/ SendLocal(p) \/ RecvCheck(p) \/ RecvLength(p)
               \/ RecvUnmapped(p) \/ RecvBuffer(p)

User(p) == \/ Start(p) \/ TypeLogin(p) \/ RecvLogin(p) \/ Quit(p)
           \/ \E c \in {"cd", "ls", "mkdir", "rm"}, n \in Names :
                 TypeCommand(p, c, n)
           \/ \E c \in {"puts", "gets"} : SendToken(p, c)

Serve(d) == \/ LoginPassword(d) \/ LoginToken(d) \/ LoginAnyway(d) \/ LoginEof(d)
            \/ CommandEof(d) \/ CommandReset(d) \/ Unknown(d) \/ EmptyCommand(d)
            \/ Cd(d) \/ Report(d) \/ Mkdir(d) \/ Rm(d) \/ Push(d)
EventLoop == Accept \/ SetOnline \/ \E d \in Fds : Serve(d)

Thread(w) == \/ Pop(w) \/ Query(w)
             \/ RecvMd5(w) \/ ResultMd5(w) \/ Open(w) \/ RecvSize(w) \/ RecvContent(w)
             \/ InsertRow(w)
             \/ FindRow(w) \/ RecvHave(w) \/ CheckMd5(w) \/ SendLength(w) \/ SendFile(w)
             \/ TaskOffline(w) \/ TaskClose(w) \/ TaskStatus(w)

Next == \/ \E p \in Procs : User(p) \/ Transfer(p)
        \/ EventLoop \/ ServerEnds
        \/ \E w \in Workers : Thread(w)

Spec == Init /\ [][Next]_vars

\* Some thread that can go on does, of the server or of a client's pool; users need
\* not type anything.
FairSpec == Spec /\ WF_vars(\/ EventLoop \/ \E w \in Workers : Thread(w)
                            \/ \E p \in Procs : Transfer(p))

-----------------------------------------------------------------------------
(* Properties *)

TypeOK ==
    /\ loop.at \in {"wait", "pushed", "down"}
    /\ sock \in [Fds -> Conns \cup {NULL}]
    /\ watched \subseteq {d \in Fds : sock[d] # NULL}
    /\ \A d, e \in Fds : sock[d] = sock[e] /\ sock[d] # NULL => d = e
    /\ \A d \in Fds : slot[d].id \in Procs \cup {NULL} /\ slot[d].pwd \in Paths
    /\ sql # NULL => wk[sql].at \in {"result", "row"}

\* An online session has the id of the user behind its socket, whatever the order in
\* which workers and the event loop give up and take over a descriptor, except where
\* login_handler fell through to online = true without having looked anybody up.
SessionIdentity ==
    \A d \in Fds : sock[d] # NULL /\ slot[d].online /\ d \notin loose =>
                       slot[d].id = sock[d][1]

\* The path of an online session leads to a directory of its user, after any sequence of
\* cd on this and on other connections of the user.
PathLeads ==
    \A d \in Fds : sock[d] # NULL /\ slot[d].online /\ d \notin loose =>
                       PwdToId(slot[d].id, slot[d].pwd) # -1

\* A worker's descriptor is its connection's and its own until it closes it, neither the
\* event loop's nor another worker's, as long as no transfer has lost its connection.
DescriptorKept ==
    cut = {} => \A d \in Fds : \A w \in Using(d) :
                   sock[d] # NULL /\ d \notin watched /\ Using(d) = {w}

\* A session is its user's, its path is one of his, and its descriptor the worker's.
SessionInv == TypeOK /\ SessionIdentity /\ PathLeads /\ DescriptorKept

\* Every row of a content has it in the storage when no upload of it is going on, also
\* after two clients have uploaded it at once, unless an upload lost its connection.
RowHasContent ==
    \A m \in Md5s \ cut :
        /\ \E r \in files : r.md5 = m
        /\ ~\E w \in Workers : Writing(w, m)
        => store[m] = Body[m]

\* Below the root a directory and its content have one owner, so that rm and gets,
\* which do not ask for the owner, keep to the user's own rows there.
OwnedTree ==
    cut = {} => \A r \in files : r.parent # 0 =>
                   \E q \in files : q.id = r.parent /\ q.type = "d" /\ q.owner = r.owner

\* The rows of the table are sound: their contents are stored, their trees are their owner's.
FilesInv == RowHasContent /\ OwnedTree

\* What a gets has received is one stored content from beginning to end, resumed or
\* not, or nothing if it named a directory, unless a transfer was cut off or a content
\* uploaded again meanwhile, or a big file was to be resumed inside a page.
DownloadWhole ==
    \A p \in Procs :
        (/\ xf[p].at = "over" /\ xf[p].type = "gets" /\ cut = {} /\ twice = {}
         /\ ~Unmapped(xf[p].pos, xf[p].len)) =>
        \/ \E m \in Md5s : SubSeq(disk[p], 1, xf[p].len) = Body[m]
        \/ xf[p].len = 0 /\ \E r \in files : r.type = "d" /\ r.name = File

\* A worker gets through with its task and the descriptor is closed, unless it reads
\* on another client's connection after its own was lost.
TaskEnds ==
    \A w \in Workers : (wk[w].at # "idle") ~>
        (wk[w].at = "idle" \/ ~Running \/ cut # {})
=============================================================================
