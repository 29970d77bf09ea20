----------------------------- MODULE EarlyServer -----------------------------
(***************************************************************************)
(* The route server of Net_Disk_v1.  Its handlers are those of Vfs, its    *)
(* scheduling is another: the event loop runs every short command to its   *)
(* end before it looks at the next event, only gets and puts go to the     *)
(* pool, and a task names its connection by the descriptor, which the      *)
(* thread looks up in the client table when it gets to the task.  The      *)
(* timer's signal handler closes silent clients at any moment.             *)
(*                                                                         *)
(* Clients are logged in; each types the lines of its script.  A transfer  *)
(* line makes a connection of its own, which shows the token and sends the *)
(* command.  After a client_t has been used that is not the one of the     *)
(* command (stray), anything may happen and nothing is modelled.           *)
(***************************************************************************)
EXTENDS Vfs, FiniteSetsExt

CONSTANTS Pool,         \* threads of the pool
          MainFd,       \* MainFd[s]: descriptor of the main connection of s, in its token
          Fds,          \* descriptors, numbers
          QueueSize,    \* slots of the task queue
          MaxEvict,     \* bound: clients the timer closes
          MayLeave,     \* sessions whose process may end at any time
          EmptyMd5,     \* the MD5 of a puts whose client has gone
          Scripts       \* what the users type: a set of functions

\* What a user may type, and what a thread gets to do.
Typed == [cmd : {"cd", "cd..", "ls", "pwd", "mkdir", "rm", "rmdir", "gets", "puts"}, name : Names, md5 : Md5s]
Tasks == [fd : Fds, from : Child, at : {"start", "run"}, line : Typed]

ASSUME EarlyAssumption ==
    /\ Fds \subseteq Nat /\ QueueSize \in Nat \ {0} /\ MaxEvict \in Nat
    /\ EmptyMd5 \in Md5s /\ MayLeave \subseteq Sessions
    /\ MainFd \in [Sessions -> Fds] /\ \A s, t \in Sessions : MainFd[s] = MainFd[t] => s = t
    /\ \A text \in Scripts : text \in [Sessions -> Seq(Typed)]
    /\ NULL \notin Fds /\ NULL \notin Typed /\ NULL \notin Tasks

VARIABLES script,       \* script[s]: lines s has still to type
          gone,         \* sessions whose process has ended
          want,         \* want[c]: the command a transfer thread has come for
          inbox,        \* inbox[c]: trains on c's socket
          sent,         \* transfer connections that have sent their MD5
          fd,           \* fd[c]: the descriptor of c in the server
          map,          \* client_manage_map
          queue,        \* tasks for the pool
          hands,        \* hands[w]: the task of thread w
          evictions,    \* clients closed by the timer
          cutOff,       \* history: closed main connections, and those closed with a task
          stray,        \* the connection whose command used a client_t not its own, or NULL
          met,          \* history: a short command met the open result of a transfer
          dirs          \* history: directories of the session since the line was typed

loopVars == <<fd, map, evictions, cutOff>>
poolVars == <<queue, hands>>
userVars == <<script, gone, want, sent>>
earlyVars == <<loopVars, poolVars, userVars, inbox, stray, met, dirs>>
allVars == <<vars, earlyVars>>

Line(cmd, n, m) == [cmd |-> cmd, name |-> n, md5 |-> m]
TokenTrain == Line("token", NULL, NULL)
ExitTrain == Line("exit", NULL, NULL)
Transfers == {"gets", "puts"}

Free0 == Fds \ {fd[c] : c \in Conns}
Known(c) == fd[c] # NULL
Queued == {queue[i].from : i \in DOMAIN queue}
Held == {hands[w].from : w \in {v \in Pool : hands[v] # NULL}}

EarlyInit ==
    /\ Init
    /\ script \in Scripts /\ gone = {} /\ sent = {}
    /\ want = [c \in Conns |-> NULL] /\ inbox = [c \in Conns |-> <<>>]
    /\ fd = [c \in Conns |-> IF c \in Main THEN MainFd[c[1]] ELSE NULL]
    /\ map = [f \in Fds |-> IF \E s \in Sessions : MainFd[s] = f
                            THEN <<CHOOSE s \in Sessions : MainFd[s] = f, "main">> ELSE NULL]
    /\ queue = <<>> /\ hands = [w \in Pool |-> NULL]
    /\ evictions = 0 /\ cutOff = {} /\ stray = NULL /\ met = FALSE
    /\ dirs = [c \in Child |-> {}]

-----------------------------------------------------------------------------
(* The users and their client processes.                                   *)

\* command_analyse: a short command goes out on the main connection, a transfer command
\* starts a thread that connects and shows the token.  Bound: a session has one transfer
\* at a time, its task in the server included.
Type(s) ==
    LET line == Head(script[s])
        c == <<s, "child">>
    IN /\ s \notin gone /\ script[s] # <<>>
       /\ IF line.cmd \in Transfers
          THEN /\ ~Known(c) /\ want[c] = NULL /\ inbox[c] = <<>> /\ c \notin Queued \cup Held
               /\ want' = [want EXCEPT ![c] = line]
               /\ inbox' = [inbox EXCEPT ![c] = <<TokenTrain>>]
               /\ sent' = sent \ {c}
               /\ dirs' = [dirs EXCEPT ![c] = {client[MainOf(c)]}]
          ELSE /\ inbox' = [inbox EXCEPT ![<<s, "main">>] = Append(@, line)]
               /\ UNCHANGED <<want, sent, dirs>>
       /\ script' = [script EXCEPT ![s] = Tail(@)]
       /\ UNCHANGED <<vars, loopVars, poolVars, gone, stray, met>>

\* do_gets, do_puts: the token is accepted, the command follows.
SendCommand(c) ==
    /\ c \in Child \cap live /\ Known(c) /\ c[1] \notin gone /\ want[c] # NULL
    /\ inbox' = [inbox EXCEPT ![c] = Append(@, want[c])]
    /\ want' = [want EXCEPT ![c] = NULL]
    /\ UNCHANGED <<vars, loopVars, poolVars, script, gone, sent, stray, met, dirs>>

\* get_file_md5 and its answer, long after the command if the file is large.
SendMd5(c) ==
    /\ c \in Queued \cup Held /\ c \notin sent /\ c[1] \notin gone
    /\ sent' = sent \cup {c}
    /\ UNCHANGED <<vars, loopVars, poolVars, script, gone, want, inbox, stray, met, dirs>>

\* The user leaves, by exit or not, or recv_server_msg returns 0: the server has closed.
Leave(s) ==
    /\ s \notin gone
    /\ \/ inbox' = inbox /\ (s \in MayLeave \/ ~Known(<<s, "main">>))
       \/ s \in MayLeave /\ inbox' = [inbox EXCEPT ![<<s, "main">>] = Append(@, ExitTrain)]
    /\ gone' = gone \cup {s}
    /\ UNCHANGED <<vars, loopVars, poolVars, script, want, sent, stray, met, dirs>>

-----------------------------------------------------------------------------
(* The event loop.                                                         *)

\* The loop is not inside a short command and not waiting for room in the queue.
LoopFree == stray = NULL /\ (\A c \in Main : op[c] = Idle) /\ Len(queue) <= QueueSize
SeenDirs == [c \in Child |-> IF c \in live \/ want[c] = NULL THEN dirs[c]
                             ELSE dirs[c] \cup {client'[MainOf(c)]}]

\* calloc, tcp_accept, add_client: the kernel gives the lowest free descriptor.
Accept(c) ==
    /\ LoopFree /\ c \in Child /\ ~Known(c) /\ inbox[c] # <<>> /\ Free0 # {}
    /\ fd' = [fd EXCEPT ![c] = Min(Free0)]
    /\ map' = [map EXCEPT ![Min(Free0)] = c]
    /\ UNCHANGED <<vars, poolVars, userVars, inbox, evictions, cutOff, stray, met, dirs>>

\* recv_cmd of a train of the given kind, on a connection the loop listens to.
RecvCmd(c, cmd) == /\ LoopFree /\ Known(c) /\ inbox[c] # <<>> /\ Head(inbox[c]).cmd = cmd
                   /\ inbox' = [inbox EXCEPT ![c] = Tail(@)]

\* A short command runs in the loop; the open result of a transfer makes its query fail.
Short(c, cmd) ==
    /\ RecvCmd(c, cmd) /\ c \in Main
    /\ met' = (met \/ OutOfSync)
    /\ UNCHANGED <<loopVars, poolVars, userVars, stray>>
Name(c) == Head(inbox[c]).name

\* The rest of a short command that made a query; the loop does nothing else meanwhile.
GoesOn(c) ==
    /\ c \in Main /\ stray = NULL
    /\ met' = (met \/ (op[c].at \in Between /\ OutOfSync))
    /\ UNCHANGED <<loopVars, poolVars, userVars, inbox, stray>>

DoCd(c) == \/ Short(c, "cd..") /\ (CdAtRoot(c) \/ CdToRoot(c) \/ CdUp(c))
           \/ Short(c, "cd") /\ CdDown(c, Name(c))
SqlDoCd(c) == GoesOn(c) /\ CdResult(c)
DoLs(c) == Short(c, "ls") /\ Ls(c)
SqlDoLs(c) == GoesOn(c) /\ LsResult(c)
DoMkdir(c) == Short(c, "mkdir") /\ Mkdir(c, Name(c))
DoRm(c) == Short(c, "rm") /\ Rm(c, Name(c))
SqlDoRm(c) == GoesOn(c) /\ (RmResult(c) \/ RmUpdate(c))
DoRmdir(c) == Short(c, "rmdir") /\ Rmdir(c, Name(c))
SqlDoRmdir(c) == GoesOn(c) /\ (RmdirResult(c) \/ RmdirCheck(c) \/ RmdirContent(c) \/ RmdirDelete(c))
\* do_pwd answers with client->path.
DoPwd(c) == Short(c, "pwd") /\ Answer(c, "ok") /\ UNCHANGED <<tableVars, client, sql_conn, placed>>

\* Mutant: the directory is not copied.
DoTokenRoot(c) ==
    /\ RecvCmd(c, "token")
    /\ live' = live \cup {c}
    /\ client' = [client EXCEPT ![c] = [code |-> 0, pre_code |-> -1, path |-> <<>>]]
    /\ answer' = NULL
    /\ UNCHANGED <<vfs, auto_inc, op, sql_conn, placed, loopVars, poolVars, userVars, met, stray>>

\* do_token looks the main connection up by the descriptor in the token; what it finds
\* there may be nobody or a connection of another process.
DoToken(c) ==
    /\ RecvCmd(c, "token")
    /\ IF map[MainFd[c[1]]] = MainOf(c)
       THEN Token(c) /\ UNCHANGED stray
       ELSE stray' = c /\ UNCHANGED vars
    /\ UNCHANGED <<loopVars, poolVars, userVars, met>>

\* close and del_client.
Drop(c) == /\ fd' = [fd EXCEPT ![c] = NULL]
           /\ map' = [map EXCEPT ![fd[c]] = NULL]
           /\ want' = [want EXCEPT ![c] = NULL]
           /\ live' = live \ ({c} \cap Child)
           /\ UNCHANGED <<vfs, auto_inc, client, op, sql_conn, answer, placed, script, gone, sent>>

\* TOKEN_FAILED: the token is older than ten minutes.
TokenFailed(c) ==
    /\ RecvCmd(c, "token")
    /\ Drop(c)
    /\ UNCHANGED <<poolVars, evictions, cutOff, stray, met>>

\* A transfer command: epoll_del, then distribute_task, which waits if the
\* queue is full: the task it holds is the last one of a queue that is too long.
Distribute(c) ==
    /\ \E cmd \in Transfers : RecvCmd(c, cmd)
    /\ queue' = Append(queue, [fd |-> fd[c], from |-> c, at |-> "start", line |-> Head(inbox[c])])
    /\ UNCHANGED <<vars, loopVars, hands, userVars, stray, met, dirs>>

\* Mutant: without the epoll_del of Distribute.
DisconnectListens(c) ==
    /\ LoopFree /\ Known(c) /\ inbox[c] = <<>> /\ c[1] \in gone /\ c \notin Held
    /\ Drop(c)
    /\ cutOff' = cutOff \cup ({c} \cap Main)
    /\ UNCHANGED <<poolVars, inbox, evictions, stray, met, dirs>>

\* recv_cmd returns 0: the peer has closed.
Disconnect(c) ==
    /\ LoopFree /\ Known(c) /\ inbox[c] = <<>> /\ c[1] \in gone /\ c \notin Queued \cup Held
    /\ Drop(c)
    /\ cutOff' = cutOff \cup ({c} \cap Main)
    /\ UNCHANGED <<poolVars, inbox, evictions, stray, met, dirs>>

\* CLIENT_EXIT
DoExit(c) ==
    /\ RecvCmd(c, "exit")
    /\ Drop(c)
    /\ cutOff' = cutOff \cup {c}
    /\ UNCHANGED <<poolVars, evictions, stray, met, dirs>>

\* The signal handler closes a silent client, whatever the server is doing for it: a puts
\* whose client is slow to send its MD5, a task that waits in the queue, a main connection
\* whose transfer thread is about to show the token.  A client whose short command is in
\* hand has just been heard of.
Evict(c) ==
    /\ stray = NULL /\ Known(c) /\ evictions < MaxEvict
    /\ c \in Main => op[c] = Idle
    /\ Drop(c)
    /\ evictions' = evictions + 1
    /\ cutOff' = cutOff \cup ({c} \cap (Main \cup Queued \cup Held))
    /\ stray' = IF c \in Held THEN c ELSE NULL
    /\ inbox' = [inbox EXCEPT ![c] = <<>>]
    /\ UNCHANGED <<poolVars, met, dirs>>

-----------------------------------------------------------------------------
(* The pool.                                                               *)

ByWorker == <<loopVars, queue, userVars, inbox, stray, met, dirs>>

\* block_queue_pop, get_cur_client.
Pop(w) ==
    /\ stray = NULL /\ hands[w] = NULL /\ queue # <<>>
    /\ hands' = [hands EXCEPT ![w] = Head(queue)]
    /\ queue' = Tail(queue)
    /\ stray' = IF map[Head(queue).fd] = Head(queue).from THEN NULL ELSE Head(queue).from
    /\ UNCHANGED <<vars, loopVars, userVars, inbox, met, dirs>>

Begins(w, cmd) == /\ stray = NULL /\ hands[w] # NULL
                  /\ hands[w].at = "start" /\ hands[w].line.cmd = cmd
                  /\ hands' = [hands EXCEPT ![w].at = "run"]
                  /\ UNCHANGED ByWorker
Runs(w) == /\ stray = NULL /\ hands[w] # NULL /\ hands[w].at = "run"
           /\ UNCHANGED <<ByWorker, hands>>

DoGets(w) == Begins(w, "gets") /\ Gets(hands[w].from, hands[w].line.name)
SqlDoGets(w) == Runs(w) /\ GetsResult(hands[w].from)

\* Mutant: a client that has gone is waited for.
DoPutsWaits(w) ==
    /\ Begins(w, "puts") /\ hands[w].from \in sent
    /\ Puts(hands[w].from, hands[w].line.name, hands[w].line.md5)

\* recvn of the MD5; the buffer stays empty if the client has gone.
DoPuts(w) ==
    LET c == hands[w].from IN
    /\ Begins(w, "puts")
    /\ c \in sent \/ c[1] \in gone
    /\ Puts(c, hands[w].line.name, IF c \in sent THEN hands[w].line.md5 ELSE EmptyMd5)
SqlIsFileExist(w) == Runs(w) /\ PutsResult(hands[w].from)
SqlDoPuts(w) == Runs(w) /\ PutsInsert(hands[w].from)
SqlDoQuickPuts(w) == Runs(w) /\ LET c == hands[w].from IN QuickPuts(c) \/ QuickResult(c) \/ QuickInsert(c)

\* Mutant: no del_client.
FinishKeepsEntry(w) ==
    /\ stray = NULL /\ hands[w] # NULL /\ hands[w].at = "run" /\ op[hands[w].from] = Idle
    /\ hands' = [hands EXCEPT ![w] = NULL]
    /\ fd' = [fd EXCEPT ![hands[w].from] = NULL]
    /\ live' = live \ {hands[w].from}
    /\ UNCHANGED <<vfs, auto_inc, client, op, sql_conn, answer, placed, map, evictions, cutOff,
                   queue, userVars, inbox, stray, met, dirs>>

\* del_client, close.
Finish(w) ==
    /\ stray = NULL /\ hands[w] # NULL /\ hands[w].at = "run" /\ op[hands[w].from] = Idle
    /\ hands' = [hands EXCEPT ![w] = NULL]
    /\ Drop(hands[w].from)
    /\ UNCHANGED <<queue, inbox, evictions, cutOff, stray, met, dirs>>

-----------------------------------------------------------------------------

CmdAnalyse(c) == /\ \/ DoCd(c) \/ DoLs(c) \/ DoMkdir(c) \/ DoRm(c) \/ DoRmdir(c) \/ DoPwd(c)
                    \/ DoToken(c) \/ TokenFailed(c)
                 /\ dirs' = SeenDirs
Sql(c) == (SqlDoCd(c) \/ SqlDoLs(c) \/ SqlDoRm(c) \/ SqlDoRmdir(c)) /\ dirs' = SeenDirs
EventLoop == \E c \in Conns : \/ Accept(c) \/ CmdAnalyse(c) \/ Sql(c)
                              \/ Distribute(c) \/ DoExit(c) \/ Disconnect(c)
Worker(w) == \/ Pop(w) \/ Finish(w) \/ DoGets(w) \/ SqlDoGets(w)
             \/ DoPuts(w) \/ SqlIsFileExist(w) \/ SqlDoPuts(w) \/ SqlDoQuickPuts(w)
Process(s) == SendCommand(<<s, "child">>) \/ SendMd5(<<s, "child">>)

EarlyNext == \/ \E s \in Sessions : Type(s) \/ Process(s) \/ Leave(s)
             \/ EventLoop
             \/ \E c \in Conns : Evict(c)
             \/ \E w \in Pool : Worker(w)

EarlySpec == EarlyInit /\ [][EarlyNext]_allVars

\* The machine runs every thread that can go on; as scripts are finite, a loop that goes
\* on as long as epoll reports something comes to every socket.
EarlyFairSpec == /\ EarlySpec
                 /\ WF_allVars(EventLoop)
                 /\ WF_allVars(\E w \in Pool : Worker(w))
                 /\ WF_allVars(\E s \in Sessions : Process(s))

-----------------------------------------------------------------------------

EarlyTypeOK ==
    /\ TypeOK
    /\ fd \in [Conns -> Fds \cup {NULL}] /\ map \in [Fds -> Conns \cup {NULL}]
    /\ Len(queue) <= QueueSize + 1 /\ cutOff \subseteq Conns /\ met \in BOOLEAN
    /\ \A w \in Pool : hands[w] # NULL => hands[w].from \in Child

\* The client table is exact: a descriptor leads to the connection that has it, also while
\* the pool, the loop and the timer close connections and descriptors are used again.
MapAgrees == stray = NULL => \A f \in Fds : IF map[f] = NULL THEN \A c \in Conns : fd[c] # f
                                      ELSE fd[map[f]] = f

\* Descriptors, table entries and tasks fit, whoever closes what.
EarlyInv == EarlyTypeOK /\ MapAgrees

\* A task is run, and a token honoured, on the client_t of the connection that sent it,
\* unless the timer closed this connection while its task was in the server, or its main
\* connection had been closed, by the timer or because the process ended.
ForItsSender == stray # NULL => stray \in cutOff \/ MainOf(stray) \in cutOff

\* A transfer works in a directory the user was in after typing its line: the one of then
\* or one of a later cd that overtook the token.
TransferDir ==
    \A c \in Child \cap live : want[c] # NULL \/ c \in Queued \cup Held => client[c] \in dirs[c]

\* The loop runs short commands one at a time, so that path, code and pre_code of a
\* client agree as long as none of them meets the open result of a transfer.
PathAgreesAlone == ~met /\ stray = NULL => PathAgrees

\* Commands and transfers work in the directory their user means.
DirInv == TransferDir /\ PathAgreesAlone

\* A command that has reached the server is carried out to its end or its connection is
\* closed, whatever the other clients do: leave, be slow or fill the queue.
CommandEnds ==
    \A c \in Conns :
        inbox[c] # <<>> /\ Known(c) ~>
            \/ stray # NULL \/ ~Known(c)
            \/ inbox[c] = <<>> /\ op[c] = Idle /\ c \notin Queued \cup Held
=============================================================================
