------------------------------ MODULE CloudDisk ------------------------------
(***************************************************************************)
(* Cloud_Disk, the first stage of the system: an event loop that logs      *)
(* clients in and reads their commands, a linked task queue with a stop    *)
(* flag, workers that execute the commands on the same sockets, and the    *)
(* client's resumable gets.                                                *)
(*                                                                         *)
(* A byte stream is a sequence of words: what one recvn of the receiver is *)
(* meant to read.  A command is its length and its body; getsCommand reads *)
(* one more word, the offset, while the event loop watches the same        *)
(* socket, so either of them may get the other's word.                     *)
(***************************************************************************)
EXTENDS Integers, Sequences

CONSTANTS Clients,     \* client processes
          UserOf,      \* UserOf[c]: whose machine c runs on; one at a time there
          Workers,     \* threads of the pool
          NFds,        \* bound: descriptors of connections
          Cmds,        \* Cmds[c]: what c may ask besides gets: "pwd", "mkdir", "rmdir"
          Files,       \* files on the server
          Size,        \* Size[f]: length of f in buffers of getsCommand
          BigSize,     \* longer files are sent in one piece (100 MB)
          Missing,     \* a name that is not on the server
          Wants,       \* Wants[c]: bound: the names c may ask for with gets
          MaxCmds,     \* bound: commands of each client
          Quitters,    \* bound: clients that may end
          NULL

ASSUME CloudAssumption ==
    /\ NFds \in Nat /\ BigSize \in Nat
    /\ MaxCmds \in [Clients -> Nat]
    /\ Size \in [Files -> Nat]
    /\ Missing \notin Files
    /\ Cmds \in [Clients -> SUBSET {"pwd", "mkdir", "rmdir"}]
    /\ Wants \in [Clients -> SUBSET (Files \cup {Missing})]
    /\ NULL \notin Clients \cup Workers \cup Files \cup {Missing}

VARIABLES loop,        \* where the main thread is
          que, flag,   \* the task queue and its stop flag
          mutex,       \* the worker inside taskDeque, or NULL
          wk,          \* wk[w]: where worker w is, and its task
          sock,        \* sock[fd]: the client behind an open descriptor, or NULL
          watched,     \* descriptors in the epoll set
          backlog,     \* clients that connect() and wait for accept
          up, down,    \* words from and to each client
          cl,          \* cl[c]: where client c is
          disk,        \* disk[u][f]: the buffers of u's copy of f
          dir,         \* whether the directory the commands name exists
          missed,      \* history: workers the broadcast came too early for
          orphan,      \* history: clients whose socket was closed on a pending task
          crossed      \* history: clients one of whose words reached the wrong reader

vars == <<loop, que, flag, mutex, wk, sock, watched, backlog, up, down, cl, disk, dir,
          missed, orphan, crossed>>

Fds == 1..NFds
Names == Files \cup {Missing}
Users == {UserOf[c] : c \in Clients}
Whole(f) == [i \in 1..Size[f] |-> i]

At(at) == [at |-> at, fd |-> 0, len |-> 0, task |-> NULL]
Task(fd, cmd, f, c) == [fd |-> fd, cmd |-> cmd, file |-> f, by |-> c]
Worker(at, t, pos) == [at |-> at, task |-> t, pos |-> pos]
Client(at, f, n) == [at |-> at, file |-> f, len |-> 0, got |-> NULL, cmds |-> n]
Word(k, v) == [k |-> k, v |-> v]
Verdicts == 1..3                \* passwd_verify: unknown user, right, wrong

\* main and threadpoolStart: the workers are created before the server listens.
Init == /\ loop = At("wait")
        /\ que = <<>> /\ flag = 1 /\ mutex = NULL
        /\ wk = [w \in Workers |-> Worker("lock", NULL, 0)]
        /\ sock = [d \in Fds |-> NULL] /\ watched = {} /\ backlog = <<>>
        /\ up = [c \in Clients |-> <<>>] /\ down = [c \in Clients |-> <<>>]
        /\ cl = [c \in Clients |-> Client("off", NULL, 0)]
        /\ disk = [u \in Users |-> [f \in Names |-> <<>>]]
        /\ dir = FALSE
        /\ missed = {} /\ orphan = {} /\ crossed = {}

queueVars  == <<que, flag, mutex, wk, missed>>
netVars    == <<sock, watched, backlog>>
clientVars == <<cl, disk>>

Serving == loop.at \notin {"exited", "killed"}
Dead(c) == cl[c].at = "dead"
Head1(c) == up[c][1]

\* sendn: the words reach the client behind fd, if there is one.
Send(fd, ws, by) ==
    down' = [c \in Clients |-> IF c = sock[fd] /\ ~Dead(c)
                               THEN down[c] \o [i \in 1..Len(ws) |->
                                                  [k |-> ws[i].k, v |-> ws[i].v, by |-> by]]
                               ELSE down[c]]

-----------------------------------------------------------------------------
(* The client: main, login, getsHandler *)

Connect(c) ==
    /\ Serving
    /\ cl[c].at = "off"
    /\ \A d \in Clients : UserOf[d] = UserOf[c] => cl[d].at \in {"off", "dead"}
    /\ cl' = [cl EXCEPT ![c].at = "login"]
    /\ backlog' = Append(backlog, c)
    /\ UNCHANGED <<loop, queueVars, sock, watched, up, down, disk, dir, orphan, crossed>>

\* User name and password; v is what passwd_verify will make of them.
SendCred(c) ==
    /\ cl[c].at = "login"
    /\ \E v \in Verdicts : up' = [up EXCEPT ![c] = Append(@, Word("cred", v))]
    /\ cl' = [cl EXCEPT ![c].at = "verify"]
    /\ UNCHANGED <<loop, queueVars, netVars, down, disk, dir, orphan, crossed>>

RecvVerifyRes(c) ==
    /\ cl[c].at = "verify"
    /\ down[c] # <<>> /\ down[c][1].k = "res"
    /\ cl' = [cl EXCEPT ![c].at = IF down[c][1].v = 2 THEN "ready" ELSE "login"]
    /\ down' = [down EXCEPT ![c] = Tail(@)]
    /\ UNCHANGED <<loop, queueVars, netVars, up, disk, dir, orphan, crossed>>

SendCommand(c, cmd, f) ==
    /\ cl[c].at = "ready"
    /\ cl[c].cmds < MaxCmds[c]
    /\ up' = [up EXCEPT ![c] = @ \o <<Word("len", 0), [k |-> "body", v |-> cmd, file |-> f]>>]
    /\ UNCHANGED <<loop, queueVars, netVars, down, disk, dir, orphan, crossed>>

\* The commands the server has besides gets; 56th_client parses them and sends nothing.
ShortCommand(c, cmd) ==
    /\ SendCommand(c, cmd, NULL)
    /\ cl' = [cl EXCEPT ![c] = Client("ready", NULL, @.cmds + 1)]

\* getsHandler.
Gets(c, f) ==
    /\ SendCommand(c, "gets", f)
    /\ cl' = [cl EXCEPT ![c] = Client("length", f, @.cmds + 1)]

\* Output of a short command is shown and forgotten.
Shown(c) ==
    /\ ~Dead(c)
    /\ down[c] # <<>> /\ down[c][1].k = "reply"
    /\ down' = [down EXCEPT ![c] = Tail(@)]
    /\ UNCHANGED <<loop, queueVars, netVars, up, clientVars, dir, orphan, crossed>>

\* Mutant: the whole file is asked for and appended to what is there.
GetsLengthFromStart(c) ==
    /\ cl[c].at = "length"
    /\ down[c] # <<>> /\ down[c][1].k = "length" /\ down[c][1].v > 0
    /\ up' = [up EXCEPT ![c] = Append(@, Word("off", 0))]
    /\ cl' = [cl EXCEPT ![c].at = "data", ![c].len = down[c][1].v]
    /\ down' = [down EXCEPT ![c] = Tail(@)]
    /\ UNCHANGED <<loop, queueVars, netVars, disk, dir, orphan, crossed>>

\* The length: 0 is "no such file".  Otherwise the size of the local copy goes
\* back as the offset; a big file is extended to its length at once.
GetsLength(c) ==
    /\ cl[c].at = "length"
    /\ down[c] # <<>> /\ down[c][1].k = "length"
    /\ LET n == down[c][1].v
           f == cl[c].file
           u == UserOf[c]
       IN \/ n = 0 /\ cl' = [cl EXCEPT ![c].at = "ready"] /\ UNCHANGED <<up, disk>>
          \/ /\ n > 0
             /\ up' = [up EXCEPT ![c] = Append(@, Word("off", Len(disk[u][f])))]
             /\ disk' = IF n > BigSize THEN [disk EXCEPT ![u][f] = [i \in 1..n |-> 0]] ELSE disk
             /\ cl' = [cl EXCEPT ![c] = IF n > BigSize \/ Len(disk[u][f]) < n
                                        THEN [@ EXCEPT !.at = "data", !.len = n]
                                        ELSE [@ EXCEPT !.at = "ready", !.got = f]]
    /\ down' = [down EXCEPT ![c] = Tail(@)]
    /\ UNCHANGED <<loop, queueVars, netVars, dir, orphan, crossed>>

\* One buffer is appended, or the mapping is filled.
GetsData(c) ==
    /\ cl[c].at = "data"
    /\ down[c] # <<>>
    /\ LET f == cl[c].file
           u == UserOf[c]
           w == down[c][1]
           new == IF cl[c].len > BigSize THEN [i \in 1..cl[c].len |-> i]
                  ELSE Append(disk[u][f], w.v)
       IN /\ w.k = IF cl[c].len > BigSize THEN "whole" ELSE "buff"
          /\ disk' = [disk EXCEPT ![u][f] = new]
          /\ cl' = [cl EXCEPT ![c] = IF Len(new) < cl[c].len THEN @
                                     ELSE [@ EXCEPT !.at = "ready", !.got = f]]
    /\ down' = [down EXCEPT ![c] = Tail(@)]
    /\ UNCHANGED <<loop, queueVars, netVars, up, dir, orphan, crossed>>

\* The client ends, at its prompt or in the middle of anything.
Quit(c) ==
    /\ c \in Quitters /\ cl[c].at \notin {"off", "dead"}
    /\ cl' = [cl EXCEPT ![c] = Client("dead", NULL, 0)]
    /\ down' = [down EXCEPT ![c] = <<>>]
    /\ UNCHANGED <<loop, queueVars, netVars, up, disk, dir, orphan, crossed>>

-----------------------------------------------------------------------------
(* The event loop: main, login_verify, handleMessage *)

Accept ==
    /\ loop.at = "wait" /\ backlog # <<>>
    /\ \E d \in Fds :
          /\ sock[d] = NULL /\ \A e \in 1..(d - 1) : sock[e] # NULL
          /\ sock' = [sock EXCEPT ![d] = backlog[1]]
          /\ loop' = [At("login") EXCEPT !.fd = d]
    /\ backlog' = Tail(backlog)
    /\ UNCHANGED <<queueVars, watched, up, down, clientVars, dir, orphan, crossed>>

\* login_verify keeps the main thread until the password is right ...
LoginVerify ==
    /\ loop.at = "login"
    /\ LET c == sock[loop.fd] IN
       /\ up[c] # <<>> /\ Head1(c).k = "cred"
       /\ Send(loop.fd, <<Word("res", Head1(c).v)>>, c)
       /\ up' = [up EXCEPT ![c] = Tail(@)]
       /\ \/ /\ Head1(c).v = 2
             /\ watched' = watched \cup {loop.fd}
             /\ loop' = At("wait")
          \/ Head1(c).v # 2 /\ UNCHANGED <<watched, loop>>
    /\ UNCHANGED <<queueVars, sock, backlog, clientVars, dir, orphan, crossed>>

\* ... or the client has gone: the socket is closed, and addEpollReadfd fails.
LoginBroken ==
    /\ loop.at = "login"
    /\ Dead(sock[loop.fd]) /\ up[sock[loop.fd]] = <<>>
    /\ sock' = [sock EXCEPT ![loop.fd] = NULL]
    /\ loop' = At("wait")
    /\ UNCHANGED <<queueVars, watched, backlog, up, down, clientVars, dir, orphan, crossed>>

\* A worker that executes a task.
Holding(w) == wk[w].at \in {"run", "offset", "send"}

Pending(c) == \/ \E i \in 1..Len(que) : que[i].by = c
              \/ \E w \in Workers : Holding(w) /\ wk[w].task.by = c

Close(d) == /\ sock' = [sock EXCEPT ![d] = NULL]
            /\ watched' = watched \ {d}
            /\ orphan' = orphan \cup {c \in Clients : c = sock[d] /\ Pending(c)}

\* Mutant: the descriptor is closed as soon as a command has been read.
HandleMessageCloses(d) ==
    /\ loop.at = "wait" /\ d \in watched
    /\ LET c == sock[d] IN
       /\ up[c] # <<>> /\ Head1(c).k = "len"
       /\ loop' = [At("enque") EXCEPT !.task = Task(d, up[c][2].v, up[c][2].file, c)]
       /\ up' = [up EXCEPT ![c] = Tail(Tail(@))]
    /\ Close(d)
    /\ UNCHANGED <<queueVars, backlog, down, clientVars, dir, crossed>>

\* handleMessage reads a command.
HandleMessage(d) ==
    /\ loop.at = "wait" /\ d \in watched
    /\ LET c == sock[d] IN
       /\ up[c] # <<>> /\ Head1(c).k = "len"
       /\ loop' = [At("enque") EXCEPT !.task = Task(d, up[c][2].v, up[c][2].file, c)]
       /\ up' = [up EXCEPT ![c] = Tail(Tail(@))]
    /\ UNCHANGED <<queueVars, netVars, down, clientVars, dir, orphan, crossed>>

\* handleMessage takes another word, an offset, for the length, and blocks for
\* the type that does not come.
MessageMisread(d) ==
    /\ loop.at = "wait" /\ d \in watched
    /\ LET c == sock[d] IN
       /\ up[c] # <<>> /\ Head1(c).k \in {"off", "body"}
       /\ loop' = [At("captured") EXCEPT
                      !.fd = d, !.len = IF Head1(c).k = "off" THEN Head1(c).v ELSE 1]
       /\ up' = [up EXCEPT ![c] = Tail(@)]
       /\ crossed' = crossed \cup {c}
    /\ UNCHANGED <<queueVars, netVars, down, clientVars, dir, orphan>>

\* More words come: the misread message goes on, or makes a task of no known type.
MisreadOn ==
    /\ loop.at = "captured"
    /\ LET c == sock[loop.fd] IN
       /\ up[c] # <<>>
       /\ up' = [up EXCEPT ![c] = Tail(@)]
       /\ \/ loop' = [loop EXCEPT !.len = 1]
          \/ loop' = [At("enque") EXCEPT !.task = Task(loop.fd, "none", NULL, c)]
    /\ UNCHANGED <<queueVars, netVars, down, clientVars, dir, orphan, crossed>>

\* The connection is closed: recvn returns 0.
MessageEof(d) ==
    /\ loop.at = "wait" /\ d \in watched
    /\ Dead(sock[d]) /\ up[sock[d]] = <<>>
    /\ Close(d)
    /\ UNCHANGED <<loop, queueVars, backlog, up, down, clientVars, dir, crossed>>

\* ... in the middle of a misread message: with length 0 a task is made all the same.
MisreadEof ==
    /\ loop.at = "captured"
    /\ Dead(sock[loop.fd]) /\ up[sock[loop.fd]] = <<>>
    /\ Close(loop.fd)
    /\ loop' = IF loop.len = 0
               THEN [At("enque") EXCEPT !.task = Task(loop.fd, "none", NULL, sock[loop.fd])]
               ELSE At("wait")
    /\ UNCHANGED <<queueVars, backlog, up, down, clientVars, dir, crossed>>

-----------------------------------------------------------------------------
(* task_queue.c and thread_pool.c *)

taskEnque ==
    /\ loop.at = "enque" /\ mutex = NULL
    /\ que' = Append(que, loop.task)
    /\ loop' = At("signal")
    /\ UNCHANGED <<flag, mutex, wk, missed, netVars, up, down, clientVars, dir, orphan, crossed>>

Asleep == {w \in Workers : wk[w].at = "asleep"}
Wake(W) == wk' = [w \in Workers |-> IF w \in W THEN Worker("lock", NULL, 0) ELSE wk[w]]

\* Mutant: no signal.
EnqueSignalMissing ==
    /\ loop.at = "signal"
    /\ loop' = At("wait")
    /\ UNCHANGED <<queueVars, netVars, up, down, clientVars, dir, orphan, crossed>>

\* pthread_cond_signal, after the unlock.
EnqueSignal ==
    /\ loop.at = "signal"
    /\ \/ Asleep = {} /\ UNCHANGED wk
       \/ \E w \in Asleep : Wake({w})
    /\ loop' = At("wait")
    /\ UNCHANGED <<que, flag, mutex, missed, netVars, up, down, clientVars, dir, orphan, crossed>>

poolFrame == <<que, loop, missed, netVars, up, down, clientVars, dir, orphan, crossed>>

\* taskDeque: the condition of the wait is tested under the mutex ...
DequeTest(w) ==
    /\ Serving /\ wk[w].at = "lock" /\ mutex = NULL
    /\ flag = 1 /\ que = <<>>
    /\ wk' = [wk EXCEPT ![w].at = "tested"]
    /\ mutex' = w
    /\ UNCHANGED <<flag, poolFrame>>

\* ... and the worker sleeps; broadcastALL needs no mutex to come in between.
DequeSleep(w) ==
    /\ Serving /\ wk[w].at = "tested"
    /\ wk' = [wk EXCEPT ![w].at = "asleep"]
    /\ mutex' = NULL
    /\ UNCHANGED <<flag, poolFrame>>

DequeTake(w) ==
    /\ Serving /\ wk[w].at = "lock" /\ mutex = NULL
    /\ flag = 1 /\ que # <<>>
    /\ wk' = [wk EXCEPT ![w] = Worker("run", que[1], 0)]
    /\ que' = Tail(que)
    /\ UNCHANGED <<flag, mutex, loop, missed, netVars, up, down, clientVars, dir, orphan, crossed>>

DequeStop(w) ==
    /\ Serving /\ wk[w].at = "lock" /\ mutex = NULL
    /\ flag = 0
    /\ wk' = [wk EXCEPT ![w].at = "gone"]
    /\ UNCHANGED <<flag, mutex, poolFrame>>

\* SIGUSR1, the pipe, threadpoolStop.
StopRequested ==
    /\ loop.at = "wait"
    /\ loop' = At("drain")
    /\ UNCHANGED <<queueVars, netVars, up, down, clientVars, dir, orphan, crossed>>

\* The queue is empty: the flag is cleared without the mutex ...
ClearFlag ==
    /\ loop.at = "drain" /\ que = <<>>
    /\ flag' = 0
    /\ loop' = At("broadcast")
    /\ UNCHANGED <<que, mutex, wk, missed, netVars, up, down, clientVars, dir, orphan, crossed>>

\* Mutant: one worker is woken.
BroadcastSignals ==
    /\ loop.at = "broadcast"
    /\ \/ Asleep = {} /\ UNCHANGED wk
       \/ \E w \in Asleep : Wake({w})
    /\ missed' = {w \in Workers : wk[w].at = "tested"}
    /\ loop' = At("join")
    /\ UNCHANGED <<que, flag, mutex, netVars, up, down, clientVars, dir, orphan, crossed>>

\* ... and those asleep are woken.
Broadcast ==
    /\ loop.at = "broadcast"
    /\ Wake(Asleep)
    /\ missed' = {w \in Workers : wk[w].at = "tested"}
    /\ loop' = At("join")
    /\ UNCHANGED <<que, flag, mutex, netVars, up, down, clientVars, dir, orphan, crossed>>

Joined ==
    /\ loop.at = "join" /\ \A w \in Workers : wk[w].at = "gone"
    /\ loop' = At("exited")
    /\ UNCHANGED <<queueVars, netVars, up, down, clientVars, dir, orphan, crossed>>

-----------------------------------------------------------------------------
(* doTask: the commands, on the worker's thread *)

Done(w) == wk' = [wk EXCEPT ![w] = Worker("lock", NULL, 0)]
taskFrame == <<que, flag, mutex, missed, loop, netVars, clientVars, orphan>>

\* pwdCommand and lsCommand report; a task of no known type is dropped.
Report(w) ==
    /\ Serving /\ wk[w].at = "run"
    /\ \/ wk[w].task.cmd = "pwd" /\ Send(wk[w].task.fd, <<Word("reply", 0)>>, wk[w].task.by)
       \/ wk[w].task.cmd = "none" /\ UNCHANGED down
    /\ Done(w)
    /\ UNCHANGED <<up, dir, crossed, taskFrame>>

\* mkdirCommand: a failure sends two answers, both of success.
Mkdir(w) ==
    /\ Serving /\ wk[w].at = "run" /\ wk[w].task.cmd = "mkdir"
    /\ Send(wk[w].task.fd, IF dir THEN <<Word("reply", 0), Word("reply", 0)>>
                           ELSE <<Word("reply", 0)>>, wk[w].task.by)
    /\ dir' = TRUE
    /\ Done(w)
    /\ UNCHANGED <<up, crossed, taskFrame>>

Rmdir(w) ==
    /\ Serving /\ wk[w].at = "run" /\ wk[w].task.cmd = "rmdir"
    /\ Send(wk[w].task.fd, <<Word("reply", IF dir THEN 0 ELSE 1)>>, wk[w].task.by)
    /\ dir' = FALSE
    /\ Done(w)
    /\ UNCHANGED <<up, crossed, taskFrame>>

\* Mutant: a file that cannot be opened is not answered.
GetsOpenSilent(w) ==
    /\ Serving /\ wk[w].at = "run" /\ wk[w].task.cmd = "gets"
    /\ LET t == wk[w].task IN
       IF t.file \in Files /\ sock[t.fd] # NULL
       THEN /\ Send(t.fd, <<Word("length", Size[t.file])>>, t.by)
            /\ wk' = [wk EXCEPT ![w].at = "offset"]
       ELSE Done(w) /\ UNCHANGED down
    /\ UNCHANGED <<up, dir, crossed, taskFrame>>

\* getsCommand: the length, 0 if the file cannot be opened.
GetsOpen(w) ==
    /\ Serving /\ wk[w].at = "run" /\ wk[w].task.cmd = "gets"
    /\ LET t == wk[w].task
           n == IF t.file \in Files THEN Size[t.file] ELSE 0
       IN /\ Send(t.fd, <<Word("length", n)>>, t.by)
          /\ IF t.file \in Files /\ sock[t.fd] # NULL
             THEN wk' = [wk EXCEPT ![w].at = "offset"]
             ELSE Done(w)
    /\ UNCHANGED <<up, dir, crossed, taskFrame>>

\* Another worker waits for an offset on the same socket.
AlsoWaits(w) == \E v \in Workers : v # w /\ wk[v].at = "offset" /\ wk[v].task.fd = wk[w].task.fd

\* The offset: whatever word is next on the socket, or 0 when the client has gone.
GetsOffset(w) ==
    /\ Serving /\ wk[w].at = "offset"
    /\ LET c == sock[wk[w].task.fd] IN
       \/ c = NULL /\ Done(w) /\ UNCHANGED <<up, crossed>>
       \/ /\ c # NULL /\ up[c] # <<>>
          /\ wk' = [wk EXCEPT ![w].at = "send",
                              ![w].pos = IF Head1(c).k = "off" THEN Head1(c).v ELSE 1]
          /\ up' = [up EXCEPT ![c] = Tail(@)]
          /\ crossed' = IF Head1(c).k = "off" /\ ~AlsoWaits(w) THEN crossed ELSE crossed \cup {c}
       \/ /\ c # NULL /\ Dead(c) /\ up[c] = <<>>
          /\ wk' = [wk EXCEPT ![w].at = "send", ![w].pos = 0]
          /\ UNCHANGED <<up, crossed>>
    /\ UNCHANGED <<down, dir, taskFrame>>

\* The buffers from the offset on, or the whole of a big file.
GetsSend(w) ==
    /\ Serving /\ wk[w].at = "send"
    /\ LET t == wk[w].task
           p == wk[w].pos
           big == Size[t.file] > BigSize
       IN \/ (sock[t.fd] = NULL \/ (~big /\ p >= Size[t.file])) /\ Done(w) /\ UNCHANGED down
          \/ /\ sock[t.fd] # NULL /\ big
             /\ Send(t.fd, <<Word("whole", 0)>>, t.by)
             /\ Done(w)
          \/ /\ sock[t.fd] # NULL /\ ~big /\ p < Size[t.file]
             /\ Send(t.fd, <<Word("buff", p + 1)>>, t.by)
             /\ wk' = [wk EXCEPT ![w].pos = p + 1]
    /\ UNCHANGED <<up, dir, crossed, taskFrame>>

\* Nobody ignores SIGPIPE: a send to a client that has gone may end the server.
SigPipe(w) ==
    /\ Serving /\ wk[w].at \in {"run", "send"}
    /\ sock[wk[w].task.fd] # NULL /\ Dead(sock[wk[w].task.fd])
    /\ loop' = At("killed")
    /\ UNCHANGED <<queueVars, netVars, up, down, clientVars, dir, orphan, crossed>>

-----------------------------------------------------------------------------

Reads(c)  == RecvVerifyRes(c) \/ GetsLength(c) \/ GetsData(c) \/ Shown(c)
Client_(c) == \/ Connect(c) \/ SendCred(c) \/ Reads(c) \/ Quit(c)
              \/ \E cmd \in Cmds[c] : ShortCommand(c, cmd)
              \/ \E f \in Wants[c] : Gets(c, f)

Loop == \/ Accept \/ LoginVerify \/ LoginBroken \/ MisreadOn \/ MisreadEof
        \/ \E d \in Fds : HandleMessage(d) \/ MessageMisread(d) \/ MessageEof(d)
        \/ taskEnque \/ EnqueSignal \/ ClearFlag \/ Broadcast \/ Joined

Thread(w) == \/ DequeTest(w) \/ DequeSleep(w) \/ DequeTake(w) \/ DequeStop(w)
             \/ Report(w) \/ Mkdir(w) \/ Rmdir(w)
             \/ GetsOpen(w) \/ GetsOffset(w) \/ GetsSend(w)

Next == \/ \E c \in Clients : Client_(c)
        \/ Loop \/ StopRequested
        \/ \E w \in Workers : Thread(w) \/ SigPipe(w)

Spec == Init /\ [][Next]_vars

\* Threads are scheduled; a client reads what it waits for.
FairSpec == /\ Spec
            /\ WF_vars(Loop)
            /\ \A w \in Workers : WF_vars(Thread(w))
            /\ \A c \in Clients : WF_vars(Reads(c))

-----------------------------------------------------------------------------
(* Properties *)

TypeOK ==
    /\ loop.at \in {"wait", "login", "enque", "signal", "captured", "drain", "broadcast",
                    "join", "exited", "killed"}
    /\ flag \in {0, 1} /\ mutex \in Workers \cup {NULL}
    /\ sock \in [Fds -> Clients \cup {NULL}]
    /\ watched \subseteq {d \in Fds : sock[d] # NULL}
    /\ \A w \in Workers : wk[w].at \in {"lock", "tested", "asleep", "run", "offset", "send",
                                        "gone"}
    /\ mutex # NULL <=> \E w \in Workers : wk[w].at = "tested"

\* gets says "recv successful" only for a copy equal to the server's file, however
\* often the client was killed and the download resumed, as long as no descriptor
\* was given away under a pending task and the event loop and the workers did not take
\* each other's words.
DownloadCorrect ==
    orphan = {} /\ crossed = {} => \A c \in Clients : cl[c].got # NULL =>
        cl[c].got \in Files /\ disk[UserOf[c]][cl[c].got] = Whole(cl[c].got)

\* What a client receives answers its own commands.  The exception: the event loop
\* closes a descriptor on which a task is pending, and accept gives it away again.
AnswerToAsker ==
    \A c \in Clients : \A i \in 1..Len(down[c]) :
        down[c][i].by = c \/ down[c][i].by \in orphan

\* taskEnque signals after the unlock and wakes one worker: still, there is never
\* a task in the queue while all workers sleep and no signal is under way.
NoSleepOverTask == que # <<>> /\ loop.at # "signal" => Asleep # Workers

\* The queue, its mutex and its sleepers are in order.
PoolInv == TypeOK /\ NoSleepOverTask

\* threadpoolStop waits for every thread: it ends, unless a worker had tested the
\* flag and not gone to sleep when broadcastALL came, or a gets waits for an offset.
StopEnds ==
    (loop.at = "drain") ~> \/ loop.at \in {"exited", "killed"}
                           \/ missed # {}
                           \/ \E w \in Workers : wk[w].at = "offset"

\* A gets comes to an end, unless its offset is read by the event loop or another worker,
\* every worker waits for an offset (a file of length 0 keeps its worker waiting), the
\* server stops or the event loop is kept busy by somebody else.
GetsEnds ==
    \A c \in Clients : cl[c].at \in {"length", "data"} ~>
        \/ cl[c].at \notin {"length", "data"}
        \/ c \in crossed \/ \A w \in Workers : wk[w].at = "offset"
        \/ loop.at \in {"captured", "login", "join"} \/ ~Serving \/ orphan # {}
=============================================================================
