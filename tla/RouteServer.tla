----------------------------- MODULE RouteServer -----------------------------
(***************************************************************************)
(* The route server's event loop (main.c), the worker side of a command    *)
(* (thread_pool.c, route_task.c), the client table as both use it          *)
(* (client_manager.c, without the timer, which main.c leaves disabled) and *)
(* the dialogues of login and token that cross threads.                    *)
(*                                                                         *)
(* A client_t lives at an address of Objs and is passed to the workers by  *)
(* pointer; hashmap_delete frees it.  What a freed client_t still says is  *)
(* undefined: free() leaves its first word (fd) alone or overwrites it     *)
(* with its own links, and once calloc has handed the address out again it *)
(* is the descriptor of another client.                                    *)
(*                                                                         *)
(* What a handler does for its own client only (ls, cd, mkdir, ...) is the *)
(* command "short"; gets and puts are "xfer".  The queue is TaskPool's.    *)
(***************************************************************************)
EXTENDS Integers, Sequences, FiniteSetsExt

CONSTANTS Procs,      \* client processes: one main connection, one transfer thread each
          Workers,    \* pool threads
          NFds,       \* bound: descriptors the kernel gives to accepted sockets
          Objs,       \* bound: addresses calloc returns for a client_t
          MaxShort,   \* bound: short commands per main connection
          Loaders,    \* processes whose user starts a transfer (gets or puts)
          Quitters,   \* processes whose user may type exit
          NULL        \* no object, no connection, no user

ASSUME RouteAssumption ==
    /\ NFds \in Nat \ {0}
    /\ MaxShort \in Nat
    /\ Loaders \subseteq Procs
    /\ Quitters \subseteq Procs
    /\ IsFiniteSet(Workers)
    /\ NULL \notin Procs \cup Objs \cup (1..NFds)
    /\ NULL \notin Procs \X {"main", "child"}

Fds     == 1..NFds
Garbage == 0                             \* a value that is no open descriptor
Listen  == -1                            \* the listening socket in evs
Conns   == Procs \X {"main", "child"}
Messages == {"none", "login", "passwd", "short", "exit", "token", "xfer"}

VARIABLES
    peer,      \* peer[c]: the client's end: "off", "open", "reset" or "closed"
    cst,       \* cst[c]: what the client does next on c
    shorts,    \* shorts[c]: short commands sent on c so far
    token,     \* token[p]: the descriptor named in p's token, or NULL
    backlog,   \* connections waiting for accept
    inbox,     \* inbox[c]: what the server has not read yet
    sock,      \* sock[f]: the connection behind descriptor f, or NULL
    epoll,     \* descriptors registered with epoll
    heap,      \* heap[o]: the client_t at address o
    table,     \* table[f]: the client_t the hash map holds for key f, or NULL
    evs,       \* ready descriptors epoll_wait returned, not handled yet
    main,      \* the event loop thread
    queue,     \* tasks distributed and not popped
    worker,    \* worker[w]: the task in hand and what is left to do
    up,        \* FALSE once the process died of a NULL dereference
    dangling   \* history: a freed client_t was used, or its address handed out
               \* again, while a thread still held the pointer

clientVars == <<peer, cst, shorts, token, backlog, inbox>>
kernelVars == <<sock, epoll>>
tableVars  == <<heap, table>>
vars == <<peer, cst, shorts, token, backlog, inbox, sock, epoll, heap, table,
          evs, main, queue, worker, up, dangling>>

IdleMain   == [at |-> "wait", obj |-> NULL, cmd |-> "none"]
IdleWorker == [at |-> "pop", obj |-> NULL, cmd |-> "none", ref |-> NULL, user |-> NULL,
               todo |-> << >>]

Init == /\ peer = [c \in Conns |-> "off"]
        /\ cst = [c \in Conns |-> "connect"]
        /\ shorts = [c \in Conns |-> 0]
        /\ token = [p \in Procs |-> NULL]
        /\ backlog = {}
        /\ inbox = [c \in Conns |-> << >>]
        /\ sock = [f \in Fds |-> NULL]
        /\ epoll = {}
        /\ heap = [o \in Objs |-> [live |-> FALSE, fd |-> Garbage, user |-> NULL]]
        /\ table = [f \in Fds |-> NULL]
        /\ evs = {}
        /\ main = IdleMain
        /\ queue = << >>
        /\ worker = [w \in Workers |-> IdleWorker]
        /\ up = TRUE
        /\ dangling = FALSE

-----------------------------------------------------------------------------
(* Client processes (client/src: main.c, task.c, do_login.c, do_token.c) *)

\* A transfer thread is started by its process, which is logged in.
Connect(c) ==
    /\ up
    /\ peer[c] = "off" /\ cst[c] = "connect"
    /\ c[2] = "child" => /\ c[1] \in Loaders
                         /\ cst[<<c[1], "main">>] = "ready"
    /\ peer' = [peer EXCEPT ![c] = "open"]
    /\ cst' = [cst EXCEPT ![c] = IF c[2] = "main" THEN "login" ELSE "token"]
    /\ backlog' = backlog \cup {c}
    /\ UNCHANGED <<shorts, token, inbox, kernelVars, tableVars, evs, main, queue, worker, up, dangling>>

\* What the client sends in each state, and the state it is in afterwards.
Sends == [login |-> "login", passwd |-> "passwd", token |-> "token", xfer |-> "xfer"]
After == [login |-> "salt", passwd |-> "verdict", token |-> "verdict", xfer |-> "busy"]

Send(c) ==
    /\ up
    /\ peer[c] = "open"
    /\ cst[c] \in DOMAIN Sends
    /\ inbox' = [inbox EXCEPT ![c] = Append(@, Sends[cst[c]])]
    /\ cst' = [cst EXCEPT ![c] = After[cst[c]]]
    /\ UNCHANGED <<peer, shorts, token, backlog, kernelVars, tableVars, evs, main, queue, worker, up, dangling>>

\* ls, cd, rm, pwd, mkdir, rmdir: the user need not wait for the answer.
SendShort(c) ==
    /\ up
    /\ peer[c] = "open" /\ cst[c] = "ready" /\ c[2] = "main"
    /\ shorts[c] < MaxShort
    /\ inbox' = [inbox EXCEPT ![c] = Append(@, "short")]
    /\ shorts' = [shorts EXCEPT ![c] = @ + 1]
    /\ UNCHANGED <<peer, cst, token, backlog, kernelVars, tableVars, evs, main, queue, worker, up, dangling>>

\* The process ends and the kernel closes its connections: after "exit", or at
\* any time without a word.  "reset": the server's next recv fails once.
ProcEnds(p, how, last) ==
    /\ up
    /\ peer[<<p, "main">>] = "open"
    /\ last = << >> \/ (last = <<"exit">> /\ p \in Quitters /\ cst[<<p, "main">>] = "ready")
    /\ peer' = [c \in Conns |-> IF c[1] = p /\ peer[c] = "open" THEN how ELSE peer[c]]
    /\ cst' = [c \in Conns |-> IF c[1] = p THEN "gone" ELSE cst[c]]
    /\ inbox' = [inbox EXCEPT ![<<p, "main">>] = @ \o last]
    /\ UNCHANGED <<shorts, token, backlog, kernelVars, tableVars, evs, main, queue, worker, up, dangling>>

\* A transfer thread closes its own connection when it is done or refused.
ChildCloses(c) ==
    /\ up
    /\ c[2] = "child"
    /\ peer[c] = "open" /\ cst[c] \in {"busy", "refused"}
    /\ peer' = [peer EXCEPT ![c] = "closed"]
    /\ cst' = [cst EXCEPT ![c] = "gone"]
    /\ UNCHANGED <<shorts, token, backlog, inbox, kernelVars, tableVars, evs, main, queue, worker, up, dangling>>

-----------------------------------------------------------------------------
(* The kernel, as the server's calls see it *)

Target(f) == IF f \in Fds THEN sock[f] ELSE NULL

Readable(c) == inbox[c] # << >> \/ peer[c] \in {"reset", "closed"}

\* Who works on the client_t at o: the event loop between recv_cmd and
\* distribute_task, the queue, or a worker that has not re-armed it yet.
HeldByMain(o) == main.at = "dispatch" /\ main.obj = o
HeldInQueue(o) == {k \in DOMAIN queue : queue[k].obj = o}
HeldByWorkers(o) == {w \in Workers : /\ worker[w].at # "pop"
                                     /\ worker[w].obj = o
                                     /\ worker[w].at = "finish" => worker[w].todo # << >>}
Holders(o) == (IF HeldByMain(o) THEN 1 ELSE 0)
                + Cardinality(HeldInQueue(o)) + Cardinality(HeldByWorkers(o))

\* Some thread still has the address o and something to do with it.
Referenced(o) == Holders(o) > 0 \/ \E w \in Workers : worker[w].at = "copy" /\ worker[w].ref = o

-----------------------------------------------------------------------------
(* The event loop thread *)

EpollWait ==
    /\ up
    /\ main.at = "wait" /\ evs = {}
    /\ LET ready == {f \in epoll : Readable(sock[f])}
                      \cup (IF backlog # {} THEN {Listen} ELSE {})
       IN  ready # {} /\ evs' = ready
    /\ UNCHANGED <<clientVars, kernelVars, tableVars, main, queue, worker, up, dangling>>

\* hashmap_put: an existing key keeps its client, only its slot index changes.
TablePut(f, o) == IF table[f] = NULL THEN [table EXCEPT ![f] = o] ELSE table

\* Mutant: the client_t is not cleared (malloc for calloc).
AcceptNotZeroed(c, o) ==
    /\ up
    /\ main.at = "wait" /\ Listen \in evs
    /\ c \in backlog
    /\ ~heap[o].live
    /\ \E f \in Fds : sock[f] = NULL
    /\ LET fd == Min({f \in Fds : sock[f] = NULL})
       IN  /\ sock' = [sock EXCEPT ![fd] = c]
           /\ heap' = [heap EXCEPT ![o] = [live |-> TRUE, fd |-> fd, user |-> heap[o].user]]
           /\ table' = TablePut(fd, o)
    /\ backlog' = backlog \ {c}
    /\ evs' = evs \ {Listen}
    /\ main' = [at |-> "register", obj |-> o, cmd |-> "none"]
    /\ dangling' = (dangling \/ Referenced(o))
    /\ UNCHANGED <<peer, cst, shorts, token, inbox, epoll, queue, worker, up>>

\* calloc, tcp_accept, add_client.
Accept(c, o) ==
    /\ up
    /\ main.at = "wait" /\ Listen \in evs
    /\ c \in backlog
    /\ ~heap[o].live
    /\ \E f \in Fds : sock[f] = NULL
    /\ LET fd == Min({f \in Fds : sock[f] = NULL})
       IN  /\ sock' = [sock EXCEPT ![fd] = c]
           /\ heap' = [heap EXCEPT ![o] = [live |-> TRUE, fd |-> fd, user |-> NULL]]
           /\ table' = TablePut(fd, o)
    /\ backlog' = backlog \ {c}
    /\ evs' = evs \ {Listen}
    /\ main' = [at |-> "register", obj |-> o, cmd |-> "none"]
    /\ dangling' = (dangling \/ Referenced(o))
    /\ UNCHANGED <<peer, cst, shorts, token, inbox, epoll, queue, worker, up>>

\* accept fails for want of descriptors: the new client_t is never freed.
AcceptFails(o) ==
    /\ up
    /\ main.at = "wait" /\ Listen \in evs
    /\ \A f \in Fds : sock[f] # NULL
    /\ ~heap[o].live
    /\ heap' = [heap EXCEPT ![o] = [live |-> TRUE, fd |-> Garbage, user |-> NULL]]
    /\ evs' = evs \ {Listen}
    /\ dangling' = (dangling \/ Referenced(o))
    /\ UNCHANGED <<clientVars, kernelVars, table, main, queue, worker, up>>

\* epoll_add(epfd, new_client->fd).
Register ==
    /\ up
    /\ main.at = "register"
    /\ epoll' = epoll \cup ({heap[main.obj].fd} \cap {f \in Fds : sock[f] # NULL})
    /\ main' = IdleMain
    /\ UNCHANGED <<clientVars, sock, tableVars, evs, queue, worker, up, dangling>>

\* get_cur_client finds nothing: main dereferences NULL.
EventForNobody(f) ==
    /\ up
    /\ main.at = "wait" /\ f \in evs \cap Fds
    /\ table[f] = NULL
    /\ up' = FALSE
    /\ UNCHANGED <<clientVars, kernelVars, tableVars, evs, main, queue, worker, dangling>>

\* recv_cmd returns a command; on a reset it returns one made of zeros.  With
\* nothing to read the call blocks.
RecvCmd(f) ==
    /\ up
    /\ main.at = "wait" /\ f \in evs \cap Fds
    /\ table[f] # NULL
    /\ LET c == sock[f] IN
         \/ /\ c # NULL /\ inbox[c] # << >>
            /\ main' = [at |-> "dispatch", obj |-> table[f], cmd |-> Head(inbox[c])]
            /\ inbox' = [inbox EXCEPT ![c] = Tail(@)]
            /\ UNCHANGED peer
         \/ /\ c # NULL /\ inbox[c] = << >> /\ peer[c] = "reset"
            /\ main' = [at |-> "dispatch", obj |-> table[f], cmd |-> "none"]
            /\ peer' = [peer EXCEPT ![c] = "closed"]
            /\ UNCHANGED inbox
         \/ /\ c = NULL
            /\ main' = [at |-> "dispatch", obj |-> table[f], cmd |-> "none"]
            /\ UNCHANGED <<inbox, peer>>
    /\ evs' = evs \ {f}
    /\ UNCHANGED <<cst, shorts, token, backlog, kernelVars, tableVars, queue, worker, up, dangling>>

\* Mutant: the client_t is freed but its entry stays.
TableDeleteNoUnlink(f) ==
    /\ \E left \in {f, Garbage} :
          heap' = IF f \in Fds /\ table[f] # NULL
                  THEN [heap EXCEPT ![table[f]].live = FALSE, ![table[f]].fd = left]
                  ELSE heap
    /\ table' = table

\* hashmap_delete: unlink the entry and free the client_t it holds.
TableDelete(f) ==
    /\ \E left \in {f, Garbage} :
          heap' = IF f \in Fds /\ table[f] # NULL
                  THEN [heap EXCEPT ![table[f]].live = FALSE, ![table[f]].fd = left]
                  ELSE heap
    /\ table' = IF f \in Fds THEN [table EXCEPT ![f] = NULL] ELSE table

\* recv_cmd returns 0, the peer has closed: epoll_del, close, del_client.
Disconnect(f) ==
    /\ up
    /\ main.at = "wait" /\ f \in evs \cap Fds
    /\ table[f] # NULL
    /\ sock[f] # NULL /\ inbox[sock[f]] = << >> /\ peer[sock[f]] = "closed"
    /\ epoll' = epoll \ {f}
    /\ sock' = [sock EXCEPT ![f] = NULL]
    /\ TableDelete(f)
    /\ evs' = evs \ {f}
    /\ UNCHANGED <<clientVars, main, queue, worker, up, dangling>>

\* Mutant: the socket stays registered while a worker has the task.
DispatchNoDel ==
    /\ up
    /\ main.at = "dispatch"
    /\ LET f == heap[main.obj].fd IN
         /\ table' = IF f \in Fds THEN TablePut(f, main.obj) ELSE table
         /\ epoll' = epoll
    /\ queue' = Append(queue, [obj |-> main.obj, cmd |-> main.cmd])
    /\ main' = IdleMain
    /\ dangling' = (dangling \/ ~heap[main.obj].live)
    /\ UNCHANGED <<clientVars, sock, heap, evs, worker, up>>

\* update_client, epoll_del and distribute_task.
Dispatch ==
    /\ up
    /\ main.at = "dispatch"
    /\ LET f == heap[main.obj].fd IN
         /\ table' = IF f \in Fds THEN TablePut(f, main.obj) ELSE table
         /\ epoll' = epoll \ {f}
    /\ queue' = Append(queue, [obj |-> main.obj, cmd |-> main.cmd])
    /\ main' = IdleMain
    /\ dangling' = (dangling \/ ~heap[main.obj].live)
    /\ UNCHANGED <<clientVars, sock, heap, evs, worker, up>>

-----------------------------------------------------------------------------
(* A worker thread: pth_func and cmd_analyse *)

\* Mutant: the socket is not watched again after a command.
RearmMissing == << >>

\* What pth_func and cmd_analyse still do with p_client after the handler.
Rearm    == <<"epoll_add">>
Leave    == <<"epoll_del", "del_client", "close", "epoll_add">>
Transfer == <<"del_client", "epoll_del", "close", "epoll_add">>

Pop(w) ==
    /\ up
    /\ worker[w].at = "pop"
    /\ queue # << >>
    /\ worker' = [worker EXCEPT ![w] = [at |-> "handle", obj |-> Head(queue).obj,
                       cmd |-> Head(queue).cmd, ref |-> NULL, user |-> NULL,
                       todo |-> << >>]]
    /\ queue' = Tail(queue)
    /\ UNCHANGED <<clientVars, kernelVars, tableVars, evs, main, up, dangling>>

\* The handler is over and "ops" are left to do.
Returns(w, ops) == worker' = [worker EXCEPT ![w].at = "finish", ![w].todo = ops]

\* A step of worker w that reads its p_client.
Uses(w) == dangling' = (dangling \/ ~heap[worker[w].obj].live)

\* The client that talks over f is answered and goes on in state st.
Answer(f, from, st) ==
    cst' = IF Target(f) # NULL /\ cst[Target(f)] = from
           THEN [cst EXCEPT ![Target(f)] = st] ELSE cst

\* Commands whose handler touches nothing shared here, and those with no case.
DoShort(w) ==
    /\ up
    /\ worker[w].at = "handle"
    /\ worker[w].cmd \in {"short", "none", "passwd"}
    /\ Returns(w, Rearm)
    /\ Uses(w)
    /\ UNCHANGED <<clientVars, kernelVars, tableVars, evs, main, queue, up>>

DoExit(w) ==
    /\ up
    /\ worker[w].at = "handle" /\ worker[w].cmd = "exit"
    /\ Returns(w, Leave)
    /\ UNCHANGED <<clientVars, kernelVars, tableVars, evs, main, queue, up, dangling>>

\* do_gets and do_puts, then the rest of their case in cmd_analyse.
DoTransfer(w) ==
    /\ up
    /\ worker[w].at = "handle" /\ worker[w].cmd = "xfer"
    /\ Returns(w, Transfer)
    /\ Uses(w)
    /\ UNCHANGED <<clientVars, kernelVars, tableVars, evs, main, queue, up>>

\* do_login, no such user.
DoLoginUnknown(w) ==
    /\ up
    /\ worker[w].at = "handle" /\ worker[w].cmd = "login"
    /\ Answer(heap[worker[w].obj].fd, "salt", "refused")
    /\ Returns(w, Rearm)
    /\ Uses(w)
    /\ UNCHANGED <<peer, shorts, token, backlog, inbox, kernelVars, tableVars, evs, main, queue, up>>

\* do_login: send the salt, then wait for the encrypted password.
DoLogin(w) ==
    /\ up
    /\ worker[w].at = "handle" /\ worker[w].cmd = "login"
    /\ Answer(heap[worker[w].obj].fd, "salt", "passwd")
    /\ worker' = [worker EXCEPT ![w].at = "passwd"]
    /\ Uses(w)
    /\ UNCHANGED <<peer, shorts, token, backlog, inbox, kernelVars, tableVars, evs, main, queue, up>>

\* The password arrives and is right: the answer and a token naming the
\* descriptor are sent.  Or what arrives is wrong, or the peer has gone.
DoLoginPasswd(w) ==
    /\ up
    /\ worker[w].at = "passwd"
    /\ LET f == heap[worker[w].obj].fd
           c == Target(f)
       IN
           \/ /\ c # NULL /\ inbox[c] # << >> /\ Head(inbox[c]) = "passwd"
              /\ inbox' = [inbox EXCEPT ![c] = Tail(@)]
              /\ token' = [token EXCEPT ![c[1]] = f]
              /\ Answer(f, "verdict", "ready")
              /\ worker' = [worker EXCEPT ![w].at = "init", ![w].user = c[1]]
           \/ /\ c # NULL /\ inbox[c] # << >>
              /\ inbox' = [inbox EXCEPT ![c] = Tail(@)]
              /\ Answer(f, "verdict", "refused")
              /\ Returns(w, Rearm)
              /\ UNCHANGED token
           \/ /\ c # NULL => inbox[c] = << >> /\ peer[c] \in {"reset", "closed"}
              /\ Returns(w, Rearm)
              /\ UNCHANGED <<inbox, token, cst>>
    /\ Uses(w)
    /\ UNCHANGED <<peer, shorts, backlog, kernelVars, tableVars, evs, main, queue, up>>

\* Only then does the client_t become the user's.
DoLoginInit(w) ==
    /\ up
    /\ worker[w].at = "init"
    /\ heap' = [heap EXCEPT ![worker[w].obj].user = worker[w].user]
    /\ Returns(w, Rearm)
    /\ Uses(w)
    /\ UNCHANGED <<clientVars, kernelVars, table, evs, main, queue, up>>

\* do_token, the token has expired: cmd_analyse returns TOKEN_FAILED.
DoTokenExpired(w) ==
    /\ up
    /\ worker[w].at = "handle" /\ worker[w].cmd = "token"
    /\ Answer(heap[worker[w].obj].fd, "verdict", "refused")
    /\ Returns(w, Leave)
    /\ Uses(w)
    /\ UNCHANGED <<peer, shorts, token, backlog, inbox, kernelVars, tableVars, evs, main, queue, up>>

\* do_token, the token is valid: answer, then look up the client_t of the main
\* connection it names.
DoToken(w, p) ==
    /\ up
    /\ worker[w].at = "handle" /\ worker[w].cmd = "token"
    /\ token[p] # NULL
    /\ LET f == heap[worker[w].obj].fd IN
         /\ Target(f) # NULL => p = Target(f)[1]
         /\ Answer(f, "verdict", "xfer")
    /\ worker' = [worker EXCEPT ![w].at = "copy", ![w].ref = table[token[p]]]
    /\ Uses(w)
    /\ UNCHANGED <<peer, shorts, token, backlog, inbox, kernelVars, tableVars, evs, main, queue, up>>

\* The main connection is not in the table any more: NULL is dereferenced.
DoTokenNobody(w) ==
    /\ up
    /\ worker[w].at = "copy" /\ worker[w].ref = NULL
    /\ up' = FALSE
    /\ UNCHANGED <<clientVars, kernelVars, tableVars, evs, main, queue, worker, dangling>>

\* Copy uid, name, code and path from the main connection's client_t; then
\* update_client on it.
DoTokenCopy(w) ==
    /\ up
    /\ worker[w].at = "copy" /\ worker[w].ref # NULL
    /\ heap' = [heap EXCEPT ![worker[w].obj].user = heap[worker[w].ref].user]
    /\ LET f == heap[worker[w].ref].fd IN
         table' = IF f \in Fds THEN TablePut(f, worker[w].ref) ELSE table
    /\ Returns(w, Rearm)
    /\ dangling' = (dangling \/ ~heap[worker[w].obj].live \/ ~heap[worker[w].ref].live)
    /\ UNCHANGED <<clientVars, kernelVars, evs, main, queue, up>>

\* The calls on p_client->fd that are left, one at a time.
Finish(w) ==
    /\ up
    /\ worker[w].at = "finish" /\ worker[w].todo # << >>
    /\ LET f  == heap[worker[w].obj].fd
           op == Head(worker[w].todo)
       IN
           \/ /\ op = "epoll_add"
              /\ epoll' = IF Target(f) # NULL THEN epoll \cup {f} ELSE epoll
              /\ UNCHANGED <<sock, tableVars>>
           \/ /\ op = "epoll_del"
              /\ epoll' = epoll \ {f}
              /\ UNCHANGED <<sock, tableVars>>
           \/ /\ op = "close"
              /\ epoll' = epoll \ {f}
              /\ sock' = IF f \in Fds THEN [sock EXCEPT ![f] = NULL] ELSE sock
              /\ UNCHANGED tableVars
           \/ /\ op = "del_client"
              /\ TableDelete(f)
              /\ UNCHANGED kernelVars
    /\ worker' = [worker EXCEPT ![w].todo = Tail(@)]
    /\ Uses(w)
    /\ UNCHANGED <<clientVars, evs, main, queue, up>>

NextTask(w) ==
    /\ up
    /\ worker[w].at = "finish" /\ worker[w].todo = << >>
    /\ worker' = [worker EXCEPT ![w] = IdleWorker]
    /\ UNCHANGED <<clientVars, kernelVars, tableVars, evs, main, queue, up, dangling>>

-----------------------------------------------------------------------------

ClientStep(c) == Connect(c) \/ Send(c) \/ SendShort(c) \/ ChildCloses(c)

MainStep == \/ EpollWait
            \/ \E c \in Conns, o \in Objs : Accept(c, o)
            \/ \E o \in Objs : AcceptFails(o)
            \/ Register
            \/ \E f \in Fds : EventForNobody(f) \/ RecvCmd(f) \/ Disconnect(f)
            \/ Dispatch

WorkerStep(w) == \/ Pop(w) \/ DoShort(w) \/ DoExit(w) \/ DoTransfer(w)
                 \/ DoLoginUnknown(w) \/ DoLogin(w) \/ DoLoginPasswd(w) \/ DoLoginInit(w)
                 \/ DoTokenExpired(w) \/ (\E p \in Procs : DoToken(w, p))
                 \/ DoTokenNobody(w) \/ DoTokenCopy(w)
                 \/ Finish(w) \/ NextTask(w)

Next == \/ \E c \in Conns : ClientStep(c)
        \/ \E p \in Procs, how \in {"reset", "closed"}, last \in {<< >>, <<"exit">>} :
              ProcEnds(p, how, last)
        \/ MainStep
        \/ \E w \in Workers : WorkerStep(w)

Spec == Init /\ [][Next]_vars

\* The kernel runs the event loop and every worker; a client that owes the server
\* a message sends it.  No client promises to connect, to type or to leave.
Fairness == /\ WF_vars(MainStep)
            /\ \A w \in Workers : WF_vars(WorkerStep(w))
            /\ \A c \in Conns : WF_vars(Send(c))

FairSpec == Spec /\ Fairness

-----------------------------------------------------------------------------
(* Properties.  The ones that start with ~dangling speak of every run up to *)
(* the first use of a freed client_t.                                       *)

Users == Procs \cup {NULL}

TypeOK ==
    /\ peer \in [Conns -> {"off", "open", "reset", "closed"}]
    /\ cst \in [Conns -> {"connect", "login", "salt", "passwd", "verdict", "ready",
                          "token", "xfer", "busy", "refused", "gone"}]
    /\ shorts \in [Conns -> 0..MaxShort]
    /\ token \in [Procs -> Fds \cup {Garbage, NULL}]
    /\ backlog \subseteq Conns
    /\ inbox \in [Conns -> Seq(Messages)]
    /\ sock \in [Fds -> Conns \cup {NULL}]
    /\ epoll \subseteq {f \in Fds : sock[f] # NULL}
    /\ heap \in [Objs -> [live : BOOLEAN, fd : Fds \cup {Garbage}, user : Users]]
    /\ table \in [Fds -> Objs \cup {NULL}]
    /\ evs \subseteq Fds \cup {Listen}
    /\ main \in [at : {"wait", "register", "dispatch"}, obj : Objs \cup {NULL}, cmd : Messages]
    /\ queue \in Seq([obj : Objs, cmd : Messages])
    /\ worker \in [Workers -> [at : {"pop", "handle", "passwd", "init", "copy", "finish"},
                               obj : Objs \cup {NULL}, cmd : Messages,
                               ref : Objs \cup {NULL}, user : Users,
                               todo : Seq({"epoll_add", "epoll_del", "del_client", "close"})]]
    /\ up \in BOOLEAN
    /\ dangling \in BOOLEAN

\* epoll_del before distribute_task and epoll_add after cmd_analyse give each
\* client to one thread at a time: at most one task per client_t exists, and
\* while one does the event loop does not watch its socket, so it cannot read
\* the password a login handler is waiting for.
ExclusiveSession ==
    ~dangling =>
        \A o \in Objs : heap[o].live /\ heap[o].fd \in Fds =>
            /\ Holders(o) <= 1
            /\ Holders(o) = 1 => heap[o].fd \notin epoll \cup evs \/ HeldByMain(o)

\* The client table is exact: an entry leads to the live client_t of an open
\* descriptor, and there are no more open descriptors without an entry than
\* workers that are letting their client go.
TableAgrees ==
    ~dangling =>
        /\ \A f \in Fds : table[f] # NULL =>
              heap[table[f]].live /\ heap[table[f]].fd = f /\ sock[f] # NULL
        /\ Cardinality({f \in Fds : sock[f] # NULL /\ table[f] = NULL})
             <= Cardinality({w \in Workers : /\ worker[w].at = "finish"
                                             /\ ~heap[worker[w].obj].live})

\* While a client process runs, its main connection and its transfer connection
\* act for its own user or for nobody: do_login and do_token never mix users up.
SessionIdentity ==
    ~dangling =>
        \A f \in Fds :
            sock[f] # NULL /\ table[f] # NULL
              /\ peer[<<sock[f][1], "main">>] = "open" =>
                heap[table[f]].user \in {NULL, sock[f][1]}

\* Without a use after free the event loop finds a client_t for every event.
EventHasClient == ~dangling => \A f \in evs \cap Fds : table[f] # NULL

\* The table, the descriptors and the events of the event loop belong together.
TableInv == TypeOK /\ TableAgrees /\ EventHasClient

\* A client that waits for the salt or the verdict of do_login gets it.
LoginAnswered ==
    \A c \in Conns : (cst[c] \in {"salt", "verdict"}) ~> (cst[c] \notin {"salt", "verdict"})

\* A connection whose peer has gone is eventually closed: no descriptor leaks.
DisconnectReleases ==
    \A c \in Conns : (\E f \in Fds : sock[f] = c /\ peer[c] \in {"reset", "closed"})
                        ~> (\A f \in Fds : sock[f] # c)

\* Nobody waits for ever in the dialogue of a login, and no dead connection stays.
RouteLive == LoginAnswered /\ DisconnectReleases
=============================================================================
