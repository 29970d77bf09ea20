------------------------------ MODULE Transfer ------------------------------
(***************************************************************************)
(* Net_Disk_v3: gets and puts between the client's transfer thread and the *)
(* three file servers.  A big file lies whole on two servers and is        *)
(* fetched in two parts at once, into two files named after it, from which *)
(* an interrupted download is resumed.                                     *)
(*                                                                         *)
(* Contents are sequences of pages.  The route server is its answers and   *)
(* the rows it keeps (module Vfs has them in detail); the token dialogue   *)
(* is in module RouteServer, the pool's queue in module BlockQueue.  Files *)
(* are below 4 GiB, so the int sizes are exact.                            *)
(***************************************************************************)
EXTENDS Integers, Sequences, FiniteSets

CONSTANTS Clients,
          Content,    \* Content[m]: the pages of the file with MD5 m
          BigPages,   \* BIG_FILE_SIZE in pages
          NThreads,   \* threads of a file server's pool
          Scenarios,  \* bound: what each user types (todo), contents stored before (stored),
                      \* how often a client may be killed (kills), and whether the route
                      \* server closes (closes)
          MaxTries,   \* bound: transfers of one client, repetitions included
          NULL

Md5s    == DOMAIN Content
Page    == UNION {{Content[m][i] : i \in DOMAIN Content[m]} : m \in Md5s}
Hole    == "hole"                     \* a page never written
Partial == "partial"                  \* a page the process died in

ASSUME TransferAssumption == BigPages \in Nat \ {0} /\ NThreads \in Nat \ {0} /\ MaxTries \in Nat
ASSUME ClientsFinite == IsFiniteSet(Clients)

\* A page that was written is told from one that was not, and no file from every file.
ASSUME ContentAssumption ==
    /\ \A m \in Md5s : Content[m] \in Seq(Page)
    /\ {Hole, Partial, NULL} \cap Page = {} /\ NULL \notin Md5s
    /\ \A m \in Md5s : \A n \in 0..Len(Content[m]) :
          NULL \notin [1..n -> Page \cup {Hole, Partial}]

ASSUME ScenarioAssumption ==
    \A sc \in Scenarios : /\ sc.todo \in [Clients -> Seq({"gets", "puts"} \X Md5s)]
                          /\ sc.stored \subseteq Md5s
                          /\ sc.kills \in [Clients -> Nat] /\ sc.closes \in BOOLEAN

VARIABLES rows,     \* contents the route server has a row for: servers and part sizes
          repo,     \* repo[s][m]: the file m in the repository of server s, or NULL
          alive,    \* file servers that run
          que,      \* que[s]: connections accepted and not yet taken by a thread
          sv,       \* sv[k]: the thread that serves connection k
          up, down, \* words and pages under way on each connection
          held,     \* connections the client has not closed
          cl,       \* cl[c]: the transfer thread
          disk,     \* disk[c]: the file downloaded and its two part files, or NULL
          kills,    \* how often the client may still be killed
          route,    \* "open", "closes" if the route server may close, "closed"
          early,    \* history: a gets was answered before its content was there
          cut,      \* history: contents whose upload was cut short
          mixed     \* history: a download found part files of another content

vars == <<rows, repo, alive, que, sv, up, down, held, cl, disk, kills, route, early, cut, mixed>>

Servers == 1..3
Conns   == Clients \X (1..MaxTries) \X {1, 2}

Size(m)  == Len(Content[m])
Big(m)   == Size(m) >= BigPages
Part1(m) == IF Big(m) THEN Size(m) \div 2 ELSE Size(m)
Part2(m) == Size(m) - Part1(m)

Row(m, s, p1, p2) == [md5 |-> m, s |-> s, part |-> <<p1, p2>>]
Pairs == {<<1, 2>>, <<3, 1>>, <<2, 3>>}                    \* load_balance
NoThread == [at |-> "none", s |-> 0, m |-> NULL, off |-> 0, len |-> 0, pos |-> 0]
Thread0 == [at |-> "idle", n |-> 0, op |-> NULL, row |-> NULL, off |-> <<0, 0>>,
            pos |-> <<0, 0>>, over |-> {}]

Init == /\ \E sc \in Scenarios :
              /\ rows = {Row(m, <<1, 2>>, Part1(m), Part2(m)) : m \in sc.stored}
              /\ repo = [s \in Servers |-> [m \in Md5s |->
                           IF m \in sc.stored /\ s \in {1, 2} THEN Content[m] ELSE NULL]]
              /\ cl = [c \in Clients |-> [Thread0 EXCEPT !.op = sc.todo[c]]]
              /\ kills = sc.kills /\ route = IF sc.closes THEN "closes" ELSE "open"
        /\ alive = Servers /\ que = [s \in Servers |-> <<>>]
        /\ sv = [k \in Conns |-> NoThread]
        /\ up = [k \in Conns |-> <<>>] /\ down = [k \in Conns |-> <<>>]
        /\ disk = [c \in Clients |-> [file |-> NULL, t |-> <<NULL, NULL>>, of |-> NULL]]
        /\ held = {} /\ early = FALSE /\ cut = {} /\ mixed = FALSE

(* cl[c].op is what the user still types, a sequence of <<"gets" or "puts", md5>>. *)
Line(c)     == cl[c].op[1]
K(c, i)     == <<c, cl[c].n, i>>
Nth(c)      == IF cl[c].row.part[2] = 0 THEN {1} ELSE {1, 2}   \* servers of this transfer
Goto(c, at) == cl' = [cl EXCEPT ![c].at = at]
Open(k)     == sv[k].at \notin {"none", "closed", "leaked"}
Gone(k)     == k \notin held

serverVars == <<repo, alive, que, sv>>
netVars    == <<up, down, held>>
history    == <<early, cut, mixed>>

-----------------------------------------------------------------------------
(* do_gets and do_puts: the dialogue with the route server *)

Complete(r) == /\ repo[r.s[1]][r.md5] = Content[r.md5]
               /\ r.part = <<Part1(r.md5), Part2(r.md5)>>
               /\ r.part[2] # 0 => repo[r.s[2]][r.md5] = Content[r.md5]

Begin(c, op) == /\ route # "closed" /\ cl[c].at = "idle" /\ cl[c].op # <<>> /\ cl[c].n < MaxTries
                /\ Line(c)[1] = op

GetsAsk(c) ==
    /\ Begin(c, "gets")
    /\ \/ \E r \in rows :
             /\ r.md5 = Line(c)[2]
             /\ cl' = [cl EXCEPT ![c].at = "connect", ![c].n = @ + 1, ![c].row = r]
             /\ early' = (early \/ ~Complete(r))
       \/ /\ \A r \in rows : r.md5 # Line(c)[2]                   \* no such file
          /\ cl' = [cl EXCEPT ![c].op = Tail(@)]
          /\ UNCHANGED early
    /\ UNCHANGED <<rows, serverVars, netVars, disk, kills, route, cut, mixed>>

\* A quick upload ends here; else load_balance names two servers.
PutsAsk(c) ==
    /\ Begin(c, "puts")
    /\ LET m == Line(c)[2] IN
       \/ /\ \E r \in rows : r.md5 = m
          /\ cl' = [cl EXCEPT ![c].op = Tail(@)]
       \/ /\ \A r \in rows : r.md5 # m
          /\ \E s \in Pairs :
                cl' = [cl EXCEPT ![c].at = "sizes", ![c].n = @ + 1,
                                 ![c].row = Row(m, s, Part1(m), Part2(m))]
    /\ UNCHANGED <<rows, serverVars, netVars, disk, kills, route, history>>

\* The route server has its row before anything is uploaded.
PutsSizes(c) ==
    /\ cl[c].at = "sizes"
    /\ rows' = rows \cup {cl[c].row}
    /\ Goto(c, "connect")
    /\ UNCHANGED <<serverVars, netVars, disk, kills, route, history>>

-----------------------------------------------------------------------------
(* do_gets and do_puts: the file servers *)

ServerOf(k) == cl[k[1]].row.s[k[3]]
Send(c, w) == up' = [k \in Conns |-> IF k \in {K(c, i) : i \in Nth(c)} /\ Open(k)
                                     THEN Append(up[k], w[k[3]]) ELSE up[k]]

\* The event loop of the server accepts and gives the descriptor to the pool.
Accepted(ks) ==
    /\ que' = [s \in Servers |-> que[s] \o
                 (IF \E k \in ks : ServerOf(k) = s
                  THEN <<CHOOSE k \in ks : ServerOf(k) = s>> ELSE <<>>)]
    /\ sv' = [k \in Conns |-> IF k \in ks
                              THEN [NoThread EXCEPT !.at = "queued", !.s = ServerOf(k)]
                              ELSE sv[k]]

Connect(c) ==
    /\ cl[c].at = "connect"
    /\ LET ks == {K(c, i) : i \in Nth(c)} IN
       /\ \A k \in ks : ServerOf(k) \in alive
       /\ Accepted(ks)
       /\ held' = held \cup ks
    /\ Goto(c, "train")
    /\ UNCHANGED <<rows, repo, alive, up, down, disk, kills, route, history>>

SendTrain(c) ==
    /\ cl[c].at = "train"
    /\ LET w == [k |-> "cmd", v |-> Line(c)] IN Send(c, <<w, w>>)
    /\ Goto(c, IF Line(c)[1] = "gets" THEN "open" ELSE "size")
    /\ UNCHANGED <<rows, serverVars, down, held, disk, kills, route, history>>

-----------------------------------------------------------------------------
(* do_gets: part files, resumption, multi_point_download, merge *)

Blank(n)    == [i \in 1..n |-> Hole]
Pages(f)    == IF f = NULL THEN 0 ELSE Cardinality({i \in DOMAIN f : f[i] # Hole})
Truncate(f, n) == [i \in 1..n |-> IF f # NULL /\ i <= Len(f) THEN f[i] ELSE Hole]
WriteAt(f, i, v) == [j \in 1..(IF i > Len(f) THEN i ELSE Len(f)) |->
                        IF j = i THEN v ELSE IF j <= Len(f) THEN f[j] ELSE Hole]

\* Mutant: resumed behind the last page on the disk.
ResumeAtLastPage(f) == Pages(f)

\* The last page on the disk may be incomplete and is fetched again.
Resume(f) == IF Pages(f) = 0 THEN 0 ELSE Pages(f) - 1

\* The server is told the whole size of the part also when the download is resumed.
Asked(c, off, i) == cl[c].row.part[i]

OpenParts(c) ==
    /\ cl[c].at = "open" /\ Nth(c) = {1, 2}
    /\ LET r   == cl[c].row
           d   == disk[c]
           off == [i \in {1, 2} |-> Resume(d.t[i])]
       IN /\ disk' = [disk EXCEPT
                ![c].t = [i \in {1, 2} |-> IF Pages(d.t[i]) = 0 THEN Blank(r.part[i]) ELSE d.t[i]],
                ![c].of = r.md5]
          /\ mixed' = (mixed \/ d.of \notin {NULL, r.md5})
          /\ cl' = [cl EXCEPT ![c].at = "recv", ![c].off = off, ![c].pos = <<0, 0>>,
                              ![c].over = {}]
          /\ Send(c, <<[k |-> "offs", off |-> off[1], len |-> Asked(c, off, 1)],
                       [k |-> "offs", off |-> off[2] + r.part[1], len |-> Asked(c, off, 2)]>>)
    /\ UNCHANGED <<rows, serverVars, down, held, kills, route, early, cut>>

\* A small file goes to its place at once.
OpenSmall(c) ==
    /\ cl[c].at = "open" /\ Nth(c) = {1}
    /\ disk' = [disk EXCEPT ![c].file = IF @ = NULL THEN <<>> ELSE @]
    /\ cl' = [cl EXCEPT ![c].at = "recv", ![c].off = <<0, 0>>, ![c].pos = <<0, 0>>,
                        ![c].over = {}]
    /\ LET w == [k |-> "offs", off |-> 0, len |-> cl[c].row.part[1]] IN Send(c, <<w, w>>)
    /\ UNCHANGED <<rows, serverVars, down, held, kills, route, history>>

Arrived(c, i, f, v) == WriteAt(f, cl[c].off[i] + cl[c].pos[i] + 1, v)
Store(c, i, v) ==
    IF Nth(c) = {1} THEN [disk EXCEPT ![c].file = Arrived(c, 1, @, v)]
    ELSE [disk EXCEPT ![c].t[i] = Arrived(c, i, @, v)]
Wanted(c, i) == cl[c].pos[i] < cl[c].row.part[i] - cl[c].off[i]

\* One of the threads of multi_point_download: a page, or what recvn made of the
\* connection's end is ignored.
RecvPart(c, i) ==
    /\ cl[c].at = "recv" /\ i \in Nth(c) \ cl[c].over
    /\ LET k == K(c, i) IN
       \/ /\ Wanted(c, i) /\ down[k] # <<>>
          /\ disk' = Store(c, i, down[k][1])
          /\ down' = [down EXCEPT ![k] = Tail(@)]
          /\ cl' = [cl EXCEPT ![c].pos[i] = @ + 1]
       \/ /\ ~Wanted(c, i) \/ (down[k] = <<>> /\ ~Open(k))
          /\ cl' = [cl EXCEPT ![c].over = @ \cup {i}]
          /\ UNCHANGED <<down, disk>>
    /\ UNCHANGED <<rows, serverVars, up, held, kills, route, history>>

\* Both threads are joined; the first part file gets room for the second part.
Join(c) ==
    /\ cl[c].at = "recv" /\ cl[c].over = Nth(c)
    /\ LET r == cl[c].row IN
       \/ /\ Nth(c) = {1} /\ Goto(c, "done") /\ UNCHANGED disk
       \/ /\ Nth(c) = {1, 2}
          /\ disk' = [disk EXCEPT ![c].t[1] = Truncate(@, r.part[1] + r.part[2])]
          /\ cl' = [cl EXCEPT ![c].at = "merge", ![c].pos = <<0, 0>>]
    /\ UNCHANGED <<rows, serverVars, netVars, kills, route, history>>

\* Mutant: the connections to the file servers stay open.
CloseKeeps(c) == UNCHANGED <<held, down>>

\* do_gets closes its connections, do_puts does not.
Close(c) ==
    LET ks == IF Line(c)[1] = "gets" THEN {K(c, i) : i \in Nth(c)} ELSE {} IN
    /\ held' = held \ ks
    /\ down' = [k \in Conns |-> IF k \in ks THEN <<>> ELSE down[k]]

\* The connections are closed when the parts are one file.
Merge(c) ==
    /\ cl[c].at = "merge"
    /\ LET r == cl[c].row
           i == cl[c].pos[2] + 1
       IN \/ /\ i <= r.part[2]
             /\ disk' = [disk EXCEPT ![c].t[1] = WriteAt(@, r.part[1] + i, disk[c].t[2][i])]
             /\ cl' = [cl EXCEPT ![c].pos[2] = i]
             /\ UNCHANGED <<held, down>>
          \/ i > r.part[2] /\ Close(c) /\ Goto(c, "rename") /\ UNCHANGED disk
    /\ UNCHANGED <<rows, serverVars, up, kills, route, history>>

\* The part file takes the name of the file ...
Rename(c) ==
    /\ cl[c].at = "rename"
    /\ disk' = [disk EXCEPT ![c].file = disk[c].t[1], ![c].t[1] = NULL]
    /\ Goto(c, "unlink")
    /\ UNCHANGED <<rows, serverVars, netVars, kills, route, history>>

\* ... and the other one goes.
Unlink(c) ==
    /\ cl[c].at = "unlink"
    /\ disk' = [disk EXCEPT ![c].t[2] = NULL, ![c].of = NULL]
    /\ Goto(c, "done")
    /\ UNCHANGED <<rows, serverVars, netVars, kills, route, history>>

Finish(c) ==
    /\ cl[c].at = "done"
    /\ Close(c)
    /\ cl' = [cl EXCEPT ![c].at = "idle", ![c].op = Tail(@), ![c].row = NULL,
                        ![c].off = <<0, 0>>, ![c].pos = <<0, 0>>, ![c].over = {}]
    /\ UNCHANGED <<rows, serverVars, up, disk, kills, route, history>>

-----------------------------------------------------------------------------
(* do_puts: the whole content to one server after the other *)

SendSize(c) ==
    /\ cl[c].at = "size"
    /\ LET w == [k |-> "size", v |-> Size(Line(c)[2])] IN Send(c, <<w, w>>)
    /\ cl' = [cl EXCEPT ![c].at = "send1", ![c].pos = <<0, 0>>]
    /\ UNCHANGED <<rows, serverVars, down, held, disk, kills, route, history>>

\* A full socket buffer, here one page, stops the sender.
SendContent(c, i) ==
    /\ cl[c].at = IF i = 1 THEN "send1" ELSE "send2"
    /\ LET m == Line(c)[2]
           k == K(c, i)
           p == cl[c].pos[i] + 1
       IN \/ /\ p <= Size(m) /\ (up[k] = <<>> \/ ~Open(k))
             /\ up' = IF Open(k) THEN [up EXCEPT ![k] = <<[k |-> "page", v |-> Content[m][p]]>>]
                      ELSE up
             /\ cl' = [cl EXCEPT ![c].pos[i] = p]
          \/ /\ p > Size(m)
             /\ Goto(c, IF i = 1 /\ Nth(c) = {1, 2} THEN "send2" ELSE "done")
             /\ UNCHANGED up
    /\ UNCHANGED <<rows, serverVars, down, held, disk, kills, route, history>>

-----------------------------------------------------------------------------
(* The process ends *)

\* What a process that dies leaves: a page half written, a row without an upload.
Dies(c, at, op) ==
    /\ cl' = [cl EXCEPT ![c] = [Thread0 EXCEPT !.at = at, !.op = op, !.n = cl[c].n]]
    /\ held' = {k \in held : k[1] # c}
    /\ down' = [k \in Conns |-> IF k[1] = c THEN <<>> ELSE down[k]]
    /\ \E hs \in SUBSET {1, 2} :
          /\ \A i \in hs : /\ cl[c].at = "recv" /\ Nth(c) = {1, 2} /\ Wanted(c, i)
                           /\ down[K(c, i)] # <<>>
          /\ disk' = [disk EXCEPT ![c].t = [i \in {1, 2} |->
                        IF i \in hs THEN Arrived(c, i, disk[c].t[i], Partial)
                        ELSE disk[c].t[i]]]
    /\ LET uploads == cl[c].at \notin {"idle", "done"} /\ Line(c)[1] = "puts" IN
       /\ cut' = IF uploads THEN cut \cup {Line(c)[2]} ELSE cut
       /\ rows' = IF uploads /\ cl[c].at = "sizes"
                  THEN rows \cup {[cl[c].row EXCEPT !.part = <<0, 0>>]} ELSE rows
    /\ UNCHANGED <<serverVars, up, route, early, mixed>>

\* Killed and started again; the user repeats the command or goes on.
Killed(c) ==
    /\ route # "closed" /\ cl[c].at \notin {"idle", "gone"}
    /\ kills[c] > 0 /\ kills' = [kills EXCEPT ![c] = @ - 1]
    /\ \E op \in {cl[c].op, Tail(cl[c].op)} : Dies(c, "idle", op)

\* tcp_connect finds no server.
ConnectFails(c) ==
    /\ cl[c].at = "connect" /\ \E i \in Nth(c) : ServerOf(K(c, i)) \notin alive
    /\ Dies(c, "gone", cl[c].op) /\ UNCHANGED kills

\* SIGPIPE: the client writes to a connection its server has closed.
BrokenPipe(c) ==
    /\ cl[c].at \in {"train", "open", "size", "send1", "send2"}
    /\ \E i \in Nth(c) :
          /\ sv[K(c, i)].at = "closed"
          /\ \/ cl[c].at \in {"train", "open", "size"}
             \/ /\ cl[c].at = IF i = 1 THEN "send1" ELSE "send2"
                /\ cl[c].pos[i] < Size(Line(c)[2])
    /\ Dies(c, "gone", cl[c].op) /\ UNCHANGED kills

RouteCloses ==
    /\ route = "closes" /\ route' = "closed"
    /\ UNCHANGED <<rows, serverVars, netVars, cl, disk, kills, history>>

\* The main thread sees the end of its connection and calls exit, transfers or not.
ExitOnClose(c) ==
    /\ route = "closed" /\ cl[c].at # "gone"
    /\ Dies(c, "gone", cl[c].op) /\ UNCHANGED kills

-----------------------------------------------------------------------------
(* A file server: pth_func, task_analyse, do_gets_task, do_puts_task *)

Busy(s)     == {k \in Conns : sv[k].s = s /\ Open(k) /\ sv[k].at # "queued"}
At(s, at)   == {k \in Busy(s) : sv[k].at = at}
Step(k, r)  == sv' = [sv EXCEPT ![k] = r]
Now(k, at)  == Step(k, [sv[k] EXCEPT !.at = at])
End(k, at)  == Step(k, [NoThread EXCEPT !.at = at])
Word(k)     == up[k] # <<>>
Lost(k)     == up[k] = <<>> /\ Gone(k)          \* recvn returns 0
TakeWord(k) == up' = [up EXCEPT ![k] = Tail(@)]
clientVars  == <<rows, cl, disk, kills, route, history>>

Pop(s) ==
    /\ s \in alive /\ que[s] # <<>> /\ Cardinality(Busy(s)) < NThreads
    /\ Now(que[s][1], "cmd")
    /\ que' = [que EXCEPT ![s] = Tail(@)]
    /\ UNCHANGED <<repo, alive, netVars, clientVars>>

\* A client that has gone before its command: nobody closes the descriptor.
RecvTrain(s) == \E k \in At(s, "cmd") :
    /\ \/ /\ Word(k) /\ TakeWord(k)
          /\ Step(k, [sv[k] EXCEPT !.at = up[k][1].v[1], !.m = up[k][1].v[2]])
       \/ Lost(k) /\ End(k, "leaked") /\ UNCHANGED up
    /\ UNCHANGED <<repo, alive, que, down, held, clientVars>>

\* error(-1, ...): the process ends with all its connections.
ServerEnds(s) ==
    /\ alive' = alive \ {s}
    /\ que' = [que EXCEPT ![s] = <<>>]
    /\ sv' = [j \in Conns |-> IF sv[j].s = s /\ Open(j) THEN [NoThread EXCEPT !.at = "closed"]
                              ELSE sv[j]]

\* A file that is not there ends the server.
GetsOpen(s) == \E k \in At(s, "gets") :
    /\ \/ /\ repo[s][sv[k].m] # NULL
          /\ Now(k, "offs") /\ UNCHANGED <<alive, que>>
       \/ repo[s][sv[k].m] = NULL /\ ServerEnds(s)
    /\ UNCHANGED <<repo, netVars, clientVars>>

GetsOffset(s) == \E k \in At(s, "offs") :
    /\ \/ /\ Word(k) /\ TakeWord(k)
          /\ Step(k, [sv[k] EXCEPT !.at = "send", !.off = up[k][1].off, !.len = up[k][1].len])
       \/ Lost(k) /\ Now(k, "send") /\ UNCHANGED up
    /\ UNCHANGED <<repo, alive, que, down, held, clientVars>>

\* A part of at least half of BIG_FILE_SIZE is mapped from its offset; a smaller one is
\* read from the beginning of the file.
Source(s, k) ==
    LET f   == repo[s][sv[k].m]
        big == sv[k].len >= BigPages \div 2
        i   == sv[k].pos + 1 + (IF big THEN sv[k].off ELSE 0)
    IN IF i <= Len(f) THEN f[i] ELSE IF big THEN NULL ELSE Hole

\* send_big_file and send_small_file; a page beyond the file cannot be sent.
SendFile(s) == \E k \in At(s, "send") :
    /\ \/ /\ sv[k].pos < sv[k].len /\ ~Gone(k) /\ down[k] = <<>> /\ Source(s, k) # NULL
          /\ down' = [down EXCEPT ![k] = <<Source(s, k)>>]
          /\ Step(k, [sv[k] EXCEPT !.pos = @ + 1])
       \/ /\ \/ sv[k].pos >= sv[k].len \/ Gone(k) \/ Source(s, k) = NULL
          /\ End(k, "closed") /\ UNCHANGED down
    /\ UNCHANGED <<repo, alive, que, up, held, clientVars>>

PutsOpen(s) == \E k \in At(s, "puts") :
    /\ repo' = [repo EXCEPT ![s][sv[k].m] = IF @ = NULL THEN <<>> ELSE @]
    /\ Now(k, "size")
    /\ UNCHANGED <<alive, que, netVars, clientVars>>

\* Without a size the file is truncated to nothing.
PutsSize(s) == \E k \in At(s, "size") :
    /\ \/ /\ Word(k) /\ TakeWord(k)
          /\ repo' = [repo EXCEPT ![s][sv[k].m] = Truncate(@, up[k][1].v)]
          /\ Step(k, [sv[k] EXCEPT !.at = "recv", !.len = up[k][1].v])
       \/ /\ Lost(k) /\ UNCHANGED up
          /\ repo' = [repo EXCEPT ![s][sv[k].m] = <<>>]
          /\ Now(k, "recv")
    /\ UNCHANGED <<alive, que, down, held, clientVars>>

\* Mutant: the loop ends a page early.
RecvFileShort(s) == \E k \in At(s, "recv") :
    /\ \/ /\ sv[k].pos < sv[k].len - 1 /\ Word(k) /\ TakeWord(k)
          /\ repo' = [repo EXCEPT ![s][sv[k].m] = WriteAt(@, sv[k].pos + 1, up[k][1].v)]
          /\ Step(k, [sv[k] EXCEPT !.pos = @ + 1])
       \/ /\ sv[k].pos >= sv[k].len - 1
          /\ End(k, "closed")
          /\ up' = [up EXCEPT ![k] = <<>>]
          /\ UNCHANGED repo
    /\ UNCHANGED <<alive, que, down, held, clientVars>>

\* recv_big_file and recv_small_file.
RecvFile(s) == \E k \in At(s, "recv") :
    /\ \/ /\ sv[k].pos < sv[k].len /\ Word(k) /\ TakeWord(k)
          /\ repo' = [repo EXCEPT ![s][sv[k].m] = WriteAt(@, sv[k].pos + 1, up[k][1].v)]
          /\ Step(k, [sv[k] EXCEPT !.pos = @ + 1])
       \/ /\ sv[k].pos >= sv[k].len \/ Lost(k)
          /\ End(k, "closed")
          /\ UNCHANGED <<repo, up>>
    /\ UNCHANGED <<alive, que, down, held, clientVars>>

\* The three servers are three programs with the same source.
Tasks(s) == RecvTrain(s) \/ GetsOpen(s) \/ GetsOffset(s) \/ PutsOpen(s) \/ PutsSize(s)
Pool2  == Pop(2)
Tasks2 == Tasks(2)
Trans2 == SendFile(2) \/ RecvFile(2)
Pool3  == Pop(3)
Tasks3 == Tasks(3)
Trans3 == SendFile(3) \/ RecvFile(3)

FileServers == \/ Pop(1) \/ Tasks(1) \/ SendFile(1) \/ RecvFile(1)
               \/ Pool2 \/ Tasks2 \/ Trans2
               \/ Pool3 \/ Tasks3 \/ Trans3

-----------------------------------------------------------------------------

Client(c) == \/ GetsAsk(c) \/ PutsAsk(c) \/ PutsSizes(c) \/ Connect(c) \/ ConnectFails(c)
             \/ SendTrain(c)
             \/ OpenParts(c) \/ OpenSmall(c) \/ RecvPart(c, 1) \/ RecvPart(c, 2)
             \/ Join(c) \/ Merge(c) \/ Rename(c) \/ Unlink(c) \/ Finish(c)
             \/ SendSize(c) \/ SendContent(c, 1) \/ SendContent(c, 2)

Next == \/ \E c \in Clients : Client(c) \/ BrokenPipe(c) \/ Killed(c) \/ ExitOnClose(c)
        \/ RouteCloses
        \/ FileServers

Spec == Init /\ [][Next]_vars

\* Some thread that can go on does; nobody need be killed.
FairSpec == Spec /\ WF_vars(FileServers \/ \E c \in Clients : Client(c))

-----------------------------------------------------------------------------
(* Properties *)

TypeOK ==
    /\ alive \subseteq Servers /\ held \subseteq Conns
    /\ \A r \in rows : r.md5 \in Md5s /\ r.s \in Pairs
    /\ \A s \in Servers : Cardinality(Busy(s)) <= NThreads
    /\ \A k \in Conns : Len(down[k]) <= 1
    /\ \A c \in Clients : \A i \in {1, 2} : cl[c].off[i] \in Nat /\ cl[c].pos[i] \in Nat

Finished(c) == cl[c].at = "done" /\ Line(c)[1] = "gets"

\* A download that comes to its end has the content, however often it was killed and
\* resumed before: within a page, while merging, between rename and unlink.  Not
\* promised are contents not completely uploaded and part files another content left.
DownloadWhole ==
    ~early /\ ~mixed /\ cut = {} =>
        \A c \in Clients : Finished(c) =>
            LET m == Line(c)[2] IN
            /\ Big(m) => disk[c].file = Content[m] /\ disk[c].t = <<NULL, NULL>>
            /\ ~Big(m) => SubSeq(disk[c].file, 1, Size(m)) = Content[m]

\* A resumed download asks for a place in the file, and ends with the file.
TransferInv == TypeOK /\ DownloadWhole

Uploading(k) == sv[k].at \in {"queued", "cmd", "puts", "size", "recv"}

\* The row a puts leaves comes true: when no upload is under way, the content is whole
\* on the servers the row names, also when two clients have uploaded it at once.
RowHasContent ==
    /\ alive = Servers
    /\ \A k \in Conns : ~Uploading(k)
    /\ \A c \in Clients : cl[c].at \in {"idle", "gone"} \/ Line(c)[1] = "gets"
    => \A r \in rows : r.md5 \in cut \/ Complete(r)

\* A file server ends only where a gets was answered before the content was there or an
\* upload was cut short.
ServerSurvives == ~early /\ cut = {} => alive = Servers

\* What the route server has a row of can be had: the content is there, and the servers.
ContentInv == RowHasContent /\ ServerSurvives

\* Every transfer ends and every thread of the file servers gets free again: nobody
\* waits for ever, also when a client stops reading early because it had asked for more
\* than was missing, dies, or loses its server.
ComesToRest == <>[](/\ \A c \in Clients : cl[c].at \in {"idle", "gone"}
                    /\ \A k \in Conns : ~Open(k))

\* A client whose route server has closed finishes its transfers before it exits.
ExitAfterTransfer ==
    [][\A c \in Clients : route = "closed" /\ alive = Servers /\ cl[c].at # "gone" /\ cl'[c].at = "gone" =>
          cl[c].at = "idle"]_vars
=============================================================================
