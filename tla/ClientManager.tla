---------------------------- MODULE ClientManager ----------------------------
(***************************************************************************)
(* client_manager.c under the event loop of main.c: the hash map from      *)
(* descriptors to slot indices and the timeout queue, a wheel of TIME_OUT  *)
(* slots turned by a SIGALRM handler every second.  Net_Disk_v1 and v2     *)
(* start the timer; v3 keeps the code and leaves the timer off.            *)
(*                                                                         *)
(* The loop looks a ready descriptor up, reads its command, and updates or *)
(* deletes the client_t it has found.  The handler may run between any two *)
(* of these and between the two halves, hash map and wheel, of add_client, *)
(* update_client and del_client.  It may evict, and free, the client_t the *)
(* loop has in hand: a descriptor read from it then need not be the        *)
(* client's any more, but is no open one's either (Wild).                  *)
(*                                                                         *)
(* A slot is a bag of descriptors: set_add_node does not look for          *)
(* duplicates, and nothing depends on the order of its list.  Transfers    *)
(* that leave the loop for the thread pool are in EarlyServer.             *)
(***************************************************************************)
EXTENDS Integers

CONSTANTS TIME_OUT,     \* slots of the wheel (30 in client_manager.h)
          Fds,          \* descriptors of clients
          Wild,         \* a number read from a freed client_t
          FreesFirst,   \* v2's del_client: hashmap_delete before tq_pop
          MaxNodes      \* bound: list nodes of one descriptor in a slot

ASSUME WheelAssumption == /\ TIME_OUT \in Nat /\ TIME_OUT > 1
                          /\ Wild \notin Fds
                          /\ FreesFirst \in BOOLEAN
                          /\ MaxNodes \in Nat \ {0}

VARIABLES cur_index,    \* the wheel's current slot
          slot,         \* slot[k][n]: nodes of the number n in slot k
          clean_flag,   \* clean_flag[k]
          index,        \* index[f]: slot index the hash map has for f, or Absent
          open,         \* open client sockets
          op,           \* where the event loop is, and with which descriptor
          idle,         \* history: ticks since f connected or last sent a command
          cut           \* history: a tick fell inside an operation, or v2's
                        \* tq_pop missed its node

vars == <<cur_index, slot, clean_flag, index, open, op, idle, cut>>

Slots   == 0..(TIME_OUT - 1)
Numbers == Fds \cup {Wild}    \* what a node may hold
Absent  == -1
IdleCap == TIME_OUT           \* the history variable idle stops there

NoOp   == [kind |-> "none"]
Down   == [kind |-> "down"]   \* the server has crashed
Halves == {"add", "update", "del"}

Managed    == {f \in Fds : index[f] # Absent}
Members(k) == {n \in Numbers : slot[k][n] > 0}

\* set_add_node and set_del_node on slot k.
AddNode(s, k, n) == [s EXCEPT ![k][n] = @ + 1]
DelNode(s, k, n) == IF s[k][n] > 0 THEN [s EXCEPT ![k][n] = @ - 1] ELSE s

\* Bounds: no descriptor gets more than MaxNodes nodes in a slot, and there is one node
\* with a wild number at a time.
RoomFor(f) == \A k \in Slots : slot[k][f] < MaxNodes
RoomForWild == \A k \in Slots : slot[k][Wild] = 0

\* hashmap_create and tq_create.
NoEntries == [f \in Fds |-> Absent]
NoNodes   == [k \in Slots |-> [n \in Numbers |-> 0]]

Init == /\ index = NoEntries
        /\ slot = NoNodes
        /\ cur_index = 0
        /\ clean_flag = [k \in Slots |-> FALSE]
        /\ open = {}
        /\ op = NoOp
        /\ idle = [f \in Fds |-> 0]
        /\ cut = FALSE

-----------------------------------------------------------------------------
(* The event loop *)

\* hashmap_put: an entry is made, or the one there is gets the new index.
HashmapPut(f, k) == index' = [index EXCEPT ![f] = k]

\* hashmap_delete, of one client or of several in turn.
HashmapDelete(E) == index' = [f \in Fds |-> IF f \in E THEN Absent ELSE index[f]]

\* The client_t in hand has been freed: only the handler takes it from the map.
Freed == op.fd \notin Managed

\* The process ends, its sockets with it.
Segfault == /\ op' = Down
            /\ open' = {}
            /\ index' = NoEntries
            /\ slot' = NoNodes
            /\ idle' = [f \in Fds |-> 0]
            /\ UNCHANGED <<cur_index, clean_flag, cut>>

\* A client connects.  add_client: hashmap_put ...
AddClient(f) ==
    /\ op = NoOp
    /\ f \notin open
    /\ RoomFor(f)
    /\ open' = open \cup {f}
    /\ HashmapPut(f, cur_index)
    /\ idle' = [idle EXCEPT ![f] = 0]
    /\ op' = [kind |-> "add", fd |-> f]
    /\ UNCHANGED <<cur_index, slot, clean_flag, cut>>

\* ... then tq_push.
TqPush ==
    /\ op.kind = "add"
    /\ slot' = AddNode(slot, cur_index, op.fd)
    /\ op' = NoOp
    /\ UNCHANGED <<cur_index, clean_flag, index, open, idle, cut>>

\* epoll_wait reports a client's socket.
EpollWait(f) ==
    /\ op = NoOp
    /\ f \in open
    /\ RoomFor(f)
    /\ op' = [kind |-> "ready", fd |-> f]
    /\ UNCHANGED <<cur_index, slot, clean_flag, index, open, idle, cut>>

\* get_cur_client; if the handler has been faster it returns NULL, and
\* recv_cmd's argument is read through it.
GetCurClient ==
    /\ op.kind = "ready"
    /\ \/ /\ ~Freed
          /\ op' = [kind |-> "found", fd |-> op.fd]
          /\ UNCHANGED <<cur_index, slot, clean_flag, index, open, idle, cut>>
       \/ Freed /\ Segfault

\* Mutant: the client stays in its slot.
UpdateClientKeeps ==
    /\ op.kind = "found"
    /\ op' = [kind |-> "run", fd |-> op.fd]
    /\ idle' = [idle EXCEPT ![op.fd] = 0]
    /\ UNCHANGED <<cur_index, slot, clean_flag, index, open, cut>>

\* The command has arrived (on an evicted client's closed socket recvn returns
\* -1, which recv_cmd takes for one).  update_client: hashmap_put returns the
\* old index, or makes an entry again for a client that has been evicted ...
UpdateClient ==
    /\ op.kind = "found"
    /\ op' = [kind |-> "update", fd |-> op.fd, old |-> index[op.fd]]
    /\ \/ HashmapPut(op.fd, cur_index)
       \/ Freed /\ UNCHANGED index
    /\ idle' = [idle EXCEPT ![op.fd] = 0]
    /\ UNCHANGED <<cur_index, slot, clean_flag, open, cut>>

\* Mutant: the node in the old slot stays.
TqUpdateConnNoDelete ==
    /\ op.kind = "update" /\ op.old # Absent
    /\ slot' = AddNode(slot, cur_index, op.fd)
    /\ op' = [kind |-> "run", fd |-> op.fd]
    /\ UNCHANGED <<cur_index, clean_flag, index, open, idle, cut>>

\* Mutant: an old index of -1 is passed over, and the entry just made stays.
TqUpdateConnSkips ==
    /\ op.kind = "update"
    /\ slot' = AddNode(IF op.old = Absent THEN slot ELSE DelNode(slot, op.old, op.fd),
                       cur_index, op.fd)
    /\ op' = [kind |-> "run", fd |-> op.fd]
    /\ UNCHANGED <<cur_index, clean_flag, index, open, idle, cut>>

\* ... then tq_update_conn moves the descriptor to the current slot.  slot[-1]
\* lies before the wheel: the size field of its heap chunk, which is no pointer
\* and not NULL, is followed as the head of a list.
TqUpdateConn ==
    /\ op.kind = "update"
    /\ \/ /\ op.old # Absent
          /\ \/ slot' = AddNode(DelNode(slot, op.old, op.fd), cur_index, op.fd)
             \/ Freed /\ RoomForWild /\ slot' = AddNode(slot, cur_index, Wild)
          /\ op' = [kind |-> "run", fd |-> op.fd]
          /\ UNCHANGED <<cur_index, clean_flag, index, open, idle, cut>>
       \/ op.old = Absent /\ Segfault

\* The command is done, which may take long (a login waits for the password),
\* and the client stays.
Finish ==
    /\ op.kind = "run"
    /\ op' = NoOp
    /\ UNCHANGED <<cur_index, slot, clean_flag, index, open, idle, cut>>

\* The peer has closed, or its command was exit or a token that fails: close.
\* An evicted client's socket is closed already.
Close ==
    /\ op.kind \in {"found", "run"}
    /\ open' = open \ {op.fd}
    /\ idle' = [idle EXCEPT ![op.fd] = 0]
    /\ op' = [kind |-> "closing", fd |-> op.fd]
    /\ UNCHANGED <<cur_index, slot, clean_flag, index, cut>>

\* del_client: hashmap_get ...
DelClient ==
    /\ op.kind = "closing"
    /\ op' = [kind |-> "del", fd |-> op.fd, old |-> index[op.fd]]
    /\ UNCHANGED <<cur_index, slot, clean_flag, index, open, idle, cut>>

\* ... then tq_pop and hashmap_delete.  In v2 the latter comes first, and tq_pop
\* looks for a descriptor that it reads from the freed client_t.
TqPop ==
    /\ op.kind = "del"
    /\ \/ /\ op.old # Absent
          /\ \/ slot' = DelNode(slot, op.old, op.fd) /\ UNCHANGED cut
             \/ (FreesFirst \/ Freed) /\ slot' = slot /\ cut' = TRUE
          /\ HashmapDelete({op.fd})
          /\ op' = NoOp
          /\ UNCHANGED <<cur_index, clean_flag, open, idle>>
       \/ op.old = Absent /\ Segfault

-----------------------------------------------------------------------------
(* timer_func: tq_update_timer, then clean_client on the new current slot *)

Advance == (cur_index + 1) % TIME_OUT

\* The numbers tq_clean_fd hands out: a slot just reached is cleaned only if
\* the wheel has passed it before.
Due == IF clean_flag[Advance] THEN Members(Advance) ELSE {}

Older(n) == IF n < IdleCap THEN n + 1 ELSE n

\* hashmap_delete and close for every descriptor of E; the others have been silent for
\* one tick more.
Evict(E) == /\ HashmapDelete(E)
            /\ open' = open \ E
            /\ idle' = [f \in Fds |-> IF f \in open \ E THEN Older(idle[f]) ELSE 0]

\* Every due descriptor is in the hash map, once: all are evicted.
Tick ==
    /\ op # Down
    /\ \A n \in Due : n \in Managed /\ slot[Advance][n] = 1
    /\ Evict(Due)
    /\ slot' = [slot EXCEPT ![Advance] =
                   [n \in Numbers |-> IF n \in Due THEN 0 ELSE slot[Advance][n]]]
    /\ clean_flag' = [clean_flag EXCEPT ![cur_index] = TRUE, ![Advance] = FALSE]
    /\ cur_index' = Advance
    /\ cut' = (cut \/ op.kind \in Halves)
    /\ UNCHANGED op

\* Mutant: the node of the unknown descriptor stays at the head of the list.
TickGivesUpPeek ==
    /\ op # Down
    /\ \E E \in SUBSET (Due \cap Managed), g \in Due :
         /\ g \notin Managed \/ (g \in E /\ slot[Advance][g] > 1)
         /\ Evict(E)
         /\ slot' = [slot EXCEPT ![Advance] =
                        [n \in Numbers |-> slot[Advance][n] - (IF n \in E THEN 1 ELSE 0)]]
    /\ clean_flag' = [clean_flag EXCEPT ![cur_index] = TRUE]
    /\ cur_index' = Advance
    /\ cut' = (cut \/ op.kind \in Halves)
    /\ UNCHANGED op

\* tq_clean_fd hands out a number that is not in the hash map (any more):
\* clean_client gives up, leaving the rest of the slot and its flag as they are.
TickGivesUp ==
    /\ op # Down
    /\ \E E \in SUBSET (Due \cap Managed), g \in Due :
         /\ g \notin Managed \/ (g \in E /\ slot[Advance][g] > 1)
         /\ Evict(E)
         /\ slot' = [slot EXCEPT ![Advance] =
                        [n \in Numbers |-> slot[Advance][n]
                                             - (IF n \in E THEN 1 ELSE 0)
                                             - (IF n = g THEN 1 ELSE 0)]]
    /\ clean_flag' = [clean_flag EXCEPT ![cur_index] = TRUE]
    /\ cur_index' = Advance
    /\ cut' = (cut \/ op.kind \in Halves)
    /\ UNCHANGED op

-----------------------------------------------------------------------------

LoopStep == \/ TqPush \/ GetCurClient \/ UpdateClient \/ TqUpdateConn
            \/ Finish \/ Close \/ DelClient \/ TqPop

Next == \/ \E f \in Fds : AddClient(f) \/ EpollWait(f)
        \/ LoopStep
        \/ Tick \/ TickGivesUp

Spec == Init /\ [][Next]_vars

\* The interval timer keeps ticking; nothing is asked of clients or of the loop.
FairSpec == Spec /\ WF_vars(Tick \/ TickGivesUp)

-----------------------------------------------------------------------------
(* Properties *)

TypeOK ==
    /\ cur_index \in Slots
    /\ slot \in [Slots -> [Numbers -> 0..MaxNodes]]
    /\ clean_flag \in [Slots -> BOOLEAN]
    /\ index \in [Fds -> Slots \cup {Absent}]
    /\ open \subseteq Fds
    /\ op \in {NoOp, Down}
                \cup [kind : {"add", "ready", "found", "run", "closing"}, fd : Fds]
                \cup [kind : {"update", "del"}, fd : Fds, old : Slots \cup {Absent}]
    /\ idle \in [Fds -> 0..IdleCap]
    /\ cut \in BOOLEAN

\* As long as no tick has fallen inside add_client, update_client or del_client and no
\* node was missed, the hash map and the wheel agree between two operations, also while
\* the loop is held by a client: a managed descriptor has exactly one node, in the slot
\* hashmap_get returns, and no other number has one.
WheelAgrees ==
    op.kind \notin Halves /\ ~cut =>
        \A k \in Slots : /\ slot[k][Wild] = 0
                         /\ \A f \in Fds : slot[k][f] = IF index[f] = k THEN 1 ELSE 0

\* As long as no tick has fallen inside an operation, a silent client is not kept longer
\* than TIME_OUT ticks.
NotOverdue == ~cut => \A f \in open : idle[f] < TIME_OUT

\* Undisturbed, map and wheel are exact, to the slot and to the tick.
WheelInv == WheelAgrees /\ NotOverdue

\* The handler closes a client only if it has been silent for TIME_OUT ticks, until a
\* tick falls inside an operation: also one whose command the loop is in the middle of.
EvictedOnlyIdle ==
    [][\A f \in Fds : f \in open \ open' /\ cur_index' # cur_index /\ ~cut' =>
                          idle[f] + 1 >= TIME_OUT]_vars

\* Whenever the event loop is not inside an operation, the hash map holds exactly the
\* open descriptors: the entry update_client makes for a client that was evicted between
\* get_cur_client and its use never outlives the call.
MappedIffOpen == op.kind \notin Halves \cup {"closing"} => Managed = open

\* No open client drops out of the wheel, whatever the handler cut into: it has a node
\* in some slot, so it will be looked at again.
NobodyForgotten == op.kind \notin Halves => \A f \in open : \E k \in Slots : slot[k][f] > 0

\* Whatever a tick cuts into, and whomever it evicts under the loop's hands, main.c's
\* calls leave the map with the open clients and each of them where the wheel will find
\* it, or the server goes down.
TableInv == TypeOK /\ MappedIffOpen /\ NobodyForgotten

\* No tick inside an operation, and no node missed by tq_pop.
Undisturbed == /\ cur_index' # cur_index => op.kind \notin Halves
               /\ op.kind = "del" /\ op' = NoOp => slot' = DelNode(slot, op.old, op.fd)

\* The wheel heals: once operations are no longer disturbed, leftover nodes are used up
\* and a client that stays silent is closed in the end, even while the loop waits for
\* somebody's password: again and again it is gone or has just spoken.
NobodyLingers == <>[][Undisturbed]_vars
                    => \A f \in Fds : []<>(f \notin open \/ idle[f] = 0)
=============================================================================
