# A TLA+ model of the net disk

The repository is a network disk in C: a client program, a *route server* that
knows users, directories and where files are, and *file servers* that hold the
contents. It went through several generations: `Cloud_Disk` (one server with a
thread pool), `xp` (a second, independent implementation), and `Net_Disk_v1`,
`v2`, `v3` (route server and file servers). All of them are modelled here, `v3`
most completely. Paths below are relative to
`src/Net_Disk_v3/server/route_server/src/` unless they say otherwise.

`PROJECT.json` has, for every definition, the source lines it models, the
hazards of the code with the properties aimed at each, and the mutant that shows
each property can fail.

## 1. Inventory

| Component | State | Operations | Interacts with |
|---|---|---|---|
| Task queue and thread pool (`block_queue.c`, `thread_pool.c`) | ring `task_queue`, `front`, `rear`, `size`; mutex; conditions `not_empty`, `not_full`; thread ids | push, pop, create threads, distribute, exit and join | event loop pushes, workers pop |
| Event loop (`main.c`, `net.c`) | epoll set, ready list, listening socket, exit pipe | accept, receive a command, hand it to a worker, disconnect, exit | kernel, client table, queue |
| Workers (`thread_pool.c`, `route_task.c`) | the task in hand, a `client_t *` | run the handler of a command, re-arm the socket | shares `client_t` with the event loop by pointer |
| Client table (`client_manager.c`) | hash map from descriptor to `client_t`, `get_cur_client` | add, update, delete, look up | event loop and workers, without a lock |
| Timeout wheel (`Net_Disk_v1`, `v2`: `client_manager.c`) | `TIME_OUT` slots, `clean_flag`, `cur_index`, slot index in the map | push, update, pop, tick | SIGALRM handler interrupts the event loop |
| Login, token, registration (`do_login.c`, `do_token.c`, `do_register.c`) | user table; user of a `client_t`; token = descriptor of the main connection, 600 s | check, salt, password, insert, token, copy of the session | database; the client's main and transfer connections |
| Configuration (`config.c`) | open-addressing table of 32 slots | read, insert, find | start-up |
| Virtual file system (`do_cd.c`, `do_ls.c`, `do_mkdir.c`, `do_rm.c`, `do_rmdir.c`, `do_puts.c`, `do_gets.c`) | table `VFS`; `code`, `pre_code`, `path` of each client | the commands, as sequences of queries | one `MYSQL` connection shared by all workers |
| Database connection (`sql.c`) | `sql_conn` | connect, close | all workers |
| File servers (`../file_server_1..3/src`) | files on disk, own pool and queue | gets and puts of a part, page by page | the client's transfer threads |
| Client (`Net_Disk_v3/client/src`) | connections, part files | login, commands, download (split, resume, merge), upload | both kinds of servers |
| v1 route server (`Net_Disk_v1/server/route_server/src`) | as v3, plus the timer; tasks name a descriptor | short commands in the event loop, gets and puts in the pool | timer, pool and loop share the table |
| `Cloud_Disk` server and client | linked task queue with a stop flag; sockets | login, pwd, mkdir, rmdir, gets with resume, stop | workers and event loop read the same sockets |
| `xp` server and client | `user_info` indexed by descriptor; tables `users`, `files`; storage by MD5 | login by password and by token, cd, ls, mkdir, rm, puts, gets with resume | workers and event loop share `user_info` and one `MYSQL` connection |

What is hard in it, and which properties it calls for:

* **Queue.** Condition variables with one signal per operation, a ring in which
  only `size` tells full from empty, shutdown by one exit task per thread. No
  wakeup lost, each task once, everything drained before exit, exit returns.
* **Event loop and workers.** A `client_t` moves between threads by pointer,
  protected by nothing but `epoll_del` before and `epoll_add` after the handler;
  `hashmap_delete` frees it, and some callers read it afterwards. One thread per
  session, an exact table, no session acting for another user, no leaked
  connection.
* **Wheel.** A signal handler that changes the structures the interrupted code
  is changing, and may free the very client it has in hand. Map and wheel agree, nobody
  is evicted early or forgotten, no closed descriptor keeps an entry.
* **Accounts.** Check and insert are two queries on a table without a unique
  key; a query fails while another thread's result is open, and error paths go
  on with empty strings; a client may vanish between salt and password. Nobody
  gets in who should not, nobody is turned away or kept waiting without a reason.
* **VFS.** Handlers of two to four queries on a connection that other workers use in
  between; error paths that return success; soft deletion of files and hard
  deletion of directories; quick uploads that copy other users' rows.
* **Transfers.** Resume after a crash, from the sizes of two part files; a row
  written before the content is there; uploads of one content at once; a file
  server that ends on a missing file.
* **v1 scheduling.** A task is a descriptor, resolved when a thread gets to it,
  while the timer closes descriptors and `accept` gives them away; the event loop
  itself blocks on a full queue.
* **`Cloud_Disk`.** Two threads read one socket; the stop flag is cleared and
  broadcast without the mutex; descriptors reused under a pending task.
* **`xp`.** `recvn` closes the descriptor and its callers go on, with what was in their
  buffers before; the worker closes a descriptor before it resets the session stored
  under its number; a big file is mapped at an offset that need not be one of a page.

## 2. Modules

| Module | Models | Role |
|---|---|---|
| `TaskPool` | what a pool promises | abstract specification: bounded FIFO, each task to one idle worker |
| `BlockQueue` | `block_queue.c`, `thread_pool.c` | detailed specification, implements `TaskPool` |
| `RouteServer` | `main.c`, `net.c`, `thread_pool.c`, `route_task.c`, `client_manager.c`, `do_login.c`, `do_token.c`, the client's side of the dialogues | composes clients, kernel, event loop, workers and client table; its queue is the one `TaskPool` specifies |
| `ClientManager` | `client_manager.c` with its timer (v1, v2) | hash map and wheel under SIGALRM |
| `ConfigTable` | `config.c` | start-up table; part of `Account` |
| `Account` | `do_register.c`, `do_login.c` of v1, v2, v3 and the client's side | start-up and the dialogues on the shared connection |
| `Vfs` | `do_*.c` on the `VFS` table | handlers query by query on the shared connection |
| `EarlyServer` | v1's `main.c`, `thread_pool.c`, `route_task.c`, `do_token.c` | composes `Vfs`'s handlers with v1's event loop, pool and timer |
| `Transfer` | the client's `do_gets.c`, `do_puts.c`, `main.c`, `task.c`; `file_server_1..3` | transfers page by page, with kills |
| `CloudDisk` | `src/Cloud_Disk` | its queue, pool, stop, login, commands and client |
| `Xp` | `src/xp` | its sessions, tree, storage, workers and client |
| `*Proofs` | | TLAPS proofs about the module of that name; `BlockQueueProofs` also about `TaskPool`, `AccountProofs` about `ConfigTable`, `VfsProofs` about `EarlyServer` (section 5) |
| `MC*` | | TLC instances: scenarios, symmetry sets, users of the sessions |

Definitions called *Mutant* in the comments belong to no specification: each is a
plausible bug that, put in place of a definition, breaks one property.

History variables record what has happened to the system and influence no
step. Several properties are promises under a condition, "as long as no tick has fallen
inside an operation"; the condition is a history variable, and what happens after it is
described under *Observations* in section 4.

### BlockQueue

One step per statement that another thread can see: lock, test of the `while`,
wait, the assignments under the lock, signal, unlock. `pc[t]` is the place in
`block_queue_push` (thread 0, the event loop) or `block_queue_pop` (a worker).
A signalled thread leaves the wait set and competes for the mutex again; so does
one that wakes spuriously, at most `MaxSpurious` times. A task is its number in
the order of `distribute_task`, `-1` is the exit task (`state == -1`).
`Execute` stands for a whole `cmd_analyse`, which returns. `block_queue_peek`,
`_is_empty`, `_is_full` and `_destroy` have no caller. The file servers have the
same source for queue and pool.

### RouteServer

`heap[o]` is the `client_t` at address `o`, `table[f]` the pointer the hash map
has for descriptor `f`, `sock[f]` the connection the kernel has behind it. After
`free` the descriptor stored in a `client_t` is either still there or is
overwritten (`Garbage`), and after the next `calloc` it is another client's. The
steps that follow a handler (`epoll_del`, `del_client`, `close`, `epoll_add`) are
taken one at a time (`Rearm`, `Leave`, `Transfer`), in the order `route_task.c`
and `pth_func` make them. Abstractions:

* a message is read whole or not at all; `recvn`'s loop over partial reads is left out;
* an operation of the hash table is atomic. The code takes no lock there, so a
  torn bucket chain is *not* excluded by these checks;
* commands that touch only their own client and the database are one step
  (`DoShort`); their content is in `Vfs`;
* whether a user exists and a password is right is a free choice (`Account` has
  the comparison). The token is sent before the `client_t` gets its user, as in
  `do_login.c`, so a fast transfer thread may copy a session that is still nobody's;
* `dangling` is a history variable: some thread used a freed `client_t`, or its
  address was handed out again while a thread still had the pointer. From there
  on C promises nothing, so the session invariants speak of the time before it. The closes
  of the *event loop* (a client that hangs up: `epoll_del`, `close`, `del_client`) read nothing
  after the `free` and leave `dangling` alone, so descriptors and addresses are given out again, tokens outlive
  their connection and are presented long after the first disconnect. The closes of the
  *workers* (`exit`, a refused login, the end of a transfer command) read the descriptor after the `free`, and set it.

### ClientManager

`index[f]` is what the hash map has for `f`, `slot[k][n]` how many list nodes of the number `n`
the slot has (`set_add_node` does not look for duplicates). The event loop's calls are steps in the
order of v1's `main.c`, for one ready descriptor: `EpollWait`, `GetCurClient` (line 130), then
`recv_cmd` and either `UpdateClient` / `TqUpdateConn`, the hash map's and the wheel's half of
`update_client` (135), and the command itself up to `Finish`, or `Close` and `DelClient` /
`TqPop`; a new client is `AddClient` / `TqPush`. The SIGALRM handler may run between any two of them:
`Tick` is `tq_update_timer` and `clean_client`, `TickGivesUp` its early return when `get_cur_client` does not
know the descriptor. The handler itself is one step, as the loop does not run beside it; an interruption inside a half
(a list with a half-linked node) is left out.

When the handler evicts the client the loop has in hand, the `client_t` is freed (`Freed`). What the loop reads
from it is then the old descriptor or a number that is nobody's (`Wild`; no other client's, as v1's loop
allocates clients itself and makes none meanwhile). `get_cur_client` after the eviction returns NULL, which is
dereferenced; `recvn` on the closed descriptor returns -1, which `recv_cmd` takes for a command;
`update_client` then makes an entry again for a descriptor that is closed; `hashmap_put` and `hashmap_get` return
-1, and `slot[-1].head` is the size field of the wheel's heap chunk, which is followed as a pointer (`Segfault`).
`FreesFirst` is v2's `del_client`: the slot is looked up first there too (line 288), but `hashmap_delete`
(289) frees the `client_t` before `tq_pop` (290) reads the descriptor from it, so the node may stay. The run sets
it; the behaviours of v1 are among those it allows. `idle` and `cut` (a tick fell inside an operation, or `tq_pop` missed its node)
are history variables. The `del_client` of v1's workers is in `EarlyServer`.

### ConfigTable and Account

The server reads its configuration line by line into the probed table
(`ReadConfig`), then serves. `Stops` is where the insertion loop may end; an empty set is
the endless loop in a full table. `strncpy` with the length of the new string leaves
the tail of a longer old value (`Overlay`). `ConfigLines` is what a line may be: `strtok` finds
no empty key or value, and `cfg_hash` is unsigned (`TableAssumption`).

`Account` has a variable `version`. v1 and v3 have byte-identical `do_login.c` and
`do_register.c` but run them in different threads: v1 and v2 in the event loop,
v3 in the pool. v2 has its own login (global `user_exist`, last row of a name instead
of the first, `recvn` checked) and no registration. Each query is a step; a query while `res`
is another thread's fails and takes the error path of the code, which in v1 and v3 is the one
of success with an empty salt. `crypt` is a constructor of what it was made from, so
equality of encryptions is equality of password and salt; given an empty salt it returns
NULL, through which the client reads. `Vanish` kills a client in the dialogue. `OtherQuery`
stands for the transfer commands of the pool that share the connection. `known`, `rows`,
`refused` and `blind` are history.

### Vfs

Every `mysql_query` is a step. A SELECT leaves its result on the connection
until the handler has fetched and freed it (`mysql_use_result`); a query made by
another worker meanwhile fails with "Commands out of sync", and the handler takes the
error path the code has, which for `cd` (`do_cd.c:144`) and `gets` is the one of success.
Rows come in primary-key order. Two threads that are inside libmysqlclient at
the same instant are undefined behaviour; here they are two calls in some order.
A path is the sequence of names below `~`, and names contain no `/`. `Token` gives the
connection of a transfer thread the directory of the main connection at that moment.
`placed` is a history variable: the contents clients were told to upload, and
where to. `pwd` changes nothing and is left out.

### EarlyServer

v1's handlers are those of `Vfs`; its scheduling is another. The loop runs a short
command to its end before the next event (`LoopFree`), gets and puts become tasks that
hold a descriptor (`Distribute`), which `Pop` looks up in `client_manage_map`. `Evict` is the timer
closing any client at any moment; when a client is due is the business of
`ClientManager`. Each transfer has a connection of its own, opened by a thread of the client
that shows the token and then sends its command; a session has one transfer at a time, its task
in the server included (bound in `Type`). A client that leaves in the middle of puts
is read as the empty MD5 (`EmptyMd5`). `cutOff` (connections closed under a task, main
connections closed), `met` (a short command met another's open result) and `dirs` (directories the
session has been in since the line was typed) are history. `stray` is the connection
whose command used a `client_t` that is not its own; behaviours end there, as the code
then reads freed or foreign memory.

### Transfer

A content is a sequence of pages, a file of at least `BigPages` is split. The client asks the route
server (whose answer is a row), connects to one or two of the three file servers, sends its
train, resumes each part from the size of its part file (one page back, `Resume`), receives with two
threads, merges, renames, unlinks. `Killed` stops the client at any step, with the page it
was writing whole, missing or `partial`; the user starts it again and repeats the command or goes on. The
file servers accept into a bounded pool, open, read the offset or size, and send or
receive page by page; the three are one source, so one set of actions with the server as
parameter. A gets for a missing file ends the server, as `ERROR_CHECK` does. A client whose
server has gone dies of SIGPIPE (`BrokenPipe`). `RouteCloses` and `ExitOnClose` are the end of the route
server seen by the client's main thread. `early`, `cut` and `mixed` are history: a gets
was answered before its content was there; an upload was cut short; a download found
part files of another content (part files are named after the file, not its content).

### CloudDisk

A byte stream is a sequence of words, a word being what one `recvn` is meant to read. The event
loop and a worker inside `getsCommand` read the same socket: `MessageMisread` is the event loop
taking an offset for the length of a command, `GetsOffset` takes whatever word is next.
A file of length 0 sends no offset, so its worker goes on waiting for one (`GetsOffset`) and takes it
from the next gets on the socket. `crossed` has the clients one of whose words reached the wrong
reader (`AlsoWaits`: two workers wait on one socket). `Wants` and `MaxCmds` bound each client on its own.
`taskDeque` is modelled to the step between its test and its sleep, `broadcastALL` without the mutex,
`taskEnque` with its signal after the unlock. `SigPipe`: nobody ignores SIGPIPE there. `orphan`
and `missed` are history: clients whose socket was closed under a pending task; workers that
had tested and were not yet asleep when the broadcast came.

### Xp

`slot[d]` is `user_info[d]`. `recvn` closes the descriptor of a peer that has gone and its
callers go on, so each later read is of whatever is behind that number by then. `main` takes only
the return value 0 for the end of a session: after a connection that ended in order the slot is cleared
(`CommandEof`), after a reset `recvn` returns -1 and it stays online (`CommandReset`). A word meant for
another reader is taken all the same: an online slot runs a token or credentials as a command nobody knows
(`Unknown`), and an offline one takes a command for a token (`LoginAnyway`). When no command was read, the buffer
still has the one before, without its argument (`LastCommand`: an `mkdir` makes a directory `(null)`), or nothing `strtok` could return
(`NameMissing`, the end of the server). That the *login's* buffer may still have an old token is left out, and so is the
event loop reading words a transfer speaks to its worker (MD5, sizes, buffers).

A file of `BIG_FILE_SIZE` or more is mapped from the offset on, by the server for reading and by
the client, after `ftruncate`, for writing. At an offset that is not a multiple of the page size `mmap` fails, unchecked
(`Unmapped`): the server sends nothing (`SendLength`), the client receives nothing into a copy of the full size
(`Truncated`, `RecvUnmapped`). Sizes go through `atoi`; those of 2^31 and more are excluded by `SizeAssumption`. An
upload of a big file is mapped from 0 on in pieces of whole pages, and a piece is a buffer here; what has not come yet
(zeroes in the code) and what nobody sent are both `Junk` to a download that reads too early, which is under `twice`. The worker's steps
after a task (`TaskOffline`, `TaskClose`, `TaskStatus`) are separate, in the code's order, and the event
loop may accept in between. `Query` and the result steps of the workers bracket `sql`; a query
of the event loop or of another worker meanwhile ends the server (`QueryCollides`). History:

* `loose` has the descriptors whose next owner is online without a login: `login_handler` fell through to
  `online = true`; or a connection was reset, before the loop (`CommandReset`) or a worker (`Lost`) had read from it; or a worker
  closed a descriptor that had become another client's (`TaskClose`) and left that client's session online under its number;
* `cut` has the contents of the tasks whose connection was lost (`Lost`) or closed under them
  (`Using` in `Closed`), `NULL` or `Junk` for a task that did not know its content yet. From then on a worker
  may read, answer and close on a descriptor that is not its own;
* `twice` has the contents that had a row while an upload of them was writing: the file was truncated
  under a row (`Open`), or the row was inserted beside another upload (`InsertRow`).

## 3. Runs

| Run | Instance | States | What it shows |
|---|---|---|---|
| `queue` | 3 threads, ring of 2, 4 tasks, 1 spurious wakeup | 167 095 | queue and pool are safe, live, and implement `TaskPool` |
| `route_sessions` | 2 client processes (one transfers, one may type exit), 2 workers, 2 descriptors, 3 addresses | 1.86 M | `ExclusiveSession`, `TableInv`, `SessionIdentity` |
| `route_live` | 2 processes, 1 worker, 1 short command each | 62 555 | `RouteLive` |
| `wheel` | 3 slots, 2 descriptors, at most 2 nodes of one in a slot and 1 with a wild number | 601 179 | `TableInv`, `WheelInv`, `EvictedOnlyIdle`, `NobodyLingers` |
| `account` | 8 scenarios: 3 clients, 2 workers, 2 salts, a table of 3 slots, all three versions | 188 986 | `NamesUnique`, `LoginInv`, `ConfigFound`, `AllEnds` |
| `vfs_commands` | 1 session, 1 worker, 4 rows, depth 3, 2 names, 2 places | 2.16 M | `SessionInv`, `NoOrphanDirs`, `ContentKept` |
| `vfs_shared` | 2 users, 2 workers, 2 rows | 1.28 M | `ContentPlaced`, `ResultFreed` with failing queries |
| `early` | 6 scripts, 2 sessions, 4 descriptors, 1 pool thread, a queue of 1, 1 eviction | 88 398 | `EarlyInv`, `ForItsSender`, `DirInv`, `CommandEnds` |
| `transfer` | 4 scenarios, 2 clients, 3 servers of 2 threads, files of 4 pages (split) and of 1 | 235 124 | `TransferInv`, `ContentInv`, `ComesToRest` |
| `transfer_exit` | as `transfer` | violation | `ExitAfterTransfer` does not hold (section 4) |
| `cloud` | 2 clients of one user (1 and 2 commands), 2 workers, 2 descriptors, files of 0, 2 and 3 buffers | 508 543 | `PoolInv`, `DownloadCorrect`, `AnswerToAsker`, `StopEnds`, `GetsEnds` |
| `xp` | 11 scenarios, 2 users (in one of them 3), 2 workers, 3 descriptors, contents of 2 and (big) 3 buffers | 714 057 | `SessionInv`, `FilesInv`, `DownloadWhole`, `TaskEnds` |

### What the properties say

Many properties are conjunctions of named parts, each with its own comment in the module.

* `queue`: `TypeOK`, `QueueInv` (mutex, sleepers, ring) and the two wakeup invariants
  `WorkConserving` and `ProducerWoken` are proved in general (section 5). `PoolInv`: each
  task is in one place at a time (`EachTaskOnce`), there is one exit task per worker left
  (`PillPerWorker`), nothing is left when the process exits (`DrainedAtExit`). `PoolLive`: every task runs and an exit
  that was asked for completes. `ImplementsTaskPool` is the refinement.
* `route_sessions`: at most one thread works on a session (`ExclusiveSession`); table entries lead
  to live clients of open sockets and an event has its client (`TableInv`); no connection of a running process acts for
  the user of another one, also when descriptors and addresses have been closed by the loop and used again
  (`SessionIdentity`). `route_live`: every login is answered and every dead connection is
  closed.
* `wheel`: whatever a tick cuts into, and whomever it evicts under the loop's hands, the map has exactly the open
  clients and each is where the wheel will find it, or the server goes down (`TableInv`): no entry is left for a closed
  descriptor. Until a tick cuts into an operation, map and wheel agree
  and nobody stays over time (`WheelInv`) or is closed early, also beside a command that takes long (`EvictedOnlyIdle`);
  once operations are no longer disturbed, leftovers are used up and the silent are closed (`NobodyLingers`).
* `account`: two rows of one name come only from a race or a failed check, in v1 only from the
  latter (`NamesUnique`). A live client that is logged in has the name and password of that
  row, although failed queries go on with empty strings and a broken registration leaves an empty
  password; and one that has them is refused only for a second row of the name or for v2's
  `user_exist` and failed query (`LoginInv`). Every key of a configuration is found past collisions
  and the table's end (`ConfigFound`). No dialogue and no reading goes on for ever (`AllEnds`).
* `vfs_commands`: path, code and pre_code of a session agree after any sequence of cd (`SessionInv`);
  rmdir leaves no directory without its parent (`NoOrphanDirs`); rows that quick uploads copy are
  never lost (`ContentKept`). `vfs_shared`: a file row names servers some client was told to upload
  the content to (`ContentPlaced`); no path returns with its result open (`ResultFreed`).
* `early`: the client table is exact while pool, loop and timer close connections (`EarlyInv`). A task
  runs, and a token counts, for the connection that sent it, except when the connection was
  closed under its task or the main connection had been closed (`ForItsSender`). A transfer
  works in a directory its user has been in since typing the line, and path and code agree for
  clients whose commands met no foreign result (`DirInv`). Each command that arrives ends, also
  when the queue is full and its thread waits for a slow client (`CommandEnds`).
* `transfer`: a finished download has the content, however often killed and resumed, and no
  resume asks for a negative offset (`TransferInv`). When no upload is under way, rows have
  their content on the servers they name, also after two uploads at once, and the servers are up
  (`ContentInv`), both unless an upload was cut short or a gets came before its content. All
  transfers end and all server threads get free (`ComesToRest`).
* `cloud`: no task lies in the queue with all workers asleep and no signal coming (`PoolInv`, although
  the signal is sent after the unlock); `recv successful` is said only of an equal copy
  unless a socket was closed on a pending task or a word reached the wrong reader
  (`DownloadCorrect`); answers reach the asker unless a descriptor was given away under a
  pending task (`AnswerToAsker`); stop ends unless the broadcast came between a test and its sleep
  or a gets waits for an offset (`StopEnds`); a gets ends unless somebody else took its
  offset or every worker waits for one (`GetsEnds`).
* `xp`: an online session is the user's behind the socket and its path is one of his, whatever
  the order of close, accept and reset, except sessions let in by falling through or left behind (`loose`: by a connection that was
  reset, too), and a descriptor in the pool is one worker's alone until a connection is lost (`SessionInv`); rows have
  their content and trees have one owner (`FilesInv`); a download is one stored content from
  beginning to end, resumed or not, or nothing of a directory's row, until a transfer is cut off or a content uploaded again,
  or a big file is to be resumed inside a page (`DownloadWhole`); workers finish their tasks (`TaskEnds`).

### Why the bounds are enough to be interesting

* `queue`: more threads than slots and more tasks than slots, so the ring fills, wraps
  and empties, the event loop sleeps, several workers sleep and wake for one task,
  and the exit tasks (one more than the ring holds) block the event loop too.
* `route_*`: one descriptor fewer than connections, so `accept` fails and descriptors are
  used again; one address more than descriptors, so `calloc` may or may not return a
  freed one while a worker still holds it.
* `wheel`: the wheel turns past zero and slots are used again. `MaxNodes = 2` lets a
  descriptor have a leftover node beside its own, in a slot and across slots;
  operations that would add a third one in a slot, or a second wild number to it, wait. A loop held by one
  command for longer than the wheel's turn evicts every other client and its own.
* `account`: two registrations of one name, logins with right and wrong passwords beside a
  registration, an unknown user before known ones; configurations that collide at the last slot and wrap,
  repeat a key, and have one line more than the table has slots.
* `vfs_commands`: two levels below a directory, duplicates of a name (`mkdir` makes them),
  upload, removal and quick upload, all in one history. `vfs_shared`: every query
  of every handler meets a foreign result on the connection.
* `early`: the queue has one slot and the pool one thread, so the loop waits for both; four descriptors,
  two of them the main ones, so that a closed one is given away at once; one eviction hits
  any connection in any state.
* `transfer`: part files of 0, 1 and 2 pages and one of a page half written; kills at every step
  of merge, rename and unlink; two contents downloaded one after the other under one name;
  uploads of one content by two clients; a download during the upload. The third repetition
  follows a kill and a second line.
* `cloud`: one small and one large file (two paths of `getsCommand`), two clients of one user in turn, so
  that a download is killed and taken up again and a descriptor is given away under a task; the second
  one may send a gets behind the gets of an empty file, so that two workers wait on one socket.
* `xp`: local copies that are empty, a true prefix and something else; of a content of three buffers, which is big, a
  copy that ends inside a page (1 buffer) and one that ends with a page (2); uploads of one content
  at once, one of them losing its connection; three descriptors for four connections. Three users: a worker
  whose client ended closes the descriptor of the next one, whose session a third one then has.

Deadlock is checked in `queue`, `vfs_commands` and `vfs_shared`. It is off where the system may
really stop: all clients have gone, all scripts have been typed, or the process has ended (a NULL
dereference, SIGPIPE, `exit`).

### Fairness

* `BlockQueue!FairSpec`: weak fairness of the event loop thread and of each
  worker: the kernel schedules runnable threads, and the default mutex
  is free again and again since no critical section loops. `Distribute` and
  `ExitRequested`, the outside world, are not fair.
* `RouteServer!FairSpec`: the same for event loop and workers; and a client that owes the
  server a message of the dialogue sends it, or its process ends. Nobody
  promises to connect, to type or to leave. `route_live` has one worker on
  purpose: a login that waits for its password holds it, and the others must
  still be answered.
* `ClientManager!FairSpec`: the interval timer keeps firing; the loop need not go on, a login may hold it for
  ever. `NobodyLingers` is about behaviours in which disturbances eventually cease (no tick inside an
  operation, no node missed by `tq_pop`); each one may leave a node behind.
* `Account!FairSpec`: each server thread that can go on does, and a client reads its answer. Typing and
  vanishing are not fair; a client that has the salt answers at once, as the code does.
* `EarlyServer!EarlyFairSpec`: the event loop, the pool and the client processes go on if they can. One
  loop serves all sockets; scripts are finite, so it comes to each.
* `Transfer!FairSpec` and `Xp!FairSpec`: only *some* thread that can go on does. That is weaker than
  scheduling each one, and enough as the work of a scenario is finite. Nobody need be
  killed or type.
* `CloudDisk!FairSpec`: event loop and workers are scheduled and a client reads what it waits for.

## 4. Findings

One disagreement between the code and its comments has a run:

* `transfer_exit`: when the route server closes, the comment at
  `Net_Disk_v3/client/src/main.c:91` says the client is to finish its gets and puts and then exit, and
  `task.c:126` tells the user so; the main thread calls `exit(1)` at `main.c:97`, which ends the
  transfer threads in the middle of their files.

### Observations

Seen while modelling. They are in the models, and the properties say what still holds beside them:

* `do_token.c:70` dereferences the result of `get_cur_client` unchecked; a valid token whose main
  connection has gone ends the server. `RouteServer` ends its behaviours there.
* `route_task.c:50` reads `cur_client->fd` after `del_client` freed it, so the connection of a
  finished transfer may stay open, watched by nobody (`dangling`).
* v1's `add_client` reads `cur_index` twice (`client_manager.c:277`); a tick in between puts the client
  in another slot than the map says (`cut`). `TableInv` and `NobodyLingers` show that the damage is bounded.
* v1, v2: the timer may close and free the client between `get_cur_client` (v1's `main.c:130`) and `update_client` (135) or `del_client`,
  most easily while a login holds the loop for longer than `TIME_OUT` seconds. `update_client` then makes an entry again for the closed
  descriptor, and both calls take -1 for the index of its slot and read `slot[-1]`, which ends the server. `TableInv` shows that
  the entry does not live beyond the call.
* v2's `del_client` (`client_manager.c:288`) frees the `client_t` before `tq_pop` reads the descriptor from it: the node may stay in the wheel.
* A transfer connection whose process has ended while its token was under way may get the session of whoever has the token's
  descriptor by then (`do_token.c:68`); nobody is left to use it. `SessionIdentity` speaks of running processes.
* The emptiness test of `do_rmdir.c:97` counts rows `rm` only marked as removed, so a directory
  that once held a file can never be removed.
* A failing query counts as success in `do_cd.c:144`, `do_login.c:153` and `sql_do_gets`: path and
  directory part (`met`), a login goes on with an empty salt, which ends the client.
* `mkdir` does not look for an existing name (the `TODO` at `do_mkdir.c:12`); `vfs_commands` has the duplicates.
* A session that works in a directory, or a puts whose token was taken there, may insert a row after
  another session of the user removed the directory.
* Two registrations of one name both succeed in v3 when their checks precede both inserts; a client
  that vanishes leaves a row with an empty password.
* v2's `user_exist` (`do_login.c:128`) is never set again: after one unknown name all logins are refused.
* v1: a task whose connection the timer closed runs on the `client_t` of whoever has the descriptor
  then, or on none (`stray`).
* A gets for a content that is still being uploaded ends the file server, and with it all transfers (`early`); part
  files of another content under the same name are merged into the download (`mixed`).
* `Cloud_Disk`: the offset of a gets may be read by the event loop as the length of a command. The gets of
  an empty file leaves its worker waiting for an offset the client never sends; the next gets of that
  client may lose its own offset to it, and its copy is then not the file (`crossed`). `broadcastALL`
  (`task_queue.c:104`) clears the flag without the mutex, so stop may hang.
* `xp`: after a connection was reset `recvn` returns -1 and `server.c:107` tests for 0 only: the session stays online and is that of whoever connects
  next and gets the descriptor (`CommandReset`). The loop then runs the former command once more.
* `xp`: a download of a big file that is resumed at an offset that is no multiple of the page size sends and receives nothing
  (`mmap` fails at `xp/server/src/Bussiness.c:102` and `xp/client/src/Bussiness.c:152`), and the copy has the full size without the content.
* `xp`: `login_handler` falls through to `online = true` in error cases; an upload that loses its connection
  still gets its row; a download over a longer file of something else leaves its tail.
* `xp`: a worker whose connection was lost closes its descriptor once more at the end of its task
  (`ThreadPool.c:37`), when it may belong to a client that has logged in since. The session stays online, and
  whoever connects next and gets that descriptor has it. It takes three clients; with two,
  `SessionIdentity` held without the third way into `loose`, and the attempt to prove it showed why.
* `xp`: when two clients upload one content at once and the first one's row is there while the second still writes,
  a gets may read the file in between. With three clients, two workers and five descriptors TLC finds it for
  `DownloadWhole` in a model whose `twice` counts only truncation under a row.

## 5. Proofs

Each module of proofs extends the module it is about; TLAPS checks every theorem for every value of the
constants that satisfies the module's `ASSUME` (which TLC evaluates in its runs). An invariant a run checks is
seldom inductive; the module of proofs defines the strengthening, which was model-checked before it was proved,
and shows that it holds initially, is kept by each action, and implies the property.

| Module | Theorem | Property | For every |
|---|---|---|---|
| `BlockQueueProofs` | `QueueCorrect`, `TypeCorrect` | `QueueInv`, `TypeOK` | number of threads, tasks and spurious wakeups, capacity |
| | `NoLostWakeup`, `ProducerAlwaysWoken` | `WorkConserving`, `ProducerWoken` | |
| | `RefinesTaskPool` | `ImplementsTaskPool` | |
| | `PoolCorrect` | `PoolInv` | |
| | `BooksKept` | (of `TaskPool`; a lemma of `PoolCorrect`) | |
| `RouteServerProofs` | `OneThreadPerClient`, `TableExact`, `NoMixedUsers` | `ExclusiveSession`, `TableInv`, `SessionIdentity` (with `TokensOwn`) | set of processes, finite set of workers, number of descriptors and commands, set of addresses |
| `ClientManagerProofs` | `TableCorrect`, `WheelCorrect`, `EvictsOnlyIdle` | `TableInv`, `WheelInv`, `EvictedOnlyIdle` | `TIME_OUT`, set of descriptors, order of v1 or v2, bound on leftover nodes |
| `VfsProofs` | `TypeCorrect` | (types) | number of sessions, workers, rows, names |
| | `ResultsFreed`, `ContentsPlaced`, `ContentsKept` | `ResultFreed`, `ContentPlaced`, `ContentKept` | the same |
| | `NoDirOrphaned` | `NoOrphanDirs` | the same, each session with a user of its own |
| | `SessionsCorrect` | `SessionInv` | the same, as long as no `cd` meets another command's open result |
| | `PathKept` | `PathOf`, a part of `SessionInv`, for each session | the same, for the session's own `cd`s only |
| | `TableExact`, `TasksForSender` | `EarlyInv`, `ForItsSender` of `EarlyServer` | set of sessions, descriptors, threads, scripts, queue size, number of evictions |
| | `DirsMeant` | `DirInv` of `EarlyServer` | the same, each session with a user of its own |
| `AccountProofs` | `NamesStayUnique`, `LoginCorrect` | `NamesUnique`, `LoginInv` | set of clients and threads, table, list of attempts, version |
| | `ConfigAlwaysFound` | `ConfigFound` | table size, hash, file |
| `TransferProofs` | `TransferHolds`, `ContentHolds` | `TransferInv`, `ContentInv` | finite set of clients, number of threads, contents of any number of pages, size from which a file is big, lines typed, kills |
| `CloudDiskProofs` | `PoolCorrect` | `PoolInv` | set of workers but the empty one |
| | `AnswersToAsker`, `DownloadsWhole` | `AnswerToAsker`, `DownloadCorrect` | set of clients, workers, files, number of descriptors, commands, size of each file |
| `XpProofs` | `SessionsHold`, `FilesHold`, `DownloadsWhole` | `SessionInv`, `FilesInv`, `DownloadWhole` | set of clients and workers, number of descriptors, names, contents of any length below 2^31 bytes, local copies, size from which a file is mapped, page size, lines typed |
| | `TreesOwned` | `OwnedTree`, a part of `FilesInv` | the same |

The theorems keep the conditions the properties have (`~dangling`, `~cut`, `orphan = {}`, ...) and add these:

* `OwnUsers` (no two sessions of one user). Two sessions of one user really may remove a directory the other one
  is making something in (section 4), so `NoOrphanDirs` is false without it, and
  the path of a session may name a directory that is gone. `vfs_commands` has one session, `early` two users.
* `CdMeets` in `SessionsCorrect` and `PathKept`: no `cd` makes its lookup while another command's result is open. Such a query
  fails, and `do_cd.c:144` goes on with a path that does not fit the code, so the condition is the defect itself and nothing
  more; it is asked of the session's own `cd`s, whatever the other nine workers do meanwhile, and with one worker it always holds.
* `Workers # {}` in `CloudDiskProofs!PoolCorrect`: the number of threads is a command-line argument there, and a pool of
  none never takes a task.
* `SizeAssumption` in `Xp`: contents are shorter than 2^31 bytes, as sizes go through `atoi`.
* `Transfer` and `Xp` assume of their constants what the models' values stand for: contents are sequences, `NULL`,
  `Hole`, `Partial`, `Junk` and the md5 `"0"` of a directory are nobody's name, content or page; and of each scenario
  that what is typed and the local copies are sequences. `Transfer` wants at least one thread in
  a file server's pool and a big file to have at least one page.

### The arguments

*Queue.* `TypeOK` alone is not inductive: `size` stays within `0..QUEUE_SIZE` only because
a thread that has passed the test is the only one in the critical section.
`QueueInv` therefore adds `MutexInv` (past the lock exactly when holding the mutex), `SleepInv`
(the wait sets are the sleeping threads), `PushInv` (what the event loop is about to push, and
its loop counter) and `RingInv` (`rear` is `size` slots after `front`, and those slots are filled).
`WrapOnce`, `AdvanceValue`, `SlotOfQueued` and `RearSlot` turn `%` into a case
distinction, as the provers need. `WorkConserving` is stronger than "no task beside only sleeping workers":
while somebody sleeps, the queued tasks are at most the workers on their way, plus one if
the push's signal is still to come. In that form it is inductive together with `QueueInv`
and `ProducerWoken` (`WakeInv`): a pop takes one task and one seeker, a push adds a task and its
signal a seeker, a worker goes to sleep only when `size = 0`.

*Refinement.* The abstract queue is the ring read from `front` (`QueuedAt`), an abstract job the task a worker has taken out. Each
action of `BlockQueue` is shown to be the `TaskPool` action it stands for, or a stutter. What a pool promises is proved of the
abstract module (`PoolBooks`) and carried over through the refinement; only `JoinInv`, about `pthread_join`, is proved of
the detailed one, and together they give `PoolInv`.

*Route server.* `IInv` holds the types always, and `Sound` as long as `~dangling`. `Sound` says of
every address who has it: the event loop, one entry of the queue, or one worker with something left to do (`AloneInv`), that
its socket is then not watched (`HoldInv`), and what each of the lists of calls after a handler leaves (`TodoInv`).
`OrphanInv` counts: a descriptor without an entry has a worker of its own that will close it. `IdentityInv` adds what a token
and the pointer a token leads to are worth while the process that asked is alive: the token's descriptor is still that of the
process's own main connection (`TokensOwn`), since only the process's end or its own exit closes that. Without the condition it is
false, as the descriptor goes to the next client.

*Wheel.* `MapInv` says that the map has the open descriptors and, while an operation is on its way out (`Leaving`) or an
`update_client` has found no entry, perhaps the one in hand as well: such an operation removes it or ends the server, whence
`MappedIffOpen`. `NodeInv` excepts the one `add_client` is about to push. `Dist(k)` is the way the wheel has turned since it stood at `k`; `AgeInv` says that the age of an open client is the
distance of its slot, so it is evicted when the wheel comes round and not earlier. For the operation in hand, `ExactInv` says where its
nodes are between the halves. After an interruption only `TableIInv` is left, which needs no relation of age and slot.

*VFS.* `BaseInv` has the types, codes handed out upwards, and `ResultInv`: the one command that is about to read is the one whose
result is on the connection, which is `ResultFreed`. `TreeInv` is about directories with equal names, which
`mkdir` makes: a lookup finds the one with the lowest code (`Lead`), everything is below such ones, and so
the row that `rmdir` finds empty is the one it deletes. `PathInv` ties each name of the path to the code of a
row (`Way`); codes grow along it, so removing an empty directory never takes away one on somebody's way.

*v1's server.* A step of it is a step of one command of `Vfs` or leaves table, directories and commands alone (`TablePart`), so the
invariants of `Vfs` hold here with no new proof, and `PathInv` as long as `met` is false: `PathStep` needs of
the other sessions' commands only what `OthersStep` says, and of the session's own that no `cd` looks up beside another's result.
`LoopInv` is about the rest. `MapInv` makes table and descriptors inverse to each other; `ChildInv` says how far a transfer
is (nothing sent, the token, the command, a task), `TaskInv` that a connection has one task and that the task's
descriptor is still its own unless the connection is in `cutOff`, `MainInv` that a main connection outside `cutOff` has
the descriptor its tokens name. Hence `ForItsSender`: the lookup of `Pop` or of `do_token` can only miss after such a
close. The five ways to close a connection (refused token, exit, end of file, timer, end of a task) share one lemma,
`ClosedStep`. `DirsInv` follows the directory from the token to the end of the task.

*Accounts.* `Knows(w)` is what a thread has learnt of the table and up to which row; `DialogInv(c)` says where
a dialogue is: with the client, on the wire, with exactly one thread, or answered, and what is true of the salt and password then.
`Reason(c)` and `Proven(c)` are the two ways a login may end.

*Configuration.* `Reached(t, key)`: from the key's own slot on there is no free slot before the one that has it.
Insertion keeps this because a slot that is taken stays taken, and `Stops` never reaches the first slot again over a free one
(`WholeTurn`). The least distance where a key or a free slot is met is therefore the key's.

*`Cloud_Disk`.* `AskInv`: the descriptor of a task is its client's or the client is in `orphan`. `ClientInv` follows one download:
there is one request in one place at most (`AskedInv`), one length, one offset and one worker that waits for it
(`LengthInv`, `OffInv`), and the buffers on the wire are those after what the client has, in order, up to where its worker is (`SendInv`). With `DiskInv`
(a copy on disk is a first part of the file) that is `DownloadCorrect`. An earlier form of the property, without
`crossed`, could not be proved: a longer instance showed the gets behind that of an empty file (section 4).

*Transfers.* `IInv` has four parts, each under the condition its properties have. `Plain` holds always: stages,
connections that belong to the line being done, and queues. `Uploaded`, of contents whose upload was not cut short: at each
connection the pages sent, those under way and those the thread has to come are the content in order (`Upload`), so a
server that takes the last page has the file, also when another upload of it writes the same pages; a row names what
is there or on its way (`RowInv`). `Downloading`: the thread has the file, its next page is
the one the client waits for, and it does not end before the client has its part (`Download`); a client that asked for too much
finds it closed. `PartsWhole` is about the disk: a part file is right up to its first hole, and at most its last page is
partial (`PartFile`), because pages are written in order and a killed client resumes one page before the hole; so what `merge`
finds are both parts in full, and it may be killed and begun again at any page. `TransferInv` follows
from `StageInv` at the end of a line, `ContentInv` from `RowInv` when nothing is on its way.

*`xp`: sessions.* `Shapes` has the types and says that each connection is behind one descriptor or in the backlog, and that
words come in the pairs they were sent in. `Known`, `PathsLead`, `Kept` and `Trees` are inductive with it: a path that
leads somewhere leads there for ever since no row is ever deleted and ids grow (`Grown`, `Way`); a
descriptor handed to the pool is in one task and out of the event loop until a connection is lost
(`Handed`); the directory a worker has looked up is of the owner its row will have.

*`xp`: contents.* What makes an upload right is what the client has yet to say: `Rest(p)` words, and each word tells by its
kind how many come after it (`Worded`), so whoever reads a buffer knows which one it is. An
upload needs at least as many words as its connection has left (`Need`, `Reader`); if it has them all they are of its own
content, if there are fewer it never comes to its end (`Short`). A stored file is the content or has a writer that has covered
it so far (`Whole`, `Covers`), as writers of one content write the same buffers.

*`xp`: downloads.* `Spelling` gives the words of a gets by their rank: token, command, size of the copy, MD5. While nothing
is cut or uploaded again (`Calm`), rows have their contents and no writers (`Rows`); each task in the queue and each worker is
at the point of the dialogue its client is at (`Tasking`, `Works`); and what is under way to a
client is the rest of one content from the offset both sides hold (`Follows`): first the answers it waits for, then
buffers in order. Each step of `send_file` adds one word to it and each step of `recv_file` takes one away, so a client that
has received its length has the content. At an offset inside a page of a big file both sides stop after the length (`Stops`), and the
client ends without the content (`Stuck`).

Induction over numbers is made through the well-foundedness of `Nat` (`LeastNat`, `WFMin`) rather than the library's
induction rule.

### Only model-checked

Liveness (`PoolLive`, `RouteLive`, `NobodyLingers`, `AllEnds`, `CommandEnds`, `ComesToRest`, `StopEnds`, `GetsEnds`, `TaskEnds`) and
`ENABLED` are outside the prover's reach. Every invariant and every action property a passing run checks, and the refinement, is
proved; `ExitAfterTransfer` is checked because it does not hold.

## 6. Not modelled

Left out for good:

* logging, progress bars and the client's display, MD5, `crypt` and JWT encodings (pure data);
* v2's command handlers: unfinished (`do_ls`, `do_rm`, `do_token`, `do_register` are empty, `gets` reads a
  column it did not select), so there is no behaviour to hold them to. v2's login and wheel are modelled;
* `Cloud_Disk`'s `do_cd` and `do_puts` (stubs) and `transfer.c` (called by nobody);
* `xp`'s exit by pills, the protocol of `BlockQueue`;
* connecting to and disconnecting from the database, one call each.

Hazards outside the models' grain, which these checks say nothing about:

* torn bucket chains of the client table (two threads in one bucket, pointer by pointer);
* two threads inside libmysqlclient at one instant;
* v1 starts its timer before map and wheel exist (`Net_Disk_v1/server/route_server/src/main.c:67`);
* several events of one `epoll_wait`, of which an earlier one closes the descriptor of a later one;
* `atoi` of the size of a file of 2^31 bytes or more (`xp/server/src/Bussiness.c:69`): what it returns then is undefined;
* `int` part sizes of an `off_t` file (`Net_Disk_v3/client/src/do_puts.c:108`): files of `Transfer` are below 4 GiB;
* `pth_args` on the stack of `command_analyse` (`Net_Disk_v3/client/src/task.c:76`).
