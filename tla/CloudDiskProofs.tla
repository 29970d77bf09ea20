--------------------------- MODULE CloudDiskProofs ---------------------------
(***************************************************************************)
(* Proofs about CloudDisk, for every number of clients, workers,           *)
(* descriptors and files.                                                  *)
(***************************************************************************)
EXTENDS CloudDisk, SequenceTheorems, TLAPS

-----------------------------------------------------------------------------
(* Types *)

LoopStates   == {"wait", "login", "enque", "signal", "captured", "drain", "broadcast",
                 "join", "exited", "killed"}
WorkerStates == {"lock", "tested", "asleep", "run", "offset", "send", "gone"}
ClientStates == {"off", "login", "verify", "ready", "length", "data", "dead"}
CmdNames     == {"pwd", "mkdir", "rmdir", "gets", "none"}

TaskType   == [fd : Fds, cmd : CmdNames, file : Names \cup {NULL}, by : Clients]
LoopType   == [at : LoopStates, fd : Fds \cup {0}, len : Nat, task : TaskType \cup {NULL}]
WorkerType == [at : WorkerStates, task : TaskType \cup {NULL}, pos : Nat]
ClientType == [at : ClientStates, file : Names \cup {NULL}, len : Nat, got : Names \cup {NULL}, cmds : Nat]
UpWord     == [k : {"cred"}, v : Verdicts] \cup [k : {"len"}, v : {0}] \cup [k : {"off"}, v : Nat]
                \cup [k : {"body"}, v : CmdNames, file : Names \cup {NULL}]
Sent       == [k : {"res", "reply", "length", "buff", "whole"}, v : Nat]
DownWord   == [k : {"res", "reply", "length", "buff", "whole"}, v : Nat, by : Clients]

LoopTypes   == /\ loop \in LoopType
               /\ loop.at = "enque" => loop.task \in TaskType
               /\ loop.at = "login" => /\ loop.fd \in Fds /\ loop.fd \notin watched
                                       /\ sock[loop.fd] \in Clients
               /\ loop.at = "captured" => loop.fd \in watched
\* getsCommand goes on only with a file that was opened.
IsGets(t)   == t.cmd = "gets" /\ t.file \in Files
QueueTypes  == /\ que \in Seq(TaskType)
               /\ flag \in {0, 1}
               /\ wk \in [Workers -> WorkerType]
               /\ \A w \in Workers : Holding(w) => wk[w].task \in TaskType
               /\ \A w \in Workers : wk[w].at \in {"offset", "send"} => IsGets(wk[w].task)
\* taskDeque holds the mutex from its test to its sleep.
MutexInv    == /\ mutex \in Workers \cup {NULL}
               /\ mutex # NULL => wk[mutex].at = "tested"
               /\ \A w \in Workers : wk[w].at = "tested" => mutex = w /\ que = <<>>
NetTypes    == /\ sock \in [Fds -> Clients \cup {NULL}]
               /\ watched \subseteq {d \in Fds : sock[d] # NULL}
               /\ backlog \in Seq(Clients)
\* The length of a command is followed by its body.
UpTypes     == /\ up \in [Clients -> Seq(UpWord)]
               /\ \A c \in Clients : \A i \in DOMAIN up[c] :
                     up[c][i].k = "len" => i + 1 \in DOMAIN up[c] /\ up[c][i + 1].k = "body"
DownTypes   == down \in [Clients -> Seq(DownWord)]
ClientTypes == /\ cl \in [Clients -> ClientType]
               /\ \A c \in Clients : cl[c].at \in {"length", "data"} => cl[c].file \in Names
DiskTypes   == disk \in [Users -> [Names -> Seq(Nat)]]
HistTypes   == orphan \subseteq Clients /\ crossed \subseteq Clients
Types == LoopTypes /\ QueueTypes /\ MutexInv /\ NetTypes /\ UpTypes /\ DownTypes /\ ClientTypes /\ DiskTypes /\ HistTypes

LEMMA NullIs == NULL \notin Clients /\ NULL \notin Workers /\ NULL \notin Names /\ 0 \notin Fds /\ Fds \subseteq Nat
BY CloudAssumption DEF Names, Fds

LEMMA InitTypes == Init => Types
<1> SUFFICES ASSUME Init PROVE Types
  OBVIOUS
<1>1. At("wait") \in LoopType /\ At("wait").at = "wait"
  BY DEF At, LoopType, LoopStates
<1>2. Worker("lock", NULL, 0) \in WorkerType /\ Worker("lock", NULL, 0).at = "lock"
  BY DEF Worker, WorkerType, WorkerStates
<1>3. Client("off", NULL, 0) \in ClientType /\ Client("off", NULL, 0).at = "off"
  BY DEF Client, ClientType, ClientStates
<1>4. <<>> \in Seq(UpWord) /\ <<>> \in Seq(DownWord) /\ <<>> \in Seq(Nat) /\ <<>> \in Seq(TaskType) /\ <<>> \in Seq(Clients)
  OBVIOUS
<1>5. LoopTypes /\ QueueTypes /\ MutexInv
  BY <1>1, <1>2, <1>4 DEF Init, LoopTypes, QueueTypes, MutexInv, Holding
<1>6. NetTypes /\ UpTypes /\ DownTypes
  BY <1>4 DEF Init, NetTypes, UpTypes, DownTypes
<1>7. ClientTypes /\ DiskTypes /\ HistTypes
  BY <1>3, <1>4 DEF Init, ClientTypes, DiskTypes, HistTypes
<1> QED
  BY <1>5, <1>6, <1>7 DEF Types

\* What sendn does to the words on their way to a client.
SentOn(d, fd, ws, by) ==
    /\ d = sock[fd] /\ Len(down'[d]) = Len(down[d]) + Len(ws)
    /\ \A i \in 1..Len(down[d]) : down'[d][i] = down[d][i]
    /\ \A i \in 1..Len(ws) : /\ down'[d][Len(down[d]) + i].by = by
                             /\ down'[d][Len(down[d]) + i].k = ws[i].k
                             /\ down'[d][Len(down[d]) + i].v = ws[i].v

LEMMA SendTyped ==
    ASSUME DownTypes, NEW fd, NEW by \in Clients,
           NEW ws \in Seq(Sent), Send(fd, ws, by)
    PROVE  /\ DownTypes'
           /\ \A c \in Clients : down'[c] = down[c] \/ SentOn(c, fd, ws, by)
<1> DEFINE new == [i \in 1..Len(ws) |-> [k |-> ws[i].k, v |-> ws[i].v, by |-> by]]
<1>1. new \in Seq(DownWord) /\ Len(new) = Len(ws) /\ \A i \in 1..Len(ws) : new[i].by = by /\ new[i].k = ws[i].k /\ new[i].v = ws[i].v
  <2>1. \A i \in 1..Len(ws) : ws[i] \in Sent
    OBVIOUS
  <2>2. \A i \in 1..Len(ws) : [k |-> ws[i].k, v |-> ws[i].v, by |-> by] \in DownWord
    BY <2>1 DEF Sent, DownWord
  <2>3. Len(ws) \in Nat
    OBVIOUS
  <2> QED
    BY <2>2, <2>3
<1>2. \A c \in Clients : down'[c] = IF c = sock[fd] /\ ~Dead(c) THEN down[c] \o new ELSE down[c]
  BY DEF Send
<1>3. DOMAIN down' = Clients
  BY DEF Send
<1>4. \A c \in Clients : down[c] \in Seq(DownWord)
  BY DEF DownTypes
<1> HIDE DEF new
<1>5. ASSUME NEW c \in Clients
      PROVE  /\ down[c] \o new \in Seq(DownWord) /\ Len(down[c] \o new) = Len(down[c]) + Len(ws)
             /\ \A i \in 1..Len(down[c]) : (down[c] \o new)[i] = down[c][i]
             /\ \A i \in 1..Len(ws) : (down[c] \o new)[Len(down[c]) + i] = new[i]
  <2>1. down[c] \in Seq(DownWord) /\ new \in Seq(DownWord)
    BY <1>1, <1>4
  <2>2. /\ down[c] \o new \in Seq(DownWord)
        /\ Len(down[c] \o new) = Len(down[c]) + Len(new)
        /\ \A i \in 1 .. Len(down[c]) + Len(new) :
              (down[c] \o new)[i] = IF i <= Len(down[c]) THEN down[c][i] ELSE new[i - Len(down[c])]
    BY ONLY <2>1, ConcatProperties
  <2>3. Len(down[c]) \in Nat /\ Len(new) \in Nat
    BY ONLY <2>1, LenProperties
  <2>4. \A i \in 1..Len(down[c]) : (down[c] \o new)[i] = down[c][i]
    BY <2>2, <2>3
  <2>5. \A i \in 1..Len(new) : (down[c] \o new)[Len(down[c]) + i] = new[i]
    BY <2>2, <2>3
  <2> QED
    BY <1>1, <2>2, <2>4, <2>5
<1>6. DownTypes'
  <2>1. \A c \in Clients : down'[c] \in Seq(DownWord)
    BY <1>2, <1>4, <1>5
  <2>2. down' = [c \in Clients |-> down'[c]]
    BY <1>3 DEF Send
  <2> QED
    BY <2>1, <2>2 DEF DownTypes
<1>7. ASSUME NEW c \in Clients, c = sock[fd], down'[c] = down[c] \o new PROVE SentOn(c, fd, ws, by)
  <2>1. /\ Len(down'[c]) = Len(down[c]) + Len(ws)
        /\ \A i \in 1..Len(down[c]) : down'[c][i] = down[c][i]
        /\ \A i \in 1..Len(ws) : down'[c][Len(down[c]) + i] = new[i]
    BY <1>5, <1>7
  <2> QED
    BY <1>1, <1>7, <2>1 DEF SentOn
<1>8. \A c \in Clients : down'[c] = down[c] \/ (c = sock[fd] /\ down'[c] = down[c] \o new)
  BY <1>2
<1> QED
  BY <1>6, <1>7, <1>8

\* The words a handler sends.
LEMMA WordsTyped ==
    ASSUME NEW k \in {"res", "reply", "length", "buff", "whole"}, NEW v \in Nat
    PROVE  <<Word(k, v)>> \in Seq(Sent) /\ <<Word(k, v), Word(k, v)>> \in Seq(Sent)
<1>1. Word(k, v) \in Sent
  BY DEF Word, Sent
<1> QED
  BY <1>1

\* Taking the first word, or the two words of a command, off a stream.
LEMMA UpTail ==
    ASSUME UpTypes, NEW c \in Clients, up[c] # <<>>, up' = [up EXCEPT ![c] = Tail(@)] PROVE UpTypes'
<1>1. up[c] \in Seq(UpWord)
  BY DEF UpTypes
<1>2. /\ Tail(up[c]) \in Seq(UpWord)
      /\ \A i \in DOMAIN Tail(up[c]) : i \in Nat /\ i + 1 \in DOMAIN up[c] /\ Tail(up[c])[i] = up[c][i + 1]
      /\ \A i \in DOMAIN Tail(up[c]) : (i + 1) + 1 \in DOMAIN up[c] => i + 1 \in DOMAIN Tail(up[c])
  BY <1>1
<1>3. \A i \in DOMAIN Tail(up[c]) :
         Tail(up[c])[i].k = "len" => i + 1 \in DOMAIN Tail(up[c]) /\ Tail(up[c])[i + 1].k = "body"
  BY <1>2 DEF UpTypes
<1> QED
  BY <1>2, <1>3 DEF UpTypes

LEMMA UpHead ==
    ASSUME UpTypes, NEW c \in Clients, up[c] # <<>>
    PROVE  /\ Head1(c) \in UpWord
           /\ Head1(c).k = "cred" => Head1(c).v \in Verdicts
           /\ Head1(c).k = "off" => Head1(c).v \in Nat
           /\ Head1(c).k = "len" => /\ up[c][2].k = "body" /\ up[c][2].v \in CmdNames
                                    /\ up[c][2].file \in Names \cup {NULL} /\ Tail(up[c]) # <<>>
<1>1. up[c] \in Seq(UpWord) /\ 1 \in DOMAIN up[c]
  BY DEF UpTypes
<1>2. Head1(c) \in UpWord
  BY <1>1 DEF Head1
<1>3. ASSUME Head1(c).k = "len"
      PROVE  2 \in DOMAIN up[c] /\ up[c][2].k = "body" /\ up[c][2] \in UpWord /\ Tail(up[c]) # <<>>
  <2>1. 1 + 1 \in DOMAIN up[c] /\ up[c][1 + 1].k = "body"
    BY <1>1, <1>3 DEF UpTypes, Head1
  <2>2. 2 \in DOMAIN up[c] /\ up[c][2].k = "body"
    BY <2>1
  <2>3. up[c][2] \in UpWord
    BY <1>1, <2>2
  <2>4. Len(up[c]) # 1
    BY <1>1, <2>2
  <2>5. Tail(up[c]) # <<>>
    <3>1. Len(Tail(up[c])) = Len(up[c]) - 1
      BY <1>1
    <3>2. Len(Tail(up[c])) # 0
      BY <1>1, <2>4, <3>1
    <3> QED
      BY <3>2, Len(<<>>) = 0, Zenon
  <2> QED
    BY <2>2, <2>3, <2>5
<1>4. \A x \in UpWord : x.k = "body" => x.v \in CmdNames /\ x.file \in Names \cup {NULL}
  BY DEF UpWord
<1>5. \A x \in UpWord : (x.k = "cred" => x.v \in Verdicts) /\ (x.k = "off" => x.v \in Nat)
  BY DEF UpWord
<1> QED
  BY <1>2, <1>3, <1>4, <1>5

LEMMA UpAppend ==
    ASSUME UpTypes, NEW c \in Clients, NEW w \in UpWord, w.k # "len", up' = [up EXCEPT ![c] = Append(@, w)]
    PROVE  UpTypes'
<1>1. up[c] \in Seq(UpWord)
  BY DEF UpTypes
<1> DEFINE s == up[c]
           new == Append(s, w)
<1>2. s \in Seq(UpWord) /\ Len(s) \in Nat /\ DOMAIN s = 1..Len(s)
  BY <1>1
<1> HIDE DEF s
<1>3. /\ new \in Seq(UpWord) /\ Len(new) = Len(s) + 1
      /\ \A i \in 1..Len(s) : new[i] = s[i]
      /\ new[Len(s) + 1] = w
  BY ONLY <1>2, w \in UpWord, AppendProperties
<1>4. DOMAIN new = 1..(Len(s) + 1)
  BY <1>2, <1>3
<1> HIDE DEF new
<1>5. ASSUME NEW i \in DOMAIN new, new[i].k = "len"
      PROVE  i + 1 \in DOMAIN new /\ new[i + 1].k = "body"
  <2>1. i # Len(s) + 1
    BY <1>3, <1>5
  <2>2. i \in DOMAIN s /\ s[i].k = "len"
    BY <1>2, <1>3, <1>4, <1>5, <2>1
  <2>3. i + 1 \in DOMAIN s /\ s[i + 1].k = "body"
    BY <2>2 DEF UpTypes, s
  <2> QED
    BY <1>2, <1>3, <1>4, <2>3
<1>6. /\ up' \in [Clients -> Seq(UpWord)] /\ up'[c] = new
      /\ \A d \in Clients : d # c => up'[d] = up[d]
  BY <1>3 DEF UpTypes, new, s
<1> QED
  BY <1>5, <1>6 DEF UpTypes

LEMMA UpCommand ==
    ASSUME UpTypes, NEW c \in Clients, NEW cmd \in CmdNames, NEW f \in Names \cup {NULL},
           up' = [up EXCEPT ![c] = @ \o <<Word("len", 0), [k |-> "body", v |-> cmd, file |-> f]>>]
    PROVE  UpTypes'
<1> DEFINE a == Word("len", 0)
           b == [k |-> "body", v |-> cmd, file |-> f]
           new == <<a, b>>
<1>1. up[c] \in Seq(UpWord) /\ a \in UpWord /\ b \in UpWord /\ b.k = "body"
  BY DEF UpTypes, UpWord, Word
<1>2. new \in Seq(UpWord) /\ Len(new) = 2 /\ new[1] = a /\ new[2] = b
  BY <1>1
<1> HIDE DEF new, a, b
<1>3. /\ up[c] \o new \in Seq(UpWord)
      /\ Len(up[c] \o new) = Len(up[c]) + Len(new)
      /\ \A i \in 1 .. Len(up[c]) + Len(new) :
            (up[c] \o new)[i] = IF i <= Len(up[c]) THEN up[c][i] ELSE new[i - Len(up[c])]
  BY ONLY <1>1, <1>2, ConcatProperties
<1>4. Len(up[c]) \in Nat /\ DOMAIN up[c] = 1..Len(up[c]) /\ DOMAIN (up[c] \o new) = 1..Len(up[c] \o new)
  BY <1>1, <1>3
<1>5. ASSUME NEW i \in DOMAIN (up[c] \o new), (up[c] \o new)[i].k = "len"
      PROVE  i + 1 \in DOMAIN (up[c] \o new) /\ (up[c] \o new)[i + 1].k = "body"
  <2>1. CASE i <= Len(up[c])
    <3>1. i \in DOMAIN up[c] /\ up[c][i].k = "len"
      BY <1>2, <1>3, <1>4, <1>5, <2>1
    <3>2. i + 1 \in DOMAIN up[c] /\ up[c][i + 1].k = "body"
      BY <3>1 DEF UpTypes
    <3> QED
      BY <1>2, <1>3, <1>4, <3>2
  <2>2. CASE i = Len(up[c]) + 1
    <3>1. i + 1 \in 1..(Len(up[c]) + 2) /\ (i + 1) - Len(up[c]) = 2 /\ ~(i + 1 <= Len(up[c]))
      BY <1>4, <2>2
    <3> QED
      BY <1>1, <1>2, <1>3, <1>4, <3>1
  <2>3. CASE i = Len(up[c]) + 2
    <3>1. i - Len(up[c]) = 2 /\ ~(i <= Len(up[c])) /\ i \in 1..(Len(up[c]) + 2)
      BY <1>4, <2>3
    <3>2. (up[c] \o new)[i] = b
      BY <1>2, <1>3, <3>1
    <3> QED
      BY <1>1, <1>5, <3>2
  <2> QED
    BY <1>2, <1>3, <1>4, <2>1, <2>2, <2>3
<1>6. /\ up' \in [Clients -> Seq(UpWord)] /\ up'[c] = up[c] \o new
      /\ \A d \in Clients : d # c => up'[d] = up[d]
  BY <1>3 DEF UpTypes, new, a, b
<1> QED
  BY <1>5, <1>6, SMTT(30) DEF UpTypes

\* What is left to show of a step of a client.
LEMMA ClientFrame ==
    ASSUME Types, UNCHANGED <<loop, queueVars, sock, watched, orphan, crossed>>,
           NetTypes', UpTypes', DownTypes', ClientTypes', DiskTypes'
    PROVE  Types'
<1>1. LoopTypes'
  BY DEF Types, LoopTypes
<1>2. QueueTypes' /\ MutexInv'
  BY DEF Types, QueueTypes, MutexInv, queueVars, Holding
<1>3. HistTypes'
  BY DEF Types, HistTypes
<1> QED
  BY <1>1, <1>2, <1>3 DEF Types

\* A stream after its first word.
LEMMA DownTail ==
    ASSUME DownTypes, NEW c \in Clients, down[c] # <<>>, down' = [down EXCEPT ![c] = Tail(@)]
    PROVE  /\ DownTypes' /\ down[c][1] \in DownWord
           /\ \A d \in Clients : \A i \in DOMAIN down'[d] : \E j \in DOMAIN down[d] : down'[d][i] = down[d][j]
<1>1. down[c] \in Seq(DownWord)
  BY DEF DownTypes
<1>2. Tail(down[c]) \in Seq(DownWord) /\ down[c][1] \in DownWord
  BY <1>1
<1>3. \A i \in DOMAIN Tail(down[c]) : i + 1 \in DOMAIN down[c] /\ Tail(down[c])[i] = down[c][i + 1]
  BY <1>1
<1>4. down'[c] = Tail(down[c]) /\ \A d \in Clients : d # c => down'[d] = down[d]
  BY DEF DownTypes
<1>5. DownTypes'
  BY <1>2 DEF DownTypes
<1> QED
  BY <1>2, <1>3, <1>4, <1>5

\* A client that goes from one state to another.
LEMMA ClientMoves ==
    ASSUME ClientTypes, NEW c \in Clients, NEW at \in ClientStates, at \notin {"length", "data"},
           NEW got \in Names \cup {NULL}
    PROVE  /\ cl' = [cl EXCEPT ![c].at = at] => ClientTypes'
           /\ cl' = [cl EXCEPT ![c].at = at, ![c].got = got] => ClientTypes'
<1>1. cl[c] \in ClientType
  BY DEF ClientTypes
<1>2. [cl[c] EXCEPT !.at = at] \in ClientType /\ [cl[c] EXCEPT !.at = at, !.got = got] \in ClientType
  BY <1>1 DEF ClientType
<1>3. [cl[c] EXCEPT !.at = at].at = at /\ [cl[c] EXCEPT !.at = at, !.got = got].at = at
  BY <1>1 DEF ClientType
<1> QED
  BY <1>2, <1>3 DEF ClientTypes

LEMMA ClientTypesNext ==
    ASSUME Types, NEW c \in Clients, Client_(c) PROVE Types'
<1> USE DEF Types
<1>0. cl[c] \in ClientType /\ UserOf[c] \in Users
  BY DEF ClientTypes, Users
<1>1. CASE Connect(c)
  <2>1. "login" \in ClientStates
    BY DEF ClientStates
  <2>2. ClientTypes'
    BY <1>1, <2>1, ClientMoves, Zenon DEF Connect
  <2>3. NetTypes'
    <3>1. Append(backlog, c) \in Seq(Clients)
      BY DEF NetTypes
    <3> QED
      BY <1>1, <3>1 DEF Connect, NetTypes
  <2>4. UpTypes' /\ DownTypes' /\ DiskTypes'
    BY <1>1 DEF Connect, UpTypes, DownTypes, DiskTypes
  <2> QED
    BY <1>1, <2>2, <2>3, <2>4, ClientFrame DEF Connect
<1>2. CASE SendCred(c)
  <2>1. "verify" \in ClientStates
    BY DEF ClientStates
  <2>2. ClientTypes'
    BY <1>2, <2>1, ClientMoves, Zenon DEF SendCred
  <2>3. PICK v \in Verdicts : up' = [up EXCEPT ![c] = Append(@, Word("cred", v))]
    BY <1>2 DEF SendCred
  <2>4. Word("cred", v) \in UpWord /\ Word("cred", v).k # "len"
    BY DEF Word, UpWord
  <2>5. UpTypes'
    BY ONLY <2>3, <2>4, Types, c \in Clients, UpAppend
  <2>6. NetTypes' /\ DownTypes' /\ DiskTypes'
    BY <1>2 DEF SendCred, NetTypes, netVars, DownTypes, DiskTypes
  <2> QED
    BY <1>2, <2>2, <2>5, <2>6, ClientFrame DEF SendCred, netVars
<1>3. CASE RecvVerifyRes(c)
  <2>1. "ready" \in ClientStates /\ "login" \in ClientStates
    BY DEF ClientStates
  <2>2. ClientTypes'
    BY <1>3, <2>1, ClientMoves, Zenon DEF RecvVerifyRes
  <2>3. DownTypes'
    BY <1>3, DownTail, Zenon DEF RecvVerifyRes
  <2>4. NetTypes' /\ UpTypes' /\ DiskTypes'
    BY <1>3 DEF RecvVerifyRes, NetTypes, netVars, UpTypes, DiskTypes
  <2> QED
    BY <1>3, <2>2, <2>3, <2>4, ClientFrame DEF RecvVerifyRes, netVars
<1>4. CASE Shown(c)
  <2>1. DownTypes'
    BY <1>4, DownTail, Zenon DEF Shown
  <2>2. NetTypes' /\ UpTypes' /\ DiskTypes' /\ ClientTypes'
    BY <1>4 DEF Shown, NetTypes, netVars, UpTypes, DiskTypes, ClientTypes, clientVars
  <2> QED
    BY <1>4, <2>1, <2>2, ClientFrame DEF Shown, netVars
<1>5. CASE Quit(c)
  <2>1. DownTypes'
    <3>1. <<>> \in Seq(DownWord)
      OBVIOUS
    <3> QED
      BY <1>5, <3>1 DEF Quit, DownTypes
  <2>2. ClientTypes'
    <3>1. Client("dead", NULL, 0) \in ClientType /\ Client("dead", NULL, 0).at = "dead"
      BY DEF Client, ClientType, ClientStates
    <3> QED
      BY <1>5, <3>1 DEF Quit, ClientTypes
  <2>3. NetTypes' /\ UpTypes' /\ DiskTypes'
    BY <1>5 DEF Quit, NetTypes, netVars, UpTypes, DiskTypes
  <2> QED
    BY <1>5, <2>1, <2>2, <2>3, ClientFrame DEF Quit, netVars
<1>6. ASSUME NEW cmd \in Cmds[c], ShortCommand(c, cmd) PROVE Types'
  <2>1. cmd \in CmdNames
    BY CloudAssumption DEF CmdNames
  <2>2. UpTypes'
    BY <1>6, <2>1, UpCommand DEF ShortCommand, SendCommand
  <2>3. ClientTypes'
    <3>1. Client("ready", NULL, cl[c].cmds + 1) \in ClientType /\ Client("ready", NULL, cl[c].cmds + 1).at = "ready"
      BY <1>0 DEF Client, ClientType, ClientStates
    <3> QED
      BY <1>6, <3>1 DEF ShortCommand, ClientTypes
  <2>4. NetTypes' /\ DownTypes' /\ DiskTypes'
    BY <1>6 DEF ShortCommand, SendCommand, NetTypes, netVars, DownTypes, DiskTypes
  <2> QED
    BY <1>6, <2>2, <2>3, <2>4, ClientFrame DEF ShortCommand, SendCommand, netVars
<1>7. ASSUME NEW f \in Wants[c], Gets(c, f) PROVE Types'
  <2>1. f \in Names /\ "gets" \in CmdNames
    BY CloudAssumption DEF CmdNames, Names
  <2>2. UpTypes'
    BY <1>7, <2>1, UpCommand DEF Gets, SendCommand
  <2>3. ClientTypes'
    <3>1. /\ Client("length", f, cl[c].cmds + 1) \in ClientType
          /\ Client("length", f, cl[c].cmds + 1).file = f
      BY <1>0, <2>1 DEF Client, ClientType, ClientStates
    <3> QED
      BY <1>7, <2>1, <3>1 DEF Gets, ClientTypes
  <2>4. NetTypes' /\ DownTypes' /\ DiskTypes'
    BY <1>7 DEF Gets, SendCommand, NetTypes, netVars, DownTypes, DiskTypes
  <2> QED
    BY <1>7, <2>2, <2>3, <2>4, ClientFrame DEF Gets, SendCommand, netVars
<1>8. CASE GetsLength(c)
  <2> DEFINE n == down[c][1].v
             f == cl[c].file
             u == UserOf[c]
  <2>1. f \in Names /\ disk[u][f] \in Seq(Nat) /\ Len(disk[u][f]) \in Nat
    BY <1>0, <1>8 DEF GetsLength, ClientTypes, DiskTypes
  <2>2. DownTypes' /\ n \in Nat
    <3>1. down[c][1] \in DownWord /\ DownTypes'
      BY <1>8, DownTail, Zenon DEF GetsLength
    <3> QED
      BY <3>1 DEF DownWord
  <2>3. NetTypes'
    BY <1>8 DEF GetsLength, NetTypes, netVars
  <2>4. ClientTypes'
    <3>1. /\ [cl[c] EXCEPT !.at = "ready"] \in ClientType /\ [cl[c] EXCEPT !.at = "ready"].at = "ready"
          /\ [cl[c] EXCEPT !.at = "ready", !.got = f] \in ClientType
          /\ [cl[c] EXCEPT !.at = "ready", !.got = f].at = "ready"
          /\ [cl[c] EXCEPT !.at = "data", !.len = n] \in ClientType
          /\ [cl[c] EXCEPT !.at = "data", !.len = n].file = f
      BY <1>0, <2>1, <2>2 DEF ClientType, ClientStates
    <3>2. \/ cl' = [cl EXCEPT ![c].at = "ready"]
          \/ cl' = [cl EXCEPT ![c] = [@ EXCEPT !.at = "data", !.len = n]]
          \/ cl' = [cl EXCEPT ![c] = [@ EXCEPT !.at = "ready", !.got = f]]
      BY <1>8 DEF GetsLength
    <3>3. \E x \in ClientType : /\ cl' = [cl EXCEPT ![c] = x]
                                /\ x.at \in {"length", "data"} => x.file \in Names
      <4> HIDE DEF n, f
      <4> QED
        BY <2>1, <3>1, <3>2
    <3> QED
      BY <3>3 DEF ClientTypes
  <2>5. UpTypes'
    <3>1. Word("off", Len(disk[u][f])) \in UpWord /\ Word("off", Len(disk[u][f])).k # "len"
      BY <2>1 DEF Word, UpWord
    <3>2. up' = up \/ up' = [up EXCEPT ![c] = Append(@, Word("off", Len(disk[u][f])))]
      BY <1>8 DEF GetsLength
    <3>3. up' = up => UpTypes'
      BY DEF UpTypes
    <3> HIDE DEF f, u
    <3> QED
      BY <3>1, <3>2, <3>3, UpAppend
  <2>6. DiskTypes'
    <3>1. [i \in 1..n |-> 0] \in Seq(Nat)
      BY <2>2
    <3>2. disk' = disk \/ disk' = [disk EXCEPT ![u][f] = [i \in 1..n |-> 0]]
      BY <1>8 DEF GetsLength
    <3>3. disk' = disk => DiskTypes'
      BY DEF DiskTypes
    <3>4. ASSUME disk' = [disk EXCEPT ![u][f] = [i \in 1..n |-> 0]] PROVE DiskTypes'
      <4> HIDE DEF f, u, n
      <4> QED
        BY <3>1, <3>4 DEF DiskTypes
    <3> QED
      BY <3>2, <3>3, <3>4
  <2> QED
    BY <1>8, <2>2, <2>3, <2>4, <2>5, <2>6, ClientFrame DEF GetsLength, netVars
<1>9. CASE GetsData(c)
  <2> DEFINE f == cl[c].file
             u == UserOf[c]
             w == down[c][1]
             new == IF cl[c].len > BigSize THEN [i \in 1..cl[c].len |-> i] ELSE Append(disk[u][f], w.v)
  <2>1. f \in Names /\ disk[u][f] \in Seq(Nat) /\ cl[c].len \in Nat
    BY <1>0, <1>9 DEF GetsData, ClientTypes, DiskTypes, ClientType
  <2>2. DownTypes' /\ w.v \in Nat
    <3>1. down[c][1] \in DownWord /\ DownTypes'
      BY <1>9, DownTail, Zenon DEF GetsData
    <3> QED
      BY <3>1 DEF DownWord
  <2>3. new \in Seq(Nat)
    <3>1. Append(disk[u][f], w.v) \in Seq(Nat)
      BY <2>1, <2>2
    <3>2. [i \in 1..cl[c].len |-> i] \in Seq(Nat)
      BY <2>1
    <3> QED
      BY <3>1, <3>2
  <2>4. ClientTypes'
    <3>1. [cl[c] EXCEPT !.at = "ready", !.got = f] \in ClientType /\ [cl[c] EXCEPT !.at = "ready", !.got = f].at = "ready"
      BY <1>0, <2>1 DEF ClientType, ClientStates
    <3>2. cl' = [cl EXCEPT ![c] = @] \/ cl' = [cl EXCEPT ![c] = [@ EXCEPT !.at = "ready", !.got = f]]
      BY <1>9 DEF GetsData
    <3>3. cl[c].at \in {"length", "data"} => cl[c].file \in Names
      BY <2>1
    <3>4. \E x \in ClientType : /\ cl' = [cl EXCEPT ![c] = x]
                                /\ x.at \in {"length", "data"} => x.file \in Names
      BY <1>0, <3>1, <3>2, <3>3
    <3> QED
      BY <3>4 DEF ClientTypes
  <2>5. DiskTypes'
    <3>1. disk' = [disk EXCEPT ![u][f] = new]
      BY <1>9 DEF GetsData
    <3> HIDE DEF f, u, new
    <3> QED
      BY <2>3, <3>1 DEF DiskTypes
  <2>6. NetTypes' /\ UpTypes'
    BY <1>9 DEF GetsData, NetTypes, netVars, UpTypes
  <2> QED
    BY <1>9, <2>2, <2>4, <2>5, <2>6, ClientFrame DEF GetsData, netVars
<1> QED
  BY <1>1, <1>2, <1>3, <1>4, <1>5, <1>6, <1>7, <1>8, <1>9 DEF Client_, Reads

\* What is left to show of a step of the main thread that leaves the task queue alone.
LEMMA LoopFrame ==
    ASSUME Types, UNCHANGED <<queueVars, clientVars>>,
           LoopTypes', NetTypes', UpTypes', DownTypes', HistTypes'
    PROVE  Types'
<1>1. QueueTypes' /\ MutexInv'
  BY DEF Types, QueueTypes, MutexInv, queueVars, Holding
<1>2. ClientTypes' /\ DiskTypes'
  BY DEF Types, ClientTypes, DiskTypes, clientVars
<1> QED
  BY <1>1, <1>2 DEF Types

\* The states the main thread goes to.
LEMMA LoopAt ==
    /\ \A at \in LoopStates : At(at) \in LoopType /\ At(at).at = at
    /\ \A d \in Fds : LET x == [At("login") EXCEPT !.fd = d] IN
          x \in LoopType /\ x.at = "login" /\ x.fd = d
    /\ \A d \in Fds, n \in Nat : LET x == [At("captured") EXCEPT !.fd = d, !.len = n] IN
          x \in LoopType /\ x.at = "captured" /\ x.fd = d
    /\ \A t \in TaskType : LET x == [At("enque") EXCEPT !.task = t] IN
          x \in LoopType /\ x.at = "enque" /\ x.task = t
BY DEF At, LoopType, LoopStates

LEMMA TaskTyped ==
    ASSUME NEW fd \in Fds, NEW cmd \in CmdNames, NEW f \in Names \cup {NULL}, NEW c \in Clients
    PROVE  Task(fd, cmd, f, c) \in TaskType
BY DEF Task, TaskType

LEMMA LoopTypesNext ==
    ASSUME Types, Loop \/ StopRequested PROVE Types'
<1> USE DEF Types
<1>0. loop \in LoopType /\ sock \in [Fds -> Clients \cup {NULL}] /\ watched \subseteq {d \in Fds : sock[d] # NULL}
  BY DEF LoopTypes, NetTypes
<1>1. CASE Accept
  <2>1. PICK d \in Fds : /\ sock[d] = NULL /\ sock' = [sock EXCEPT ![d] = backlog[1]]
                         /\ loop' = [At("login") EXCEPT !.fd = d]
    BY <1>1 DEF Accept
  <2>2. backlog[1] \in Clients /\ Tail(backlog) \in Seq(Clients)
    BY <1>1 DEF Accept, NetTypes
  <2>3. NetTypes'
    BY <1>0, <1>1, <2>1, <2>2, NullIs DEF Accept, NetTypes
  <2>4. LoopTypes'
    <3>1. loop' \in LoopType /\ loop'.at = "login" /\ loop'.fd = d
      BY <2>1, LoopAt
    <3>2. d \notin watched' /\ sock'[d] \in Clients
      BY <1>0, <1>1, <2>1, <2>2 DEF Accept
    <3> QED
      BY <3>1, <3>2 DEF LoopTypes
  <2>5. UpTypes' /\ DownTypes' /\ HistTypes'
    BY <1>1 DEF Accept, UpTypes, DownTypes, HistTypes
  <2> QED
    BY <1>1, <2>3, <2>4, <2>5, LoopFrame DEF Accept
<1>2. CASE LoginVerify
  <2> DEFINE c == sock[loop.fd]
  <2>1. loop.fd \in Fds /\ c \in Clients
    BY <1>2 DEF LoginVerify, LoopTypes
  <2>2. up[c] # <<>> /\ Head1(c).k = "cred" /\ up' = [up EXCEPT ![c] = Tail(@)]
    BY <1>2 DEF LoginVerify
  <2>3. Head1(c).v \in Nat /\ UpTypes'
    <3>1. Head1(c).v \in Verdicts
      BY <2>1, <2>2, UpHead, Zenon
    <3>2. UpTypes'
      BY <2>1, <2>2, UpTail, Zenon
    <3> QED
      BY <3>1, <3>2 DEF Verdicts
  <2>4. DownTypes'
    <3>1. Send(loop.fd, <<Word("res", Head1(c).v)>>, c)
      BY <1>2 DEF LoginVerify
    <3> HIDE DEF c
    <3>2. <<Word("res", Head1(c).v)>> \in Seq(Sent)
      BY <2>3, WordsTyped
    <3> QED
      BY <2>1, <3>1, <3>2, SendTyped
  <2>5. NetTypes' /\ LoopTypes'
    <3>1. CASE watched' = watched \cup {loop.fd} /\ loop' = At("wait")
      <4>1. NetTypes'
        BY <1>0, <1>2, <2>1, <3>1, NullIs DEF LoginVerify, NetTypes
      <4>2. loop' \in LoopType /\ loop'.at = "wait"
        BY <3>1, LoopAt DEF LoopStates
      <4> QED
        BY <4>1, <4>2 DEF LoopTypes
    <3>2. CASE UNCHANGED <<watched, loop>>
      BY <1>2, <3>2 DEF LoginVerify, NetTypes, LoopTypes
    <3> QED
      BY <1>2, <3>1, <3>2 DEF LoginVerify
  <2>6. HistTypes'
    BY <1>2 DEF LoginVerify, HistTypes
  <2> QED
    BY <1>2, <2>3, <2>4, <2>5, <2>6, LoopFrame DEF LoginVerify
<1>3. CASE LoginBroken
  <2>1. loop.fd \in Fds /\ loop.fd \notin watched
    BY <1>3 DEF LoginBroken, LoopTypes
  <2>2. NetTypes'
    BY <1>0, <1>3, <2>1 DEF LoginBroken, NetTypes
  <2>3. LoopTypes'
    <3>1. loop' \in LoopType /\ loop'.at = "wait"
      BY <1>3, LoopAt DEF LoginBroken, LoopStates
    <3> QED
      BY <3>1 DEF LoopTypes
  <2>4. UpTypes' /\ DownTypes' /\ HistTypes'
    BY <1>3 DEF LoginBroken, UpTypes, DownTypes, HistTypes
  <2> QED
    BY <1>3, <2>2, <2>3, <2>4, LoopFrame DEF LoginBroken
<1>4. ASSUME NEW d \in Fds, HandleMessage(d) PROVE Types'
  <2> DEFINE c == sock[d]
             t == Task(d, up[c][2].v, up[c][2].file, c)
  <2>1. c \in Clients /\ up[c] # <<>> /\ Head1(c).k = "len" /\ up' = [up EXCEPT ![c] = Tail(Tail(@))]
        /\ loop' = [At("enque") EXCEPT !.task = t]
    BY <1>0, <1>4 DEF HandleMessage
  <2>2. up[c][2].v \in CmdNames /\ up[c][2].file \in Names \cup {NULL} /\ Tail(up[c]) # <<>> /\ up[c][2].k = "body"
    BY <2>1, UpHead, Zenon
  <2>3. t \in TaskType
    BY <2>1, <2>2, TaskTyped
  <2>4. UpTypes'
    <3> HIDE DEF c, t
    <3>1. up[c] \in Seq(UpWord)
      BY <2>1 DEF UpTypes
    <3> DEFINE s == Tail(Tail(up[c]))
    <3>2. Tail(up[c]) \in Seq(UpWord) /\ Len(Tail(up[c])) = Len(up[c]) - 1
      BY <2>1, <3>1
    <3>3. s \in Seq(UpWord) /\ Len(s) = Len(up[c]) - 2
      BY <2>2, <3>2
    <3>4. \A i \in DOMAIN s : s[i] = up[c][i + 2] /\ i \in Nat /\ i + 2 \in DOMAIN up[c]
      <4> DEFINE s1 == Tail(up[c])
      <4>1. \A j \in DOMAIN s1 : s1[j] = up[c][j + 1] /\ j \in Nat /\ j + 1 \in DOMAIN up[c]
        BY <2>1, <3>1
      <4>2. s1 \in Seq(UpWord) /\ s1 # <<>>
        BY <2>2, <3>2
      <4> HIDE DEF s1
      <4>3. \A i \in DOMAIN Tail(s1) : Tail(s1)[i] = s1[i + 1] /\ i \in Nat /\ i + 1 \in DOMAIN s1
        BY <4>2
      <4>4. s = Tail(s1)
        BY DEF s1
      <4>5. \A i \in Nat : (i + 1) + 1 = i + 2
        OBVIOUS
      <4> HIDE DEF s
      <4> QED
        BY <4>1, <4>3, <4>4, <4>5
    <3>5. \A i \in DOMAIN s : (i + 2) + 1 \in DOMAIN up[c] => i + 1 \in DOMAIN s
      BY <3>1, <3>3, <3>4
    <3>6. ASSUME NEW i \in DOMAIN s, s[i].k = "len" PROVE i + 1 \in DOMAIN s /\ s[i + 1].k = "body"
      <4>1. up[c][i + 2].k = "len"
        BY <3>4, <3>6
      <4>2. (i + 2) + 1 \in DOMAIN up[c] /\ up[c][(i + 2) + 1].k = "body"
        BY <2>1, <3>4, <4>1 DEF UpTypes
      <4>3. i + 1 \in DOMAIN s /\ (i + 2) + 1 = (i + 1) + 2
        BY <3>4, <3>5, <3>6, <4>2
      <4> QED
        BY <3>4, <4>2, <4>3
    <3>7. up' \in [Clients -> Seq(UpWord)] /\ up'[c] = s /\ \A e \in Clients : e # c => up'[e] = up[e]
      BY <2>1, <3>3 DEF UpTypes
    <3> HIDE DEF s
    <3>8. ASSUME NEW e \in Clients, NEW i \in DOMAIN up'[e], up'[e][i].k = "len"
          PROVE  i + 1 \in DOMAIN up'[e] /\ up'[e][i + 1].k = "body"
      <4>1. CASE e = c
        BY <3>6, <3>7, <3>8, <4>1
      <4>2. CASE e # c
        <5>1. up'[e] = up[e]
          BY <3>7, <4>2
        <5> QED
          BY <2>1, <3>8, <5>1 DEF UpTypes
      <4> QED
        BY <4>1, <4>2
    <3> QED
      BY <3>7, <3>8 DEF UpTypes
  <2>5. LoopTypes'
    <3>1. loop' \in LoopType /\ loop'.at = "enque" /\ loop'.task = t
      <4> HIDE DEF t
      <4> QED
        BY <2>1, <2>3, LoopAt
    <3> QED
      BY <2>3, <3>1 DEF LoopTypes
  <2>6. NetTypes' /\ DownTypes' /\ HistTypes'
    BY <1>4 DEF HandleMessage, NetTypes, netVars, DownTypes, HistTypes
  <2> QED
    BY <1>4, <2>4, <2>5, <2>6, LoopFrame DEF HandleMessage
<1>5. ASSUME NEW d \in Fds, MessageMisread(d) PROVE Types'
  <2> DEFINE c == sock[d]
             n == IF Head1(c).k = "off" THEN Head1(c).v ELSE 1
  <2>1. c \in Clients /\ up[c] # <<>> /\ up' = [up EXCEPT ![c] = Tail(@)] /\ d \in watched
        /\ loop' = [At("captured") EXCEPT !.fd = d, !.len = n]
        /\ crossed' = crossed \cup {c}
    BY <1>0, <1>5 DEF MessageMisread
  <2>2. UpTypes'
    BY <2>1, UpTail, Zenon
  <2>3. n \in Nat
    <3>1. Head1(c).k = "off" => Head1(c).v \in Nat
      BY <2>1, UpHead, Zenon
    <3> QED
      BY <3>1
  <2>4. LoopTypes'
    <3> HIDE DEF n, c
    <3>1. loop' \in LoopType /\ loop'.at = "captured" /\ loop'.fd = d
      <4> DEFINE x == [At("captured") EXCEPT !.fd = d, !.len = n]
      <4>1. x \in LoopType /\ x.at = "captured" /\ x.fd = d
        BY <2>3 DEF At, LoopType, LoopStates
      <4> QED
        BY <2>1, <4>1
    <3> QED
      BY <1>5, <2>1, <3>1 DEF LoopTypes, MessageMisread, netVars
  <2>5. NetTypes' /\ DownTypes'
    BY <1>5 DEF MessageMisread, NetTypes, netVars, DownTypes
  <2>6. HistTypes'
    BY <1>5, <2>1 DEF MessageMisread, HistTypes
  <2> QED
    BY <1>5, <2>2, <2>4, <2>5, <2>6, LoopFrame DEF MessageMisread
<1>6. ASSUME NEW d \in Fds, MessageEof(d) PROVE Types'
  <2>1. NetTypes'
    BY <1>0, <1>6, NullIs DEF MessageEof, Close, NetTypes
  <2>2. LoopTypes'
    <3>1. loop' = loop /\ loop.at = "wait"
      BY <1>6 DEF MessageEof
    <3> QED
      BY <1>0, <3>1 DEF LoopTypes
  <2>3. UpTypes' /\ DownTypes' /\ HistTypes'
    BY <1>6 DEF MessageEof, Close, UpTypes, DownTypes, HistTypes
  <2> QED
    BY <1>6, <2>1, <2>2, <2>3, LoopFrame DEF MessageEof
<1>7. CASE MisreadOn
  <2> DEFINE c == sock[loop.fd]
             t == Task(loop.fd, "none", NULL, c)
  <2>1. loop.fd \in watched /\ loop.fd \in Fds /\ c \in Clients
    BY <1>0, <1>7 DEF MisreadOn, LoopTypes
  <2>2. up[c] # <<>> /\ up' = [up EXCEPT ![c] = Tail(@)]
    BY <1>7 DEF MisreadOn
  <2>3. UpTypes'
    BY <2>1, <2>2, UpTail, Zenon
  <2>4. t \in TaskType
    BY <2>1, TaskTyped DEF CmdNames
  <2>5. LoopTypes'
    <3>1. CASE loop' = [loop EXCEPT !.len = 1]
      <4>1. loop' \in LoopType /\ loop'.at = "captured" /\ loop'.fd = loop.fd
        BY <1>0, <1>7, <3>1 DEF MisreadOn, LoopType
      <4> QED
        BY <1>7, <2>1, <4>1 DEF LoopTypes, MisreadOn, netVars
    <3>2. CASE loop' = [At("enque") EXCEPT !.task = t]
      <4>1. loop' \in LoopType /\ loop'.at = "enque" /\ loop'.task = t
        <5> HIDE DEF t
        <5> QED
          BY <2>4, <3>2, LoopAt
      <4> QED
        BY <2>4, <4>1 DEF LoopTypes
    <3> QED
      BY <1>7, <3>1, <3>2 DEF MisreadOn
  <2>6. NetTypes' /\ DownTypes' /\ HistTypes'
    BY <1>7 DEF MisreadOn, NetTypes, netVars, DownTypes, HistTypes
  <2> QED
    BY <1>7, <2>3, <2>5, <2>6, LoopFrame DEF MisreadOn
<1>8. CASE MisreadEof
  <2> DEFINE t == Task(loop.fd, "none", NULL, sock[loop.fd])
  <2>1. loop.fd \in watched /\ loop.fd \in Fds /\ sock[loop.fd] \in Clients
    BY <1>0, <1>8 DEF MisreadEof, LoopTypes
  <2>2. t \in TaskType
    BY <2>1, TaskTyped DEF CmdNames
  <2>3. LoopTypes'
    <3>1. CASE loop' = [At("enque") EXCEPT !.task = t]
      <4>1. loop' \in LoopType /\ loop'.at = "enque" /\ loop'.task = t
        <5> HIDE DEF t
        <5> QED
          BY <2>2, <3>1, LoopAt
      <4> QED
        BY <2>2, <4>1 DEF LoopTypes
    <3>2. CASE loop' = At("wait")
      <4>1. loop' \in LoopType /\ loop'.at = "wait"
        BY <3>2, LoopAt DEF LoopStates
      <4> QED
        BY <4>1 DEF LoopTypes
    <3> QED
      BY <1>8, <3>1, <3>2 DEF MisreadEof
  <2>4. NetTypes'
    BY <1>0, <1>8, <2>1, NullIs DEF MisreadEof, Close, NetTypes
  <2>5. UpTypes' /\ DownTypes' /\ HistTypes'
    BY <1>8 DEF MisreadEof, Close, UpTypes, DownTypes, HistTypes
  <2> QED
    BY <1>8, <2>3, <2>4, <2>5, LoopFrame DEF MisreadEof
<1>9. ASSUME NEW at \in LoopStates, loop' = At(at), at \notin {"enque", "login", "captured"},
             UNCHANGED <<netVars, up, down, clientVars, orphan, crossed>>,
             QueueTypes', MutexInv'
      PROVE  Types'
  <2>1. LoopTypes'
    <3>1. loop' \in LoopType /\ loop'.at = at
      BY <1>9, LoopAt
    <3> QED
      BY <1>9, <3>1 DEF LoopTypes
  <2> QED
    BY <1>9, <2>1 DEF netVars, clientVars, NetTypes, UpTypes, DownTypes, ClientTypes, DiskTypes, HistTypes
<1>10. CASE taskEnque
  <2>1. loop.task \in TaskType
    BY <1>10 DEF taskEnque, LoopTypes
  <2>2. que' \in Seq(TaskType)
    BY <1>10, <2>1 DEF taskEnque, QueueTypes
  <2>3. QueueTypes' /\ MutexInv'
    <3>1. \A w \in Workers : wk[w].at # "tested"
      BY <1>10, NullIs DEF taskEnque, MutexInv
    <3> QED
      BY <1>10, <2>2, <3>1 DEF taskEnque, QueueTypes, MutexInv, Holding
  <2>4. "signal" \in LoopStates
    BY DEF LoopStates
  <2> QED
    BY <1>9, <1>10, <2>3, <2>4, Zenon DEF taskEnque
<1>11. ASSUME NEW W \in SUBSET Asleep, Wake(W), UNCHANGED <<que, mutex>>, flag' \in {0, 1}
       PROVE  QueueTypes' /\ MutexInv'
  <2>1. \A w \in Workers : wk'[w] = IF w \in W THEN Worker("lock", NULL, 0) ELSE wk[w]
    BY <1>11 DEF Wake
  <2>2. Worker("lock", NULL, 0) \in WorkerType /\ Worker("lock", NULL, 0).at = "lock"
    BY DEF Worker, WorkerType, WorkerStates
  <2>3. wk' \in [Workers -> WorkerType]
    BY <1>11, <2>2 DEF Wake, QueueTypes
  <2>4. \A w \in W : wk[w].at = "asleep"
    BY <1>11 DEF Asleep
  <2>5. MutexInv'
    BY <1>11, <2>1, <2>2, <2>4, NullIs DEF MutexInv
  <2> QED
    BY <1>11, <2>1, <2>2, <2>3, <2>5 DEF QueueTypes, Holding
<1>12. CASE EnqueSignal
  <2>1. QueueTypes' /\ MutexInv'
    <3>1. CASE UNCHANGED wk
      BY <1>12, <3>1 DEF EnqueSignal, QueueTypes, MutexInv, Holding
    <3>2. CASE \E w \in Asleep : Wake({w})
      <4>1. \E W \in SUBSET Asleep : Wake(W)
        BY <3>2
      <4> QED
        BY <1>11, <1>12, <4>1 DEF EnqueSignal, QueueTypes
    <3> QED
      BY <1>12, <3>1, <3>2 DEF EnqueSignal
  <2>2. "wait" \in LoopStates
    BY DEF LoopStates
  <2> QED
    BY <1>9, <1>12, <2>1, <2>2, Zenon DEF EnqueSignal
<1>13. CASE ClearFlag
  <2>1. QueueTypes' /\ MutexInv'
    BY <1>13 DEF ClearFlag, QueueTypes, MutexInv, Holding
  <2>2. "broadcast" \in LoopStates
    BY DEF LoopStates
  <2> QED
    BY <1>9, <1>13, <2>1, <2>2, Zenon DEF ClearFlag
<1>14. CASE Broadcast
  <2>1. QueueTypes' /\ MutexInv'
    <3>1. Asleep \in SUBSET Asleep
      OBVIOUS
    <3> QED
      BY <1>11, <1>14, <3>1 DEF Broadcast, QueueTypes
  <2>2. "join" \in LoopStates
    BY DEF LoopStates
  <2> QED
    BY <1>9, <1>14, <2>1, <2>2, Zenon DEF Broadcast
<1>15. CASE Joined
  <2>1. QueueTypes' /\ MutexInv'
    BY <1>15 DEF Joined, QueueTypes, MutexInv, Holding, queueVars
  <2>2. "exited" \in LoopStates
    BY DEF LoopStates
  <2> QED
    BY <1>9, <1>15, <2>1, <2>2, Zenon DEF Joined
<1>16. CASE StopRequested
  <2>1. QueueTypes' /\ MutexInv'
    BY <1>16 DEF StopRequested, QueueTypes, MutexInv, Holding, queueVars
  <2>2. "drain" \in LoopStates
    BY DEF LoopStates
  <2> QED
    BY <1>9, <1>16, <2>1, <2>2, Zenon DEF StopRequested
<1> QED
  BY <1>1, <1>2, <1>3, <1>4, <1>5, <1>6, <1>7, <1>8, <1>10, <1>12, <1>13, <1>14, <1>15, <1>16 DEF Loop

\* What is left to show of a step of a worker that executes a task.
LEMMA TaskFrame ==
    ASSUME Types, UNCHANGED taskFrame, NEW w \in Workers, NEW x \in WorkerType,
           wk[w].at # "tested", x.at # "tested",
           x.at \in {"run", "offset", "send"} => x.task \in TaskType,
           x.at \in {"offset", "send"} => IsGets(x.task),
           wk' = [wk EXCEPT ![w] = x], UpTypes', DownTypes', HistTypes'
    PROVE  Types'
<1> USE DEF Types, taskFrame
<1>1. LoopTypes' /\ NetTypes'
  BY DEF LoopTypes, NetTypes, netVars
<1>2. ClientTypes' /\ DiskTypes'
  BY DEF ClientTypes, DiskTypes, clientVars
<1>3. wk' \in [Workers -> WorkerType] /\ wk'[w] = x /\ \A v \in Workers : v # w => wk'[v] = wk[v]
  BY DEF QueueTypes
<1>4. QueueTypes'
  BY <1>3 DEF QueueTypes, Holding
<1>5. MutexInv'
  <2>1. mutex # NULL => mutex # w
    BY DEF MutexInv
  <2>2. \A v \in Workers : wk'[v].at = "tested" => wk[v].at = "tested"
    BY <1>3
  <2>3. mutex' # NULL => wk'[mutex'].at = "tested"
    BY <1>3, <2>1 DEF MutexInv
  <2> QED
    BY <2>2, <2>3 DEF MutexInv
<1> QED
  BY <1>1, <1>2, <1>4, <1>5

\* The states a worker goes to.
LEMMA WorkerAt ==
    ASSUME Types, NEW w \in Workers
    PROVE  /\ wk[w] \in WorkerType
           /\ Worker("lock", NULL, 0) \in WorkerType /\ Worker("lock", NULL, 0).at = "lock"
           /\ \A at \in WorkerStates : LET x == [wk[w] EXCEPT !.at = at] IN
                 x \in WorkerType /\ x.at = at /\ x.task = wk[w].task /\ x.pos = wk[w].pos
           /\ \A at \in WorkerStates, p \in Nat : LET x == [wk[w] EXCEPT !.at = at, !.pos = p] IN
                 x \in WorkerType /\ x.at = at /\ x.task = wk[w].task
           /\ \A p \in Nat : LET x == [wk[w] EXCEPT !.pos = p] IN
                 x \in WorkerType /\ x.at = wk[w].at /\ x.task = wk[w].task
           /\ Holding(w) => wk[w].task \in TaskType
           /\ wk' = [wk EXCEPT ![w] = [wk[w] EXCEPT !.at = "offset"]] <=> wk' = [wk EXCEPT ![w].at = "offset"]
<1>1. wk[w] \in WorkerType
  BY DEF Types, QueueTypes
<1> QED
  BY <1>1 DEF Types, QueueTypes, Worker, WorkerType, WorkerStates

LEMMA ThreadTypesNext ==
    ASSUME Types, NEW w \in Workers, Thread(w) \/ SigPipe(w) PROVE Types'
<1> USE DEF Types
<1>0. wk \in [Workers -> WorkerType] /\ wk[w] \in WorkerType
  BY DEF QueueTypes
<1>1. ASSUME UNCHANGED <<loop, netVars, up, down, clientVars, orphan, crossed>>, QueueTypes', MutexInv' PROVE Types'
  BY <1>1 DEF LoopTypes, netVars, clientVars, NetTypes, UpTypes, DownTypes, ClientTypes, DiskTypes, HistTypes
<1>2. CASE DequeTest(w)
  <2>1. wk' = [wk EXCEPT ![w].at = "tested"] /\ mutex = NULL /\ mutex' = w /\ que = <<>> /\ UNCHANGED <<flag, que>>
    BY <1>2 DEF DequeTest, poolFrame
  <2>2. [wk[w] EXCEPT !.at = "tested"] \in WorkerType /\ [wk[w] EXCEPT !.at = "tested"].at = "tested"
    BY <1>0 DEF WorkerType, WorkerStates
  <2>3. wk' \in [Workers -> WorkerType] /\ wk'[w].at = "tested" /\ \A v \in Workers : v # w => wk'[v] = wk[v]
    BY <1>0, <2>1, <2>2
  <2>4. QueueTypes' /\ MutexInv'
    BY <2>1, <2>3, NullIs DEF QueueTypes, MutexInv, Holding
  <2> QED
    BY <1>1, <1>2, <2>4 DEF DequeTest, poolFrame
<1>3. CASE DequeSleep(w)
  <2>1. wk' = [wk EXCEPT ![w].at = "asleep"] /\ mutex' = NULL /\ UNCHANGED <<flag, que>>
    BY <1>3 DEF DequeSleep, poolFrame
  <2>2. [wk[w] EXCEPT !.at = "asleep"] \in WorkerType /\ [wk[w] EXCEPT !.at = "asleep"].at = "asleep"
    BY <1>0 DEF WorkerType, WorkerStates
  <2>3. wk' \in [Workers -> WorkerType] /\ wk'[w].at = "asleep" /\ \A v \in Workers : v # w => wk'[v] = wk[v]
    BY <1>0, <2>1, <2>2
  <2>4. \A v \in Workers : wk[v].at = "tested" => v = w
    BY <1>3 DEF DequeSleep, MutexInv
  <2>5. QueueTypes' /\ MutexInv'
    BY <2>1, <2>3, <2>4, NullIs DEF QueueTypes, MutexInv, Holding
  <2> QED
    BY <1>1, <1>3, <2>5 DEF DequeSleep, poolFrame
<1>4. CASE DequeTake(w)
  <2>1. que # <<>> /\ wk' = [wk EXCEPT ![w] = Worker("run", que[1], 0)] /\ que' = Tail(que) /\ UNCHANGED <<flag, mutex>>
        /\ mutex = NULL
    BY <1>4 DEF DequeTake
  <2>2. que[1] \in TaskType /\ Tail(que) \in Seq(TaskType)
    BY <2>1 DEF QueueTypes
  <2>3. Worker("run", que[1], 0) \in WorkerType /\ Worker("run", que[1], 0).at = "run" /\ Worker("run", que[1], 0).task = que[1]
    BY <2>2 DEF Worker, WorkerType, WorkerStates
  <2>4. /\ wk' \in [Workers -> WorkerType] /\ wk'[w].at = "run" /\ wk'[w].task \in TaskType
        /\ \A v \in Workers : v # w => wk'[v] = wk[v]
    BY <1>0, <2>1, <2>2, <2>3
  <2>5. QueueTypes'
    BY <2>1, <2>2, <2>4 DEF QueueTypes, Holding
  <2>6. MutexInv'
    BY <2>1, <2>4, NullIs DEF MutexInv
  <2> QED
    BY <1>1, <1>4, <2>5, <2>6 DEF DequeTake
<1>5. CASE DequeStop(w)
  <2>1. wk' = [wk EXCEPT ![w].at = "gone"] /\ mutex = NULL /\ UNCHANGED <<flag, que, mutex>>
    BY <1>5 DEF DequeStop, poolFrame
  <2>2. [wk[w] EXCEPT !.at = "gone"] \in WorkerType /\ [wk[w] EXCEPT !.at = "gone"].at = "gone"
    BY <1>0 DEF WorkerType, WorkerStates
  <2>3. wk' \in [Workers -> WorkerType] /\ wk'[w].at = "gone" /\ \A v \in Workers : v # w => wk'[v] = wk[v]
    BY <1>0, <2>1, <2>2
  <2>4. QueueTypes' /\ MutexInv'
    BY <2>1, <2>3, NullIs DEF QueueTypes, MutexInv, Holding
  <2> QED
    BY <1>1, <1>5, <2>4 DEF DequeStop, poolFrame
<1>6. ASSUME UNCHANGED <<up, crossed, taskFrame>>, wk[w].at # "tested", Done(w), DownTypes' PROVE Types'
  <2>1. UpTypes' /\ HistTypes'
    BY <1>6 DEF UpTypes, HistTypes, taskFrame
  <2> QED
    BY <1>6, <2>1, TaskFrame, WorkerAt DEF Done
<1>7. UNCHANGED down => DownTypes'
  BY DEF DownTypes
<1>8. CASE Report(w)
  <2>1. DownTypes'
    <3>1. ASSUME Send(wk[w].task.fd, <<Word("reply", 0)>>, wk[w].task.by) PROVE DownTypes'
      <4>1. wk[w].task.by \in Clients
        BY <1>8, WorkerAt DEF Report, Holding, TaskType
      <4>2. <<Word("reply", 0)>> \in Seq(Sent)
        BY WordsTyped
      <4> QED
        BY <3>1, <4>1, <4>2, SendTyped
    <3> QED
      BY <1>7, <1>8, <3>1 DEF Report
  <2> QED
    BY <1>6, <1>8, <2>1 DEF Report
<1>9. CASE Mkdir(w)
  <2>1. wk[w].task.by \in Clients
    BY <1>9, WorkerAt DEF Mkdir, Holding, TaskType
  <2>2. <<Word("reply", 0)>> \in Seq(Sent) /\ <<Word("reply", 0), Word("reply", 0)>> \in Seq(Sent)
    BY WordsTyped
  <2>3. \E ws \in Seq(Sent) : Send(wk[w].task.fd, ws, wk[w].task.by)
    BY <1>9, <2>2 DEF Mkdir
  <2>4. DownTypes'
    BY <2>1, <2>3, SendTyped
  <2> QED
    BY <1>6, <1>9, <2>4 DEF Mkdir
<1>10. CASE Rmdir(w)
  <2>1. wk[w].task.by \in Clients
    BY <1>10, WorkerAt DEF Rmdir, Holding, TaskType
  <2>2. <<Word("reply", 0)>> \in Seq(Sent) /\ <<Word("reply", 1)>> \in Seq(Sent)
    BY WordsTyped
  <2>3. \E ws \in Seq(Sent) : Send(wk[w].task.fd, ws, wk[w].task.by)
    BY <1>10, <2>2 DEF Rmdir
  <2>4. DownTypes'
    BY <2>1, <2>3, SendTyped
  <2> QED
    BY <1>6, <1>10, <2>4 DEF Rmdir
<1>11. CASE GetsOpen(w)
  <2> DEFINE t == wk[w].task
             n == IF t.file \in Files THEN Size[t.file] ELSE 0
  <2>1. t \in TaskType /\ t.by \in Clients
    BY <1>11, WorkerAt DEF GetsOpen, Holding, TaskType
  <2>2. n \in Nat
    BY CloudAssumption
  <2>3. Send(t.fd, <<Word("length", n)>>, t.by)
    BY <1>11 DEF GetsOpen
  <2>4. DownTypes'
    <3> HIDE DEF n, t
    <3>1. <<Word("length", n)>> \in Seq(Sent)
      BY <2>2, WordsTyped
    <3> QED
      BY <2>1, <2>3, <3>1, SendTyped
  <2>5. CASE Done(w)
    BY <1>6, <1>11, <2>4, <2>5 DEF GetsOpen
  <2>6. ASSUME wk' = [wk EXCEPT ![w].at = "offset"], IsGets(t) PROVE Types'
    <3> DEFINE x == [wk[w] EXCEPT !.at = "offset"]
    <3>1. x \in WorkerType /\ x.at = "offset" /\ x.task = t
      BY <1>0 DEF WorkerType, WorkerStates
    <3>2. wk' = [wk EXCEPT ![w] = x]
      BY <2>6
    <3>3. wk[w].at # "tested" /\ UNCHANGED taskFrame /\ UpTypes' /\ HistTypes'
      BY <1>11 DEF GetsOpen, taskFrame, UpTypes, HistTypes
    <3> HIDE DEF x, t
    <3> QED
      BY <2>1, <2>4, <2>6, <3>1, <3>2, <3>3, TaskFrame
  <2> QED
    BY <1>11, <2>5, <2>6 DEF GetsOpen, IsGets
<1>12. CASE GetsOffset(w)
  <2> DEFINE t == wk[w].task
             c == sock[t.fd]
  <2>1. t \in TaskType /\ t.fd \in Fds /\ c \in Clients \cup {NULL} /\ IsGets(t)
    BY <1>12, WorkerAt DEF GetsOffset, Holding, TaskType, NetTypes, QueueTypes
  <2>2. wk[w].at # "tested" /\ UNCHANGED taskFrame /\ DownTypes'
    BY <1>12, <1>7 DEF GetsOffset
  <2>3. CASE c = NULL /\ Done(w) /\ UNCHANGED <<up, crossed>>
    BY <1>6, <1>12, <2>2, <2>3
  <2>4. ASSUME NEW p \in Nat, wk' = [wk EXCEPT ![w].at = "send", ![w].pos = p], UpTypes', HistTypes'
        PROVE  Types'
    <3> DEFINE x == [wk[w] EXCEPT !.at = "send", !.pos = p]
    <3>1. x \in WorkerType /\ x.at = "send" /\ x.task = t
      BY <1>0, <2>4 DEF WorkerType, WorkerStates
    <3>2. wk' = [wk EXCEPT ![w] = x]
      BY <2>4
    <3> HIDE DEF x, t, c
    <3> QED
      BY <2>1, <2>2, <2>4, <3>1, <3>2, TaskFrame
  <2>5. ASSUME c # NULL, up[c] # <<>>,
               wk' = [wk EXCEPT ![w].at = "send", ![w].pos = IF Head1(c).k = "off" THEN Head1(c).v ELSE 1],
               up' = [up EXCEPT ![c] = Tail(@)],
               crossed' = IF Head1(c).k = "off" /\ ~AlsoWaits(w) THEN crossed ELSE crossed \cup {c}
        PROVE  Types'
    <3>1. c \in Clients
      BY <2>1, <2>5
    <3>2. UpTypes'
      BY <2>5, <3>1, UpTail, Zenon
    <3>3. HistTypes'
      <4> HIDE DEF c, t
      <4>1. crossed' = crossed \/ crossed' = crossed \cup {c}
        BY <2>5
      <4> QED
        BY <2>2, <3>1, <4>1 DEF HistTypes, taskFrame
    <3>4. (IF Head1(c).k = "off" THEN Head1(c).v ELSE 1) \in Nat
      <4>1. Head1(c).k = "off" => Head1(c).v \in Nat
        BY <2>5, <3>1, UpHead, Zenon
      <4> QED
        BY <4>1
    <3> QED
      BY <2>4, <2>5, <3>2, <3>3, <3>4, Zenon
  <2>6. CASE wk' = [wk EXCEPT ![w].at = "send", ![w].pos = 0] /\ UNCHANGED <<up, crossed>>
    <3>1. UpTypes' /\ HistTypes'
      BY <2>2, <2>6 DEF UpTypes, HistTypes, taskFrame
    <3>2. 0 \in Nat
      OBVIOUS
    <3> QED
      BY <2>4, <2>6, <3>1, <3>2, Zenon
  <2> QED
    <3>1. \/ c = NULL /\ Done(w) /\ UNCHANGED <<up, crossed>>
          \/ /\ c # NULL /\ up[c] # <<>>
             /\ wk' = [wk EXCEPT ![w].at = "send", ![w].pos = IF Head1(c).k = "off" THEN Head1(c).v ELSE 1]
             /\ up' = [up EXCEPT ![c] = Tail(@)]
             /\ crossed' = IF Head1(c).k = "off" /\ ~AlsoWaits(w) THEN crossed ELSE crossed \cup {c}
          \/ wk' = [wk EXCEPT ![w].at = "send", ![w].pos = 0] /\ UNCHANGED <<up, crossed>>
      BY <1>12, Zenon DEF GetsOffset
    <3> QED
      BY <2>3, <2>5, <2>6, <3>1, Zenon
<1>13. CASE GetsSend(w)
  <2> DEFINE t == wk[w].task
             p == wk[w].pos
  <2>1. t \in TaskType /\ t.by \in Clients /\ p \in Nat /\ IsGets(t)
    BY <1>0, <1>13, WorkerAt DEF GetsSend, Holding, TaskType, WorkerType, QueueTypes
  <2>2. wk[w].at = "send" /\ UNCHANGED <<up, crossed, taskFrame>>
    BY <1>13 DEF GetsSend
  <2>3. CASE Done(w) /\ UNCHANGED down
    BY <1>6, <1>7, <2>2, <2>3
  <2>4. CASE Send(t.fd, <<Word("whole", 0)>>, t.by) /\ Done(w)
    <3>1. <<Word("whole", 0)>> \in Seq(Sent)
      BY WordsTyped
    <3>2. DownTypes'
      BY <2>1, <2>4, <3>1, SendTyped
    <3> QED
      BY <1>6, <2>2, <2>4, <3>2
  <2>5. CASE Send(t.fd, <<Word("buff", p + 1)>>, t.by) /\ wk' = [wk EXCEPT ![w].pos = p + 1]
    <3>1. DownTypes'
      <4> HIDE DEF p, t
      <4>0. p + 1 \in Nat
        BY <2>1
      <4>1. <<Word("buff", p + 1)>> \in Seq(Sent)
        BY <4>0, WordsTyped
      <4> QED
        BY <2>1, <2>5, <4>1, SendTyped
    <3> DEFINE x == [wk[w] EXCEPT !.pos = p + 1]
    <3>2. x \in WorkerType /\ x.at = "send" /\ x.task = t
      BY <1>0, <2>1, <2>2 DEF WorkerType
    <3>3. wk' = [wk EXCEPT ![w] = x]
      BY <2>5
    <3>4. UNCHANGED taskFrame /\ UpTypes' /\ HistTypes'
      BY <2>2 DEF taskFrame, UpTypes, HistTypes
    <3> HIDE DEF x, t, p
    <3> QED
      BY <2>1, <2>2, <3>1, <3>2, <3>3, <3>4, TaskFrame
  <2> QED
    BY <1>13, <2>3, <2>4, <2>5 DEF GetsSend
<1>14. CASE SigPipe(w)
  <2>1. LoopTypes'
    <3>1. loop' = At("killed")
      BY <1>14 DEF SigPipe
    <3>2. loop' \in LoopType /\ loop'.at = "killed"
      BY <3>1, LoopAt DEF LoopStates
    <3> QED
      BY <3>2 DEF LoopTypes
  <2>2. QueueTypes' /\ MutexInv'
    BY <1>14 DEF SigPipe, queueVars, QueueTypes, MutexInv, Holding
  <2> QED
    BY <1>14, <2>1, <2>2 DEF SigPipe, netVars, clientVars, NetTypes, UpTypes, DownTypes, ClientTypes, DiskTypes, HistTypes
<1> QED
  BY <1>2, <1>3, <1>4, <1>5, <1>8, <1>9, <1>10, <1>11, <1>12, <1>13, <1>14 DEF Thread

LEMMA TypesNext == Types /\ [Next]_vars => Types'
<1> SUFFICES ASSUME Types, [Next]_vars PROVE Types'
  OBVIOUS
<1>1. CASE UNCHANGED vars
  BY <1>1 DEF vars, Types, LoopTypes, QueueTypes, MutexInv, NetTypes, UpTypes, DownTypes, ClientTypes,
              DiskTypes, HistTypes, Holding
<1> QED
  BY <1>1, ClientTypesNext, LoopTypesNext, ThreadTypesNext DEF Next

LEMMA SpecTypes == Spec => []Types
BY InitTypes, TypesNext, PTL DEF Spec

-----------------------------------------------------------------------------
(* The task queue *)

LEMMA TypesOK == Types => TypeOK
<1> SUFFICES ASSUME Types PROVE TypeOK
  OBVIOUS
<1>1. loop.at \in LoopStates /\ \A w \in Workers : wk[w].at \in WorkerStates
  BY DEF Types, LoopTypes, LoopType, QueueTypes, WorkerType
<1>2. mutex # NULL <=> \E w \in Workers : wk[w].at = "tested"
  BY NullIs DEF Types, MutexInv
<1> QED
  BY <1>1, <1>2 DEF TypeOK, Types, QueueTypes, MutexInv, NetTypes, LoopStates, WorkerStates

\* Who falls asleep has seen an empty queue, and the signal after a put wakes one.
LEMMA NoSleepNext ==
    ASSUME Workers # {}, Types, NoSleepOverTask, [Next]_vars PROVE NoSleepOverTask'
<1> USE DEF NoSleepOverTask
<1>1. ASSUME UNCHANGED <<que, wk>>, loop.at = "signal" => loop' = loop PROVE NoSleepOverTask'
  BY <1>1 DEF Asleep
<1>2. ASSUME NEW c \in Clients, Client_(c) PROVE NoSleepOverTask'
  BY <1>1, <1>2 DEF Client_, Reads, Connect, SendCred, RecvVerifyRes, GetsLength, GetsData, Shown, Quit,
                    ShortCommand, Gets, SendCommand, queueVars
<1>3. CASE Loop \/ StopRequested
  <2>1. CASE taskEnque
    BY <2>1 DEF taskEnque, At
  <2>2. CASE EnqueSignal
    <3>1. CASE Asleep = {} /\ UNCHANGED wk
      BY <3>1 DEF Asleep
    <3>2. ASSUME NEW w \in Asleep, Wake({w}) PROVE NoSleepOverTask'
      <4>1. w \in Workers /\ wk'[w] = Worker("lock", NULL, 0)
        BY <3>2 DEF Wake, Asleep
      <4>2. wk'[w].at # "asleep"
        BY <4>1 DEF Worker
      <4> QED
        BY <4>1, <4>2 DEF Asleep
    <3> QED
      BY <2>2, <3>1, <3>2 DEF EnqueSignal
  <2>3. CASE Broadcast
    <3>1. \A w \in Workers : wk'[w].at # "asleep"
      BY <2>3 DEF Broadcast, Wake, Asleep, Worker
    <3> QED
      BY <3>1 DEF Asleep
  <2> QED
    BY <1>1, <1>3, <2>1, <2>2, <2>3 DEF Loop, StopRequested, Accept, LoginVerify, LoginBroken, HandleMessage,
          MessageMisread, MessageEof, MisreadOn, MisreadEof, ClearFlag, Joined, queueVars
<1>4. ASSUME NEW w \in Workers, Thread(w) \/ SigPipe(w) PROVE NoSleepOverTask'
  <2>1. CASE DequeSleep(w)
    <3>1. que' = <<>>
      BY <2>1 DEF DequeSleep, poolFrame, Types, MutexInv
    <3> QED
      BY <3>1
  <2>2. CASE SigPipe(w)
    <3>1. wk'[w].at # "asleep"
      BY <2>2 DEF SigPipe, queueVars
    <3> QED
      BY <3>1 DEF Asleep
  <2>3. CASE Thread(w) /\ ~DequeSleep(w)
    <3>1. wk \in [Workers -> WorkerType]
      BY DEF Types, QueueTypes
    <3>2. wk'[w].at # "asleep"
      <4>1. CASE DequeTest(w) \/ DequeTake(w) \/ DequeStop(w)
        BY <3>1, <4>1 DEF DequeTest, DequeTake, DequeStop, Worker, WorkerType
      <4>2. CASE Report(w) \/ Mkdir(w) \/ Rmdir(w)
        BY <3>1, <4>2 DEF Report, Mkdir, Rmdir, Done, Worker
      <4>3. CASE GetsOpen(w)
        <5>1. wk' = [wk EXCEPT ![w].at = "offset"] \/ Done(w)
          BY <4>3 DEF GetsOpen
        <5> QED
          BY <3>1, <5>1 DEF Done, Worker, WorkerType
      <4>4. CASE GetsOffset(w)
        <5>1. (\E p : wk' = [wk EXCEPT ![w].at = "send", ![w].pos = p]) \/ Done(w)
          BY <4>4 DEF GetsOffset
        <5> QED
          BY <3>1, <5>1 DEF Done, Worker, WorkerType
      <4>5. CASE GetsSend(w)
        <5>1. (wk[w].at = "send" /\ \E p : wk' = [wk EXCEPT ![w].pos = p]) \/ Done(w)
          BY <4>5 DEF GetsSend
        <5> QED
          BY <3>1, <5>1 DEF Done, Worker, WorkerType
      <4> QED
        BY <2>3, <4>1, <4>2, <4>3, <4>4, <4>5 DEF Thread
    <3> QED
      BY <3>2 DEF Asleep
  <2> QED
    BY <1>4, <2>1, <2>2, <2>3
<1>5. CASE UNCHANGED vars
  BY <1>1, <1>5 DEF vars
<1> QED
  BY <1>2, <1>3, <1>4, <1>5 DEF Next

\* The queue, its mutex and the sleepers are always in order: there is never a task in the
\* queue while every worker sleeps and no signal is under way, however many there are
\* (taskEnque signals after the unlock and wakes one worker).  The number of threads is an
\* argument of main; with none of them nobody ever takes a task.
THEOREM PoolCorrect == ASSUME Workers # {} PROVE Spec => []PoolInv
<1>1. Init => NoSleepOverTask
  BY DEF Init, NoSleepOverTask
<1>2. Types /\ NoSleepOverTask /\ [Next]_vars => NoSleepOverTask'
  BY NoSleepNext
<1>3. Spec => []NoSleepOverTask
  BY <1>1, <1>2, SpecTypes, PTL DEF Spec
<1> QED
  BY <1>3, SpecTypes, TypesOK, PTL DEF PoolInv

-----------------------------------------------------------------------------
(* Who is answered *)

\* A task between handleMessage and the end of doTask.
InFlight(t) == \/ loop.at = "enque" /\ t = loop.task
               \/ \E i \in 1..Len(que) : que[i] = t
               \/ \E w \in Workers : Holding(w) /\ wk[w].task = t

\* The descriptor of a task is its client's, unless it was closed under the task.
OwnTask(t) == t.cmd = "none" \/ sock[t.fd] = t.by \/ t.by \in orphan
OwnInv     == \A t \in TaskType : InFlight(t) => OwnTask(t)

NoTaskOf(c) == \A t \in TaskType : InFlight(t) => t.by # c
NoSockOf(c) == \A d \in Fds : sock[d] # c

\* A client connects once and waits once for accept; no command of it is read before.
FreshInv == /\ \A c \in Clients : cl[c].at = "off" =>
                  /\ NoTaskOf(c) /\ NoSockOf(c)
                  /\ \A i \in 1..Len(backlog) : backlog[i] # c
            /\ \A i \in 1..Len(backlog) :
                  /\ NoTaskOf(backlog[i]) /\ NoSockOf(backlog[i])
                  /\ \A j \in 1..Len(backlog) : backlog[i] = backlog[j] => i = j
            /\ loop.at = "login" => NoTaskOf(sock[loop.fd])

AskInv == OwnInv /\ FreshInv /\ AnswerToAsker

LEMMA InitAsk == Init => AskInv
<1> SUFFICES ASSUME Init PROVE AskInv
  OBVIOUS
<1>1. \A t : ~InFlight(t)
  BY DEF Init, InFlight, At, Holding, Worker
<1>2. OwnInv
  BY <1>1 DEF OwnInv
<1>3. FreshInv
  <2>1. \A c \in Clients : NoSockOf(c)
    BY NullIs DEF Init, NoSockOf
  <2>2. \A c : NoTaskOf(c)
    BY <1>1 DEF NoTaskOf
  <2>3. backlog = <<>> /\ loop.at = "wait"
    BY DEF Init, At
  <2> QED
    BY <2>1, <2>2, <2>3 DEF FreshInv
<1>4. AnswerToAsker
  BY DEF Init, AnswerToAsker
<1> QED
  BY <1>2, <1>3, <1>4 DEF AskInv

\* Steps that make no task and leave the sockets alone.
LEMMA AskFrame ==
    ASSUME OwnInv, FreshInv, \A t \in TaskType : InFlight(t)' => InFlight(t),
           UNCHANGED <<sock, backlog>>, orphan \subseteq orphan',
           loop'.at = "login" => loop' = loop,
           \A c \in Clients : cl'[c].at = "off" => cl[c].at = "off"
    PROVE  OwnInv' /\ FreshInv'
<1>1. OwnInv'
  BY DEF OwnInv, OwnTask
<1>2. \A c : NoTaskOf(c) => NoTaskOf(c)'
  BY DEF NoTaskOf
<1>3. \A c : NoSockOf(c) => NoSockOf(c)'
  BY DEF NoSockOf
<1>4. loop'.at = "login" => NoTaskOf(sock[loop.fd])'
  <2> HAVE loop'.at = "login"
  <2>1. loop' = loop /\ NoTaskOf(sock[loop.fd])
    BY DEF FreshInv
  <2>2. PICK c : c = sock[loop.fd]
    OBVIOUS
  <2>3. NoTaskOf(c)'
    BY <1>2, <2>1, <2>2
  <2> QED
    BY <2>1, <2>2, <2>3 DEF NoTaskOf
<1>5. \A i \in 1..Len(backlog) : backlog'[i] = backlog[i] /\ NoTaskOf(backlog[i])' /\ NoSockOf(backlog[i])'
  <2> TAKE i \in 1..Len(backlog)
  <2>1. NoTaskOf(backlog[i]) /\ NoSockOf(backlog[i])
    BY DEF FreshInv
  <2>2. PICK c : c = backlog[i]
    OBVIOUS
  <2>3. NoTaskOf(c)' /\ NoSockOf(c)'
    BY <1>2, <1>3, <2>1, <2>2
  <2> QED
    BY <2>2, <2>3 DEF NoTaskOf, NoSockOf
<1>6. \A c \in Clients : cl'[c].at = "off" => NoTaskOf(c)' /\ NoSockOf(c)' /\ \A i \in 1..Len(backlog) : backlog[i] # c
  BY <1>2, <1>3 DEF FreshInv
<1>7. \A i \in 1..Len(backlog) : \A j \in 1..Len(backlog) : backlog[i] = backlog[j] => i = j
  BY DEF FreshInv
<1>8. FreshInv'
  BY <1>4, <1>5, <1>6, <1>7 DEF FreshInv
<1> QED
  BY <1>1, <1>8

\* What is sent on a socket that belongs to the sender's client.
LEMMA AnswerSent ==
    ASSUME DownTypes, AnswerToAsker, NEW fd, NEW by \in Clients, NEW ws \in Seq(Sent), Send(fd, ws, by),
           sock[fd] = by \/ by \in orphan, orphan' = orphan
    PROVE  AnswerToAsker'
<1> SUFFICES ASSUME NEW c \in Clients, NEW i \in 1..Len(down'[c])
             PROVE  down'[c][i].by = c \/ down'[c][i].by \in orphan
  BY DEF AnswerToAsker
<1>1. CASE down'[c] = down[c]
  BY <1>1 DEF AnswerToAsker
<1>2. CASE SentOn(c, fd, ws, by)
  <2>1. Len(down[c]) \in Nat /\ Len(ws) \in Nat
    BY DEF DownTypes
  <2>2. CASE i \in 1..Len(down[c])
    BY <1>2, <2>2 DEF AnswerToAsker, SentOn
  <2>3. CASE i \notin 1..Len(down[c])
    <3>1. i - Len(down[c]) \in 1..Len(ws) /\ i = Len(down[c]) + (i - Len(down[c]))
      BY <1>2, <2>1, <2>3 DEF SentOn
    <3>2. down'[c][i].by = by
      BY <1>2, <3>1 DEF SentOn
    <3> QED
      BY <1>2, <3>2 DEF SentOn
  <2> QED
    BY <2>2, <2>3
<1>3. \A d \in Clients : down'[d] = down[d] \/ SentOn(d, fd, ws, by)
  BY SendTyped
<1> QED
  BY <1>1, <1>2, <1>3

\* What a client receives.
LEMMA AnswerRead ==
    ASSUME DownTypes, AnswerToAsker, NEW c \in Clients, down[c] # <<>>,
           down' = [down EXCEPT ![c] = Tail(@)], orphan' = orphan
    PROVE  AnswerToAsker'
<1>1. \A d \in Clients : \A i \in DOMAIN down'[d] : \E j \in DOMAIN down[d] : down'[d][i] = down[d][j]
  BY DownTail, Zenon
<1>2. DownTypes'
  BY DownTail, Zenon
<1>3. \A d \in Clients : DOMAIN down[d] = 1..Len(down[d]) /\ DOMAIN down'[d] = 1..Len(down'[d])
  BY <1>2 DEF DownTypes
<1> QED
  BY <1>1, <1>3 DEF AnswerToAsker

LEMMA ClientAskNext ==
    ASSUME Types, AskInv, NEW c \in Clients, Client_(c) PROVE AskInv'
<1>0. DownTypes /\ cl[c] \in ClientType /\ OwnInv /\ FreshInv /\ AnswerToAsker
  BY DEF Types, ClientTypes, AskInv
<1>1. UNCHANGED <<loop, que, wk, sock, orphan>>
  BY DEF Client_, Reads, Connect, SendCred, RecvVerifyRes, GetsLength, GetsData, Shown, Quit,
         ShortCommand, Gets, SendCommand, queueVars, netVars
<1>2. \A t \in TaskType : InFlight(t)' => InFlight(t)
  BY <1>1 DEF InFlight, Holding
<1>3. AnswerToAsker'
  <2>1. CASE UNCHANGED down
    BY <1>0, <1>1, <2>1 DEF AnswerToAsker
  <2>2. CASE down[c] # <<>> /\ down' = [down EXCEPT ![c] = Tail(@)]
    BY <1>0, <1>1, <2>2, AnswerRead
  <2>3. CASE Quit(c)
    BY <1>0, <1>1, <2>3 DEF Quit, AnswerToAsker, DownTypes
  <2> QED
    BY <2>1, <2>2, <2>3 DEF Client_, Reads, Connect, SendCred, RecvVerifyRes, GetsLength, GetsData, Shown,
                            ShortCommand, Gets, SendCommand
<1>4. CASE Connect(c)
  <2>1. cl[c].at = "off" /\ backlog' = Append(backlog, c) /\ cl' = [cl EXCEPT ![c].at = "login"]
    BY <1>4 DEF Connect
  <2>2. cl'[c].at = "login" /\ \A d \in Clients : d # c => cl'[d] = cl[d]
    BY <1>0, <2>1 DEF Types, ClientTypes, ClientType
  <2>3. OwnInv'
    BY <1>0, <1>1, <1>2 DEF OwnInv, OwnTask
  <2>4. backlog \in Seq(Clients) /\ Len(backlog) \in Nat
    BY DEF Types, NetTypes
  <2>5. /\ Len(backlog') = Len(backlog) + 1 /\ backlog'[Len(backlog) + 1] = c
        /\ \A i \in 1..Len(backlog) : backlog'[i] = backlog[i]
    BY <2>1, <2>4
  <2>6. \A i \in 1..Len(backlog') : i \in 1..Len(backlog) \/ i = Len(backlog) + 1
    BY <2>4, <2>5
  <2>7. \A x : (NoTaskOf(x) => NoTaskOf(x)') /\ (NoSockOf(x) => NoSockOf(x)')
    BY <1>1, <1>2 DEF NoTaskOf, NoSockOf
  <2>8. NoTaskOf(c) /\ NoSockOf(c) /\ \A i \in 1..Len(backlog) : backlog[i] # c
    BY <1>0, <2>1 DEF FreshInv
  <2>9. ASSUME NEW d \in Clients, cl'[d].at = "off"
        PROVE  NoTaskOf(d)' /\ NoSockOf(d)' /\ \A i \in 1..Len(backlog') : backlog'[i] # d
    <3>1. d # c /\ cl[d].at = "off"
      BY <2>2, <2>9
    <3>2. NoTaskOf(d) /\ NoSockOf(d) /\ \A i \in 1..Len(backlog) : backlog[i] # d
      BY <1>0, <3>1 DEF FreshInv
    <3> QED
      BY <2>5, <2>6, <2>7, <3>1, <3>2
  <2>10. ASSUME NEW i \in 1..Len(backlog'), NEW x, x = backlog'[i]
         PROVE  NoTaskOf(x)' /\ NoSockOf(x)' /\ \A j \in 1..Len(backlog') : backlog'[j] = x => i = j
    <3>1. CASE i \in 1..Len(backlog)
      <4>1. x = backlog[i]
        BY <2>5, <2>10, <3>1
      <4>2. NoTaskOf(x) /\ NoSockOf(x) /\ \A j \in 1..Len(backlog) : backlog[j] = x => i = j
        BY <1>0, <3>1, <4>1 DEF FreshInv
      <4> QED
        BY <2>5, <2>6, <2>7, <2>8, <3>1, <4>1, <4>2
    <3>2. CASE i = Len(backlog) + 1
      BY <2>5, <2>6, <2>7, <2>8, <2>10, <3>2
    <3> QED
      BY <2>6, <3>1, <3>2
  <2>11. loop'.at = "login" => NoTaskOf(sock[loop.fd])'
    <3>1. PICK x : x = sock[loop.fd]
      OBVIOUS
    <3>2. loop.at = "login" => NoTaskOf(x)'
      BY <1>0, <2>7, <3>1 DEF FreshInv
    <3> QED
      BY <1>1, <3>1, <3>2 DEF NoTaskOf
  <2>12. \A i \in 1..Len(backlog') : /\ NoTaskOf(backlog[i])' /\ NoSockOf(backlog[i])'
                                     /\ \A j \in 1..Len(backlog') : backlog'[i] = backlog'[j] => i = j
    <3> TAKE i \in 1..Len(backlog')
    <3>1. PICK x : x = backlog'[i]
      OBVIOUS
    <3> QED
      BY <2>10, <3>1 DEF NoTaskOf, NoSockOf
  <2>13. FreshInv'
    BY <2>9, <2>11, <2>12 DEF FreshInv
  <2> QED
    BY <1>3, <2>3, <2>13 DEF AskInv
<1>5. CASE UNCHANGED backlog
  <2>1. \A d \in Clients : cl'[d].at = "off" => cl[d].at = "off"
    <3>1. \A d \in Clients : d # c => cl'[d] = cl[d]
      BY DEF Client_, Reads, Connect, SendCred, RecvVerifyRes, GetsLength, GetsData, Shown, Quit,
             ShortCommand, Gets, SendCommand, clientVars, Types, ClientTypes
    <3>2. cl'[c].at = "off" => cl[c].at = "off"
      <4>1. CASE SendCred(c) \/ RecvVerifyRes(c) \/ Shown(c) \/ Quit(c)
        BY <1>0, <4>1 DEF SendCred, RecvVerifyRes, Shown, Quit, clientVars, Types, ClientTypes, ClientType, Client
      <4>2. CASE \E cmd \in Cmds[c] : ShortCommand(c, cmd)
        BY <1>0, <4>2 DEF ShortCommand, SendCommand, Types, ClientTypes, ClientType, Client
      <4>3. CASE \E f \in Wants[c] : Gets(c, f)
        BY <1>0, <4>3 DEF Gets, SendCommand, Types, ClientTypes, ClientType, Client
      <4>4. CASE GetsLength(c)
        <5>1. \/ cl' = [cl EXCEPT ![c].at = "ready"]
              \/ cl' = [cl EXCEPT ![c] = [@ EXCEPT !.at = "data", !.len = down[c][1].v]]
              \/ cl' = [cl EXCEPT ![c] = [@ EXCEPT !.at = "ready", !.got = cl[c].file]]
          BY <4>4 DEF GetsLength
        <5> QED
          BY <1>0, <5>1 DEF Types, ClientTypes, ClientType
      <4>5. CASE GetsData(c)
        <5>1. \/ cl' = [cl EXCEPT ![c] = @]
              \/ cl' = [cl EXCEPT ![c] = [@ EXCEPT !.at = "ready", !.got = cl[c].file]]
          BY <4>5 DEF GetsData
        <5> QED
          BY <1>0, <5>1 DEF Types, ClientTypes, ClientType
      <4>6. CASE Connect(c)
        BY <1>0, <4>6 DEF Connect, Types, ClientTypes, ClientType
      <4> QED
        BY <4>1, <4>2, <4>3, <4>4, <4>5, <4>6 DEF Client_, Reads
    <3> QED
      BY <3>1, <3>2
  <2> QED
    BY <1>0, <1>1, <1>2, <1>3, <1>5, <2>1, AskFrame DEF AskInv
<1> QED
  BY <1>4, <1>5 DEF Client_, Reads, SendCred, RecvVerifyRes, GetsLength, GetsData, Shown, Quit,
         ShortCommand, Gets, SendCommand, netVars

\* A step of the main thread that leaves the task queue and the clients alone makes
\* at most the task it is about to put.
LEMMA LoopInFlight ==
    ASSUME UNCHANGED <<que, wk>>, NEW t \in TaskType, InFlight(t)'
    PROVE  InFlight(t) \/ (loop'.at = "enque" /\ t = loop'.task)
BY DEF InFlight, Holding

\* A task under way of the client behind d counts as pending when d is closed.
LEMMA CloseOrphans ==
    ASSUME Types, loop.at # "enque", NEW d \in Fds, NEW t \in TaskType, InFlight(t), t.by = sock[d], Close(d)
    PROVE  t.by \in orphan'
<1>1. Pending(t.by)
  BY DEF InFlight, Pending
<1>2. t.by \in Clients
  BY DEF TaskType
<1> QED
  BY <1>1, <1>2 DEF Close

LEMMA LoopAskNext ==
    ASSUME Types, AskInv, Loop \/ StopRequested PROVE AskInv'
<1>0. /\ DownTypes /\ OwnInv /\ FreshInv /\ AnswerToAsker
      /\ sock \in [Fds -> Clients \cup {NULL}] /\ watched \subseteq {d \in Fds : sock[d] # NULL}
      /\ cl' = cl
  BY DEF Types, AskInv, NetTypes, Loop, StopRequested, Accept, LoginVerify, LoginBroken, HandleMessage, MessageMisread,
         MessageEof, MisreadOn, MisreadEof, taskEnque, EnqueSignal, ClearFlag, Broadcast, Joined, clientVars
<1>1. CASE Accept
  <2>1. PICK d \in Fds : /\ sock[d] = NULL /\ sock' = [sock EXCEPT ![d] = backlog[1]]
                         /\ loop' = [At("login") EXCEPT !.fd = d]
    BY <1>1 DEF Accept
  <2>2. loop'.at = "login" /\ loop'.fd = d /\ UNCHANGED <<que, wk, orphan, down>> /\ backlog' = Tail(backlog) /\ backlog # <<>>
    BY <1>1, <2>1 DEF Accept, At, queueVars
  <2>3. \A t \in TaskType : InFlight(t)' => InFlight(t)
    BY <2>2, LoopInFlight
  <2>4. PICK b \in Clients : b = backlog[1]
    BY <2>2 DEF Types, NetTypes
  <2>5. \A x : NoTaskOf(x) => NoTaskOf(x)'
    BY <2>3 DEF NoTaskOf
  <2>6. \A x \in Clients : x # b /\ NoSockOf(x) => NoSockOf(x)'
    BY <1>0, <2>1, <2>4 DEF NoSockOf
  <2>7. backlog \in Seq(Clients) /\ 1 \in 1..Len(backlog)
    BY <2>2 DEF Types, NetTypes
  <2>8. NoTaskOf(b) /\ \A j \in 1..Len(backlog) : backlog[j] = b => j = 1
    <3>1. \A i \in 1..Len(backlog) : NoTaskOf(backlog[i]) /\ \A j \in 1..Len(backlog) : backlog[i] = backlog[j] => i = j
      BY <1>0 DEF FreshInv
    <3> QED
      BY <2>4, <2>7, <3>1
  <2>9. \A i \in 1..Len(backlog') : /\ i \in Nat /\ i + 1 \in 1..Len(backlog) /\ i + 1 # 1
                                    /\ backlog'[i] = backlog[i + 1] /\ backlog'[i] \in Clients
    BY <2>2, <2>7
  <2>10. OwnInv'
    <3> SUFFICES ASSUME NEW t \in TaskType, InFlight(t) PROVE OwnTask(t)'
      BY <2>3 DEF OwnInv
    <3>1. OwnTask(t) /\ t.by \in Clients
      BY <1>0 DEF OwnInv, TaskType
    <3> QED
      BY <1>0, <2>1, <2>2, <3>1, NullIs DEF OwnTask
  <2>11. ASSUME NEW c \in Clients, cl'[c].at = "off"
         PROVE  NoTaskOf(c)' /\ NoSockOf(c)' /\ \A i \in 1..Len(backlog') : backlog'[i] # c
    <3>1. NoTaskOf(c) /\ NoSockOf(c) /\ \A i \in 1..Len(backlog) : backlog[i] # c
      BY <1>0, <2>11 DEF FreshInv
    <3>2. c # b
      BY <2>4, <2>7, <3>1
    <3> QED
      BY <2>5, <2>6, <2>9, <3>1, <3>2
  <2>12. ASSUME NEW i \in 1..Len(backlog'), NEW x \in Clients, x = backlog'[i]
         PROVE  NoTaskOf(x)' /\ NoSockOf(x)' /\ \A j \in 1..Len(backlog') : backlog'[j] = x => i = j
    <3>1. i \in Nat /\ i + 1 \in 1..Len(backlog) /\ i + 1 # 1 /\ x = backlog[i + 1]
      BY <2>9, <2>12
    <3>2. NoTaskOf(x) /\ NoSockOf(x) /\ \A j \in 1..Len(backlog) : backlog[j] = x => i + 1 = j
      BY <1>0, <3>1 DEF FreshInv
    <3>3. x # b
      BY <2>8, <3>1
    <3>4. ASSUME NEW j \in 1..Len(backlog'), backlog'[j] = x PROVE i = j
      <4>1. j \in Nat /\ j + 1 \in 1..Len(backlog) /\ backlog[j + 1] = x
        BY <2>9, <3>4
      <4>2. i + 1 = j + 1
        BY <3>2, <4>1
      <4> QED
        BY <3>1, <4>1, <4>2
    <3> QED
      BY <2>5, <2>6, <3>2, <3>3, <3>4
  <2>13. NoTaskOf(sock[loop.fd])'
    <3>1. sock'[d] = b
      BY <1>0, <2>1, <2>4
    <3> QED
      BY <2>2, <2>5, <2>8, <3>1 DEF NoTaskOf
  <2>14. \A i \in 1..Len(backlog') : /\ NoTaskOf(backlog[i])' /\ NoSockOf(backlog[i])'
                                     /\ \A j \in 1..Len(backlog') : backlog'[i] = backlog'[j] => i = j
    <3> TAKE i \in 1..Len(backlog')
    <3>1. PICK x \in Clients : x = backlog'[i]
      BY <2>9
    <3> QED
      BY <2>12, <3>1 DEF NoTaskOf, NoSockOf
  <2>15. FreshInv'
    BY <2>11, <2>13, <2>14 DEF FreshInv
  <2>16. AnswerToAsker'
    BY <1>0, <2>2 DEF AnswerToAsker
  <2> QED
    BY <2>10, <2>15, <2>16 DEF AskInv
<1>2. CASE LoginVerify
  <2> DEFINE c == sock[loop.fd]
  <2>1. loop.fd \in Fds /\ c \in Clients /\ up[c] # <<>> /\ Head1(c).k = "cred"
        /\ Send(loop.fd, <<Word("res", Head1(c).v)>>, c)
    BY <1>2 DEF LoginVerify, Types, LoopTypes
  <2>2. <<Word("res", Head1(c).v)>> \in Seq(Sent)
    <3>1. Head1(c).v \in Verdicts
      BY <2>1, UpHead, Zenon DEF Types
    <3>2. Head1(c).v \in Nat
      BY <3>1 DEF Verdicts
    <3> HIDE DEF c
    <3> QED
      BY <3>2, WordsTyped
  <2>3. UNCHANGED <<que, wk, orphan, sock, backlog>> /\ (loop' = loop \/ loop'.at = "wait")
    BY <1>2 DEF LoginVerify, queueVars, At
  <2>4. AnswerToAsker'
    <3> HIDE DEF c
    <3>1. sock[loop.fd] = c
      BY DEF c
    <3> QED
      BY <1>0, <2>1, <2>2, <2>3, <3>1, AnswerSent
  <2>5. \A t \in TaskType : InFlight(t)' => InFlight(t)
    BY <1>2, <2>3, LoopInFlight DEF LoginVerify
  <2>6. OwnInv' /\ FreshInv'
    BY <1>0, <2>3, <2>5, AskFrame
  <2> QED
    BY <2>4, <2>6 DEF AskInv
<1>3. CASE LoginBroken
  <2>1. loop.at = "login" /\ loop.fd \in Fds /\ sock' = [sock EXCEPT ![loop.fd] = NULL]
        /\ loop'.at = "wait" /\ UNCHANGED <<que, wk, orphan, backlog, down>>
    BY <1>3 DEF LoginBroken, Types, LoopTypes, At, queueVars
  <2>2. \A t \in TaskType : InFlight(t)' => InFlight(t)
    BY <2>1, LoopInFlight
  <2>3. NoTaskOf(sock[loop.fd])
    BY <1>0, <2>1 DEF FreshInv
  <2>4. OwnInv'
    <3> SUFFICES ASSUME NEW t \in TaskType, InFlight(t) PROVE OwnTask(t)'
      BY <2>2 DEF OwnInv
    <3>1. OwnTask(t) /\ t.by # sock[loop.fd] /\ t.fd \in Fds
      BY <1>0, <2>3 DEF OwnInv, NoTaskOf, TaskType
    <3> QED
      BY <1>0, <2>1, <3>1 DEF OwnTask
  <2>5. \A x \in Clients : (NoTaskOf(x) => NoTaskOf(x)') /\ (NoSockOf(x) => NoSockOf(x)')
    BY <1>0, <2>1, <2>2, NullIs DEF NoTaskOf, NoSockOf
  <2>6. FreshInv'
    <3>1. \A i \in 1..Len(backlog) : NoTaskOf(backlog[i])' /\ NoSockOf(backlog[i])'
      <4> TAKE i \in 1..Len(backlog)
      <4>1. PICK x \in Clients : x = backlog[i]
        BY DEF Types, NetTypes
      <4>2. NoTaskOf(x)' /\ NoSockOf(x)'
        BY <1>0, <2>5, <4>1 DEF FreshInv
      <4> QED
        BY <2>1, <4>1, <4>2 DEF NoTaskOf, NoSockOf
    <3>2. \A c \in Clients : cl'[c].at = "off" => NoTaskOf(c)' /\ NoSockOf(c)' /\ \A i \in 1..Len(backlog) : backlog[i] # c
      BY <1>0, <2>5 DEF FreshInv
    <3>3. \A i \in 1..Len(backlog) : \A j \in 1..Len(backlog) : backlog[i] = backlog[j] => i = j
      BY <1>0 DEF FreshInv
    <3> QED
      BY <2>1, <3>1, <3>2, <3>3 DEF FreshInv
  <2>7. AnswerToAsker'
    BY <1>0, <2>1 DEF AnswerToAsker
  <2> QED
    BY <2>4, <2>6, <2>7 DEF AskInv
<1>4. ASSUME NEW d \in Fds, HandleMessage(d) PROVE AskInv'
  <2> DEFINE c == sock[d]
             t1 == Task(d, up[c][2].v, up[c][2].file, c)
  <2>1. c \in Clients /\ loop'.at = "enque" /\ loop'.task = t1 /\ t1.by = c /\ t1.fd = d
        /\ UNCHANGED <<que, wk, sock, backlog, orphan, down>>
    BY <1>0, <1>4 DEF HandleMessage, At, Task, queueVars, netVars
  <2>2. OwnInv'
    <3> HIDE DEF t1, c
    <3>1. \A t \in TaskType : InFlight(t)' => InFlight(t) \/ t = t1
      BY <2>1, LoopInFlight
    <3>2. sock[d] = c
      BY DEF c
    <3> QED
      BY <1>0, <2>1, <3>1, <3>2 DEF OwnInv, OwnTask
  <2>3. \A x \in Clients : x # c => (NoTaskOf(x) => NoTaskOf(x)')
    <3> HIDE DEF t1, c
    <3> QED
      BY <2>1, LoopInFlight DEF NoTaskOf
  <2>4. \A x \in Clients : NoSockOf(x) => NoSockOf(x)' /\ x # c
    BY <2>1 DEF NoSockOf
  <2>5. FreshInv'
    <3>1. \A i \in 1..Len(backlog) : NoTaskOf(backlog[i])' /\ NoSockOf(backlog[i])'
      <4> TAKE i \in 1..Len(backlog)
      <4>1. PICK x \in Clients : x = backlog[i]
        BY DEF Types, NetTypes
      <4>2. NoTaskOf(x)' /\ NoSockOf(x)'
        BY <1>0, <2>3, <2>4, <4>1 DEF FreshInv
      <4> QED
        BY <2>1, <4>1, <4>2 DEF NoTaskOf, NoSockOf
    <3>2. \A e \in Clients : cl'[e].at = "off" => NoTaskOf(e)' /\ NoSockOf(e)' /\ \A i \in 1..Len(backlog) : backlog[i] # e
      BY <1>0, <2>3, <2>4 DEF FreshInv
    <3>3. \A i \in 1..Len(backlog) : \A j \in 1..Len(backlog) : backlog[i] = backlog[j] => i = j
      BY <1>0 DEF FreshInv
    <3> HIDE DEF t1, c
    <3> QED
      BY <2>1, <3>1, <3>2, <3>3 DEF FreshInv
  <2>6. AnswerToAsker'
    BY <1>0, <2>1 DEF AnswerToAsker
  <2> QED
    BY <2>2, <2>5, <2>6 DEF AskInv
<1>5. ASSUME UNCHANGED <<que, wk, orphan, sock, backlog, down>>,
             loop'.at \notin {"enque", "login"} \/ (loop'.at = "enque" /\ loop'.task.cmd = "none" /\ loop'.task.by = sock[loop.fd]
                                                    /\ loop.fd \in Fds)
      PROVE  AskInv'
  <2>1. AnswerToAsker'
    BY <1>0, <1>5 DEF AnswerToAsker
  <2>2. OwnInv'
    BY <1>0, <1>5, LoopInFlight DEF OwnInv, OwnTask
  <2>3. \A x \in Clients : NoTaskOf(x) /\ NoSockOf(x) => NoTaskOf(x)' /\ NoSockOf(x)'
    <3> SUFFICES ASSUME NEW x \in Clients, NoTaskOf(x), NoSockOf(x) PROVE NoTaskOf(x)' /\ NoSockOf(x)'
      OBVIOUS
    <3>1. loop.fd \in Fds => sock[loop.fd] # x
      BY DEF NoSockOf
    <3> QED
      BY <1>5, <3>1, LoopInFlight DEF NoTaskOf, NoSockOf
  <2>4. FreshInv'
    <3>1. \A i \in 1..Len(backlog) : NoTaskOf(backlog[i])' /\ NoSockOf(backlog[i])'
      <4> TAKE i \in 1..Len(backlog)
      <4>1. PICK x \in Clients : x = backlog[i]
        BY DEF Types, NetTypes
      <4>2. NoTaskOf(x)' /\ NoSockOf(x)'
        BY <1>0, <2>3, <4>1 DEF FreshInv
      <4> QED
        BY <1>5, <4>1, <4>2 DEF NoTaskOf, NoSockOf
    <3>2. \A e \in Clients : cl'[e].at = "off" => NoTaskOf(e)' /\ NoSockOf(e)' /\ \A i \in 1..Len(backlog) : backlog[i] # e
      BY <1>0, <2>3 DEF FreshInv
    <3>3. \A i \in 1..Len(backlog) : \A j \in 1..Len(backlog) : backlog[i] = backlog[j] => i = j
      BY <1>0 DEF FreshInv
    <3> QED
      BY <1>5, <3>1, <3>2, <3>3 DEF FreshInv
  <2> QED
    BY <2>1, <2>2, <2>4 DEF AskInv
<1>6. CASE MisreadOn
  <2>1. loop.fd \in Fds /\ loop.at = "captured"
    BY <1>0, <1>6 DEF MisreadOn, Types, LoopTypes
  <2>2. \/ loop' = [loop EXCEPT !.len = 1]
        \/ loop' = [At("enque") EXCEPT !.task = Task(loop.fd, "none", NULL, sock[loop.fd])]
    BY <1>6 DEF MisreadOn
  <2>3. loop'.at \notin {"enque", "login"} \/ (loop'.at = "enque" /\ loop'.task.cmd = "none" /\ loop'.task.by = sock[loop.fd])
    BY <2>1, <2>2 DEF At, Task, Types, LoopTypes, LoopType
  <2> QED
    BY <1>5, <1>6, <2>1, <2>3 DEF MisreadOn, queueVars, netVars
<1>7. CASE (\E d \in Fds : MessageMisread(d)) \/ ClearFlag \/ Joined \/ StopRequested
  <2>1. loop'.at \notin {"enque", "login"}
    <3>1. CASE \E d \in Fds : MessageMisread(d)
      <4>1. \E d, n : loop' = [At("captured") EXCEPT !.fd = d, !.len = n]
        BY <3>1 DEF MessageMisread
      <4> QED
        BY <4>1 DEF At
    <3>2. CASE ClearFlag \/ Joined \/ StopRequested
      BY <3>2 DEF ClearFlag, Joined, StopRequested, At
    <3> QED
      BY <1>7, <3>1, <3>2
  <2>2. UNCHANGED <<que, wk, orphan, sock, backlog, down>>
    BY <1>7 DEF MessageMisread, ClearFlag, Joined, StopRequested, queueVars, netVars
  <2> QED
    BY <1>5, <2>1, <2>2
<1>8. ASSUME NEW d \in Fds, sock[d] \in Clients, Close(d), loop.at \notin {"enque", "login"},
             UNCHANGED <<que, wk, backlog, down>>,
             loop'.at \notin {"enque", "login"} \/ (loop'.at = "enque" /\ loop'.task.cmd = "none" /\ loop'.task.by = sock[d])
      PROVE  AskInv'
  <2>1. \A t \in TaskType : InFlight(t)' => InFlight(t) \/ (loop'.at = "enque" /\ t = loop'.task)
    BY <1>8, LoopInFlight
  <2>2. sock' = [sock EXCEPT ![d] = NULL] /\ orphan \subseteq orphan'
    BY <1>8 DEF Close
  <2>3. AnswerToAsker'
    BY <1>0, <1>8, <2>2 DEF AnswerToAsker
  <2>4. OwnInv'
    <3> SUFFICES ASSUME NEW t \in TaskType, InFlight(t)' PROVE OwnTask(t)'
      BY DEF OwnInv
    <3>1. CASE t.cmd = "none"
      BY <3>1 DEF OwnTask
    <3>2. CASE t.cmd # "none"
      <4>1. InFlight(t) /\ OwnTask(t) /\ t.fd \in Fds
        BY <1>0, <1>8, <2>1, <3>2 DEF OwnInv, TaskType
      <4>2. CASE t.by \in orphan
        BY <2>2, <4>2 DEF OwnTask
      <4>3. CASE sock[t.fd] = t.by /\ t.fd # d
        BY <1>0, <2>2, <4>1, <4>3 DEF OwnTask
      <4>4. CASE sock[t.fd] = t.by /\ t.fd = d
        BY <1>8, <4>1, <4>4, CloseOrphans DEF OwnTask
      <4> QED
        BY <3>2, <4>1, <4>2, <4>3, <4>4 DEF OwnTask
    <3> QED
      BY <3>1, <3>2
  <2>5. \A x \in Clients : NoTaskOf(x) /\ NoSockOf(x) => NoTaskOf(x)' /\ NoSockOf(x)'
    <3> SUFFICES ASSUME NEW x \in Clients, NoTaskOf(x), NoSockOf(x) PROVE NoTaskOf(x)' /\ NoSockOf(x)'
      OBVIOUS
    <3>1. sock[d] # x
      BY DEF NoSockOf
    <3>2. NoSockOf(x)'
      BY <1>0, <2>2, NullIs DEF NoSockOf
    <3> QED
      BY <1>8, <2>1, <3>1, <3>2 DEF NoTaskOf
  <2>6. FreshInv'
    <3>1. \A i \in 1..Len(backlog) : NoTaskOf(backlog[i])' /\ NoSockOf(backlog[i])'
      <4> TAKE i \in 1..Len(backlog)
      <4>1. PICK x \in Clients : x = backlog[i]
        BY DEF Types, NetTypes
      <4>2. NoTaskOf(x)' /\ NoSockOf(x)'
        BY <1>0, <2>5, <4>1 DEF FreshInv
      <4> QED
        BY <1>8, <4>1, <4>2 DEF NoTaskOf, NoSockOf
    <3>2. \A e \in Clients : cl'[e].at = "off" => NoTaskOf(e)' /\ NoSockOf(e)' /\ \A i \in 1..Len(backlog) : backlog[i] # e
      BY <1>0, <2>5 DEF FreshInv
    <3>3. \A i \in 1..Len(backlog) : \A j \in 1..Len(backlog) : backlog[i] = backlog[j] => i = j
      BY <1>0 DEF FreshInv
    <3> QED
      BY <1>8, <3>1, <3>2, <3>3 DEF FreshInv
  <2> QED
    BY <2>3, <2>4, <2>6 DEF AskInv
<1>9. ASSUME NEW d \in Fds, MessageEof(d) PROVE AskInv'
  <2>1. sock[d] \in Clients
    BY <1>0, <1>9 DEF MessageEof
  <2>2. loop.at = "wait" /\ loop' = loop /\ Close(d) /\ UNCHANGED <<que, wk, backlog, down>>
    BY <1>9 DEF MessageEof, queueVars
  <2> QED
    BY <1>8, <2>1, <2>2
<1>10. CASE MisreadEof
  <2>1. loop.fd \in Fds /\ sock[loop.fd] \in Clients /\ loop.at = "captured"
    BY <1>0, <1>10 DEF MisreadEof, Types, LoopTypes
  <2>2. loop'.at = "wait" \/ (loop'.at = "enque" /\ loop'.task.cmd = "none" /\ loop'.task.by = sock[loop.fd])
    BY <1>10 DEF MisreadEof, At, Task
  <2>3. Close(loop.fd) /\ UNCHANGED <<que, wk, backlog, down>>
    BY <1>10 DEF MisreadEof, queueVars
  <2> QED
    BY <1>8, <2>1, <2>2, <2>3
<1>11. ASSUME \A t \in TaskType : InFlight(t)' => InFlight(t), UNCHANGED <<orphan, sock, backlog, down>>, loop'.at # "login"
       PROVE  AskInv'
  <2>1. OwnInv' /\ FreshInv'
    BY <1>0, <1>11, AskFrame
  <2>2. AnswerToAsker'
    BY <1>0, <1>11 DEF AnswerToAsker
  <2> QED
    BY <2>1, <2>2 DEF AskInv
<1>12. CASE taskEnque
  <2>1. que \in Seq(TaskType) /\ loop.task \in TaskType
    BY <1>12 DEF taskEnque, Types, QueueTypes, LoopTypes
  <2>2. \A i \in 1..Len(que') : que'[i] = loop.task \/ (i \in 1..Len(que) /\ que'[i] = que[i])
    <3>1. que' = Append(que, loop.task)
      BY <1>12 DEF taskEnque
    <3> QED
      BY <2>1, <3>1
  <2>3. \A t \in TaskType : InFlight(t)' => InFlight(t)
    BY <1>12, <2>2 DEF taskEnque, InFlight, Holding, At
  <2> QED
    BY <1>11, <1>12, <2>3 DEF taskEnque, netVars, At
<1>13. ASSUME NEW W \in SUBSET Asleep, Wake(W), UNCHANGED que, loop'.at \notin {"login", "enque"},
              UNCHANGED <<orphan, sock, backlog, down>>
       PROVE  AskInv'
  <2>1. \A w \in Workers : wk'[w] = IF w \in W THEN Worker("lock", NULL, 0) ELSE wk[w]
    BY <1>13 DEF Wake
  <2>2. \A t \in TaskType : InFlight(t)' => InFlight(t)
    BY <1>13, <2>1 DEF InFlight, Holding, Worker
  <2> QED
    BY <1>11, <1>13, <2>2
<1>14. CASE EnqueSignal
  <2>1. (UNCHANGED wk) \/ \E W \in SUBSET Asleep : Wake(W)
    BY <1>14 DEF EnqueSignal
  <2> QED
    BY <1>5, <1>13, <1>14, <2>1 DEF EnqueSignal, At, netVars
<1>15. CASE Broadcast
  <2>1. Asleep \in SUBSET Asleep
    OBVIOUS
  <2> QED
    BY <1>13, <1>15, <2>1 DEF Broadcast, At, netVars
<1> QED
  BY <1>1, <1>2, <1>3, <1>4, <1>6, <1>7, <1>9, <1>10, <1>12, <1>14, <1>15 DEF Loop

\* What the threads of the pool leave alone.
LEMMA ThreadLeaves ==
    ASSUME NEW w \in Workers, Thread(w) \/ SigPipe(w)
    PROVE  /\ UNCHANGED <<sock, backlog, orphan, cl, disk>> /\ (loop' = loop \/ loop' = At("killed"))
           /\ crossed \subseteq crossed'
<1> USE DEF poolFrame, taskFrame, netVars, clientVars, queueVars
<1>1. CASE DequeTest(w)
  BY <1>1 DEF DequeTest
<1>2. CASE DequeSleep(w)
  BY <1>2 DEF DequeSleep
<1>3. CASE DequeTake(w)
  BY <1>3 DEF DequeTake
<1>4. CASE DequeStop(w)
  BY <1>4 DEF DequeStop
<1>5. CASE Report(w)
  BY <1>5 DEF Report
<1>6. CASE Mkdir(w)
  BY <1>6 DEF Mkdir
<1>7. CASE Rmdir(w)
  BY <1>7 DEF Rmdir
<1>8. CASE GetsOpen(w)
  BY <1>8 DEF GetsOpen
<1>9. CASE GetsOffset(w)
  BY <1>9 DEF GetsOffset
<1>10. CASE GetsSend(w)
  BY <1>10 DEF GetsSend
<1>11. CASE SigPipe(w)
  BY <1>11 DEF SigPipe
<1> QED
  BY <1>1, <1>2, <1>3, <1>4, <1>5, <1>6, <1>7, <1>8, <1>9, <1>10, <1>11 DEF Thread

LEMMA ThreadAskNext ==
    ASSUME Types, AskInv, NEW w \in Workers, Thread(w) \/ SigPipe(w) PROVE AskInv'
<1>0. /\ DownTypes /\ OwnInv /\ FreshInv /\ AnswerToAsker /\ wk \in [Workers -> WorkerType] /\ que \in Seq(TaskType)
  BY DEF Types, AskInv, QueueTypes
<1>1. (UNCHANGED <<sock, backlog, orphan, cl>> /\ loop'.at # "login") \/ UNCHANGED <<sock, backlog, orphan, cl, loop>>
  BY ThreadLeaves DEF At
<1>2. \A t \in TaskType : InFlight(t)' => InFlight(t)
  <2>1. ASSUME NEW x, wk' = [wk EXCEPT ![w] = x], x.at \in {"run", "offset", "send"} => Holding(w) /\ x.task = wk[w].task,
               UNCHANGED <<loop, que>>
        PROVE  \A t \in TaskType : InFlight(t)' => InFlight(t)
    <3>1. wk'[w] = x /\ \A v \in Workers : v # w => wk'[v] = wk[v]
      BY <1>0, <2>1
    <3> QED
      BY <2>1, <3>1 DEF InFlight, Holding
  <2>2. CASE DequeTake(w)
    <3>1. que # <<>> /\ que' = Tail(que) /\ wk' = [wk EXCEPT ![w] = Worker("run", que[1], 0)] /\ loop' = loop
      BY <2>2 DEF DequeTake
    <3>2. 1 \in 1..Len(que) /\ \A i \in 1..Len(que') : i + 1 \in 1..Len(que) /\ que'[i] = que[i + 1]
      BY <1>0, <3>1
    <3>3. wk'[w] = Worker("run", que[1], 0) /\ \A v \in Workers : v # w => wk'[v] = wk[v]
      BY <1>0, <3>1
    <3> QED
      BY <3>1, <3>2, <3>3 DEF InFlight, Holding, Worker
  <2>3. CASE DequeTest(w) \/ DequeSleep(w) \/ DequeStop(w)
    <3>1. PICK a \in {"tested", "asleep", "gone"} : wk' = [wk EXCEPT ![w].at = a]
      BY <2>3 DEF DequeTest, DequeSleep, DequeStop
    <3>2. UNCHANGED <<loop, que>>
      BY <2>3 DEF DequeTest, DequeSleep, DequeStop, poolFrame
    <3>3. wk' = [wk EXCEPT ![w] = [wk[w] EXCEPT !.at = a]] /\ [wk[w] EXCEPT !.at = a].at = a
      BY <1>0, <3>1 DEF WorkerType
    <3> QED
      BY <2>1, <3>2, <3>3
  <2>4. ASSUME Done(w), UNCHANGED <<loop, que>> PROVE \A t \in TaskType : InFlight(t)' => InFlight(t)
    <3>1. Worker("lock", NULL, 0).at = "lock"
      BY DEF Worker
    <3> QED
      BY <2>1, <2>4, <3>1 DEF Done
  <2>5. ASSUME Holding(w), NEW a \in {"offset", "send"}, NEW p, UNCHANGED <<loop, que>>,
               \/ wk' = [wk EXCEPT ![w].at = a]
               \/ wk' = [wk EXCEPT ![w].at = a, ![w].pos = p]
               \/ wk' = [wk EXCEPT ![w].pos = p]
        PROVE  \A t \in TaskType : InFlight(t)' => InFlight(t)
    <3>1. PICK x : wk' = [wk EXCEPT ![w] = x] /\ x.task = wk[w].task
      <4>1. CASE wk' = [wk EXCEPT ![w].at = a]
        <5> WITNESS [wk[w] EXCEPT !.at = a]
        <5> QED
          BY <1>0, <4>1 DEF WorkerType
      <4>2. CASE wk' = [wk EXCEPT ![w].at = a, ![w].pos = p]
        <5> WITNESS [wk[w] EXCEPT !.at = a, !.pos = p]
        <5> QED
          BY <1>0, <4>2 DEF WorkerType
      <4>3. CASE wk' = [wk EXCEPT ![w].pos = p]
        <5> WITNESS [wk[w] EXCEPT !.pos = p]
        <5> QED
          BY <1>0, <4>3 DEF WorkerType
      <4> QED
        BY <2>5, <4>1, <4>2, <4>3
    <3> QED
      BY <2>1, <2>5, <3>1
  <2>6. CASE Report(w) \/ Mkdir(w) \/ Rmdir(w)
    BY <2>4, <2>6 DEF Report, Mkdir, Rmdir, taskFrame
  <2>7. CASE GetsOpen(w)
    BY <2>4, <2>5, <2>7 DEF GetsOpen, taskFrame, Holding
  <2>8. CASE GetsOffset(w)
    <3>1. Done(w) \/ \E p : wk' = [wk EXCEPT ![w].at = "send", ![w].pos = p]
      BY <2>8 DEF GetsOffset
    <3>2. Holding(w) /\ UNCHANGED <<loop, que>>
      BY <2>8 DEF GetsOffset, Holding, taskFrame
    <3> QED
      BY <2>4, <2>5, <3>1, <3>2
  <2>9. CASE GetsSend(w)
    <3>1. Done(w) \/ \E p : wk' = [wk EXCEPT ![w].pos = p]
      BY <2>9 DEF GetsSend
    <3>2. Holding(w) /\ UNCHANGED <<loop, que>>
      BY <2>9 DEF GetsSend, Holding, taskFrame
    <3> QED
      BY <2>4, <2>5, <3>1, <3>2
  <2>10. CASE SigPipe(w)
    BY <2>10 DEF SigPipe, queueVars, InFlight, Holding, At
  <2> QED
    BY <2>2, <2>3, <2>6, <2>7, <2>8, <2>9, <2>10 DEF Thread
<1>3. OwnInv' /\ FreshInv'
  BY <1>0, <1>1, <1>2, AskFrame
<1>4. UNCHANGED down => AnswerToAsker'
  BY <1>0, <1>1 DEF AnswerToAsker
<1>5. ASSUME NEW ws \in Seq(Sent), Holding(w), wk[w].task.cmd # "none",
             Send(wk[w].task.fd, ws, wk[w].task.by)
      PROVE  AnswerToAsker'
  <2>1. wk[w].task \in TaskType /\ wk[w].task.by \in Clients
    BY <1>5 DEF Types, QueueTypes, TaskType
  <2>2. InFlight(wk[w].task)
    BY <1>5 DEF InFlight
  <2>3. sock[wk[w].task.fd] = wk[w].task.by \/ wk[w].task.by \in orphan
    BY <1>0, <1>5, <2>1, <2>2 DEF OwnInv, OwnTask
  <2> QED
    BY <1>0, <1>1, <1>5, <2>1, <2>3, AnswerSent
<1>6. AnswerToAsker'
  <2>1. CASE Report(w) \/ Mkdir(w) \/ Rmdir(w)
    <3>1. /\ <<Word("reply", 0)>> \in Seq(Sent) /\ <<Word("reply", 1)>> \in Seq(Sent)
          /\ <<Word("reply", 0), Word("reply", 0)>> \in Seq(Sent)
      BY WordsTyped
    <3>2. UNCHANGED down \/ (wk[w].task.cmd # "none" /\ \E ws \in Seq(Sent) : Send(wk[w].task.fd, ws, wk[w].task.by))
      BY <2>1, <3>1 DEF Report, Mkdir, Rmdir
    <3>3. Holding(w)
      BY <2>1 DEF Report, Mkdir, Rmdir, Holding
    <3> QED
      BY <1>4, <1>5, <3>2, <3>3
  <2>2. CASE GetsOpen(w)
    <3> DEFINE n == IF wk[w].task.file \in Files THEN Size[wk[w].task.file] ELSE 0
    <3>1. n \in Nat
      BY CloudAssumption
    <3>2. Holding(w) /\ wk[w].task.cmd # "none" /\ Send(wk[w].task.fd, <<Word("length", n)>>, wk[w].task.by)
      BY <2>2 DEF GetsOpen, Holding
    <3> HIDE DEF n
    <3>3. <<Word("length", n)>> \in Seq(Sent)
      BY <3>1, WordsTyped
    <3> QED
      BY <1>5, <3>2, <3>3
  <2>3. CASE GetsSend(w)
    <3> DEFINE t == wk[w].task
               p == wk[w].pos
    <3>1. wk[w].at = "send" /\ Holding(w) /\ p \in Nat
      BY <1>0, <2>3 DEF GetsSend, Holding, WorkerType
    <3>2. wk[w].task.cmd # "none"
      BY <3>1 DEF Types, QueueTypes, IsGets
    <3>3. \/ UNCHANGED down
          \/ Send(t.fd, <<Word("whole", 0)>>, t.by)
          \/ Send(t.fd, <<Word("buff", p + 1)>>, t.by)
      BY <2>3 DEF GetsSend
    <3>4. <<Word("whole", 0)>> \in Seq(Sent)
      BY WordsTyped
    <3>5. <<Word("buff", p + 1)>> \in Seq(Sent)
      <4> HIDE DEF p
      <4>1. p + 1 \in Nat
        BY <3>1
      <4> QED
        BY <4>1, WordsTyped
    <3> QED
      BY <1>4, <1>5, <3>1, <3>2, <3>3, <3>4, <3>5
  <2>4. CASE UNCHANGED down
    BY <1>4, <2>4
  <2> QED
    BY <2>1, <2>2, <2>3, <2>4 DEF Thread, SigPipe, DequeTest, DequeSleep, DequeTake, DequeStop, GetsOffset, poolFrame
<1> QED
  BY <1>3, <1>6 DEF AskInv

LEMMA AskNext == Types /\ AskInv /\ [Next]_vars => AskInv'
<1> SUFFICES ASSUME Types, AskInv, [Next]_vars PROVE AskInv'
  OBVIOUS
<1>1. CASE UNCHANGED vars
  <2>1. \A t \in TaskType : InFlight(t)' => InFlight(t)
    BY <1>1 DEF vars, InFlight, Holding
  <2>2. OwnInv' /\ FreshInv'
    BY <1>1, <2>1, AskFrame DEF vars, AskInv
  <2> QED
    BY <1>1, <2>2 DEF vars, AskInv, AnswerToAsker
<1> QED
  BY <1>1, ClientAskNext, LoopAskNext, ThreadAskNext DEF Next

\* What a client receives answers its own commands, unless the event loop closed its
\* descriptor while one of its tasks was pending, however many clients and descriptors
\* there are and however long the server runs.
THEOREM AnswersToAsker == Spec => []AnswerToAsker
<1>1. Types /\ AskInv /\ [Next]_vars => AskInv'
  BY AskNext
<1>2. AskInv => AnswerToAsker
  BY DEF AskInv
<1> QED
  BY <1>1, <1>2, InitAsk, SpecTypes, PTL DEF Spec

-----------------------------------------------------------------------------
(* Downloads, as long as the words of each client reached the reader they were for *)

Clean == orphan = {} /\ crossed = {}

Small(f)     == Size[f] <= BigSize
LengthOf(f)  == IF f \in Files THEN Size[f] ELSE 0
Kept(c)      == disk[UserOf[c]][cl[c].file]

NoOff(c)     == \A i \in DOMAIN up[c] : up[c][i].k # "off"
NoLength(c)  == \A i \in DOMAIN down[c] : down[c][i].k # "length"
NoData(c)    == \A i \in DOMAIN down[c] : down[c][i].k \notin {"buff", "whole"}

\* A worker that has something left to send to c.
Sender(w, c) == /\ wk[w].at = "send" /\ wk[w].task.by = c
                /\ Small(wk[w].task.file) => wk[w].pos < Size[wk[w].task.file]
NoSender(c)  == \A w \in Workers : ~Sender(w, c)
Idle(c)      == NoSender(c) /\ NoData(c)

\* The buffers on their way to c are those after what c has, up to number p, in order.
SentTo(c, p) == /\ Len(Kept(c)) <= p
                /\ \A i \in DOMAIN down[c] : down[c][i].k # "whole"
                /\ \A i \in DOMAIN down[c] : down[c][i].k = "buff" =>
                      /\ Len(Kept(c)) < down[c][i].v /\ down[c][i].v <= p
                      /\ \A j \in DOMAIN down[c] : down[c][j].k = "buff" /\ i < j => down[c][i].v < down[c][j].v
                /\ \A v \in Nat : Len(Kept(c)) < v /\ v <= p =>
                      \E i \in DOMAIN down[c] : down[c][i].k = "buff" /\ down[c][i].v = v

\* A gets of c that no worker has begun: on its way, at the main thread, in the
\* queue, or just taken.
IsAsk(t, c)     == t.cmd = "gets" /\ t.by = c
AskedUp(c, i)   == i \in DOMAIN up[c] /\ up[c][i].k = "body" /\ up[c][i].v = "gets"
AskedLoop(c)    == loop.at = "enque" /\ IsAsk(loop.task, c)
AskedQue(c, i)  == i \in DOMAIN que /\ IsAsk(que[i], c)
AskedRun(c, w)  == wk[w].at = "run" /\ IsAsk(wk[w].task, c)
Asks(c, f)      == cl[c].at = "length" /\ cl[c].file = f /\ NoLength(c)

\* There is one at most; its client waits for the length and sends nothing more.
AskedInv(c) ==
    /\ \A i, j \in DOMAIN up[c] : AskedUp(c, i) /\ AskedUp(c, j) => i = j
    /\ \A i, j \in DOMAIN que : AskedQue(c, i) /\ AskedQue(c, j) => i = j
    /\ \A v, w \in Workers : AskedRun(c, v) /\ AskedRun(c, w) => v = w
    /\ \A i \in DOMAIN up[c] : AskedUp(c, i) =>
          /\ i = Len(up[c]) /\ Asks(c, up[c][i].file)
          /\ ~AskedLoop(c) /\ (\A j \in DOMAIN que : ~AskedQue(c, j)) /\ \A w \in Workers : ~AskedRun(c, w)
    /\ AskedLoop(c) =>
          /\ Asks(c, loop.task.file) /\ up[c] = <<>>
          /\ (\A j \in DOMAIN que : ~AskedQue(c, j)) /\ \A w \in Workers : ~AskedRun(c, w)
    /\ \A j \in DOMAIN que : AskedQue(c, j) =>
          Asks(c, que[j].file) /\ up[c] = <<>> /\ \A w \in Workers : ~AskedRun(c, w)
    /\ \A w \in Workers : AskedRun(c, w) => Asks(c, wk[w].task.file) /\ up[c] = <<>>

Waits(w, c) == wk[w].at = "offset" /\ wk[w].task.by = c

\* One length is on its way at most; its worker waits for the offset.
LengthInv(c) ==
    \A i \in DOMAIN down[c] : down[c][i].k = "length" =>
        /\ cl[c].at = "length" /\ up[c] = <<>>
        /\ \A j \in DOMAIN down[c] : down[c][j].k = "length" => i = j
        /\ down[c][i].v = LengthOf(cl[c].file)
        /\ cl[c].file \in Files => \E w \in Workers : Waits(w, c) /\ wk[w].task.file = cl[c].file

\* An offset is the first word on its way, and its worker waits for it.
OffInv(c) ==
    \A i \in DOMAIN up[c] : up[c][i].k = "off" =>
        /\ i = 1
        /\ \E w \in Workers :
              /\ Waits(w, c)
              /\ \/ /\ cl[c].at = "data" /\ cl[c].file = wk[w].task.file /\ Idle(c)
                    /\ Small(cl[c].file) => up[c][i].v = Len(Kept(c))
                 \/ Small(wk[w].task.file) /\ up[c][i].v >= Size[wk[w].task.file]

\* What is on its way when nothing is left to send: the rest of a small file, or
\* a big one in one piece.
AllSent(c) == IF Small(cl[c].file) THEN SentTo(c, Size[cl[c].file])
              ELSE \A i, j \in DOMAIN down[c] :
                      down[c][i].k \in {"buff", "whole"} /\ down[c][j].k \in {"buff", "whole"} => i = j

SendInv(c) ==
    \/ Idle(c)
    \/ /\ cl[c].at = "data"
       /\ \/ NoSender(c) /\ AllSent(c)
          \/ \E w \in Workers : /\ Sender(w, c) /\ wk[w].task.file = cl[c].file
                                /\ IF Small(cl[c].file) THEN SentTo(c, wk[w].pos) ELSE NoData(c)
                                /\ \A v \in Workers : Sender(v, c) => v = w

GotInv(c) ==
    /\ cl[c].got # NULL => /\ cl[c].at = "ready" /\ cl[c].got \in Files
                           /\ disk[UserOf[c]][cl[c].got] = Whole(cl[c].got)
    /\ cl[c].at = "data" => /\ cl[c].file \in Files /\ cl[c].len = Size[cl[c].file]
                            /\ Small(cl[c].file) => Len(Kept(c)) < Size[cl[c].file]

ClientInv(c) == AskedInv(c) /\ LengthInv(c) /\ OffInv(c) /\ SendInv(c) /\ GotInv(c)

\* What is on disk of a small file is a first part of it.
DiskInv == \A u \in Users : \A f \in Files : Small(f) =>
              /\ Len(disk[u][f]) <= Size[f]
              /\ \A i \in 1..Len(disk[u][f]) : disk[u][f][i] = i

Alive(c) == cl[c].at \notin {"off", "dead"}

\* One client of a user at a time, one descriptor of a client, no misread message, and
\* nothing said by a client that has ended.
OneInv == /\ \A c, d \in Clients : UserOf[c] = UserOf[d] /\ Alive(c) /\ Alive(d) => c = d
          /\ \A d, e \in Fds : sock[d] = sock[e] /\ sock[d] # NULL => d = e
          /\ loop.at = "captured" => crossed # {}
          /\ \A c \in Clients : Dead(c) => cl[c].got = NULL

DownInv == OneInv /\ (Clean => DiskInv /\ \A c \in Clients : ~Dead(c) => ClientInv(c))

LEMMA InitDown == Init => DownInv
<1> SUFFICES ASSUME Init PROVE DownInv
  OBVIOUS
<1>1. /\ \A c \in Clients : /\ up[c] = <<>> /\ down[c] = <<>>
                            /\ cl[c].at = "off" /\ cl[c].got = NULL
      /\ loop.at = "wait" /\ que = <<>> /\ \A w \in Workers : wk[w].at = "lock"
  BY DEF Init, Client, At, Worker
<1>2. OneInv
  BY <1>1 DEF Init, OneInv, Alive, Dead
<1>3. DiskInv
  <2>1. \A u \in Users : \A f \in Files : disk[u][f] = <<>>
    BY DEF Init, Names
  <2> QED
    BY <2>1, CloudAssumption DEF DiskInv
<1>4. ASSUME NEW c \in Clients PROVE ClientInv(c)
  <2>1. DOMAIN up[c] = {} /\ DOMAIN down[c] = {} /\ DOMAIN que = {}
    BY <1>1
  <2>2. AskedInv(c) /\ LengthInv(c) /\ OffInv(c) /\ GotInv(c)
    BY <1>1, <2>1 DEF AskedInv, LengthInv, OffInv, GotInv, AskedLoop, AskedRun
  <2>3. SendInv(c)
    BY <1>1, <2>1 DEF SendInv, Idle, NoSender, NoData, Sender
  <2> QED
    BY <2>2, <2>3 DEF ClientInv
<1> QED
  BY <1>2, <1>3, <1>4 DEF DownInv

\* What a step may do to a client without touching its downloads: words that matter
\* to nobody's download come and go, other tasks move.
UpKept(c, s)   == \A i \in DOMAIN up'[c] : up'[c][i].k = "off" \/ (up'[c][i].k = "body" /\ up'[c][i].v = "gets") =>
                     i + s \in DOMAIN up[c] /\ up'[c][i] = up[c][i + s]
LenKept(c, s)  == cl[c].at = "length" => Len(up'[c]) + s = Len(up[c])
DownKept(c, m) == /\ \A i \in DOMAIN down'[c] : down'[c][i].k \in {"length", "buff", "whole"} =>
                        i + m \in DOMAIN down[c] /\ down'[c][i] = down[c][i + m]
                  /\ \A j \in DOMAIN down[c] : down[c][j].k \in {"length", "buff", "whole"} =>
                        \E i \in DOMAIN down'[c] : i + m = j /\ down'[c][i] = down[c][j]
QueKept(c, q)  == \A i \in DOMAIN que' : IsAsk(que'[i], c) => i + q \in DOMAIN que /\ que'[i] = que[i + q]
LoopKept(c)    == loop'.at = "enque" /\ IsAsk(loop'.task, c) => AskedLoop(c) /\ loop'.task = loop.task
Key(w, c)      == AskedRun(c, w) \/ Waits(w, c) \/ Sender(w, c)
WkKept(c)      == \A w \in Workers : wk'[w] = wk[w] \/ (~Key(w, c) /\ ~Key(w, c)')
ClKept(c)      == \/ cl'[c] = cl[c]
                  \/ /\ cl[c].at \notin {"length", "data"} /\ cl'[c].at \notin {"length", "data"}
                     /\ cl'[c].got = NULL
DiskKept(c)    == disk'[UserOf[c]] = disk[UserOf[c]] \/ (cl[c].at = "off" /\ cl'[c] = cl[c])

LEMMA KeepClient ==
    ASSUME Types, Types', NEW c \in Clients, ClientInv(c), NEW s \in Nat, NEW m \in Nat, NEW q \in Nat,
           UpKept(c, s), LenKept(c, s), s = 0 \/ NoOff(c), DownKept(c, m), QueKept(c, q), LoopKept(c), WkKept(c),
           ClKept(c), DiskKept(c)
    PROVE  ClientInv(c)'
<1>0. /\ DOMAIN up[c] \subseteq Nat /\ DOMAIN up'[c] \subseteq Nat /\ DOMAIN down[c] \subseteq Nat /\ DOMAIN down'[c] \subseteq Nat
      /\ DOMAIN que \subseteq Nat /\ DOMAIN que' \subseteq Nat
  <2>1. /\ up[c] \in Seq(UpWord) /\ up'[c] \in Seq(UpWord) /\ down[c] \in Seq(DownWord) /\ down'[c] \in Seq(DownWord)
        /\ que \in Seq(TaskType) /\ que' \in Seq(TaskType)
    BY DEF Types, UpTypes, DownTypes, QueueTypes
  <2> QED
    BY <2>1, SMTT(30)
<1>1. (NoLength(c) => NoLength(c)') /\ (NoData(c) => NoData(c)')
  BY DEF NoLength, NoData, DownKept
<1>2. \A f : Asks(c, f) => Asks(c, f)'
  BY <1>1 DEF Asks, ClKept
<1>3. \A w \in Workers : /\ AskedRun(c, w)' => AskedRun(c, w) /\ wk'[w] = wk[w]
                         /\ Waits(w, c) => Waits(w, c)' /\ wk'[w] = wk[w]
                         /\ Sender(w, c)' => Sender(w, c) /\ wk'[w] = wk[w]
                         /\ Sender(w, c) => Sender(w, c)' /\ wk'[w] = wk[w]
  BY DEF WkKept, Key, AskedRun, Waits, Sender
<1>4. \A i \in DOMAIN up'[c] : AskedUp(c, i)' => AskedUp(c, i + s) /\ i + s \in DOMAIN up[c] /\ up'[c][i] = up[c][i + s]
  BY DEF AskedUp, UpKept
<1>5. \A i \in DOMAIN que' : AskedQue(c, i)' => AskedQue(c, i + q) /\ i + q \in DOMAIN que /\ que'[i] = que[i + q]
  BY DEF AskedQue, QueKept
<1>6. AskedLoop(c)' => AskedLoop(c) /\ loop'.task = loop.task
  BY DEF AskedLoop, LoopKept
<1>7. \A i, j \in Nat : (i + s = j + s => i = j) /\ (i + q = j + q => i = j) /\ (i + m = j + m => i = j)
                        /\ (i < j => i + m < j + m)
  OBVIOUS
<1>8. cl[c].at = "length" /\ up[c] = <<>> => up'[c] = <<>>
  <2> HAVE cl[c].at = "length" /\ up[c] = <<>>
  <2>1. up'[c] \in Seq(UpWord) /\ Len(up[c]) = 0
    BY DEF Types, UpTypes
  <2>2. Len(up'[c]) = 0
    BY <2>1 DEF LenKept
  <2> QED
    BY <2>1, <2>2
<1>9. \A f : Asks(c, f) => cl[c].at = "length"
  BY DEF Asks
<1>10. AskedInv(c)'
  <2>1. \A i, j \in DOMAIN up'[c] : AskedUp(c, i)' /\ AskedUp(c, j)' => i = j
    BY <1>0, <1>4, <1>7 DEF ClientInv, AskedInv
  <2>2. \A i, j \in DOMAIN que' : AskedQue(c, i)' /\ AskedQue(c, j)' => i = j
    BY <1>0, <1>5, <1>7 DEF ClientInv, AskedInv
  <2>3. \A v, w \in Workers : AskedRun(c, v)' /\ AskedRun(c, w)' => v = w
    BY <1>3 DEF ClientInv, AskedInv
  <2>4. ASSUME NEW i \in DOMAIN up'[c], AskedUp(c, i)'
        PROVE  /\ i = Len(up'[c]) /\ Asks(c, up[c][i].file)'
               /\ ~AskedLoop(c)' /\ (\A j \in DOMAIN que' : ~AskedQue(c, j)') /\ \A w \in Workers : ~AskedRun(c, w)'
    <3>1. AskedUp(c, i + s) /\ i + s \in DOMAIN up[c] /\ up'[c][i] = up[c][i + s]
      BY <1>4, <2>4
    <3>2. /\ i + s = Len(up[c]) /\ Asks(c, up[c][i + s].file)
          /\ ~AskedLoop(c) /\ (\A j \in DOMAIN que : ~AskedQue(c, j)) /\ \A w \in Workers : ~AskedRun(c, w)
      BY <3>1 DEF ClientInv, AskedInv
    <3>3. PICK f : f = up[c][i + s].file
      OBVIOUS
    <3>4. Asks(c, f)'
      BY <1>2, <3>2, <3>3
    <3>5. Asks(c, up[c][i].file)'
      BY <3>1, <3>3, <3>4 DEF Asks
    <3>6. i = Len(up'[c])
      <4>1. up'[c] \in Seq(UpWord) /\ i \in Nat
        BY <1>0 DEF Types, UpTypes
      <4>2. Len(up'[c]) \in Nat
        BY <4>1
      <4> QED
        BY <1>7, <1>9, <3>2, <4>1, <4>2 DEF LenKept
    <3> QED
      BY <1>3, <1>5, <1>6, <3>2, <3>5, <3>6
  <2>5. ASSUME AskedLoop(c)'
        PROVE  /\ Asks(c, loop.task.file)' /\ up'[c] = <<>>
               /\ (\A j \in DOMAIN que' : ~AskedQue(c, j)') /\ \A w \in Workers : ~AskedRun(c, w)'
    <3>1. /\ AskedLoop(c) /\ loop'.task = loop.task /\ Asks(c, loop.task.file) /\ up[c] = <<>>
          /\ (\A j \in DOMAIN que : ~AskedQue(c, j)) /\ \A w \in Workers : ~AskedRun(c, w)
      BY <1>6, <2>5 DEF ClientInv, AskedInv
    <3>2. PICK f : f = loop.task.file
      OBVIOUS
    <3>3. Asks(c, f)'
      BY <1>2, <3>1, <3>2
    <3>4. Asks(c, loop.task.file)'
      BY <3>1, <3>2, <3>3 DEF Asks
    <3> QED
      BY <1>3, <1>5, <1>8, <1>9, <3>1, <3>4
  <2>6. ASSUME NEW j \in DOMAIN que', AskedQue(c, j)'
        PROVE  Asks(c, que[j].file)' /\ up'[c] = <<>> /\ \A w \in Workers : ~AskedRun(c, w)'
    <3>1. AskedQue(c, j + q) /\ j + q \in DOMAIN que /\ que'[j] = que[j + q]
      BY <1>5, <2>6
    <3>2. Asks(c, que[j + q].file) /\ up[c] = <<>> /\ \A w \in Workers : ~AskedRun(c, w)
      BY <3>1 DEF ClientInv, AskedInv
    <3>3. PICK f : f = que[j + q].file
      OBVIOUS
    <3>4. Asks(c, f)'
      BY <1>2, <3>2, <3>3
    <3>5. Asks(c, que[j].file)'
      BY <3>1, <3>3, <3>4 DEF Asks
    <3> QED
      BY <1>3, <1>8, <1>9, <3>2, <3>5
  <2>7. ASSUME NEW w \in Workers, AskedRun(c, w)' PROVE Asks(c, wk[w].task.file)' /\ up'[c] = <<>>
    <3>1. AskedRun(c, w) /\ wk'[w] = wk[w] /\ Asks(c, wk[w].task.file) /\ up[c] = <<>>
      BY <1>3, <2>7 DEF ClientInv, AskedInv
    <3>2. PICK f : f = wk[w].task.file
      OBVIOUS
    <3>3. Asks(c, f)'
      BY <1>2, <3>1, <3>2
    <3>4. Asks(c, wk[w].task.file)'
      BY <3>1, <3>2, <3>3 DEF Asks
    <3> QED
      BY <1>8, <1>9, <3>1, <3>4
  <2> QED
    BY <2>1, <2>2, <2>3, <2>4, <2>5, <2>6, <2>7 DEF AskedInv
<1>11. LengthInv(c)'
  <2> SUFFICES ASSUME NEW i \in DOMAIN down'[c], down'[c][i].k = "length"
               PROVE  /\ cl'[c].at = "length" /\ up'[c] = <<>>
                      /\ \A j \in DOMAIN down'[c] : down'[c][j].k = "length" => i = j
                      /\ down'[c][i].v = LengthOf(cl'[c].file)
                      /\ cl'[c].file \in Files => \E w \in Workers : Waits(w, c)' /\ wk'[w].task.file = cl'[c].file
    BY DEF LengthInv, LengthOf
  <2>1. i + m \in DOMAIN down[c] /\ down'[c][i] = down[c][i + m]
    BY DEF DownKept
  <2>2. /\ cl[c].at = "length" /\ up[c] = <<>>
        /\ \A j \in DOMAIN down[c] : down[c][j].k = "length" => i + m = j
        /\ down[c][i + m].v = LengthOf(cl[c].file)
        /\ cl[c].file \in Files => \E w \in Workers : Waits(w, c) /\ wk[w].task.file = cl[c].file
    BY <2>1 DEF ClientInv, LengthInv
  <2>3. cl'[c] = cl[c]
    BY <2>2 DEF ClKept
  <2>4. \A j \in DOMAIN down'[c] : down'[c][j].k = "length" => i = j
    <3> SUFFICES ASSUME NEW j \in DOMAIN down'[c], down'[c][j].k = "length" PROVE i = j
      OBVIOUS
    <3>1. j + m \in DOMAIN down[c] /\ down[c][j + m].k = "length"
      BY DEF DownKept
    <3> QED
      BY <1>0, <1>7, <2>2, <3>1
  <2> QED
    BY <1>8, <1>3, <2>1, <2>2, <2>3, <2>4
<1>12. cl[c].at = "data" => cl'[c] = cl[c] /\ Kept(c)' = Kept(c)
  BY DEF ClKept, DiskKept, Kept
<1>13. Idle(c) => Idle(c)'
  BY <1>1, <1>3 DEF Idle, NoSender
<1>14. OffInv(c)'
  <2> SUFFICES ASSUME NEW i \in DOMAIN up'[c], up'[c][i].k = "off"
               PROVE  /\ i = 1
                      /\ \E w \in Workers :
                            /\ Waits(w, c)'
                            /\ \/ /\ cl'[c].at = "data" /\ cl'[c].file = wk'[w].task.file /\ Idle(c)'
                                  /\ Small(cl'[c].file) => up'[c][i].v = Len(Kept(c)')
                               \/ Small(wk'[w].task.file) /\ up'[c][i].v >= Size[wk'[w].task.file]
    BY DEF OffInv, Small
  <2>1. i + s \in DOMAIN up[c] /\ up'[c][i] = up[c][i + s]
    BY DEF UpKept
  <2>2. s = 0 /\ i \in DOMAIN up[c] /\ up'[c][i] = up[c][i]
    <3>1. s = 0
      BY <2>1 DEF NoOff
    <3> QED
      BY <1>0, <2>1, <3>1
  <2>3. i = 1
    BY <2>2 DEF ClientInv, OffInv
  <2>4. PICK w \in Workers :
              /\ Waits(w, c)
              /\ \/ /\ cl[c].at = "data" /\ cl[c].file = wk[w].task.file /\ Idle(c)
                    /\ Small(cl[c].file) => up[c][i].v = Len(Kept(c))
                 \/ Small(wk[w].task.file) /\ up[c][i].v >= Size[wk[w].task.file]
    BY <2>2 DEF ClientInv, OffInv
  <2>5. Waits(w, c)' /\ wk'[w] = wk[w]
    BY <1>3, <2>4
  <2> QED
    BY <1>12, <1>13, <2>2, <2>3, <2>4, <2>5
<1>15. ASSUME NEW p, cl[c].at = "data", SentTo(c, p) PROVE SentTo(c, p)'
  <2>1. Kept(c)' = Kept(c)
    BY <1>12, <1>15
  <2> DEFINE k == Len(Kept(c))
  <2>2. \A i \in DOMAIN down[c] : down[c][i].k = "buff" =>
           /\ k < down[c][i].v /\ down[c][i].v <= p
           /\ \A j \in DOMAIN down[c] : down[c][j].k = "buff" /\ i < j => down[c][i].v < down[c][j].v
    BY <1>15 DEF SentTo
  <2>3. \A i \in DOMAIN down'[c] : down'[c][i].k \in {"buff", "whole"} => i + m \in DOMAIN down[c] /\ down'[c][i] = down[c][i + m]
    BY DEF DownKept
  <2>4. \A v \in Nat : k < v /\ v <= p => \E i \in DOMAIN down[c] : down[c][i].k = "buff" /\ down[c][i].v = v
    BY <1>15 DEF SentTo
  <2>5. \A v \in Nat : k < v /\ v <= p => \E i \in DOMAIN down'[c] : down'[c][i].k = "buff" /\ down'[c][i].v = v
    BY <2>4 DEF DownKept
  <2>6. k <= p /\ \A i \in DOMAIN down[c] : down[c][i].k # "whole"
    BY <1>15 DEF SentTo
  <2> HIDE DEF k
  <2>7. \A i \in DOMAIN down'[c] : down'[c][i].k = "buff" =>
           /\ k < down'[c][i].v /\ down'[c][i].v <= p
           /\ \A j \in DOMAIN down'[c] : down'[c][j].k = "buff" /\ i < j => down'[c][i].v < down'[c][j].v
    BY <1>0, <1>7, <2>2, <2>3
  <2>8. \A i \in DOMAIN down'[c] : down'[c][i].k # "whole"
    BY <2>3, <2>6
  <2>9. Len(Kept(c)') = k
    BY <2>1 DEF k
  <2> QED
    BY <2>5, <2>6, <2>7, <2>8, <2>9 DEF SentTo
<1>16. SendInv(c)'
  <2>1. CASE Idle(c)
    BY <1>13, <2>1 DEF SendInv
  <2>2. CASE ~Idle(c)
    <3>1. cl[c].at = "data" /\ cl'[c] = cl[c]
      BY <1>12, <2>2 DEF ClientInv, SendInv
    <3>2. CASE NoSender(c) /\ AllSent(c)
      <4>1. NoSender(c)'
        BY <1>3, <3>2 DEF NoSender
      <4>2. CASE Small(cl[c].file)
        <5>1. PICK p : p = Size[cl[c].file]
          OBVIOUS
        <5>2. SentTo(c, p)'
          BY <1>15, <3>1, <3>2, <4>2, <5>1 DEF AllSent
        <5>3. SentTo(c, Size[cl[c].file])'
          BY <3>1, <5>1, <5>2 DEF SentTo
        <5> QED
          BY <3>1, <4>1, <4>2, <5>3 DEF SendInv, Small, AllSent
      <4>3. CASE ~Small(cl[c].file)
        <5>1. \A i, j \in DOMAIN down'[c] :
                 down'[c][i].k \in {"buff", "whole"} /\ down'[c][j].k \in {"buff", "whole"} => i = j
          <6> SUFFICES ASSUME NEW i \in DOMAIN down'[c], NEW j \in DOMAIN down'[c],
                              down'[c][i].k \in {"buff", "whole"}, down'[c][j].k \in {"buff", "whole"}
                       PROVE  i = j
            OBVIOUS
          <6>1. /\ i + m \in DOMAIN down[c] /\ down'[c][i] = down[c][i + m]
                /\ j + m \in DOMAIN down[c] /\ down'[c][j] = down[c][j + m]
            BY DEF DownKept
          <6>2. i + m = j + m
            BY <3>2, <4>3, <6>1 DEF AllSent
          <6> QED
            BY <1>0, <1>7, <6>2
        <5> QED
          BY <3>1, <4>1, <4>3, <5>1 DEF SendInv, Small, AllSent
      <4> QED
        BY <4>2, <4>3
    <3>3. ASSUME NEW w \in Workers, Sender(w, c), wk[w].task.file = cl[c].file,
                 IF Small(cl[c].file) THEN SentTo(c, wk[w].pos) ELSE NoData(c),
                 \A v \in Workers : Sender(v, c) => v = w
          PROVE  SendInv(c)'
      <4>1. Sender(w, c)' /\ wk'[w] = wk[w] /\ \A v \in Workers : Sender(v, c)' => v = w
        BY <1>3, <3>3
      <4>2. CASE Small(cl[c].file)
        <5>1. PICK p : p = wk[w].pos
          OBVIOUS
        <5>2. SentTo(c, p)'
          BY <1>15, <3>1, <3>3, <4>2, <5>1
        <5>3. SentTo(c, wk[w].pos)'
          BY <4>1, <5>1, <5>2 DEF SentTo
        <5> QED
          BY <3>1, <3>3, <4>1, <4>2, <5>3 DEF SendInv, Small
      <4>3. CASE ~Small(cl[c].file)
        BY <1>1, <3>1, <3>3, <4>1, <4>3 DEF SendInv, Small
      <4> QED
        BY <4>2, <4>3
    <3> QED
      BY <2>2, <3>2, <3>3 DEF ClientInv, SendInv
  <2> QED
    BY <2>1, <2>2
<1>17. GotInv(c)'
  <2>1. CASE cl'[c] = cl[c]
    <3>1. CASE disk'[UserOf[c]] = disk[UserOf[c]]
      BY <2>1, <3>1 DEF ClientInv, GotInv, Kept, Small
    <3>2. CASE cl[c].at = "off"
      BY <2>1, <3>2 DEF ClientInv, GotInv, Kept, Small
    <3> QED
      BY <3>1, <3>2 DEF DiskKept
  <2>2. CASE cl'[c].at \notin {"length", "data"} /\ cl'[c].got = NULL
    BY <2>2 DEF GotInv
  <2> QED
    BY <2>1, <2>2 DEF ClKept
<1> QED
  BY <1>10, <1>11, <1>14, <1>16, <1>17 DEF ClientInv

\* What is left alone is kept.
LEMMA SameKept ==
    ASSUME Types, NEW c \in Clients
    PROVE  /\ up'[c] = up[c] => UpKept(c, 0) /\ LenKept(c, 0)
           /\ down'[c] = down[c] => DownKept(c, 0)
           /\ que' = que => QueKept(c, 0)
           /\ wk' = wk => WkKept(c)
           /\ loop' = loop \/ loop'.at # "enque" => LoopKept(c)
           /\ cl'[c] = cl[c] => ClKept(c)
           /\ disk' = disk => DiskKept(c)
<1>1. DOMAIN up[c] \subseteq Nat /\ DOMAIN down[c] \subseteq Nat /\ DOMAIN que \subseteq Nat
  <2>1. up[c] \in Seq(UpWord) /\ down[c] \in Seq(DownWord) /\ que \in Seq(TaskType)
    BY DEF Types, UpTypes, DownTypes, QueueTypes
  <2> QED
    BY <2>1
<1>2. \A i \in Nat : i + 0 = i
  OBVIOUS
<1>3. up'[c] = up[c] => UpKept(c, 0) /\ LenKept(c, 0)
  <2>1. Len(up[c]) \in Nat
    BY DEF Types, UpTypes
  <2> QED
    BY <1>1, <1>2, <2>1 DEF UpKept, LenKept
<1>4. down'[c] = down[c] => DownKept(c, 0)
  BY <1>1, <1>2 DEF DownKept
<1>5. que' = que => QueKept(c, 0)
  BY <1>1, <1>2 DEF QueKept
<1> QED
  BY <1>3, <1>4, <1>5 DEF WkKept, LoopKept, AskedLoop, ClKept, DiskKept

\* A client whose first word is no offset has none on its way.
LEMMA FirstWord ==
    ASSUME Types, NEW c \in Clients, OffInv(c), up[c] # <<>>, Head1(c).k # "off"
    PROVE  NoOff(c)
<1>1. up[c] \in Seq(UpWord)
  BY DEF Types, UpTypes
<1> QED
  BY <1>1 DEF OffInv, NoOff, Head1

LEMMA TailKept ==
    ASSUME Types, NEW c \in Clients
    PROVE  /\ up[c] # <<>> /\ up'[c] = Tail(up[c]) => UpKept(c, 1) /\ LenKept(c, 1)
           /\ (down[c] # <<>> /\ down[c][1].k \notin {"length", "buff", "whole"} /\ down'[c] = Tail(down[c])) => DownKept(c, 1)
<1>1. up[c] \in Seq(UpWord) /\ down[c] \in Seq(DownWord)
  BY DEF Types, UpTypes, DownTypes
<1>2. ASSUME up[c] # <<>>, up'[c] = Tail(up[c]) PROVE UpKept(c, 1) /\ LenKept(c, 1)
  <2>1. \A i \in DOMAIN Tail(up[c]) : i + 1 \in DOMAIN up[c] /\ Tail(up[c])[i] = up[c][i + 1]
    BY <1>1, <1>2
  <2>2. Len(Tail(up[c])) + 1 = Len(up[c])
    BY <1>1, <1>2
  <2> QED
    BY <1>2, <2>1, <2>2 DEF UpKept, LenKept
<1>3. ASSUME down[c] # <<>>, down[c][1].k \notin {"length", "buff", "whole"}, down'[c] = Tail(down[c]) PROVE DownKept(c, 1)
  <2>1. \A i \in DOMAIN Tail(down[c]) : i + 1 \in DOMAIN down[c] /\ Tail(down[c])[i] = down[c][i + 1]
    BY <1>1, <1>3
  <2>2. \A j \in DOMAIN down[c] : j # 1 => j - 1 \in DOMAIN Tail(down[c]) /\ (j - 1) + 1 = j /\ Tail(down[c])[j - 1] = down[c][j]
    <3>1. Tail(down[c]) \in Seq(DownWord) /\ Len(Tail(down[c])) = Len(down[c]) - 1
      BY <1>1, <1>3
    <3>2. \A j \in DOMAIN down[c] : j # 1 => j - 1 \in DOMAIN Tail(down[c]) /\ (j - 1) + 1 = j
      BY <1>1, <3>1
    <3> QED
      BY <2>1, <3>2
  <2>3. \A j \in DOMAIN down[c] : down[c][j].k \in {"length", "buff", "whole"} =>
           \E i \in DOMAIN down'[c] : i + 1 = j /\ down'[c][i] = down[c][j]
    <3> SUFFICES ASSUME NEW j \in DOMAIN down[c], down[c][j].k \in {"length", "buff", "whole"}
                 PROVE  \E i \in DOMAIN down'[c] : i + 1 = j /\ down'[c][i] = down[c][j]
      OBVIOUS
    <3>1. j # 1
      BY <1>3
    <3> QED
      BY <1>3, <2>2, <3>1
  <2> QED
    BY <1>3, <2>1, <2>3 DEF DownKept
<1> QED
  BY <1>2, <1>3

\* Words that are sent to somebody else, or are neither a length nor a buffer.
LEMMA SendKept ==
    ASSUME Types, NEW fd, NEW by \in Clients, NEW ws \in Seq(Sent), Send(fd, ws, by), NEW c \in Clients,
           sock[fd] # c \/ \A i \in 1..Len(ws) : ws[i].k \notin {"length", "buff", "whole"}
    PROVE  DownKept(c, 0)
<1>1. down'[c] = down[c] \/ SentOn(c, fd, ws, by)
  BY SendTyped DEF Types
<1>2. CASE down'[c] = down[c]
  BY <1>2, SameKept
<1>3. CASE SentOn(c, fd, ws, by) /\ \A i \in 1..Len(ws) : ws[i].k \notin {"length", "buff", "whole"}
  <2>1. DownTypes'
    BY SendTyped DEF Types
  <2>2. down[c] \in Seq(DownWord) /\ down'[c] \in Seq(DownWord)
    BY <2>1 DEF Types, DownTypes
  <2>3. DOMAIN down[c] = 1..Len(down[c]) /\ DOMAIN down'[c] = 1..Len(down'[c]) /\ Len(down[c]) \in Nat /\ Len(ws) \in Nat
    BY <2>2
  <2>4. Len(down'[c]) = Len(down[c]) + Len(ws) /\ \A i \in 1..Len(down[c]) : down'[c][i] = down[c][i]
    BY <1>3 DEF SentOn
  <2>5. ASSUME NEW i \in DOMAIN down'[c], i \notin DOMAIN down[c] PROVE down'[c][i].k \notin {"length", "buff", "whole"}
    <3>1. i - Len(down[c]) \in 1..Len(ws) /\ i = Len(down[c]) + (i - Len(down[c]))
      BY <2>3, <2>4, <2>5
    <3>2. down'[c][i].k = ws[i - Len(down[c])].k
      BY <1>3, <3>1 DEF SentOn
    <3> QED
      BY <1>3, <3>1, <3>2
  <2>6. \A i \in DOMAIN down[c] : i \in DOMAIN down'[c] /\ i + 0 = i
    BY <2>3, <2>4
  <2>7. \A i \in DOMAIN down'[c] : i + 0 = i
    BY <2>3
  <2> QED
    BY <2>3, <2>4, <2>5, <2>6, <2>7 DEF DownKept
<1> QED
  BY <1>1, <1>2, <1>3 DEF SentOn

DownAll == DiskInv /\ \A c \in Clients : ~Dead(c) => ClientInv(c)

\* A step of a client is none of the others' business: the disk it may write is that
\* of its own user, who has no other client alive.
LEMMA ClientOthers ==
    ASSUME Types, Types', OneInv, DownAll, NEW e \in Clients, Client_(e), NEW c \in Clients, c # e, ~Dead(c)
    PROVE  ClientInv(c)'
<1>1. UNCHANGED <<loop, que, wk>> /\ up'[c] = up[c] /\ down'[c] = down[c] /\ cl'[c] = cl[c]
  <2>1. up \in [Clients -> Seq(UpWord)] /\ down \in [Clients -> Seq(DownWord)] /\ cl \in [Clients -> ClientType]
    BY DEF Types, UpTypes, DownTypes, ClientTypes
  <2> QED
    BY <2>1 DEF Client_, Reads, Connect, SendCred, RecvVerifyRes, GetsLength, GetsData, Shown, Quit,
                ShortCommand, Gets, SendCommand, queueVars, clientVars
<1>2. disk'[UserOf[c]] = disk[UserOf[c]] \/ cl[c].at = "off"
  <2>1. CASE disk' = disk
    BY <2>1
  <2>2. CASE GetsLength(e) \/ GetsData(e)
    <3>1. Alive(e)
      BY <2>2 DEF GetsLength, GetsData, Alive
    <3>2. CASE UserOf[c] = UserOf[e]
      BY <3>1, <3>2 DEF OneInv, Alive, Dead
    <3>3. CASE UserOf[c] # UserOf[e]
      <4>1. disk \in [Users -> [Names -> Seq(Nat)]] /\ UserOf[c] \in Users
        BY DEF Types, DiskTypes, Users
      <4>2. disk' = disk \/ \E s : disk' = [disk EXCEPT ![UserOf[e]][cl[e].file] = s]
        BY <2>2 DEF GetsLength, GetsData
      <4> QED
        BY <3>3, <4>1, <4>2
    <3> QED
      BY <3>2, <3>3
  <2> QED
    BY <2>1, <2>2 DEF Client_, Reads, Connect, SendCred, RecvVerifyRes, Shown, Quit,
                      ShortCommand, Gets, SendCommand, clientVars
<1>3. UpKept(c, 0) /\ LenKept(c, 0) /\ DownKept(c, 0) /\ QueKept(c, 0) /\ LoopKept(c) /\ WkKept(c) /\ ClKept(c)
  BY <1>1, SameKept
<1>4. DiskKept(c)
  BY <1>1, <1>2 DEF DiskKept
<1>5. ClientInv(c) /\ 0 \in Nat
  BY DEF DownAll
<1> QED
  BY <1>3, <1>4, <1>5, KeepClient

\* What the invariants say of a client at its prompt.
LEMMA AtPrompt ==
    ASSUME Types, NEW c \in Clients, ClientInv(c), cl[c].at \notin {"length", "data"}
    PROVE  /\ \A i \in DOMAIN up[c] : ~AskedUp(c, i)
           /\ ~AskedLoop(c)
           /\ \A i \in DOMAIN que : ~AskedQue(c, i)
           /\ \A w \in Workers : ~AskedRun(c, w)
           /\ NoLength(c) /\ Idle(c)
           /\ \A i \in DOMAIN up[c] : up[c][i].k = "off" =>
                 /\ i = 1
                 /\ \E w \in Workers : Waits(w, c) /\ Small(wk[w].task.file) /\ up[c][i].v >= Size[wk[w].task.file]
<1>1. \A f : ~Asks(c, f)
  BY DEF Asks
<1>2. NoLength(c)
  BY DEF ClientInv, LengthInv, NoLength
<1>3. Idle(c)
  BY DEF ClientInv, SendInv
<1> QED
  BY <1>1, <1>2, <1>3 DEF ClientInv, AskedInv, OffInv

\* Steps of a client that are not about a download.
LEMMA ClientOwnKept ==
    ASSUME Types, Types', NEW c \in Clients, ClientInv(c),
           Connect(c) \/ SendCred(c) \/ RecvVerifyRes(c) \/ Shown(c) \/ \E cmd \in Cmds[c] : ShortCommand(c, cmd)
    PROVE  ClientInv(c)'
<1>0. /\ up \in [Clients -> Seq(UpWord)] /\ down \in [Clients -> Seq(DownWord)] /\ cl \in [Clients -> ClientType]
      /\ 0 \in Nat /\ 1 \in Nat
  BY DEF Types, UpTypes, DownTypes, ClientTypes
<1>1. UNCHANGED <<loop, que, wk, disk>>
  BY DEF Connect, SendCred, RecvVerifyRes, Shown, ShortCommand, SendCommand, queueVars, clientVars
<1>2. QueKept(c, 0) /\ LoopKept(c) /\ WkKept(c) /\ DiskKept(c)
  BY <1>1, SameKept
<1>3. (cl[c].at # "ready" => cl[c].got = NULL)
  BY DEF ClientInv, GotInv
<1>4. CASE Connect(c) \/ SendCred(c) \/ RecvVerifyRes(c)
  <2>1. ClKept(c)
    BY <1>0, <1>3, <1>4 DEF ClKept, Connect, SendCred, RecvVerifyRes, ClientType
  <2>2. CASE Connect(c)
    <3>1. UpKept(c, 0) /\ LenKept(c, 0) /\ DownKept(c, 0)
      BY <2>2, SameKept DEF Connect
    <3> QED
      BY <1>0, <1>2, <2>1, <3>1, KeepClient
  <2>3. CASE SendCred(c)
    <3>1. DownKept(c, 0)
      BY <2>3, SameKept DEF SendCred
    <3>2. PICK v : up' = [up EXCEPT ![c] = Append(@, Word("cred", v))]
      BY <2>3 DEF SendCred
    <3> DEFINE x == Word("cred", v)
    <3>3. x.k = "cred"
      BY DEF Word
    <3>4. up'[c] = Append(up[c], x) /\ up[c] \in Seq(UpWord)
      BY <1>0, <3>2
    <3> HIDE DEF x
    <3>5. \A i \in DOMAIN up'[c] : (i \in DOMAIN up[c] /\ i + 0 = i /\ up'[c][i] = up[c][i]) \/ up'[c][i] = x
      BY <3>4
    <3>6. UpKept(c, 0)
      BY <3>3, <3>5 DEF UpKept
    <3>7. LenKept(c, 0)
      BY <2>3 DEF LenKept, SendCred
    <3> QED
      BY <1>0, <1>2, <2>1, <3>1, <3>6, <3>7, KeepClient
  <2>4. CASE RecvVerifyRes(c)
    <3>1. UpKept(c, 0) /\ LenKept(c, 0)
      BY <2>4, SameKept DEF RecvVerifyRes
    <3>2. down[c] # <<>> /\ down[c][1].k \notin {"length", "buff", "whole"} /\ down'[c] = Tail(down[c])
      BY <1>0, <2>4 DEF RecvVerifyRes
    <3>3. DownKept(c, 1)
      BY <3>2, TailKept
    <3> QED
      BY <1>0, <1>2, <2>1, <3>1, <3>3, KeepClient
  <2> QED
    BY <1>4, <2>2, <2>3, <2>4
<1>5. CASE Shown(c)
  <2>1. UpKept(c, 0) /\ LenKept(c, 0) /\ ClKept(c)
    BY <1>5, SameKept DEF Shown, clientVars
  <2>2. down[c] # <<>> /\ down[c][1].k \notin {"length", "buff", "whole"} /\ down'[c] = Tail(down[c])
    BY <1>0, <1>5 DEF Shown
  <2>3. DownKept(c, 1)
    BY <2>2, TailKept
  <2> QED
    BY <1>0, <1>2, <2>1, <2>3, KeepClient
<1>6. ASSUME NEW cmd \in Cmds[c], ShortCommand(c, cmd) PROVE ClientInv(c)'
  <2>1. cl[c].at = "ready" /\ cl'[c].at = "ready" /\ cl'[c].got = NULL
    BY <1>0, <1>6 DEF ShortCommand, SendCommand, Client
  <2>2. ClKept(c) /\ LenKept(c, 0)
    BY <2>1 DEF ClKept, LenKept
  <2>3. DownKept(c, 0)
    BY <1>6, SameKept DEF ShortCommand, SendCommand
  <2> DEFINE a == Word("len", 0)
             b == [k |-> "body", v |-> cmd, file |-> NULL]
  <2>4. cmd # "gets" /\ a.k = "len" /\ b.k = "body" /\ b.v = cmd
    BY CloudAssumption DEF Word
  <2>5. up'[c] = up[c] \o <<a, b>> /\ up[c] \in Seq(UpWord)
    BY <1>0, <1>6 DEF ShortCommand, SendCommand
  <2> HIDE DEF a, b
  <2>6. \A i \in DOMAIN up'[c] : (i \in DOMAIN up[c] /\ i + 0 = i /\ up'[c][i] = up[c][i]) \/ up'[c][i] \in {a, b}
    BY <2>5
  <2>7. UpKept(c, 0)
    BY <2>4, <2>6 DEF UpKept
  <2> QED
    BY <1>0, <1>2, <2>2, <2>3, <2>7, KeepClient
<1> QED
  BY <1>4, <1>5, <1>6

LEMMA GetsNext ==
    ASSUME Types, Types', NEW c \in Clients, ClientInv(c), NEW f \in Wants[c], Gets(c, f)
    PROVE  ClientInv(c)'
<1> DEFINE a == Word("len", 0)
           b == [k |-> "body", v |-> "gets", file |-> f]
<1>1. /\ cl[c].at = "ready" /\ cl'[c].at = "length" /\ cl'[c].got = NULL /\ cl'[c].file = f
      /\ up'[c] = up[c] \o <<a, b>> /\ UNCHANGED <<loop, que, wk, down>>
  BY DEF Gets, SendCommand, Client, Types, ClientTypes, UpTypes, queueVars
<1>2. a.k = "len" /\ b.k = "body" /\ b.v = "gets" /\ b.file = f
  BY DEF Word
<1> HIDE DEF a, b
<1>3. up[c] \in Seq(UpWord)
  BY DEF Types, UpTypes
<1>4. /\ Len(up'[c]) = Len(up[c]) + 2
      /\ \A i \in DOMAIN up'[c] : \/ i \in DOMAIN up[c] /\ up'[c][i] = up[c][i]
                                  \/ i = Len(up[c]) + 1 /\ up'[c][i] = a
                                  \/ i = Len(up[c]) + 2 /\ up'[c][i] = b
  BY <1>1, <1>3
<1>5. /\ \A i \in DOMAIN up[c] : ~AskedUp(c, i)
      /\ ~AskedLoop(c)' /\ (\A i \in DOMAIN que' : ~AskedQue(c, i)') /\ \A w \in Workers : ~AskedRun(c, w)'
      /\ NoLength(c)' /\ Idle(c)'
  BY <1>1, AtPrompt DEF AskedLoop, AskedQue, AskedRun, NoLength, Idle, NoSender, NoData, Sender
<1>6. \A i \in DOMAIN up'[c] : AskedUp(c, i)' => i = Len(up[c]) + 2 /\ up'[c][i] = b
  BY <1>2, <1>4, <1>5 DEF AskedUp
<1>7. AskedInv(c)'
  BY <1>1, <1>2, <1>4, <1>5, <1>6 DEF AskedInv, Asks
<1>8. LengthInv(c)'
  BY <1>5 DEF LengthInv, NoLength
<1>9. OffInv(c)'
  <2> SUFFICES ASSUME NEW i \in DOMAIN up'[c], up'[c][i].k = "off"
               PROVE  /\ i = 1
                      /\ \E w \in Workers : Waits(w, c)' /\ Small(wk'[w].task.file) /\ up'[c][i].v >= Size[wk'[w].task.file]
    BY DEF OffInv, Small
  <2>1. i \in DOMAIN up[c] /\ up'[c][i] = up[c][i]
    BY <1>2, <1>4
  <2> QED
    BY <1>1, <2>1, AtPrompt DEF Waits
<1>10. SendInv(c)' /\ GotInv(c)'
  BY <1>1, <1>5 DEF SendInv, GotInv
<1> QED
  BY <1>7, <1>8, <1>9, <1>10 DEF ClientInv

LEMMA TailIndex ==
    ASSUME NEW S, NEW s \in Seq(S), s # <<>>
    PROVE  /\ 1 \in DOMAIN s /\ DOMAIN s \subseteq Nat
           /\ \A i \in DOMAIN Tail(s) : i \in Nat /\ i # 0 /\ i + 1 \in DOMAIN s /\ Tail(s)[i] = s[i + 1]
           /\ \A j \in DOMAIN s : j # 1 => 1 < j /\ j - 1 \in DOMAIN Tail(s) /\ Tail(s)[j - 1] = s[j]
<1>1. Tail(s) \in Seq(S) /\ Len(Tail(s)) = Len(s) - 1 /\ Len(s) \in Nat /\ DOMAIN s = 1..Len(s)
  OBVIOUS
<1>2. \A i \in DOMAIN Tail(s) : i \in Nat /\ i # 0 /\ i + 1 \in DOMAIN s /\ Tail(s)[i] = s[i + 1]
  OBVIOUS
<1>3. \A j \in DOMAIN s : j # 1 => 1 < j /\ j - 1 \in DOMAIN Tail(s) /\ (j - 1) + 1 = j
  BY <1>1
<1>4. 1 \in DOMAIN s /\ DOMAIN s \subseteq Nat
  OBVIOUS
<1> QED
  BY <1>2, <1>3, <1>4

\* A sequence that counts is the whole of a file of its length.
LEMMA CountsWhole ==
    ASSUME NEW s \in Seq(Nat), NEW n \in Nat, Len(s) = n, \A i \in 1..n : s[i] = i
    PROVE  s = [i \in 1..n |-> i]
<1>1. s \in [1..n -> Nat]
  BY LenProperties
<1>2. [i \in 1..n |-> i] \in [1..n -> Nat]
  OBVIOUS
<1>3. \A i \in 1..n : s[i] = [j \in 1..n |-> j][i]
  OBVIOUS
<1> QED
  BY ONLY <1>1, <1>2, <1>3

LEMMA GetsLengthNext ==
    ASSUME Types, Types', NEW c \in Clients, ClientInv(c), DiskInv, GetsLength(c)
    PROVE  ClientInv(c)' /\ DiskInv'
<1> DEFINE n == down[c][1].v
           f == cl[c].file
           u == UserOf[c]
<1>0. /\ down[c] \in Seq(DownWord) /\ up[c] \in Seq(UpWord) /\ cl[c] \in ClientType /\ u \in Users /\ f \in Names
      /\ cl \in [Clients -> ClientType] /\ disk[u][f] \in Seq(Nat) /\ Len(disk[u][f]) \in Nat
      /\ up \in [Clients -> Seq(UpWord)] /\ down \in [Clients -> Seq(DownWord)]
  <2>1. down[c] \in Seq(DownWord) /\ up[c] \in Seq(UpWord) /\ cl[c] \in ClientType /\ u \in Users /\ f \in Names
    BY DEF Types, DownTypes, UpTypes, ClientTypes, GetsLength, Users
  <2>2. disk[u][f] \in Seq(Nat)
    BY <2>1 DEF Types, DiskTypes
  <2> QED
    BY <2>1, <2>2 DEF Types, ClientTypes, UpTypes, DownTypes
<1>1. /\ cl[c].at = "length" /\ down[c] # <<>> /\ down[c][1].k = "length" /\ UNCHANGED <<loop, que, wk>>
      /\ down'[c] = Tail(down[c])
  BY <1>0 DEF GetsLength, queueVars
<1>2. /\ 1 \in DOMAIN down[c] /\ up[c] = <<>> /\ \A j \in DOMAIN down[c] : down[c][j].k = "length" => 1 = j
      /\ n = LengthOf(f)
      /\ f \in Files => \E w \in Workers : Waits(w, c) /\ wk[w].task.file = f
  <2>1. 1 \in DOMAIN down[c]
    BY <1>0, <1>1
  <2> QED
    BY <1>1, <2>1 DEF ClientInv, LengthInv
<1>3. \A i \in DOMAIN down'[c] : i \in Nat /\ i # 0 /\ i + 1 \in DOMAIN down[c] /\ down'[c][i] = down[c][i + 1]
  BY <1>0, <1>1
<1>4. NoLength(c)'
  <2> SUFFICES ASSUME NEW i \in DOMAIN down'[c], down'[c][i].k = "length" PROVE FALSE
    BY DEF NoLength
  <2>1. 1 = i + 1 /\ i \in Nat /\ i # 0
    BY <1>2, <1>3
  <2> QED
    BY <2>1
<1>5. Idle(c) /\ Idle(c)'
  <2>1. Idle(c)
    BY <1>1 DEF ClientInv, SendInv
  <2> QED
    BY <1>1, <1>3, <2>1 DEF Idle, NoSender, NoData, Sender
<1>6. /\ \A i \in DOMAIN up[c] : ~AskedUp(c, i)
      /\ ~AskedLoop(c) /\ (\A i \in DOMAIN que : ~AskedQue(c, i)) /\ \A w \in Workers : ~AskedRun(c, w)
  <2>1. \A g : ~Asks(c, g)
    BY <1>1, <1>2 DEF Asks, NoLength
  <2> QED
    BY <2>1 DEF ClientInv, AskedInv
<1>7. ~AskedLoop(c)' /\ (\A i \in DOMAIN que' : ~AskedQue(c, i)') /\ \A w \in Workers : ~AskedRun(c, w)'
  BY <1>1, <1>6 DEF AskedLoop, AskedQue, AskedRun
<1>8. LengthInv(c)'
  BY <1>4 DEF LengthInv, NoLength
<1>9. SendInv(c)'
  BY <1>5 DEF SendInv
<1>10. cl[c].got = NULL
  BY <1>1 DEF ClientInv, GotInv
<1>11. n \in Nat
  <2>1. down[c][1] \in DownWord
    BY <1>0, <1>2
  <2> QED
    BY <2>1 DEF DownWord
<1>12. CASE n = 0
  <2>1. cl' = [cl EXCEPT ![c].at = "ready"] /\ UNCHANGED <<up, disk>>
    BY <1>12 DEF GetsLength
  <2>2. cl'[c].at = "ready" /\ cl'[c].got = NULL
    BY <1>0, <1>10, <2>1 DEF ClientType
  <2>3. AskedInv(c)'
    BY <1>6, <1>7, <2>1 DEF AskedInv, AskedUp
  <2>4. OffInv(c)'
    BY <1>2, <2>1 DEF OffInv
  <2>5. GotInv(c)'
    BY <2>2 DEF GotInv
  <2>6. DiskInv'
    BY <2>1 DEF DiskInv
  <2> QED
    BY <1>8, <1>9, <2>3, <2>4, <2>5, <2>6 DEF ClientInv
<1>13. CASE n > 0
  <2>1. f \in Files /\ n = Size[f] /\ BigSize \in Nat
    BY <1>2, <1>13, CloudAssumption DEF LengthOf
  <2>2. PICK w \in Workers : Waits(w, c) /\ wk[w].task.file = f
    BY <1>2, <2>1
  <2>3. Waits(w, c)' /\ wk'[w] = wk[w]
    BY <1>1, <2>2 DEF Waits
  <2> DEFINE k == Len(disk[u][f])
             x == Word("off", k)
  <2>4. x.k = "off" /\ x.v = k
    BY DEF Word
  <2>5. /\ up' = [up EXCEPT ![c] = Append(@, x)]
        /\ disk' = IF n > BigSize THEN [disk EXCEPT ![u][f] = [i \in 1..n |-> 0]] ELSE disk
        /\ cl' = [cl EXCEPT ![c] = IF n > BigSize \/ k < n THEN [@ EXCEPT !.at = "data", !.len = n]
                                   ELSE [@ EXCEPT !.at = "ready", !.got = f]]
    BY <1>11, <1>13 DEF GetsLength
  <2>6. up'[c] = <<x>> /\ DOMAIN up'[c] = {1} /\ up'[c][1] = x
    <3> HIDE DEF x
    <3>1. up'[c] = Append(up[c], x)
      BY <1>0, <2>5
    <3>2. up'[c] = <<x>>
      BY <1>2, <3>1
    <3> QED
      BY <3>2
  <2>7. AskedInv(c)'
    <3>1. \A i \in DOMAIN up'[c] : ~AskedUp(c, i)'
      BY <2>4, <2>6 DEF AskedUp
    <3> QED
      BY <1>7, <3>1 DEF AskedInv
  <2>8. CASE n > BigSize \/ k < n
    <3>1. cl'[c].at = "data" /\ cl'[c].file = f /\ cl'[c].len = n /\ cl'[c].got = NULL
      <4>1. cl'[c] = [cl[c] EXCEPT !.at = "data", !.len = n]
        <5> HIDE DEF k, n, u, f
        <5> QED
          BY <1>0, <2>5, <2>8
      <4> QED
        BY <1>0, <1>10, <4>1 DEF ClientType
    <3>2. Small(f) => disk' = disk /\ k < n
      BY <1>11, <2>1, <2>5, <2>8 DEF Small
    <3>3. Small(f) => Kept(c)' = disk[u][f]
      BY <3>1, <3>2 DEF Kept
    <3>4. GotInv(c)'
      BY <2>1, <3>1, <3>2, <3>3 DEF GotInv, Small
    <3>5. OffInv(c)'
      <4> SUFFICES /\ cl'[c].at = "data" /\ cl'[c].file = wk'[w].task.file /\ Idle(c)'
                   /\ Small(cl'[c].file) => up'[c][1].v = Len(Kept(c)')
        BY <2>3, <2>6 DEF OffInv, Small
      <4> QED
        BY <1>5, <2>2, <2>3, <2>4, <2>6, <3>1, <3>3
    <3>6. DiskInv'
      <4>1. CASE Small(f)
        BY <3>2, <4>1 DEF DiskInv
      <4>2. CASE ~Small(f)
        <5>1. \A v \in Users : \A g \in Names : g # f => disk'[v][g] = disk[v][g]
          <6>1. disk \in [Users -> [Names -> Seq(Nat)]]
            BY DEF Types, DiskTypes
          <6> QED
            BY <1>0, <2>5, <6>1
        <5>2. Files \subseteq Names
          BY DEF Names
        <5> QED
          BY <4>2, <5>1, <5>2 DEF DiskInv, Small
      <4> QED
        BY <4>1, <4>2
    <3> QED
      BY <1>8, <1>9, <2>7, <3>4, <3>5, <3>6 DEF ClientInv
  <2>9. CASE ~(n > BigSize \/ k < n)
    <3>1. cl'[c].at = "ready" /\ cl'[c].got = f
      <4>1. cl'[c] = [cl[c] EXCEPT !.at = "ready", !.got = f]
        <5> HIDE DEF k, n, u, f
        <5> QED
          BY <1>0, <2>5, <2>9
      <4> QED
        BY <1>0, <4>1 DEF ClientType
    <3>2. Small(f) /\ k >= n /\ disk' = disk
      BY <1>0, <1>11, <2>1, <2>5, <2>9 DEF Small
    <3>3. disk[u][f] = Whole(f)
      <4>1. k <= Size[f] /\ \A i \in 1..k : disk[u][f][i] = i
        BY <1>0, <2>1, <3>2 DEF DiskInv
      <4>2. k = Size[f]
        BY <1>0, <1>11, <2>1, <3>2, <4>1
      <4> QED
        BY <1>0, <4>1, <4>2, CountsWhole DEF Whole
    <3>4. GotInv(c)'
      BY <2>1, <3>1, <3>2, <3>3 DEF GotInv, Whole
    <3>5. OffInv(c)'
      <4> SUFFICES Small(wk'[w].task.file) /\ up'[c][1].v >= Size[wk'[w].task.file]
        BY <2>3, <2>6 DEF OffInv, Small
      <4> QED
        BY <2>1, <2>2, <2>3, <2>4, <2>6, <3>2
    <3>6. DiskInv'
      BY <3>2 DEF DiskInv
    <3> QED
      BY <1>8, <1>9, <2>7, <3>4, <3>5, <3>6 DEF ClientInv
  <2> QED
    BY <2>8, <2>9
<1> QED
  BY <1>11, <1>12, <1>13

LEMMA GetsDataNext ==
    ASSUME Types, Types', NEW c \in Clients, ClientInv(c), DiskInv, GetsData(c)
    PROVE  ClientInv(c)' /\ DiskInv'
<1> DEFINE f == cl[c].file
           u == UserOf[c]
           x == down[c][1]
           k == Len(disk[u][f])
<1>0. /\ down[c] \in Seq(DownWord) /\ cl[c] \in ClientType /\ u \in Users /\ f \in Names
      /\ cl \in [Clients -> ClientType] /\ disk \in [Users -> [Names -> Seq(Nat)]]
      /\ down \in [Clients -> Seq(DownWord)] /\ disk[u][f] \in Seq(Nat) /\ k \in Nat
  <2>1. down[c] \in Seq(DownWord) /\ cl[c] \in ClientType /\ u \in Users /\ f \in Names
    BY DEF Types, DownTypes, ClientTypes, GetsData, Users
  <2>2. disk[u][f] \in Seq(Nat)
    BY <2>1 DEF Types, DiskTypes
  <2> QED
    BY <2>1, <2>2 DEF Types, ClientTypes, DownTypes, DiskTypes
<1>1. /\ cl[c].at = "data" /\ down[c] # <<>> /\ UNCHANGED <<loop, que, wk, up>> /\ down'[c] = Tail(down[c])
      /\ x.k = (IF cl[c].len > BigSize THEN "whole" ELSE "buff")
  BY <1>0 DEF GetsData, queueVars
<1>2. f \in Files /\ cl[c].len = Size[f] /\ Size[f] \in Nat /\ BigSize \in Nat /\ cl[c].got = NULL
      /\ (Small(f) => k < Size[f])
  BY <1>1, CloudAssumption DEF ClientInv, GotInv, Kept
<1>3. /\ 1 \in DOMAIN down[c] /\ DOMAIN down[c] \subseteq Nat
      /\ \A i \in DOMAIN down'[c] : i \in Nat /\ i # 0 /\ i + 1 \in DOMAIN down[c] /\ down'[c][i] = down[c][i + 1]
      /\ \A j \in DOMAIN down[c] : j # 1 => 1 < j /\ j - 1 \in DOMAIN down'[c] /\ down'[c][j - 1] = down[c][j]
  BY <1>0, <1>1, TailIndex
<1>4. NoLength(c) /\ NoLength(c)'
  <2>1. NoLength(c)
    BY <1>1 DEF ClientInv, LengthInv, NoLength
  <2> QED
    BY <1>3, <2>1 DEF NoLength
<1>5. /\ \A i \in DOMAIN up[c] : ~AskedUp(c, i)
      /\ ~AskedLoop(c) /\ (\A i \in DOMAIN que : ~AskedQue(c, i)) /\ \A w \in Workers : ~AskedRun(c, w)
  <2>1. \A g : ~Asks(c, g)
    BY <1>1 DEF Asks
  <2> QED
    BY <2>1 DEF ClientInv, AskedInv
<1>6. AskedInv(c)' /\ LengthInv(c)'
  BY <1>1, <1>4, <1>5 DEF AskedInv, AskedUp, AskedLoop, AskedQue, AskedRun, LengthInv, NoLength
<1>7. ~Idle(c)
  BY <1>1, <1>3 DEF Idle, NoData
<1>8. OffInv(c)'
  <2> SUFFICES ASSUME NEW i \in DOMAIN up[c], up[c][i].k = "off"
               PROVE  /\ i = 1
                      /\ \E w \in Workers : Waits(w, c)' /\ Small(wk[w].task.file) /\ up[c][i].v >= Size[wk[w].task.file]
    BY <1>1 DEF OffInv, Small
  <2> QED
    BY <1>1, <1>7 DEF ClientInv, OffInv, Waits
<1>9. /\ \/ NoSender(c) /\ AllSent(c)
         \/ \E w \in Workers : /\ Sender(w, c) /\ wk[w].task.file = f
                               /\ IF Small(f) THEN SentTo(c, wk[w].pos) ELSE NoData(c)
                               /\ \A v \in Workers : Sender(v, c) => v = w
      /\ (NoSender(c) => NoSender(c)')
      /\ \A w \in Workers : Sender(w, c)' <=> Sender(w, c)
  BY <1>1, <1>7 DEF ClientInv, SendInv, NoSender, Sender
<1>10. CASE ~Small(f)
  <2> DEFINE new == [i \in 1..cl[c].len |-> i]
  <2>1. cl[c].len > BigSize
    BY <1>2, <1>10 DEF Small
  <2>2. /\ disk' = [disk EXCEPT ![u][f] = new]
        /\ cl' = [cl EXCEPT ![c] = IF Len(new) < cl[c].len THEN @ ELSE [@ EXCEPT !.at = "ready", !.got = f]]
    BY <2>1 DEF GetsData
  <2>3. new = Whole(f) /\ ~(Len(new) < cl[c].len)
    BY <1>2 DEF Whole
  <2> HIDE DEF new
  <2>4. cl'[c].at = "ready" /\ cl'[c].got = f /\ disk'[u][f] = Whole(f)
    <3>1. cl'[c] = [cl[c] EXCEPT !.at = "ready", !.got = f]
      BY <1>0, <2>2, <2>3
    <3>2. disk'[u][f] = new
      BY <1>0, <2>2
    <3> QED
      BY <1>0, <2>3, <3>1, <3>2 DEF ClientType
  <2>5. GotInv(c)'
    BY <1>2, <2>4 DEF GotInv, Whole
  <2>6. NoSender(c) /\ AllSent(c)
    BY <1>1, <1>3, <1>9, <1>10 DEF NoData
  <2>7. NoData(c)'
    <3> SUFFICES ASSUME NEW i \in DOMAIN down'[c], down'[c][i].k \in {"buff", "whole"} PROVE FALSE
      BY DEF NoData
    <3>1. i \in Nat /\ i # 0 /\ i + 1 \in DOMAIN down[c] /\ down[c][i + 1].k \in {"buff", "whole"}
      BY <1>3
    <3>2. i + 1 = 1
      BY <1>1, <1>3, <1>10, <2>6, <3>1 DEF AllSent
    <3> QED
      BY <3>1, <3>2
  <2>8. SendInv(c)'
    BY <1>9, <2>6, <2>7 DEF SendInv, Idle
  <2>9. DiskInv'
    <3>1. \A v \in Users : \A g \in Names : g # f => disk'[v][g] = disk[v][g]
      BY <1>0, <2>2
    <3>2. Files \subseteq Names
      BY DEF Names
    <3> QED
      BY <1>10, <3>1, <3>2 DEF DiskInv, Small
  <2> QED
    BY <1>6, <1>8, <2>5, <2>8, <2>9 DEF ClientInv
<1>11. ASSUME Small(f), NEW p \in Nat, SentTo(c, p), p <= Size[f]
       PROVE  /\ x.k = "buff" /\ x.v = k + 1 /\ k + 1 <= p
              /\ disk' = [disk EXCEPT ![u][f] = Append(disk[u][f], k + 1)]
              /\ disk'[u][f] = Append(disk[u][f], k + 1) /\ Len(disk'[u][f]) = k + 1
              /\ cl' = [cl EXCEPT ![c] = IF k + 1 < Size[f] THEN @ ELSE [@ EXCEPT !.at = "ready", !.got = f]]
              /\ DiskInv'
              /\ cl'[c].file = f => SentTo(c, p)'
              /\ p = k + 1 => NoData(c)'
  <2>1. ~(cl[c].len > BigSize) /\ x.k = "buff"
    BY <1>1, <1>2, <1>11 DEF Small
  <2>2. /\ \A i \in DOMAIN down[c] : down[c][i].k = "buff" =>
             /\ k < down[c][i].v /\ down[c][i].v <= p
             /\ \A j \in DOMAIN down[c] : down[c][j].k = "buff" /\ i < j => down[c][i].v < down[c][j].v
        /\ \A v \in Nat : k < v /\ v <= p => \E i \in DOMAIN down[c] : down[c][i].k = "buff" /\ down[c][i].v = v
        /\ \A i \in DOMAIN down[c] : down[c][i].k # "whole"
    BY <1>11 DEF SentTo, Kept
  <2>3. \A i \in DOMAIN down[c] : down[c][i].v \in Nat
    <3>1. \A i \in DOMAIN down[c] : down[c][i] \in DownWord
      BY <1>0
    <3> QED
      BY <3>1 DEF DownWord
  <2> HIDE DEF k
  <2>4. x.v = k + 1 /\ k + 1 <= p
    <3>1. x.v \in Nat /\ k < x.v /\ x.v <= p
      BY <1>3, <2>1, <2>2, <2>3
    <3>2. k + 1 \in Nat /\ k < k + 1 /\ k + 1 <= p
      BY <1>0, <3>1
    <3>3. PICK i \in DOMAIN down[c] : down[c][i].k = "buff" /\ down[c][i].v = k + 1
      BY <2>2, <3>2
    <3>4. CASE i # 1
      <4>1. x.v < k + 1
        BY <1>3, <2>1, <2>2, <3>3, <3>4
      <4> QED
        BY <1>0, <3>1, <4>1
    <3> QED
      BY <3>2, <3>3, <3>4
  <2>5. /\ Append(disk[u][f], k + 1) \in Seq(Nat) /\ Len(Append(disk[u][f], k + 1)) = k + 1
        /\ \A i \in 1..k : Append(disk[u][f], k + 1)[i] = disk[u][f][i]
        /\ Append(disk[u][f], k + 1)[k + 1] = k + 1
    <3>1. PICK s \in Seq(Nat) : s = disk[u][f] /\ k = Len(s)
      BY <1>0 DEF k
    <3>2. PICK y \in Nat : y = k + 1
      BY <1>0
    <3>3. /\ Append(s, y) \in Seq(Nat) /\ Len(Append(s, y)) = Len(s) + 1
          /\ \A i \in 1..Len(s) : Append(s, y)[i] = s[i]
          /\ Append(s, y)[Len(s) + 1] = y
      BY AppendProperties
    <3> QED
      BY <3>1, <3>2, <3>3
  <2> DEFINE new == Append(disk[u][f], k + 1)
  <2>6. /\ disk' = [disk EXCEPT ![u][f] = new]
        /\ cl' = [cl EXCEPT ![c] = IF Len(new) < cl[c].len THEN @ ELSE [@ EXCEPT !.at = "ready", !.got = f]]
    BY <2>1, <2>4 DEF GetsData
  <2>7. disk'[u][f] = new
    <3> HIDE DEF new, u, f
    <3> QED
      BY <1>0, <2>6
  <2>8. DiskInv'
    <3>1. \A v \in Users : \A g \in Names : (v # u \/ g # f) => disk'[v][g] = disk[v][g]
      <4> HIDE DEF new, u, f
      <4> QED
        BY <1>0, <2>6
    <3>2. Files \subseteq Names
      BY DEF Names
    <3>3. Len(new) <= Size[f] /\ \A i \in 1..Len(new) : new[i] = i
      <4>1. \A i \in 1..k : disk[u][f][i] = i
        BY <1>0, <1>2, <1>11 DEF DiskInv, k
      <4>2. \A i \in 1..(k + 1) : i \in 1..k \/ i = k + 1
        BY <1>0
      <4> HIDE DEF u, f
      <4> QED
        BY <1>0, <1>2, <1>11, <2>4, <2>5, <4>1, <4>2
    <3>4. \A v \in Users : \A g \in Files : Small(g) =>
             Len(disk'[v][g]) <= Size[g] /\ \A i \in 1..Len(disk'[v][g]) : disk'[v][g][i] = i
      <4> SUFFICES ASSUME NEW v \in Users, NEW g \in Files, Small(g)
                   PROVE  Len(disk'[v][g]) <= Size[g] /\ \A i \in 1..Len(disk'[v][g]) : disk'[v][g][i] = i
        OBVIOUS
      <4>1. CASE v = u /\ g = f
        BY <2>7, <3>3, <4>1
      <4>2. CASE v # u \/ g # f
        BY <3>1, <3>2, <4>2 DEF DiskInv
      <4> QED
        BY <4>1, <4>2
    <3> QED
      BY <3>4 DEF DiskInv, Small
  <2>9. \A i \in DOMAIN down'[c] : down'[c][i].k = "buff" =>
           /\ k + 1 < down'[c][i].v /\ down'[c][i].v <= p
           /\ \A j \in DOMAIN down'[c] : down'[c][j].k = "buff" /\ i < j => down'[c][i].v < down'[c][j].v
    <3> SUFFICES ASSUME NEW i \in DOMAIN down'[c], down'[c][i].k = "buff"
                 PROVE  /\ k + 1 < down'[c][i].v /\ down'[c][i].v <= p
                        /\ \A j \in DOMAIN down'[c] : down'[c][j].k = "buff" /\ i < j => down'[c][i].v < down'[c][j].v
      OBVIOUS
    <3>1. i + 1 \in DOMAIN down[c] /\ down'[c][i] = down[c][i + 1] /\ 1 < i + 1 /\ i \in Nat
      BY <1>3
    <3>2. k + 1 < down'[c][i].v /\ down'[c][i].v <= p
      BY <1>3, <2>1, <2>2, <2>4, <3>1
    <3>3. ASSUME NEW j \in DOMAIN down'[c], down'[c][j].k = "buff", i < j PROVE down'[c][i].v < down'[c][j].v
      <4>1. j + 1 \in DOMAIN down[c] /\ down'[c][j] = down[c][j + 1] /\ i + 1 < j + 1
        BY <1>3, <3>1, <3>3
      <4> QED
        BY <2>2, <3>1, <3>3, <4>1
    <3> QED
      BY <3>2, <3>3
  <2>10. \A i \in DOMAIN down'[c] : down'[c][i].k # "whole"
    BY <1>3, <2>2
  <2>11. \A v \in Nat : k + 1 < v /\ v <= p => \E i \in DOMAIN down'[c] : down'[c][i].k = "buff" /\ down'[c][i].v = v
    <3> SUFFICES ASSUME NEW v \in Nat, k + 1 < v, v <= p
                 PROVE  \E i \in DOMAIN down'[c] : down'[c][i].k = "buff" /\ down'[c][i].v = v
      OBVIOUS
    <3>1. k < v
      BY <1>0
    <3>2. PICK i \in DOMAIN down[c] : down[c][i].k = "buff" /\ down[c][i].v = v
      BY <2>2, <3>1
    <3>3. i # 1
      BY <1>0, <2>4, <3>2
    <3> QED
      BY <1>3, <3>2, <3>3
  <2>12. cl'[c].file = f => SentTo(c, p)'
    <3> HAVE cl'[c].file = f
    <3>1. Len(Kept(c)') = k + 1
      BY <2>5, <2>7 DEF Kept
    <3> QED
      BY <2>4, <2>9, <2>10, <2>11, <3>1 DEF SentTo
  <2>13. p = k + 1 => NoData(c)'
    <3> HAVE p = k + 1
    <3> SUFFICES ASSUME NEW i \in DOMAIN down'[c], down'[c][i].k = "buff" PROVE FALSE
      BY <2>10 DEF NoData
    <3>1. k + 1 < down'[c][i].v /\ down'[c][i].v <= k + 1
      BY <2>9
    <3>2. i + 1 \in DOMAIN down[c] /\ down'[c][i] = down[c][i + 1]
      BY <1>3
    <3>3. down'[c][i].v \in Nat
      BY <2>3, <3>2
    <3> QED
      BY <1>0, <3>1, <3>3
  <2> QED
    BY <1>2, <2>1, <2>4, <2>5, <2>6, <2>7, <2>8, <2>12, <2>13
<1>12. ASSUME Small(f), NEW p \in Nat, SentTo(c, p), p <= Size[f], k + 1 < Size[f]
       PROVE  cl' = cl /\ SentTo(c, p)' /\ GotInv(c)' /\ DiskInv'
  <2>1. /\ disk'[u][f] = Append(disk[u][f], k + 1) /\ Len(disk'[u][f]) = k + 1
        /\ cl' = [cl EXCEPT ![c] = IF k + 1 < Size[f] THEN @ ELSE [@ EXCEPT !.at = "ready", !.got = f]]
        /\ DiskInv' /\ (cl'[c].file = f => SentTo(c, p)')
    BY <1>11, <1>12
  <2>2. cl' = cl
    BY <1>0, <1>12, <2>1
  <2>3. GotInv(c)'
    BY <1>1, <1>2, <1>12, <2>1, <2>2 DEF GotInv, Kept
  <2> QED
    BY <2>1, <2>2, <2>3
<1>13. CASE Small(f) /\ NoSender(c) /\ AllSent(c)
  <2>1. SentTo(c, Size[f])
    BY <1>13 DEF AllSent
  <2>2. Size[f] <= Size[f]
    BY <1>2
  <2>3. CASE k + 1 < Size[f]
    <3>1. cl' = cl /\ SentTo(c, Size[f])' /\ GotInv(c)' /\ DiskInv'
      <4>1. PICK p \in Nat : p = Size[f]
        BY <1>2
      <4>2. cl' = cl /\ SentTo(c, p)' /\ GotInv(c)' /\ DiskInv'
        BY <1>12, <1>13, <2>1, <2>2, <2>3, <4>1
      <4> QED
        BY <4>1, <4>2 DEF SentTo
    <3>2. AllSent(c)'
      BY <1>13, <3>1 DEF AllSent, Small, SentTo
    <3>3. SendInv(c)'
      BY <1>1, <1>9, <1>13, <3>1, <3>2 DEF SendInv
    <3> QED
      BY <1>6, <1>8, <3>1, <3>3 DEF ClientInv
  <2>4. CASE ~(k + 1 < Size[f])
    <3>1. /\ k + 1 = Size[f] /\ disk'[u][f] = Append(disk[u][f], k + 1) /\ Len(disk'[u][f]) = k + 1
          /\ cl' = [cl EXCEPT ![c] = [@ EXCEPT !.at = "ready", !.got = f]]
          /\ DiskInv' /\ NoData(c)'
      <4>1. PICK p \in Nat : p = Size[f]
        BY <1>2
      <4>2. /\ k + 1 <= p /\ disk'[u][f] = Append(disk[u][f], k + 1) /\ Len(disk'[u][f]) = k + 1
            /\ cl' = [cl EXCEPT ![c] = IF k + 1 < Size[f] THEN @ ELSE [@ EXCEPT !.at = "ready", !.got = f]]
            /\ DiskInv' /\ (p = k + 1 => NoData(c)')
        BY <1>11, <1>13, <2>1, <2>2, <4>1
      <4>3. k + 1 = Size[f]
        <5>1. PICK n \in Nat : n = k
          BY <1>0
        <5> HIDE DEF k, f
        <5>2. n + 1 <= p /\ ~(n + 1 < p)
          BY <2>4, <4>1, <4>2, <5>1
        <5>3. n + 1 = p
          BY <5>2
        <5> QED
          BY <4>1, <5>1, <5>3
      <4> QED
        BY <2>4, <4>1, <4>2, <4>3
    <3>2. cl'[c].at = "ready" /\ cl'[c].got = f
      <4>1. cl'[c] = [cl[c] EXCEPT !.at = "ready", !.got = f]
        <5> HIDE DEF f
        <5> QED
          BY <1>0, <3>1
      <4> QED
        BY <1>0, <4>1 DEF ClientType
    <3>3. disk'[u][f] = Whole(f)
      <4>1. disk'[u][f] \in Seq(Nat)
        BY <1>0 DEF Types, DiskTypes
      <4>2. \A i \in 1..Size[f] : disk'[u][f][i] = i
        BY <1>0, <1>2, <1>13, <3>1 DEF DiskInv, Small
      <4> QED
        BY <1>2, <3>1, <4>1, <4>2, CountsWhole DEF Whole
    <3>4. GotInv(c)'
      BY <1>2, <3>2, <3>3 DEF GotInv, Whole
    <3>5. SendInv(c)'
      BY <1>9, <1>13, <3>1 DEF SendInv, Idle
    <3> QED
      BY <1>6, <1>8, <3>1, <3>4, <3>5 DEF ClientInv
  <2> QED
    BY <2>3, <2>4
<1>14. ASSUME Small(f), NEW w \in Workers, Sender(w, c), wk[w].task.file = f, SentTo(c, wk[w].pos),
              \A v \in Workers : Sender(v, c) => v = w
       PROVE  ClientInv(c)' /\ DiskInv'
  <2>1. wk[w].pos \in Nat /\ wk[w].pos < Size[f]
    BY <1>14 DEF Sender, Types, QueueTypes, WorkerType
  <2>2. PICK p \in Nat : p = wk[w].pos
    BY <2>1
  <2>3. k + 1 <= p
    <3>1. SentTo(c, p) /\ Small(f) /\ p <= Size[f]
      <4>1. p < Size[f] /\ Size[f] \in Nat
        BY <1>2, <2>1, <2>2
      <4>2. p <= Size[f]
        BY <4>1
      <4> QED
        BY <1>14, <2>2, <4>2
    <3> HIDE DEF k, f
    <3> QED
      BY <1>11, <3>1
  <2>4. k + 1 < Size[f] /\ p <= Size[f]
    BY <1>0, <1>2, <2>1, <2>2, <2>3
  <2>5. cl' = cl /\ SentTo(c, p)' /\ GotInv(c)' /\ DiskInv'
    BY <1>12, <1>14, <2>2, <2>4
  <2>6. SentTo(c, wk[w].pos)'
    BY <1>1, <2>2, <2>5 DEF SentTo
  <2>7. SendInv(c)'
    BY <1>1, <1>9, <1>14, <2>5, <2>6 DEF SendInv, Small
  <2> QED
    BY <1>6, <1>8, <2>5, <2>7 DEF ClientInv
<1> QED
  BY <1>9, <1>10, <1>13, <1>14

LEMMA ClientDownNext ==
    ASSUME Types, Types', OneInv, DownAll, NEW e \in Clients, Client_(e) PROVE DownAll'
<1>0. cl \in [Clients -> ClientType]
  BY DEF Types, ClientTypes
<1>1. \A c \in Clients : Dead(c) => Dead(c)'
  BY <1>0 DEF Client_, Reads, Connect, SendCred, RecvVerifyRes, GetsLength, GetsData, Shown, Quit,
              ShortCommand, Gets, SendCommand, clientVars, Dead, Client
<1>2. ASSUME NEW c \in Clients, c # e, ~Dead(c)' PROVE ClientInv(c)'
  BY <1>1, <1>2, ClientOthers
<1>3. ~Dead(e)' => ClientInv(e)' /\ DiskInv'
  <2> HAVE ~Dead(e)'
  <2>1. ClientInv(e) /\ DiskInv
    BY <1>1 DEF DownAll
  <2>2. CASE Quit(e)
    BY <1>0, <2>2 DEF Quit, Dead, Client
  <2>3. CASE Connect(e) \/ SendCred(e) \/ RecvVerifyRes(e) \/ Shown(e) \/ \E cmd \in Cmds[e] : ShortCommand(e, cmd)
    <3>1. ClientInv(e)'
      BY <2>1, <2>3, ClientOwnKept
    <3>2. disk' = disk
      BY <2>3 DEF Connect, SendCred, RecvVerifyRes, Shown, ShortCommand, SendCommand, clientVars
    <3> QED
      BY <2>1, <3>1, <3>2 DEF DiskInv
  <2>4. CASE \E f \in Wants[e] : Gets(e, f)
    <3>1. ClientInv(e)'
      BY <2>1, <2>4, GetsNext
    <3>2. disk' = disk
      BY <2>4 DEF Gets, SendCommand
    <3> QED
      BY <2>1, <3>1, <3>2 DEF DiskInv
  <2>5. CASE GetsLength(e)
    BY <2>1, <2>5, GetsLengthNext
  <2>6. CASE GetsData(e)
    BY <2>1, <2>6, GetsDataNext
  <2> QED
    BY <2>2, <2>3, <2>4, <2>5, <2>6 DEF Client_, Reads
<1>4. Dead(e)' => DiskInv'
  <2> HAVE Dead(e)'
  <2>1. disk' = disk
    <3>1. GetsLength(e) \/ GetsData(e) => ~Dead(e)'
      BY <1>0, ZenonT(40) DEF GetsLength, GetsData, Dead, ClientType
    <3> QED
      BY <3>1 DEF Client_, Reads, Connect, SendCred, RecvVerifyRes, Shown, Quit, ShortCommand, Gets, SendCommand, clientVars
  <2> QED
    BY <2>1 DEF DownAll, DiskInv
<1> QED
  BY <1>2, <1>3, <1>4 DEF DownAll

\* The history only grows.
LEMMA CleanBefore == Next /\ Clean' => Clean
<1> SUFFICES ASSUME Next PROVE orphan \subseteq orphan' /\ crossed \subseteq crossed'
  BY DEF Clean
<1>1. CASE \E c \in Clients : Client_(c)
  BY <1>1 DEF Client_, Reads, Connect, SendCred, RecvVerifyRes, GetsLength, GetsData, Shown, Quit,
              ShortCommand, Gets, SendCommand
<1>2. CASE Loop \/ StopRequested
  BY <1>2 DEF Loop, StopRequested, Accept, LoginVerify, LoginBroken, HandleMessage, MessageMisread,
              MessageEof, MisreadOn, MisreadEof, taskEnque, EnqueSignal, ClearFlag, Broadcast, Joined, Close
<1>3. CASE \E w \in Workers : Thread(w) \/ SigPipe(w)
  BY <1>3 DEF Thread, SigPipe, DequeTest, DequeSleep, DequeTake, DequeStop, Report, Mkdir, Rmdir, GetsOpen,
              GetsOffset, GetsSend, poolFrame, taskFrame
<1> QED
  BY <1>1, <1>2, <1>3 DEF Next

LEMMA OneNext == ASSUME Types, AskInv, OneInv, Next PROVE OneInv'
<1>0. /\ cl \in [Clients -> ClientType] /\ sock \in [Fds -> Clients \cup {NULL}] /\ backlog \in Seq(Clients)
      /\ watched \subseteq {d \in Fds : sock[d] # NULL}
  BY DEF Types, ClientTypes, NetTypes
<1>1. CASE \E c \in Clients : Client_(c)
  <2>1. PICK e \in Clients : Client_(e)
    BY <1>1
  <2>2. UNCHANGED <<sock, loop, crossed>>
    BY <2>1 DEF Client_, Reads, Connect, SendCred, RecvVerifyRes, GetsLength, GetsData, Shown, Quit,
                ShortCommand, Gets, SendCommand, netVars
  <2>3. \A c \in Clients : Dead(c)' => cl'[c].got = NULL
    <3>1. CASE Quit(e)
      BY <1>0, <3>1 DEF Quit, Client, OneInv, Dead
    <3>2. CASE ~Quit(e)
      <4>1. \A c \in Clients : c # e => cl'[c] = cl[c]
        BY <1>0, <2>1, <3>2 DEF Client_, Reads, Connect, SendCred, RecvVerifyRes, GetsLength, GetsData, Shown,
                ShortCommand, Gets, SendCommand, clientVars
      <4>2. cl' = cl \/ cl'[e].at # "dead"
        <5>1. CASE Connect(e) \/ SendCred(e) \/ RecvVerifyRes(e)
          BY <1>0, <5>1 DEF Connect, SendCred, RecvVerifyRes, ClientType
        <5>2. CASE Shown(e) \/ (\E cmd \in Cmds[e] : ShortCommand(e, cmd)) \/ (\E f \in Wants[e] : Gets(e, f))
          BY <1>0, <5>2 DEF Shown, ShortCommand, Gets, clientVars, Client
        <5>3. CASE GetsLength(e)
          <6> DEFINE n == down[e][1].v
                 x == [cl[e] EXCEPT !.at = "ready"]
                 y == [cl[e] EXCEPT !.at = "data", !.len = n]
                 z == [cl[e] EXCEPT !.at = "ready", !.got = cl[e].file]
          <6>1. x.at # "dead" /\ y.at # "dead" /\ z.at # "dead"
            BY <1>0 DEF ClientType
          <6>2. cl' = [cl EXCEPT ![e] = x] \/ cl' = [cl EXCEPT ![e] = y] \/ cl' = [cl EXCEPT ![e] = z]
            BY <5>3 DEF GetsLength
          <6> HIDE DEF x, y, z
          <6>3. cl'[e] \in {x, y, z}
            BY <1>0, <6>2
          <6> QED
            BY <6>1, <6>3
        <5>4. CASE GetsData(e)
          <6>1. \/ cl' = [cl EXCEPT ![e] = cl[e]]
                \/ cl' = [cl EXCEPT ![e] = [cl[e] EXCEPT !.at = "ready", !.got = cl[e].file]]
            BY <5>4 DEF GetsData
          <6>2. cl[e].at # "dead"
            BY <5>4 DEF GetsData
          <6> DEFINE x == [cl[e] EXCEPT !.at = "ready", !.got = cl[e].file]
          <6>3. x.at = "ready"
            BY <1>0 DEF ClientType
          <6>4. cl' = [cl EXCEPT ![e] = cl[e]] \/ cl' = [cl EXCEPT ![e] = x]
            BY <6>1
          <6> HIDE DEF x
          <6>5. cl'[e] = cl[e] \/ cl'[e] = x
            BY <1>0, <6>4
          <6> QED
            BY <6>2, <6>3, <6>5
        <5> QED
          BY <2>1, <3>2, <5>1, <5>2, <5>3, <5>4 DEF Client_, Reads
      <4> QED
        BY <4>1, <4>2 DEF OneInv, Dead
    <3> QED
      BY <3>1, <3>2
  <2>4. CASE Connect(e)
    <3>1. \A c \in Clients : c # e => cl'[c] = cl[c]
      BY <1>0, <2>4 DEF Connect
    <3>2. \A c \in Clients : UserOf[c] = UserOf[e] => ~Alive(c)
      BY <2>4 DEF Connect, Alive
    <3> QED
      BY <2>3, <2>2, <3>1, <3>2 DEF OneInv, Alive
  <2>5. CASE ~Connect(e)
    <3>1. \A c \in Clients : Alive(c)' => Alive(c)
      BY <1>0, <2>1, <2>5 DEF Client_, Reads, SendCred, RecvVerifyRes, GetsLength, GetsData, Shown, Quit,
                ShortCommand, Gets, SendCommand, clientVars, Alive, Client
    <3> QED
      BY <2>3, <2>2, <3>1 DEF OneInv
  <2> QED
    BY <2>4, <2>5
<1>2. CASE Loop \/ StopRequested
  <2>1. cl' = cl /\ crossed \subseteq crossed'
    BY <1>2 DEF Loop, StopRequested, Accept, LoginVerify, LoginBroken, HandleMessage, MessageMisread, clientVars,
                MessageEof, MisreadOn, MisreadEof, taskEnque, EnqueSignal, ClearFlag, Broadcast, Joined
  <2>2. loop'.at = "captured" => loop.at = "captured" \/ crossed' # {}
    <3>1. CASE \E d \in Fds : MessageMisread(d)
      BY <1>0, <3>1 DEF MessageMisread
    <3>2. CASE ~\E d \in Fds : MessageMisread(d)
      BY <1>2, <3>2 DEF Loop, StopRequested, Accept, LoginVerify, LoginBroken, HandleMessage, At,
                MessageEof, MisreadOn, MisreadEof, taskEnque, EnqueSignal, ClearFlag, Broadcast, Joined
    <3> QED
      BY <3>1, <3>2
  <2>3. \A d, f \in Fds : sock'[d] = sock'[f] /\ sock'[d] # NULL => d = f
    <3>1. CASE Accept
      <4>1. PICK d \in Fds : sock[d] = NULL /\ sock' = [sock EXCEPT ![d] = backlog[1]]
        BY <3>1 DEF Accept
      <4>2. NoSockOf(backlog[1]) /\ sock'[d] = backlog[1] /\ \A f \in Fds : f # d => sock'[f] = sock[f]
        <5>1. backlog # <<>> /\ 1 \in 1..Len(backlog)
          BY <1>0, <3>1 DEF Accept
        <5> QED
          BY <1>0, <4>1, <5>1 DEF AskInv, FreshInv
      <4> QED
        BY <4>2 DEF NoSockOf, OneInv
    <3>2. CASE ~Accept
      <4>1. sock' = sock \/ \E d \in Fds : sock' = [sock EXCEPT ![d] = NULL]
        <5>1. loop.at = "login" => loop.fd \in Fds
          BY DEF Types, LoopTypes
        <5>2. loop.at = "captured" => loop.fd \in Fds
          BY <1>0 DEF Types, LoopTypes
        <5> QED
          BY <1>2, <3>2, <5>1, <5>2 DEF Loop, StopRequested, LoginVerify, LoginBroken, HandleMessage, MessageMisread, netVars,
                MessageEof, MisreadOn, MisreadEof, taskEnque, EnqueSignal, ClearFlag, Broadcast, Joined, Close
      <4> QED
        BY <1>0, <4>1 DEF OneInv
    <3> QED
      BY <3>1, <3>2
  <2> QED
    BY <2>1, <2>2, <2>3 DEF OneInv, Alive, Dead
<1>3. CASE \E w \in Workers : Thread(w) \/ SigPipe(w)
  <2>1. UNCHANGED <<cl, sock>> /\ (loop' = loop \/ loop'.at = "killed") /\ crossed \subseteq crossed'
    BY <1>3, ThreadLeaves DEF At
  <2> QED
    BY <2>1 DEF OneInv, Alive, Dead
<1> QED
  BY <1>1, <1>2, <1>3 DEF Next

\* What is left of a sequence after its first two elements.
LEMMA TailTail ==
    ASSUME NEW S, NEW s \in Seq(S), Len(s) >= 2
    PROVE  /\ Len(Tail(Tail(s))) + 2 = Len(s)
           /\ \A i \in DOMAIN Tail(Tail(s)) : i + 2 \in DOMAIN s /\ Tail(Tail(s))[i] = s[i + 2]
           /\ Len(s) = 2 => Tail(Tail(s)) = <<>>
<1>1. PICK t \in Seq(S) : t = Tail(s) /\ Len(t) = Len(s) - 1
  <2>1. Tail(s) \in Seq(S) /\ Len(Tail(s)) = Len(s) - 1
    OBVIOUS
  <2> QED
    BY <2>1
<1>2. \A i \in DOMAIN t : i + 1 \in DOMAIN s /\ t[i] = s[i + 1]
  BY <1>1, TailIndex, EmptySeq
<1>3. t # <<>>
  BY <1>1
<1>4. PICK r \in Seq(S) : r = Tail(t) /\ Len(r) = Len(t) - 1
  <2>1. Tail(t) \in Seq(S) /\ Len(Tail(t)) = Len(t) - 1
    BY <1>3
  <2> QED
    BY <2>1
<1>5. \A i \in DOMAIN r : i \in Nat /\ i + 1 \in DOMAIN t /\ r[i] = t[i + 1]
  BY <1>3, <1>4
<1>6. Len(s) \in Nat /\ Len(t) \in Nat /\ Len(r) \in Nat
  OBVIOUS
<1>7. Len(r) + 2 = Len(s)
  BY <1>1, <1>4, <1>6
<1>8. \A i \in DOMAIN r : i + 2 \in DOMAIN s /\ r[i] = s[i + 2]
  <2>1. \A i \in Nat : (i + 1) + 1 = i + 2
    OBVIOUS
  <2> QED
    BY <1>2, <1>5, <2>1
<1>9. Len(s) = 2 => r = <<>>
  BY <1>6, <1>7, EmptySeq
<1> QED
  BY <1>1, <1>4, <1>7, <1>8, <1>9

\* The body of a command follows its length.
LEMMA BodyNext ==
    ASSUME Types, NEW c \in Clients, up[c] # <<>>, up[c][1].k = "len"
    PROVE  1 \in DOMAIN up[c] /\ 2 \in DOMAIN up[c] /\ up[c][2].k = "body" /\ Len(up[c]) >= 2
<1>1. up[c] \in Seq(UpWord) /\ \A i \in DOMAIN up[c] : up[c][i].k = "len" => i + 1 \in DOMAIN up[c] /\ up[c][i + 1].k = "body"
  BY DEF Types, UpTypes
<1>2. 1 \in DOMAIN up[c]
  BY <1>1
<1>3. PICK i \in DOMAIN up[c] : i = 1
  BY <1>2
<1>4. i + 1 \in DOMAIN up[c] /\ up[c][i + 1].k = "body"
  BY <1>1, <1>3
<1>5. i + 1 = 2
  BY <1>3
<1>6. 2 \in DOMAIN up[c] /\ up[c][2].k = "body"
  BY <1>4, <1>5
<1>7. Len(up[c]) >= 2
  BY <1>1, <1>6
<1> QED
  BY <1>2, <1>6, <1>7

\* handleMessage takes a gets of c: the client waits for its answer.
LEMMA GetsTaken ==
    ASSUME Types, Types', NEW c \in Clients, ClientInv(c), NEW d \in Fds, HandleMessage(d), sock[d] = c,
           up[c][2].v = "gets"
    PROVE  ClientInv(c)'
<1>0. up \in [Clients -> Seq(UpWord)] /\ up[c] \in Seq(UpWord)
  BY DEF Types, UpTypes
<1>1. /\ up[c] # <<>> /\ up[c][1].k = "len" /\ up'[c] = Tail(Tail(up[c]))
      /\ loop' = [At("enque") EXCEPT !.task = Task(d, up[c][2].v, up[c][2].file, c)]
      /\ UNCHANGED <<que, wk, down, cl, disk>>
  BY <1>0 DEF HandleMessage, Head1, queueVars, clientVars
<1>2. 1 \in DOMAIN up[c] /\ 2 \in DOMAIN up[c] /\ up[c][2].k = "body" /\ Len(up[c]) >= 2
  BY <1>1, BodyNext
<1>3. AskedUp(c, 2)
  BY <1>2 DEF AskedUp
<1>4. /\ 2 = Len(up[c]) /\ Asks(c, up[c][2].file)
      /\ ~AskedLoop(c) /\ (\A j \in DOMAIN que : ~AskedQue(c, j)) /\ \A w \in Workers : ~AskedRun(c, w)
  BY <1>2, <1>3 DEF ClientInv, AskedInv
<1>5. up'[c] = <<>>
  BY <1>0, <1>1, <1>2, <1>4, TailTail
<1>6. loop'.task.file = up[c][2].file
  BY <1>1 DEF At, Task
<1>7. /\ Asks(c, loop.task.file)' /\ (\A j \in DOMAIN que' : ~AskedQue(c, j)') /\ \A w \in Workers : ~AskedRun(c, w)'
  BY <1>1, <1>4, <1>6 DEF Asks, NoLength, AskedQue, AskedRun
<1>8. AskedInv(c)'
  BY <1>5, <1>7 DEF AskedInv, AskedUp
<1>9. LengthInv(c)'
  BY <1>7 DEF LengthInv, Asks, NoLength
<1>10. OffInv(c)'
  BY <1>5 DEF OffInv
<1>11. SendInv(c)' /\ GotInv(c)'
  <2>1. Idle(c)' /\ cl'[c].at = "length" /\ cl'[c].got = NULL
    BY <1>1, <1>4 DEF ClientInv, SendInv, GotInv, Asks, Idle, NoSender, NoData, Sender
  <2> QED
    BY <2>1 DEF SendInv, GotInv
<1> QED
  BY <1>8, <1>9, <1>10, <1>11 DEF ClientInv

\* taskEnque puts a gets of c in the queue.
LEMMA GetsQueued ==
    ASSUME Types, Types', NEW c \in Clients, ClientInv(c), taskEnque, IsAsk(loop.task, c) PROVE ClientInv(c)'
<1>1. /\ AskedLoop(c) /\ que' = Append(que, loop.task) /\ UNCHANGED <<up, down, wk, cl, disk>> /\ loop'.at = "signal"
  BY DEF taskEnque, AskedLoop, netVars, clientVars, At
<1>2. /\ Asks(c, loop.task.file) /\ up[c] = <<>>
      /\ (\A j \in DOMAIN que : ~AskedQue(c, j)) /\ \A w \in Workers : ~AskedRun(c, w)
  BY <1>1 DEF ClientInv, AskedInv
<1>3. \A i \in DOMAIN que' : (i \in DOMAIN que /\ que'[i] = que[i]) \/ (i = Len(que) + 1 /\ que'[i] = loop.task)
  <2>1. que \in Seq(TaskType)
    BY DEF Types, QueueTypes
  <2> DEFINE t == loop.task
  <2>2. que' = Append(que, t)
    BY <1>1
  <2> HIDE DEF t
  <2>3. \A i \in DOMAIN que' : (i \in DOMAIN que /\ que'[i] = que[i]) \/ (i = Len(que) + 1 /\ que'[i] = t)
    BY <2>1, <2>2
  <2> QED
    BY <2>3 DEF t
<1>4. \A i \in DOMAIN que' : AskedQue(c, i)' => i = Len(que) + 1 /\ que'[i] = loop.task
  BY <1>2, <1>3 DEF AskedQue
<1>5. (\A f : Asks(c, f) => Asks(c, f)') /\ ~AskedLoop(c)' /\ \A w \in Workers : ~AskedRun(c, w)'
  BY <1>1, <1>2 DEF Asks, NoLength, AskedLoop, AskedRun
<1>6. AskedInv(c)'
  BY <1>1, <1>2, <1>4, <1>5 DEF AskedInv, AskedUp
<1>7. LengthInv(c)' /\ OffInv(c)' /\ SendInv(c)' /\ GotInv(c)'
  <2>1. NoLength(c)' /\ Idle(c)' /\ cl'[c].at = "length" /\ cl'[c].got = NULL
    BY <1>1, <1>2 DEF ClientInv, SendInv, GotInv, Asks, Idle, NoSender, NoData, NoLength, Sender
  <2>2. up'[c] = <<>>
    BY <1>1, <1>2
  <2> QED
    BY <2>1, <2>2 DEF LengthInv, NoLength, OffInv, SendInv, GotInv
<1> QED
  BY <1>6, <1>7 DEF ClientInv

LEMMA LoopDownNext ==
    ASSUME Types, Types', AskInv, OneInv, DownAll, Clean, Clean', Loop \/ StopRequested PROVE DownAll'
<1>0. /\ cl' = cl /\ disk' = disk /\ 0 \in Nat /\ 1 \in Nat /\ 2 \in Nat
      /\ up \in [Clients -> Seq(UpWord)] /\ sock \in [Fds -> Clients \cup {NULL}]
      /\ \A d \in watched : sock[d] \in Clients /\ d \in Fds
  <2>1. cl' = cl /\ disk' = disk
    BY DEF Loop, StopRequested, Accept, LoginVerify, LoginBroken, HandleMessage, MessageMisread, clientVars,
           MessageEof, MisreadOn, MisreadEof, taskEnque, EnqueSignal, ClearFlag, Broadcast, Joined
  <2> QED
    BY <2>1 DEF Types, UpTypes, NetTypes
<1>1. DiskInv'
  BY <1>0 DEF DownAll, DiskInv
<1> SUFFICES ASSUME NEW c \in Clients, ~Dead(c) PROVE ClientInv(c)'
  BY <1>0, <1>1 DEF DownAll, Dead
<1>2. ClientInv(c) /\ ClKept(c) /\ DiskKept(c)
  BY <1>0, SameKept DEF DownAll
<1>3. loop.at # "captured"
  BY DEF OneInv, Clean
<1>4. CASE \/ Accept \/ LoginBroken \/ (\E d \in Fds : MessageEof(d)) \/ EnqueSignal \/ ClearFlag \/ Broadcast \/ Joined
           \/ StopRequested
  <2>1. UNCHANGED <<up, down, que>> /\ (loop' = loop \/ loop'.at # "enque")
    BY <1>4 DEF Accept, LoginBroken, MessageEof, EnqueSignal, ClearFlag, Broadcast, Joined, StopRequested, At, queueVars
  <2>2. \A w \in Workers : wk'[w] = wk[w] \/ (wk[w].at = "asleep" /\ wk'[w].at = "lock")
    <3>1. wk' = wk \/ Wake(Asleep) \/ \E w \in Asleep : Wake({w})
      BY <1>4 DEF Accept, LoginBroken, MessageEof, EnqueSignal, ClearFlag, Broadcast, Joined, StopRequested, queueVars
    <3> QED
      BY <3>1 DEF Wake, Asleep, Worker
  <2>3. WkKept(c)
    BY <2>2 DEF WkKept, Key, AskedRun, Waits, Sender
  <2>4. UpKept(c, 0) /\ LenKept(c, 0) /\ DownKept(c, 0) /\ QueKept(c, 0) /\ LoopKept(c)
    BY <2>1, SameKept
  <2> QED
    BY <1>0, <1>2, <2>3, <2>4, KeepClient
<1>5. CASE LoginVerify
  <2> DEFINE e == sock[loop.fd]
             ws == <<Word("res", Head1(e).v)>>
  <2>1. /\ e \in Clients /\ up[e] # <<>> /\ Head1(e).k = "cred" /\ Send(loop.fd, ws, e)
        /\ up' = [up EXCEPT ![e] = Tail(@)] /\ UNCHANGED <<que, wk>> /\ (loop' = loop \/ loop'.at # "enque")
    BY <1>5 DEF LoginVerify, Types, LoopTypes, queueVars, At
  <2>2. QueKept(c, 0) /\ WkKept(c) /\ LoopKept(c)
    BY <2>1, SameKept
  <2>3. DownKept(c, 0)
    <3>1. Head1(e).v \in Nat
      <4>1. up[e][1] \in UpWord
        BY <1>0, <2>1
      <4> QED
        BY <2>1, <4>1 DEF UpWord, Verdicts, Head1
    <3>2. Word("res", Head1(e).v) \in Sent
      BY <3>1 DEF Sent, Word
    <3>3. ws \in Seq(Sent)
      BY <3>2
    <3>4. \A i \in 1..Len(ws) : ws[i].k \notin {"length", "buff", "whole"}
      BY DEF Word
    <3> HIDE DEF ws
    <3> QED
      BY <2>1, <3>3, <3>4, SendKept
  <2>4. CASE c = e
    <3>1. up'[c] = Tail(up[c]) /\ up[c] # <<>>
      BY <1>0, <2>1, <2>4
    <3>2. UpKept(c, 1) /\ LenKept(c, 1)
      BY <3>1, TailKept
    <3>3. NoOff(c)
      BY <1>2, <2>1, <2>4, FirstWord DEF ClientInv
    <3> QED
      BY <1>0, <1>2, <2>2, <2>3, <3>2, <3>3, KeepClient
  <2>5. CASE c # e
    <3>1. UpKept(c, 0) /\ LenKept(c, 0)
      BY <1>0, <2>1, <2>5, SameKept
    <3> QED
      BY <1>0, <1>2, <2>2, <2>3, <3>1, KeepClient
  <2> QED
    BY <2>4, <2>5
<1>6. ASSUME NEW d \in Fds, HandleMessage(d) PROVE ClientInv(c)'
  <2> DEFINE e == sock[d]
  <2>1. /\ e \in Clients /\ up[e] # <<>> /\ up[e][1].k = "len" /\ up' = [up EXCEPT ![e] = Tail(Tail(@))]
        /\ loop' = [At("enque") EXCEPT !.task = Task(d, up[e][2].v, up[e][2].file, e)]
        /\ UNCHANGED <<que, wk, down>>
    BY <1>0, <1>6 DEF HandleMessage, Head1, queueVars
  <2>2. loop'.task.by = e /\ loop'.task.cmd = up[e][2].v
    BY <2>1 DEF At, Task
  <2>3. QueKept(c, 0) /\ WkKept(c) /\ DownKept(c, 0)
    BY <2>1, SameKept
  <2>4. CASE c # e
    <3>1. UpKept(c, 0) /\ LenKept(c, 0)
      BY <1>0, <2>1, <2>4, SameKept
    <3>2. LoopKept(c)
      BY <2>2, <2>4 DEF LoopKept, IsAsk
    <3> QED
      BY <1>0, <1>2, <2>3, <3>1, <3>2, KeepClient
  <2>5. CASE c = e /\ up[e][2].v = "gets"
    BY <1>2, <1>6, <2>5, GetsTaken
  <2>6. CASE c = e /\ up[e][2].v # "gets"
    <3>1. LoopKept(c)
      BY <2>2, <2>6 DEF LoopKept, IsAsk
    <3>2. NoOff(c)
      BY <1>2, <2>1, <2>6, FirstWord DEF ClientInv, Head1
    <3>3. up[c] \in Seq(UpWord) /\ up'[c] = Tail(Tail(up[c])) /\ Len(up[c]) \in Nat
      BY <1>0, <2>1, <2>6
    <3>4. Len(up[c]) >= 2
      BY <2>1, <2>6, BodyNext
    <3>5. Len(up'[c]) + 2 = Len(up[c]) /\ \A i \in DOMAIN up'[c] : i + 2 \in DOMAIN up[c] /\ up'[c][i] = up[c][i + 2]
      BY <3>3, <3>4, TailTail
    <3>6. UpKept(c, 2) /\ LenKept(c, 2)
      BY <3>5 DEF UpKept, LenKept
    <3> QED
      BY <1>0, <1>2, <2>3, <3>1, <3>2, <3>6, KeepClient
  <2> QED
    BY <2>4, <2>5, <2>6
<1>7. ASSUME NEW d \in Fds, MessageMisread(d) PROVE FALSE
  <2>1. crossed' # {}
    BY <1>0, <1>7 DEF MessageMisread
  <2> QED
    BY <2>1 DEF Clean
<1>8. CASE taskEnque
  <2>1. UNCHANGED <<up, down, wk>> /\ que' = Append(que, loop.task) /\ loop'.at = "signal"
    BY <1>8 DEF taskEnque, At
  <2>2. CASE IsAsk(loop.task, c)
    BY <1>2, <1>8, <2>2, GetsQueued
  <2>3. CASE ~IsAsk(loop.task, c)
    <3>1. UpKept(c, 0) /\ LenKept(c, 0) /\ DownKept(c, 0) /\ WkKept(c) /\ LoopKept(c)
      BY <2>1, SameKept
    <3>2. QueKept(c, 0)
      <4> DEFINE t == loop.task
      <4>1. que \in Seq(TaskType) /\ que' = Append(que, t) /\ ~IsAsk(t, c)
        BY <2>1, <2>3 DEF Types, QueueTypes
      <4> HIDE DEF t
      <4>2. \A i \in DOMAIN que' : (i \in DOMAIN que /\ i + 0 = i /\ que'[i] = que[i]) \/ que'[i] = t
        BY <4>1
      <4> QED
        BY <4>1, <4>2 DEF QueKept
    <3> QED
      BY <1>0, <1>2, <3>1, <3>2, KeepClient
  <2> QED
    BY <2>2, <2>3
<1>9. ~MisreadOn /\ ~MisreadEof
  BY <1>3 DEF MisreadOn, MisreadEof
<1> QED
  BY <1>4, <1>5, <1>6, <1>7, <1>8, <1>9 DEF Loop

\* A client that is not waiting for a length has no gets under way that was not begun,
\* and one that is filling its copy no length.
LEMMA DataKept ==
    ASSUME Types, NEW c \in Clients, ClientInv(c), cl[c].at = "data", UNCHANGED <<loop, que, cl, disk>>,
           \A i \in DOMAIN up'[c] : \E j \in DOMAIN up[c] : up'[c][i] = up[c][j],
           \A w \in Workers : AskedRun(c, w)' => AskedRun(c, w), NoLength(c)'
    PROVE  AskedInv(c)' /\ LengthInv(c)' /\ GotInv(c)'
<1>1. \A f : ~Asks(c, f)
  BY DEF Asks
<1>2. /\ \A i \in DOMAIN up[c] : ~AskedUp(c, i)
      /\ ~AskedLoop(c) /\ (\A i \in DOMAIN que : ~AskedQue(c, i)) /\ \A w \in Workers : ~AskedRun(c, w)
  BY <1>1 DEF ClientInv, AskedInv
<1>3. /\ \A i \in DOMAIN up'[c] : ~AskedUp(c, i)'
      /\ ~AskedLoop(c)' /\ (\A i \in DOMAIN que' : ~AskedQue(c, i)') /\ \A w \in Workers : ~AskedRun(c, w)'
  BY <1>2 DEF AskedUp, AskedLoop, AskedQue, AskedRun
<1>4. AskedInv(c)'
  BY <1>3 DEF AskedInv
<1>5. LengthInv(c)'
  BY DEF LengthInv, NoLength
<1>6. GotInv(c)'
  BY DEF ClientInv, GotInv, Kept
<1> QED
  BY <1>4, <1>5, <1>6

\* A worker takes a gets of c from the queue.
LEMMA GetsBegun ==
    ASSUME Types, Types', NEW c \in Clients, ClientInv(c), NEW w \in Workers, DequeTake(w), IsAsk(que[1], c)
    PROVE  ClientInv(c)'
<1>1. /\ que # <<>> /\ que' = Tail(que) /\ wk' = [wk EXCEPT ![w] = Worker("run", que[1], 0)]
      /\ wk[w].at = "lock" /\ UNCHANGED <<loop, up, down, cl, disk>>
  BY DEF DequeTake, clientVars
<1>2. que \in Seq(TaskType) /\ wk \in [Workers -> WorkerType]
  BY DEF Types, QueueTypes
<1>3. /\ 1 \in DOMAIN que
      /\ \A i \in DOMAIN que' : i \in Nat /\ i # 0 /\ i + 1 \in DOMAIN que /\ que'[i] = que[i + 1]
  BY <1>1, <1>2, TailIndex
<1>4. wk'[w] = Worker("run", que[1], 0) /\ \A v \in Workers : v # w => wk'[v] = wk[v]
  BY <1>1, <1>2
<1>5. AskedQue(c, 1)
  BY <1>3 DEF AskedQue
<1>6. /\ Asks(c, que[1].file) /\ up[c] = <<>> /\ \A v \in Workers : ~AskedRun(c, v)
      /\ \A i \in DOMAIN que : AskedQue(c, i) => i = 1
      /\ ~AskedLoop(c)
  BY <1>3, <1>5 DEF ClientInv, AskedInv
<1>7. \A i \in DOMAIN que' : ~AskedQue(c, i)'
  <2> SUFFICES ASSUME NEW i \in DOMAIN que', AskedQue(c, i)' PROVE FALSE
    OBVIOUS
  <2>1. i \in Nat /\ i # 0 /\ AskedQue(c, i + 1) /\ i + 1 \in DOMAIN que
    BY <1>3 DEF AskedQue
  <2>2. i + 1 = 1
    BY <1>6, <2>1
  <2> QED
    BY <2>1, <2>2
<1>8. (\A f : Asks(c, f) => Asks(c, f)') /\ ~AskedLoop(c)' /\ up'[c] = <<>>
  BY <1>1, <1>6 DEF Asks, NoLength, AskedLoop
<1>9. \A v \in Workers : AskedRun(c, v)' => v = w /\ wk'[v].task.file = que[1].file
  BY <1>4, <1>6 DEF AskedRun, Worker
<1>10. AskedInv(c)'
  <2>1. \A v \in Workers : AskedRun(c, v)' => Asks(c, wk[v].task.file)'
    <3> SUFFICES ASSUME NEW v \in Workers, AskedRun(c, v)' PROVE Asks(c, wk[v].task.file)'
      OBVIOUS
    <3>1. PICK f : f = que[1].file
      OBVIOUS
    <3>2. Asks(c, f)'
      BY <1>6, <1>8, <3>1
    <3> QED
      BY <1>9, <3>1, <3>2 DEF Asks
  <2> QED
    BY <1>7, <1>8, <1>9, <2>1 DEF AskedInv, AskedUp
<1>11. NoLength(c)' /\ cl'[c].at = "length" /\ cl'[c].got = NULL
  BY <1>1, <1>6 DEF Asks, NoLength, ClientInv, GotInv
<1>12. Idle(c)'
  <2>1. Idle(c)
    BY <1>6 DEF Asks, ClientInv, SendInv
  <2>2. NoSender(c)'
    BY <1>4, <2>1 DEF Idle, NoSender, Sender, Worker
  <2> QED
    BY <1>1, <2>1, <2>2 DEF Idle, NoData
<1>13. LengthInv(c)' /\ OffInv(c)' /\ SendInv(c)' /\ GotInv(c)'
  BY <1>8, <1>11, <1>12 DEF LengthInv, NoLength, OffInv, SendInv, GotInv
<1> QED
  BY <1>10, <1>13 DEF ClientInv

\* getsCommand answers a gets of c with the length.
LEMMA LengthSent ==
    ASSUME Types, Types', NEW c \in Clients, ClientInv(c), NEW w \in Workers, GetsOpen(w),
           wk[w].task.by = c, sock[wk[w].task.fd] = c, ~Dead(c)
    PROVE  ClientInv(c)'
<1> DEFINE t == wk[w].task
           n == LengthOf(t.file)
           ws == <<Word("length", n)>>
<1>0. wk \in [Workers -> WorkerType] /\ down[c] \in Seq(DownWord) /\ down'[c] \in Seq(DownWord) /\ c # NULL
  BY NullIs DEF Types, QueueTypes, DownTypes
<1>1. wk[w].at = "run" /\ t.cmd = "gets" /\ Send(t.fd, ws, c) /\ UNCHANGED <<up, loop, que, cl, disk>>
  BY DEF GetsOpen, LengthOf, taskFrame, clientVars
<1>2. AskedRun(c, w)
  BY <1>1 DEF AskedRun, IsAsk
<1>3. /\ cl[c].at = "length" /\ cl[c].file = t.file /\ NoLength(c) /\ up[c] = <<>>
      /\ ~AskedLoop(c) /\ (\A j \in DOMAIN que : ~AskedQue(c, j)) /\ \A v \in Workers : AskedRun(c, v) => v = w
  BY <1>2 DEF ClientInv, AskedInv, Asks
<1>4. /\ \A v \in Workers : v # w => wk'[v] = wk[v]
      /\ IF t.file \in Files THEN wk'[w] = [wk[w] EXCEPT !.at = "offset"] ELSE wk'[w] = Worker("lock", NULL, 0)
  <2>1. t.file \in Files => wk' = [wk EXCEPT ![w].at = "offset"]
    BY <1>0 DEF GetsOpen
  <2>2. t.file \notin Files => Done(w)
    BY <1>0 DEF GetsOpen
  <2> QED
    BY <1>0, <2>1, <2>2 DEF Done
<1>5. /\ t.file \in Files => wk'[w].at = "offset" /\ wk'[w].task = t
      /\ wk'[w].at \in {"offset", "lock"}
  BY <1>0, <1>4 DEF WorkerType, Worker
<1>6. /\ down'[c] = down[c] \o [i \in 1..Len(ws) |-> [k |-> ws[i].k, v |-> ws[i].v, by |-> c]]
  BY <1>0, <1>1 DEF Send
<1> DEFINE x == [k |-> "length", v |-> n, by |-> c]
<1>7. down'[c] = down[c] \o <<x>>
  <2>1. [i \in 1..Len(ws) |-> [k |-> ws[i].k, v |-> ws[i].v, by |-> c]] = <<x>>
    BY DEF Word
  <2> QED
    BY <1>6, <2>1
<1>8. x.k = "length" /\ x.v = n
  OBVIOUS
<1> HIDE DEF x, ws
<1>9. \A i \in DOMAIN down'[c] : \/ i \in DOMAIN down[c] /\ down'[c][i] = down[c][i]
                                 \/ i = Len(down[c]) + 1 /\ down'[c][i] = x
  BY <1>0, <1>7
<1>10. \A i \in DOMAIN down'[c] : down'[c][i].k = "length" => i = Len(down[c]) + 1 /\ down'[c][i].v = n
  BY <1>3, <1>8, <1>9 DEF NoLength
<1>11. AskedInv(c)'
  <2>1. /\ up'[c] = <<>> /\ ~AskedLoop(c)' /\ (\A j \in DOMAIN que' : ~AskedQue(c, j)')
        /\ \A v \in Workers : ~AskedRun(c, v)'
    BY <1>1, <1>3, <1>4, <1>5 DEF AskedLoop, AskedQue, AskedRun
  <2> QED
    BY <2>1 DEF AskedInv, AskedUp
<1>12. LengthInv(c)'
  <2>1. cl'[c].file \in Files => Waits(w, c)' /\ wk'[w].task.file = cl'[c].file
    BY <1>1, <1>3, <1>5 DEF Waits
  <2> QED
    BY <1>1, <1>3, <1>10, <2>1 DEF LengthInv, LengthOf
<1>13. OffInv(c)' /\ GotInv(c)'
  BY <1>1, <1>3 DEF OffInv, ClientInv, GotInv
<1>14. Idle(c)'
  <2>1. Idle(c)
    BY <1>3 DEF ClientInv, SendInv
  <2>2. NoSender(c)'
    BY <1>4, <1>5, <2>1 DEF Idle, NoSender, Sender
  <2>3. NoData(c)'
    BY <1>8, <1>9, <2>1 DEF Idle, NoData
  <2> QED
    BY <2>2, <2>3 DEF Idle
<1> QED
  BY <1>11, <1>12, <1>13, <1>14 DEF ClientInv, SendInv

\* The worker of c's gets reads the offset that was meant for it.
LEMMA OffsetRead ==
    ASSUME Types, Types', NEW c \in Clients, ClientInv(c), NEW w \in Workers, GetsOffset(w),
           wk[w].task.by = c, sock[wk[w].task.fd] = c, ~Dead(c), Clean',
           \A v \in Workers : Waits(v, c) => wk[v].task.fd = wk[w].task.fd
    PROVE  ClientInv(c)'
<1> DEFINE t == wk[w].task
<1>0. wk \in [Workers -> WorkerType] /\ up \in [Clients -> Seq(UpWord)] /\ up[c] \in Seq(UpWord) /\ c # NULL
  BY NullIs DEF Types, QueueTypes, UpTypes
<1>1. /\ wk[w].at = "offset" /\ up[c] # <<>> /\ up' = [up EXCEPT ![c] = Tail(@)]
      /\ up[c][1].k = "off" /\ ~AlsoWaits(w)
      /\ wk' = [wk EXCEPT ![w].at = "send", ![w].pos = up[c][1].v]
      /\ UNCHANGED <<down, loop, que, cl, disk>>
  <2>1. wk[w].at = "offset" /\ up[c] # <<>> /\ UNCHANGED <<down, loop, que, cl, disk>>
    BY <1>0 DEF GetsOffset, taskFrame, clientVars
  <2>2. up[c][1].k = "off" /\ ~AlsoWaits(w)
    BY <1>0, <2>1 DEF GetsOffset, Clean, Head1
  <2> QED
    BY <1>0, <2>1, <2>2 DEF GetsOffset, Head1
<1>2. /\ 1 \in DOMAIN up[c] /\ up'[c] = Tail(up[c])
      /\ \A i \in DOMAIN up'[c] : i \in Nat /\ i # 0 /\ i + 1 \in DOMAIN up[c] /\ up'[c][i] = up[c][i + 1]
      /\ up[c][1].v \in Nat
  <2>1. up'[c] = Tail(up[c])
    BY <1>0, <1>1
  <2>2. 1 \in DOMAIN up[c] /\ \A i \in DOMAIN up'[c] : i \in Nat /\ i # 0 /\ i + 1 \in DOMAIN up[c] /\ up'[c][i] = up[c][i + 1]
    BY <1>0, <1>1, <2>1, TailIndex
  <2>3. up[c][1] \in UpWord
    BY <1>0, <2>2
  <2> QED
    BY <1>1, <2>1, <2>2, <2>3 DEF UpWord
<1>3. /\ wk'[w].at = "send" /\ wk'[w].pos = up[c][1].v /\ wk'[w].task = t
      /\ \A v \in Workers : v # w => wk'[v] = wk[v]
  <2> DEFINE y == up[c][1].v
  <2>1. wk' = [wk EXCEPT ![w].at = "send", ![w].pos = y]
    BY <1>1
  <2> HIDE DEF y
  <2>2. wk'[w].at = "send" /\ wk'[w].pos = y /\ wk'[w].task = wk[w].task
    BY <1>0, <2>1 DEF WorkerType
  <2>3. \A v \in Workers : v # w => wk'[v] = wk[v]
    BY <1>0, <2>1
  <2> QED
    BY <2>2, <2>3 DEF y
<1>4. PICK v \in Workers :
        /\ Waits(v, c)
        /\ \/ /\ cl[c].at = "data" /\ cl[c].file = wk[v].task.file /\ Idle(c)
              /\ Small(cl[c].file) => up[c][1].v = Len(Kept(c))
           \/ Small(wk[v].task.file) /\ up[c][1].v >= Size[wk[v].task.file]
  BY <1>1, <1>2 DEF ClientInv, OffInv
<1>5. v = w
  BY <1>1, <1>4 DEF AlsoWaits, Waits
<1>6. OffInv(c)'
  <2> SUFFICES ASSUME NEW i \in DOMAIN up'[c], up'[c][i].k = "off" PROVE FALSE
    BY DEF OffInv
  <2>1. i + 1 \in DOMAIN up[c] /\ up[c][i + 1].k = "off" /\ i \in Nat /\ i # 0
    BY <1>2
  <2>2. i + 1 = 1
    BY <2>1 DEF ClientInv, OffInv
  <2> QED
    BY <2>1, <2>2
<1>7. \A u \in Workers : (AskedRun(c, u)' => AskedRun(c, u)) /\ (u # w => (Sender(u, c)' <=> Sender(u, c)))
  BY <1>3 DEF AskedRun, Sender
<1>8. NoLength(c) /\ NoLength(c)'
  BY <1>1 DEF ClientInv, LengthInv, NoLength
<1>9. CASE cl[c].at = "data" /\ cl[c].file = t.file /\ Idle(c) /\ (Small(cl[c].file) => up[c][1].v = Len(Kept(c)))
  <2>1. AskedInv(c)' /\ LengthInv(c)' /\ GotInv(c)'
    BY <1>1, <1>2, <1>7, <1>8, <1>9, DataKept
  <2>2. NoData(c)'
    BY <1>1, <1>9 DEF Idle, NoData
  <2>3. /\ Small(t.file) => Len(Kept(c)) < Size[t.file] /\ wk'[w].pos = Len(Kept(c))
        /\ Kept(c)' = Kept(c) /\ cl'[c].file = cl[c].file /\ cl'[c].at = "data"
    BY <1>1, <1>3, <1>9 DEF ClientInv, GotInv, Kept
  <2>4. Sender(w, c)'
    BY <1>3, <2>3 DEF Sender, Small
  <2>5. \A u \in Workers : Sender(u, c)' => u = w
    BY <1>7, <1>9 DEF Idle, NoSender
  <2>6. Small(t.file) => SentTo(c, wk[w].pos)'
    <3> HAVE Small(t.file)
    <3>1. Len(Kept(c)') \in Nat
      <4>1. cl[c].file \in Names
        BY <1>9 DEF Types, ClientTypes
      <4>2. disk[UserOf[c]][cl[c].file] \in Seq(Nat)
        BY <4>1 DEF Types, DiskTypes, Users
      <4> QED
        BY <2>3, <4>2 DEF Kept
    <3>2. wk'[w].pos = Len(Kept(c)')
      BY <2>3
    <3>3. \A y \in Nat : ~(Len(Kept(c)') < y /\ y <= wk'[w].pos)
      BY <3>1, <3>2
    <3> QED
      BY <2>2, <3>1, <3>2, <3>3 DEF SentTo, NoData
  <2>7. SendInv(c)'
    BY <1>3, <1>9, <2>2, <2>3, <2>4, <2>5, <2>6 DEF SendInv, Small
  <2> QED
    BY <1>6, <2>1, <2>7 DEF ClientInv
<1>10. CASE Small(t.file) /\ up[c][1].v >= Size[t.file]
  <2>1. ~Sender(w, c) /\ ~Sender(w, c)'
    <3>1. t.file \in Files
      BY <1>1 DEF Types, QueueTypes, IsGets
    <3>2. Size[t.file] \in Nat
      BY <3>1, CloudAssumption
    <3> QED
      BY <1>1, <1>2, <1>3, <1>10, <3>2 DEF Sender, Small
  <2>2. \A u \in Workers : (Sender(u, c)' <=> Sender(u, c)) /\ (Sender(u, c) => wk'[u] = wk[u])
    BY <1>3, <1>7, <2>1
  <2>3. SendInv(c)'
    <3>1. Idle(c) => Idle(c)'
      BY <1>1, <2>2 DEF Idle, NoSender, NoData
    <3>2. NoSender(c) /\ AllSent(c) => NoSender(c)' /\ AllSent(c)'
      BY <1>1, <2>2 DEF NoSender, AllSent, SentTo, Small, Kept
    <3>3. ASSUME NEW u \in Workers, Sender(u, c), wk[u].task.file = cl[c].file,
                 IF Small(cl[c].file) THEN SentTo(c, wk[u].pos) ELSE NoData(c),
                 \A x \in Workers : Sender(x, c) => x = u
          PROVE  /\ Sender(u, c)' /\ wk'[u].task.file = cl'[c].file
                 /\ (IF Small(cl[c].file) THEN SentTo(c, wk[u].pos) ELSE NoData(c))'
                 /\ \A x \in Workers : Sender(x, c)' => x = u
      BY <1>1, <2>2, <3>3 DEF SentTo, Small, Kept, NoData
    <3> QED
      BY <1>1, <3>1, <3>2, <3>3 DEF ClientInv, SendInv
  <2>4. /\ ~AskedLoop(c) /\ (\A i \in DOMAIN que : ~AskedQue(c, i)) /\ \A u \in Workers : ~AskedRun(c, u)
    BY <1>1 DEF ClientInv, AskedInv
  <2>5. /\ ~AskedLoop(c)' /\ (\A i \in DOMAIN que' : ~AskedQue(c, i)') /\ \A u \in Workers : ~AskedRun(c, u)'
    BY <1>1, <1>7, <2>4 DEF AskedLoop, AskedQue
  <2>6. \A i \in DOMAIN up'[c] : AskedUp(c, i)' => i = Len(up'[c]) /\ Asks(c, up[c][i].file)'
    <3> SUFFICES ASSUME NEW i \in DOMAIN up'[c], AskedUp(c, i)' PROVE i = Len(up'[c]) /\ Asks(c, up[c][i].file)'
      OBVIOUS
    <3>1. i + 1 \in DOMAIN up[c] /\ AskedUp(c, i + 1) /\ up'[c][i] = up[c][i + 1] /\ i \in Nat
      BY <1>2 DEF AskedUp
    <3>2. i + 1 = Len(up[c]) /\ Asks(c, up[c][i + 1].file)
      BY <3>1 DEF ClientInv, AskedInv
    <3>3. Len(up'[c]) = Len(up[c]) - 1 /\ Len(up[c]) \in Nat
      BY <1>0, <1>1, <1>2
    <3> QED
      BY <1>1, <3>1, <3>2, <3>3 DEF Asks, NoLength
  <2>7. AskedInv(c)'
    BY <2>5, <2>6 DEF AskedInv
  <2>8. LengthInv(c)' /\ GotInv(c)'
    BY <1>1, <1>8 DEF LengthInv, NoLength, ClientInv, GotInv, Kept
  <2> QED
    BY <1>6, <2>3, <2>7, <2>8 DEF ClientInv
<1> QED
  BY <1>4, <1>5, <1>9, <1>10

\* A worker sends c a buffer, or the whole file.
LEMMA DataSent ==
    ASSUME Types, Types', NEW c \in Clients, ClientInv(c), NEW w \in Workers, GetsSend(w),
           wk[w].task.by = c, sock[wk[w].task.fd] = c, ~Dead(c)
    PROVE  ClientInv(c)'
<1> DEFINE t == wk[w].task
           p == wk[w].pos
<1>0. /\ wk \in [Workers -> WorkerType] /\ down[c] \in Seq(DownWord) /\ down'[c] \in Seq(DownWord) /\ c # NULL
      /\ p \in Nat /\ 0 \in Nat
  BY NullIs DEF Types, QueueTypes, DownTypes, WorkerType
<1>1. wk[w].at = "send" /\ UNCHANGED <<up, loop, que, cl, disk>>
  BY DEF GetsSend, taskFrame, clientVars
<1>2. t.file \in Files /\ Size[t.file] \in Nat /\ BigSize \in Nat
  BY <1>1, CloudAssumption DEF Types, QueueTypes, IsGets
<1>3. CASE Small(t.file) /\ p >= Size[t.file]
  <2>1. Done(w) /\ down' = down
    BY <1>0, <1>2, <1>3 DEF GetsSend, Small
  <2>2. wk'[w].at = "lock" /\ \A v \in Workers : v # w => wk'[v] = wk[v]
    BY <1>0, <2>1 DEF Done, Worker
  <2>3. ~Key(w, c) /\ ~Key(w, c)'
    BY <1>0, <1>1, <1>2, <1>3, <2>2 DEF Key, AskedRun, Waits, Sender
  <2>4. WkKept(c)
    BY <2>2, <2>3 DEF WkKept
  <2>5. UpKept(c, 0) /\ LenKept(c, 0) /\ DownKept(c, 0) /\ QueKept(c, 0) /\ LoopKept(c) /\ ClKept(c) /\ DiskKept(c)
    BY <1>1, <2>1, SameKept
  <2> QED
    BY <1>0, <2>4, <2>5, KeepClient
<1>4. ASSUME Sender(w, c), NEW x \in DownWord, x.k \in {"buff", "whole"}, down'[c] = Append(down[c], x),
             \A v \in Workers : v # w => wk'[v] = wk[v], wk'[w].at \in {"send", "lock"}
      PROVE  /\ cl[c].at = "data" /\ cl[c].file = t.file
             /\ (IF Small(t.file) THEN SentTo(c, p) ELSE NoData(c))
             /\ \A v \in Workers : Sender(v, c)' => v = w
             /\ \A i \in DOMAIN down'[c] : \/ i \in DOMAIN down[c] /\ down'[c][i] = down[c][i] /\ i < Len(down[c]) + 1
                                           \/ i = Len(down[c]) + 1 /\ down'[c][i] = x
             /\ \A i \in DOMAIN down[c] : i \in DOMAIN down'[c] /\ down'[c][i] = down[c][i]
             /\ Len(down[c]) + 1 \in DOMAIN down'[c] /\ down'[c][Len(down[c]) + 1] = x
             /\ AskedInv(c)' /\ LengthInv(c)' /\ GotInv(c)' /\ OffInv(c)'
  <2>1. ~Idle(c)
    BY <1>4 DEF Idle, NoSender
  <2>2. PICK v \in Workers : /\ Sender(v, c) /\ wk[v].task.file = cl[c].file
                             /\ IF Small(cl[c].file) THEN SentTo(c, wk[v].pos) ELSE NoData(c)
                             /\ \A u \in Workers : Sender(u, c) => u = v
    BY <1>4, <2>1 DEF ClientInv, SendInv, NoSender
  <2>3. v = w
    BY <1>4, <2>2
  <2>4. cl[c].at = "data"
    BY <2>1 DEF ClientInv, SendInv
  <2>5. \A u \in Workers : Sender(u, c)' => u = w
    BY <1>4, <2>2, <2>3 DEF Sender
  <2>6. /\ Append(down[c], x) \in Seq(DownWord) /\ Len(Append(down[c], x)) = Len(down[c]) + 1
        /\ \A i \in 1..Len(down[c]) : Append(down[c], x)[i] = down[c][i]
        /\ Append(down[c], x)[Len(down[c]) + 1] = x
    BY <1>0, AppendProperties
  <2>7. /\ DOMAIN down[c] = 1..Len(down[c]) /\ DOMAIN down'[c] = 1..(Len(down[c]) + 1) /\ Len(down[c]) \in Nat
    BY <1>0, <1>4, <2>6
  <2>8. /\ \A i \in DOMAIN down'[c] : \/ i \in DOMAIN down[c] /\ down'[c][i] = down[c][i] /\ i < Len(down[c]) + 1
                                      \/ i = Len(down[c]) + 1 /\ down'[c][i] = x
        /\ \A i \in DOMAIN down[c] : i \in DOMAIN down'[c] /\ down'[c][i] = down[c][i]
        /\ Len(down[c]) + 1 \in DOMAIN down'[c] /\ down'[c][Len(down[c]) + 1] = x
    <3> HIDE DEF p, t
    <3> QED
      BY <1>4, <2>6, <2>7
  <2>9. NoLength(c)'
    <3>1. NoLength(c)
      BY <2>4 DEF ClientInv, LengthInv, NoLength
    <3> QED
      BY <1>4, <2>8, <3>1 DEF NoLength
  <2>10. \A u \in Workers : AskedRun(c, u)' => AskedRun(c, u)
    BY <1>4 DEF AskedRun
  <2>11. \A i \in DOMAIN up'[c] : \E j \in DOMAIN up[c] : up'[c][i] = up[c][j]
    BY <1>1
  <2>12. AskedInv(c)' /\ LengthInv(c)' /\ GotInv(c)'
    BY <1>1, <2>4, <2>9, <2>10, <2>11, DataKept
  <2>13. OffInv(c)'
    <3> SUFFICES ASSUME NEW i \in DOMAIN up[c], up[c][i].k = "off"
                 PROVE  /\ i = 1
                        /\ \E u \in Workers : Waits(u, c)' /\ Small(wk'[u].task.file) /\ up[c][i].v >= Size[wk'[u].task.file]
      BY <1>1 DEF OffInv, Small
    <3>1. PICK u \in Workers : Waits(u, c) /\ Small(wk[u].task.file) /\ up[c][i].v >= Size[wk[u].task.file]
      BY <2>1 DEF ClientInv, OffInv
    <3>2. u # w
      BY <1>1, <3>1 DEF Waits
    <3>3. Waits(u, c)' /\ Small(wk'[u].task.file) /\ up[c][i].v >= Size[wk'[u].task.file]
      BY <1>4, <3>1, <3>2 DEF Waits
    <3>4. i = 1
      BY DEF ClientInv, OffInv
    <3> QED
      BY <3>3, <3>4
  <2> QED
    BY <2>2, <2>3, <2>4, <2>5, <2>8, <2>12, <2>13
<1>5. ASSUME NEW k, NEW m, k \in {"buff", "whole"}, m \in Nat, Send(t.fd, <<Word(k, m)>>, t.by)
      PROVE  \E x \in DownWord : x.k = k /\ x.v = m /\ down'[c] = Append(down[c], x)
  <2> DEFINE ws == <<Word(k, m)>>
             x == [k |-> k, v |-> m, by |-> c]
  <2>1. down'[c] = down[c] \o [i \in 1..Len(ws) |-> [k |-> ws[i].k, v |-> ws[i].v, by |-> c]]
    BY <1>0, <1>5 DEF Send
  <2>2. [i \in 1..Len(ws) |-> [k |-> ws[i].k, v |-> ws[i].v, by |-> c]] = <<x>>
    BY DEF Word
  <2>3. x \in DownWord /\ x.k = k /\ x.v = m
    BY <1>5 DEF DownWord
  <2> HIDE DEF x, ws
  <2>4. down'[c] = Append(down[c], x)
    <3>1. down[c] \o <<x>> = Append(down[c], x)
      BY <1>0, <2>3, AppendIsConcat
    <3> QED
      BY ONLY <2>1, <2>2, <3>1, Zenon
  <2> QED
    BY <2>3, <2>4
<1>6. CASE ~Small(t.file)
  <2>1. Size[t.file] > BigSize
    BY <1>2, <1>6 DEF Small
  <2>2. Send(t.fd, <<Word("whole", 0)>>, t.by) /\ Done(w)
    BY <1>0, <2>1 DEF GetsSend
  <2>3. PICK x \in DownWord : x.k = "whole" /\ x.v = 0 /\ down'[c] = Append(down[c], x)
    BY <1>0, <1>5, <2>2
  <2>4. wk'[w].at = "lock" /\ \A v \in Workers : v # w => wk'[v] = wk[v]
    BY <1>0, <2>2 DEF Done, Worker
  <2>5. Sender(w, c)
    BY <1>1, <1>6 DEF Sender
  <2>6. /\ cl[c].at = "data" /\ cl[c].file = t.file /\ NoData(c) /\ \A v \in Workers : Sender(v, c)' => v = w
        /\ \A i \in DOMAIN down'[c] : \/ i \in DOMAIN down[c] /\ down'[c][i] = down[c][i]
                                      \/ i = Len(down[c]) + 1 /\ down'[c][i] = x
        /\ AskedInv(c)' /\ LengthInv(c)' /\ GotInv(c)' /\ OffInv(c)'
    BY <1>4, <1>6, <2>3, <2>4, <2>5
  <2>7. NoSender(c)'
    BY <2>4, <2>6 DEF NoSender, Sender
  <2>8. \A i \in DOMAIN down'[c] : down'[c][i].k \in {"buff", "whole"} => i = Len(down[c]) + 1
    BY <2>6 DEF NoData
  <2>9. SendInv(c)'
    BY <1>1, <1>6, <2>6, <2>7, <2>8 DEF SendInv, AllSent, Small
  <2> QED
    BY <2>6, <2>9 DEF ClientInv
<1>7. CASE Small(t.file) /\ p < Size[t.file]
  <2>1. ~(Size[t.file] > BigSize) /\ ~(p >= Size[t.file]) /\ p + 1 \in Nat
    BY <1>0, <1>2, <1>7 DEF Small
  <2>2. Send(t.fd, <<Word("buff", p + 1)>>, t.by) /\ wk' = [wk EXCEPT ![w].pos = p + 1]
    BY <1>0, <2>1 DEF GetsSend
  <2> DEFINE q == p + 1
  <2>3. PICK x \in DownWord : x.k = "buff" /\ x.v = q /\ down'[c] = Append(down[c], x)
    BY <1>0, <1>5, <2>1, <2>2
  <2>4. /\ wk'[w].at = "send" /\ wk'[w].task = t /\ wk'[w].pos = q
        /\ \A v \in Workers : v # w => wk'[v] = wk[v]
    <3> HIDE DEF q
    <3>1. wk' = [wk EXCEPT ![w].pos = q]
      BY <2>2 DEF q
    <3> QED
      BY <1>0, <1>1, <3>1 DEF WorkerType
  <2>5. Sender(w, c)
    BY <1>1, <1>7 DEF Sender
  <2>6. /\ cl[c].at = "data" /\ cl[c].file = t.file /\ SentTo(c, p) /\ \A v \in Workers : Sender(v, c)' => v = w
        /\ \A i \in DOMAIN down'[c] : \/ i \in DOMAIN down[c] /\ down'[c][i] = down[c][i] /\ i < Len(down[c]) + 1
                                      \/ i = Len(down[c]) + 1 /\ down'[c][i] = x
        /\ \A i \in DOMAIN down[c] : i \in DOMAIN down'[c] /\ down'[c][i] = down[c][i]
        /\ Len(down[c]) + 1 \in DOMAIN down'[c] /\ down'[c][Len(down[c]) + 1] = x
        /\ AskedInv(c)' /\ LengthInv(c)' /\ GotInv(c)' /\ OffInv(c)'
    <3> HIDE DEF q
    <3> QED
      BY <1>4, <1>7, <2>3, <2>4, <2>5
  <2>7. Kept(c)' = Kept(c) /\ Len(Kept(c)) \in Nat
    <3>1. cl[c].file \in Names
      BY <2>6 DEF Types, ClientTypes
    <3>2. disk[UserOf[c]][cl[c].file] \in Seq(Nat)
      BY <3>1 DEF Types, DiskTypes, Users
    <3> QED
      BY <1>1, <3>2 DEF Kept
  <2> DEFINE k == Len(Kept(c))
  <2>8. /\ k <= p /\ k \in Nat
        /\ \A i \in DOMAIN down[c] : down[c][i].k # "whole"
        /\ \A i \in DOMAIN down[c] : down[c][i].k = "buff" =>
              /\ k < down[c][i].v /\ down[c][i].v <= p
              /\ \A j \in DOMAIN down[c] : down[c][j].k = "buff" /\ i < j => down[c][i].v < down[c][j].v
        /\ \A v \in Nat : k < v /\ v <= p => \E i \in DOMAIN down[c] : down[c][i].k = "buff" /\ down[c][i].v = v
    BY <2>6, <2>7 DEF SentTo
  <2>9. \A i \in DOMAIN down[c] : down[c][i].v \in Nat /\ i \in Nat
    <3>1. \A i \in DOMAIN down[c] : down[c][i] \in DownWord
      BY <1>0
    <3> QED
      BY <1>0, <3>1 DEF DownWord
  <2>10. PICK n \in Nat : n = Len(down[c]) + 1
    BY <1>0
  <2> HIDE DEF k
  <2>11. /\ k <= q /\ \A i \in DOMAIN down'[c] : down'[c][i].k # "whole"
    BY <1>0, <2>3, <2>6, <2>8
  <2>12. ASSUME NEW i \in DOMAIN down'[c], down'[c][i].k = "buff"
         PROVE  /\ k < down'[c][i].v /\ down'[c][i].v <= q
                /\ \A j \in DOMAIN down'[c] : down'[c][j].k = "buff" /\ i < j => down'[c][i].v < down'[c][j].v
    <3>1. k < q /\ p < q /\ q \in Nat
      BY <1>0, <2>8
    <3>2. CASE i \in DOMAIN down[c] /\ down'[c][i] = down[c][i]
      <4>1. k < down'[c][i].v /\ down'[c][i].v <= p /\ down'[c][i].v \in Nat
        BY <2>8, <2>9, <2>12, <3>2
      <4>2. down'[c][i].v <= q /\ down'[c][i].v < q
        BY <1>0, <3>1, <4>1
      <4>3. ASSUME NEW j \in DOMAIN down'[c], down'[c][j].k = "buff", i < j PROVE down'[c][i].v < down'[c][j].v
        <5>1. CASE j \in DOMAIN down[c] /\ down'[c][j] = down[c][j]
          BY <2>8, <2>12, <3>2, <4>3, <5>1
        <5>2. CASE down'[c][j] = x
          BY <2>3, <4>2, <5>2
        <5> QED
          BY <2>6, <5>1, <5>2
      <4> QED
        BY <4>1, <4>2, <4>3
    <3>3. CASE i = n /\ down'[c][i] = x
      <4>1. ASSUME NEW j \in DOMAIN down'[c], i < j PROVE FALSE
        <5>1. j = n \/ (j < n /\ j \in Nat)
          BY <2>6, <2>9, <2>10
        <5> QED
          BY <2>10, <3>3, <4>1, <5>1
      <4> HIDE DEF q
      <4> QED
        BY <2>3, <3>1, <3>3, <4>1
    <3> QED
      BY <2>6, <2>10, <3>2, <3>3
  <2>13. ASSUME NEW v \in Nat, k < v, v <= q PROVE \E i \in DOMAIN down'[c] : down'[c][i].k = "buff" /\ down'[c][i].v = v
    <3>1. CASE v <= p
      <4>1. PICK i \in DOMAIN down[c] : down[c][i].k = "buff" /\ down[c][i].v = v
        BY <2>8, <2>13, <3>1
      <4> QED
        BY <2>6, <4>1
    <3>2. CASE ~(v <= p)
      <4>1. v = q
        BY <1>0, <2>13, <3>2
      <4> QED
        BY <2>3, <2>6, <4>1
    <3> QED
      BY <3>1, <3>2
  <2>14. PICK r \in Nat : r = q
    BY <2>1
  <2>15. SentTo(c, r)'
    <3>1. k = Len(Kept(c)')
      BY <2>7 DEF k
    <3> QED
      BY <2>11, <2>12, <2>13, <2>14, <3>1 DEF SentTo
  <2>16. SentTo(c, wk[w].pos)'
    BY <2>4, <2>14, <2>15 DEF SentTo
  <2>17. SendInv(c)'
    <3>1. CASE q < Size[t.file]
      <4>1. Sender(w, c)'
        BY <2>4, <3>1 DEF Sender
      <4> QED
        BY <1>1, <1>7, <2>4, <2>6, <2>16, <4>1 DEF SendInv, Small
    <3>2. CASE ~(q < Size[t.file])
      <4>1. q = Size[t.file]
        BY <1>0, <1>2, <1>7, <3>2
      <4>2. NoSender(c)'
        <5>1. ~Sender(w, c)'
          BY <1>7, <2>4, <3>2 DEF Sender, Small
        <5> QED
          BY <2>6, <5>1 DEF NoSender
      <4>3. AllSent(c)'
        BY <1>1, <1>7, <2>4, <2>6, <2>16, <4>1 DEF AllSent, Small, SentTo
      <4> QED
        BY <1>1, <2>6, <4>2, <4>3 DEF SendInv
    <3> QED
      BY <3>1, <3>2
  <2> QED
    BY <2>6, <2>17 DEF ClientInv
<1> QED
  BY <1>0, <1>2, <1>3, <1>6, <1>7

LEMMA ThreadDownNext ==
    ASSUME Types, Types', AskInv, OneInv, DownAll, Clean, Clean', NEW w \in Workers, Thread(w) \/ SigPipe(w)
    PROVE  DownAll'
<1> DEFINE t == wk[w].task
<1>0. /\ cl' = cl /\ disk' = disk /\ 0 \in Nat /\ 1 \in Nat
      /\ wk \in [Workers -> WorkerType] /\ up \in [Clients -> Seq(UpWord)] /\ que \in Seq(TaskType)
      /\ down \in [Clients -> Seq(DownWord)]
      /\ (loop' = loop \/ loop'.at # "enque")
  <2>1. cl' = cl /\ disk' = disk /\ (loop' = loop \/ loop'.at # "enque")
    BY ThreadLeaves DEF At
  <2> QED
    BY <2>1 DEF Types, QueueTypes, UpTypes, DownTypes
<1>1. DiskInv'
  BY <1>0 DEF DownAll, DiskInv
<1> SUFFICES ASSUME NEW c \in Clients, ~Dead(c) PROVE ClientInv(c)'
  BY <1>0, <1>1 DEF DownAll, Dead
<1>2. ClientInv(c) /\ ClKept(c) /\ DiskKept(c) /\ LoopKept(c)
  BY <1>0, SameKept DEF DownAll
<1>3. ASSUME NEW v \in Workers, Holding(v)
      PROVE  /\ wk[v].task \in TaskType /\ wk[v].task.by \in Clients /\ wk[v].task.fd \in Fds
             /\ wk[v].task.cmd # "none" => sock[wk[v].task.fd] = wk[v].task.by
  <2>1. wk[v].task \in TaskType
    BY <1>3 DEF Types, QueueTypes
  <2>2. InFlight(wk[v].task)
    BY <1>3 DEF InFlight
  <2>3. OwnTask(wk[v].task)
    BY <2>1, <2>2 DEF AskInv, OwnInv
  <2> QED
    BY <2>1, <2>3 DEF OwnTask, TaskType, Clean
<1>4. CASE DequeTest(w) \/ DequeSleep(w) \/ DequeStop(w) \/ SigPipe(w)
  <2>1. UNCHANGED <<up, down, que>>
    BY <1>4 DEF DequeTest, DequeSleep, DequeStop, SigPipe, poolFrame, queueVars
  <2>2. UpKept(c, 0) /\ LenKept(c, 0) /\ DownKept(c, 0) /\ QueKept(c, 0)
    BY <2>1, SameKept
  <2>3. WkKept(c)
    <3>1. CASE SigPipe(w)
      BY <3>1, SameKept DEF SigPipe, queueVars
    <3>2. CASE DequeTest(w) \/ DequeSleep(w) \/ DequeStop(w)
      <4>1. PICK a \in {"tested", "asleep", "gone"} : wk' = [wk EXCEPT ![w].at = a]
        BY <3>2 DEF DequeTest, DequeSleep, DequeStop
      <4>2. wk[w].at \in {"lock", "tested"}
        BY <3>2 DEF DequeTest, DequeSleep, DequeStop
      <4>3. wk'[w].at = a /\ \A v \in Workers : v # w => wk'[v] = wk[v]
        BY <1>0, <4>1 DEF WorkerType
      <4> QED
        BY <4>2, <4>3 DEF WkKept, Key, AskedRun, Waits, Sender
    <3> QED
      BY <1>4, <3>1, <3>2
  <2> QED
    BY <1>0, <1>2, <2>2, <2>3, KeepClient
<1>5. CASE DequeTake(w)
  <2>1. CASE IsAsk(que[1], c)
    BY <1>2, <1>5, <2>1, GetsBegun
  <2>2. CASE ~IsAsk(que[1], c)
    <3>1. /\ UNCHANGED <<up, down>> /\ que # <<>> /\ que' = Tail(que) /\ wk[w].at = "lock"
          /\ wk' = [wk EXCEPT ![w] = Worker("run", que[1], 0)]
      BY <1>5 DEF DequeTake
    <3>2. wk'[w] = Worker("run", que[1], 0) /\ \A v \in Workers : v # w => wk'[v] = wk[v]
      BY <1>0, <3>1
    <3>3. WkKept(c)
      BY <2>2, <3>1, <3>2 DEF WkKept, Key, AskedRun, Waits, Sender, Worker
    <3>4. \A i \in DOMAIN que' : i + 1 \in DOMAIN que /\ que'[i] = que[i + 1]
      BY <1>0, <3>1, TailIndex
    <3>5. QueKept(c, 1)
      BY <3>4 DEF QueKept
    <3>6. UpKept(c, 0) /\ LenKept(c, 0) /\ DownKept(c, 0)
      BY <3>1, SameKept
    <3> QED
      BY <1>0, <1>2, <3>3, <3>5, <3>6, KeepClient
  <2> QED
    BY <2>1, <2>2
<1>6. CASE Report(w) \/ Mkdir(w) \/ Rmdir(w)
  <2>1. /\ wk[w].at = "run" /\ t.cmd # "gets" /\ Done(w) /\ UNCHANGED <<up, que>>
    BY <1>6 DEF Report, Mkdir, Rmdir, taskFrame
  <2>2. wk'[w].at = "lock" /\ \A v \in Workers : v # w => wk'[v] = wk[v]
    BY <1>0, <2>1 DEF Done, Worker
  <2>3. WkKept(c)
    BY <2>1, <2>2 DEF WkKept, Key, AskedRun, Waits, Sender, IsAsk
  <2>4. t.by \in Clients
    BY <1>3, <2>1 DEF Holding
  <2>5. DownKept(c, 0)
    <3>1. CASE down' = down
      BY <3>1, SameKept
    <3>2. ASSUME NEW ws \in Seq(Sent), Send(t.fd, ws, t.by), \A i \in 1..Len(ws) : ws[i].k = "reply"
          PROVE  DownKept(c, 0)
      <4> HIDE DEF t
      <4>1. \A i \in 1..Len(ws) : ws[i].k \notin {"length", "buff", "whole"}
        BY <3>2
      <4> QED
        BY <2>4, <3>2, <4>1, SendKept
    <3>3. Word("reply", 0) \in Sent /\ Word("reply", 1) \in Sent /\ Word("reply", 0).k = "reply" /\ Word("reply", 1).k = "reply"
      BY DEF Word, Sent
    <3>4. PICK a \in Sent : a = Word("reply", 0) /\ a.k = "reply"
      BY <3>3
    <3>5. PICK b \in Sent : b = Word("reply", 1) /\ b.k = "reply"
      BY <3>3
    <3>6. /\ <<a>> \in Seq(Sent) /\ <<b>> \in Seq(Sent) /\ <<a, a>> \in Seq(Sent)
          /\ \A i \in 1..Len(<<a>>) : <<a>>[i].k = "reply"
          /\ \A i \in 1..Len(<<b>>) : <<b>>[i].k = "reply"
          /\ \A i \in 1..Len(<<a, a>>) : <<a, a>>[i].k = "reply"
      BY <3>4, <3>5
    <3>7. down' = down \/ Send(t.fd, <<a>>, t.by) \/ Send(t.fd, <<b>>, t.by) \/ Send(t.fd, <<a, a>>, t.by)
      <4>1. CASE Report(w)
        BY <3>4, <4>1 DEF Report
      <4>2. CASE Mkdir(w)
        BY <3>4, <4>2 DEF Mkdir
      <4>3. CASE Rmdir(w)
        BY <3>4, <3>5, <4>3 DEF Rmdir
      <4> QED
        BY <1>6, <4>1, <4>2, <4>3
    <3> QED
      BY <3>1, <3>2, <3>6, <3>7
  <2>6. UpKept(c, 0) /\ LenKept(c, 0) /\ QueKept(c, 0)
    BY <2>1, SameKept
  <2> QED
    BY <1>0, <1>2, <2>3, <2>5, <2>6, KeepClient
<1>7. CASE GetsOpen(w) \/ GetsOffset(w) \/ GetsSend(w)
  <2>1. Holding(w) /\ UNCHANGED que
    BY <1>7 DEF GetsOpen, GetsOffset, GetsSend, Holding, taskFrame
  <2>2. t.cmd # "none"
    BY <1>7 DEF GetsOpen, GetsOffset, GetsSend, Types, QueueTypes, IsGets
  <2>3. t.by \in Clients /\ t.fd \in Fds /\ sock[t.fd] = t.by /\ t.file \in Names \cup {NULL}
    BY <1>3, <2>1, <2>2 DEF TaskType
  <2>4. CASE t.by # c
    <3>1. QueKept(c, 0)
      BY <2>1, SameKept
    <3>2. /\ \A v \in Workers : v # w => wk'[v] = wk[v]
          /\ wk'[w].task = t \/ wk'[w].at = "lock"
      <4>1. Done(w) \/ \E x : wk' = [wk EXCEPT ![w] = x] /\ x.task = t
        <5>1. CASE GetsOpen(w)
          <6>1. Done(w) \/ wk' = [wk EXCEPT ![w].at = "offset"]
            BY <5>1 DEF GetsOpen
          <6>2. wk[w] \in WorkerType /\ [wk[w] EXCEPT !.at = "offset"].task = t
            BY <1>0 DEF WorkerType
          <6> QED
            BY <6>1, <6>2
        <5>2. CASE GetsOffset(w)
          <6>1. Done(w) \/ \E y : wk' = [wk EXCEPT ![w].at = "send", ![w].pos = y]
            BY <5>2 DEF GetsOffset
          <6>2. ASSUME NEW y, wk' = [wk EXCEPT ![w].at = "send", ![w].pos = y]
                PROVE  \E x : wk' = [wk EXCEPT ![w] = x] /\ x.task = t
            <7> DEFINE x == [wk[w] EXCEPT !.at = "send", !.pos = y]
            <7>1. x.task = t
              BY <1>0 DEF WorkerType
            <7>2. wk' = [wk EXCEPT ![w] = x]
              BY <1>0, <6>2
            <7> HIDE DEF x, t
            <7> QED
              BY <7>1, <7>2
          <6> QED
            BY <6>1, <6>2
        <5>3. CASE GetsSend(w)
          <6>1. Done(w) \/ \E y : wk' = [wk EXCEPT ![w].pos = y]
            BY <5>3 DEF GetsSend
          <6>2. \A y : [wk[w] EXCEPT !.pos = y].task = t
            BY <1>0 DEF WorkerType
          <6> QED
            BY <6>1, <6>2
        <5> QED
          BY <1>7, <5>1, <5>2, <5>3
      <4>2. CASE Done(w)
        BY <1>0, <4>2 DEF Done, Worker
      <4>3. ASSUME NEW x, wk' = [wk EXCEPT ![w] = x], x.task = t
            PROVE  wk'[w].task = t /\ \A v \in Workers : v # w => wk'[v] = wk[v]
        BY <1>0, <4>3
      <4> QED
        BY <4>1, <4>2, <4>3
    <3>3. WkKept(c)
      BY <2>4, <3>2 DEF WkKept, Key, AskedRun, IsAsk, Waits, Sender
    <3>4. UpKept(c, 0) /\ LenKept(c, 0)
      <4>1. up'[c] = up[c]
        BY <1>0, <1>7, <2>3, <2>4 DEF GetsOpen, GetsOffset, GetsSend
      <4> QED
        BY <4>1, SameKept
    <3>5. DownKept(c, 0)
      <4>1. down'[c] = down[c]
        BY <1>0, <1>7, <2>3, <2>4 DEF GetsOpen, GetsOffset, GetsSend, Send
      <4> QED
        BY <4>1, SameKept
    <3> QED
      BY <1>0, <1>2, <3>1, <3>3, <3>4, <3>5, KeepClient
  <2>5. CASE t.by = c
    <3>1. CASE GetsOpen(w)
      BY <1>2, <2>3, <2>5, <3>1, LengthSent
    <3>2. CASE GetsOffset(w)
      <4>1. ASSUME NEW v \in Workers, Waits(v, c) PROVE wk[v].task.fd = t.fd
        <5>1. Holding(v) /\ wk[v].task.cmd # "none"
          BY <4>1 DEF Waits, Holding, Types, QueueTypes, IsGets
        <5>2. wk[v].task.fd \in Fds /\ sock[wk[v].task.fd] = c
          BY <1>3, <4>1, <5>1 DEF Waits
        <5> QED
          BY <2>3, <2>5, <5>2, NullIs DEF OneInv
      <4> QED
        BY <1>2, <2>3, <2>5, <3>2, <4>1, OffsetRead
    <3>3. CASE GetsSend(w)
      BY <1>2, <2>3, <2>5, <3>3, DataSent
    <3> QED
      BY <1>7, <3>1, <3>2, <3>3
  <2> QED
    BY <2>4, <2>5
<1> QED
  BY <1>4, <1>5, <1>6, <1>7 DEF Thread

LEMMA DownNext == ASSUME Types, Types', AskInv, DownInv, [Next]_vars PROVE DownInv'
<1>1. CASE UNCHANGED vars
  <2>1. OneInv' /\ (Clean' => Clean)
    BY <1>1 DEF vars, DownInv, OneInv, Alive, Dead, Clean
  <2>2. ASSUME Clean PROVE DownAll'
    <3>1. DownAll
      BY <2>2 DEF DownInv, DownAll
    <3>2. DiskInv'
      BY <1>1, <3>1 DEF vars, DownAll, DiskInv
    <3>3. ASSUME NEW c \in Clients, ~Dead(c)' PROVE ClientInv(c)'
      <4>1. ClientInv(c) /\ 0 \in Nat
        BY <1>1, <3>1, <3>3 DEF vars, DownAll, Dead
      <4>2. UpKept(c, 0) /\ LenKept(c, 0) /\ DownKept(c, 0) /\ QueKept(c, 0) /\ LoopKept(c) /\ WkKept(c) /\ ClKept(c)
            /\ DiskKept(c)
        BY <1>1, SameKept DEF vars
      <4> QED
        BY <4>1, <4>2, KeepClient
    <3> QED
      BY <3>2, <3>3 DEF DownAll
  <2> QED
    BY <2>1, <2>2 DEF DownInv, DownAll
<1>2. CASE Next
  <2>1. OneInv'
    BY <1>2, OneNext DEF DownInv
  <2>2. ASSUME Clean' PROVE DownAll'
    <3>1. Clean /\ OneInv /\ DownAll
      BY <1>2, <2>2, CleanBefore DEF DownInv, DownAll
    <3> QED
      BY <1>2, <2>2, <3>1, ClientDownNext, LoopDownNext, ThreadDownNext DEF Next
  <2> QED
    BY <2>1, <2>2 DEF DownInv, DownAll
<1> QED
  BY <1>1, <1>2

\* gets says "recv successful" (do_gets.c of 56th_client) only for a copy equal to the
\* server's file, in every run in which no descriptor was closed under a pending task and
\* every word reached the reader it was for: whatever was kept from earlier downloads,
\* however clients are killed and come back, and however many ask at once.
THEOREM DownloadsWhole == Spec => []DownloadCorrect
<1>1. Types /\ AskInv /\ [Next]_vars => AskInv'
  BY AskNext
<1>2. Types /\ Types' /\ AskInv /\ DownInv /\ [Next]_vars => DownInv'
  BY DownNext
<1>3. DownInv => DownloadCorrect
  BY DEF DownInv, OneInv, DownloadCorrect, Clean, ClientInv, GotInv
<1> QED
  BY <1>1, <1>2, <1>3, InitAsk, InitDown, SpecTypes, PTL DEF Spec
=============================================================================
