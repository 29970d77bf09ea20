---------------------------- MODULE TransferProofs ----------------------------
(***************************************************************************)
(* Proofs about Transfer, for every set of clients, contents, scenarios,   *)
(* number of threads and size from which a file is big.                    *)
(***************************************************************************)
EXTENDS Transfer, FiniteSetTheorems, SequenceTheorems, TLAPS

-----------------------------------------------------------------------------
(* Types *)

Lines   == {"gets", "puts"} \X Md5s
Pair    == [{1, 2} -> Nat]
Rows    == [md5 : Md5s, s : Pairs, part : Pair]
Words   == [k : {"cmd"}, v : Lines] \cup [k : {"size"}, v : Nat] \cup [k : {"page"}, v : Page]
           \cup [k : {"offs"}, off : Nat, len : Nat]
Resting == {"idle", "gone"}
Getting == {"open", "recv", "merge", "rename", "unlink"}
Putting == {"sizes", "size", "send1", "send2"}
Stages  == Resting \cup Getting \cup Putting \cup {"connect", "train", "done"}
Serving == {"none", "queued", "cmd", "gets", "offs", "send", "puts", "size", "recv",
            "closed", "leaked"}
Running == {"gets", "offs", "send", "puts", "size", "recv"}
Thread(r) == /\ r = [at |-> r.at, s |-> r.s, m |-> r.m, off |-> r.off, len |-> r.len,
                      pos |-> r.pos]
             /\ r.at \in Serving /\ r.pos \in Nat

\* A sequence of something.
Row1n(f) == Len(f) \in Nat /\ f = [i \in 1..Len(f) |-> f[i]]

ClientState == [at : Stages, n : 0..MaxTries, op : Seq(Lines), row : Rows \cup {NULL},
                off : Pair, pos : Pair, over : SUBSET {1, 2}]
ClientTypes == cl \in [Clients -> ClientState]
SvTypes     == DOMAIN sv = Conns /\ \A k \in Conns : Thread(sv[k])
ServerTypes == /\ alive \subseteq Servers /\ rows \subseteq Rows
               /\ SvTypes /\ que \in [Servers -> Seq(Conns)]
               /\ DOMAIN repo = Servers /\ \A s \in Servers : DOMAIN repo[s] = Md5s
NetTypes    == /\ up \in [Conns -> Seq(Words)]
               /\ DOMAIN down = Conns
               /\ \A k \in Conns : down[k] = <<>> \/ down[k] = <<down[k][1]>>
               /\ held \subseteq Conns
DiskTypes   == /\ DOMAIN disk = Clients
               /\ \A c \in Clients : disk[c] = [file |-> disk[c].file, t |-> disk[c].t,
                                                of |-> disk[c].of]
                                     /\ disk[c].t = [i \in {1, 2} |-> disk[c].t[i]]
HistoryTypes == /\ early \in BOOLEAN /\ mixed \in BOOLEAN /\ cut \subseteq Md5s
                /\ kills \in [Clients -> Nat]
Types == ClientTypes /\ ServerTypes /\ NetTypes /\ DiskTypes /\ HistoryTypes

-----------------------------------------------------------------------------
(* What holds whatever is killed or lost *)

\* A line is done stage by stage, over connections that belong to it.
Busy1(c)  == cl[c].at \notin Resting
Wired(c)  == cl[c].at \in {"train", "open", "recv", "size", "send1", "send2"}
Begun(c)  == Wired(c) /\ cl[c].at # "train"
LineInv(c) ==
    Busy1(c) => /\ cl[c].op # <<>> /\ cl[c].n > 0
                /\ cl[c].row \in Rows /\ cl[c].row.md5 = Line(c)[2]
                /\ cl[c].at \in Getting => Line(c)[1] = "gets"
                /\ cl[c].at \in Putting => Line(c)[1] = "puts"
                /\ cl[c].at = "recv" /\ Nth(c) = {1} => cl[c].off[1] = 0
                /\ cl[c].at = "send2" => Nth(c) = {1, 2}

\* The first word of a connection is the command, and its thread does no other.
Wire(c, k) ==
    /\ k \in held
    /\ cl[c].at = "train" => up[k] = <<>> /\ sv[k].at \in {"queued", "cmd", "closed"}
    /\ Begun(c) /\ sv[k].at \in {"queued", "cmd"} =>
          up[k] # <<>> /\ up[k][1] = [k |-> "cmd", v |-> Line(c)]
    /\ Line(c)[1] = "gets" => sv[k].at \notin {"puts", "size", "recv"}
    /\ sv[k].at \in Running => sv[k].m = Line(c)[2]
WireInv(c) == Wired(c) => \A i \in Nth(c) : Wire(c, K(c, i))

\* Part files are there while they are filled.
ShapeInv(c) ==
    /\ \A i \in {1, 2} : disk[c].t[i] = NULL \/ Row1n(disk[c].t[i])
    /\ disk[c].file = NULL \/ Row1n(disk[c].file)
    /\ cl[c].at \in {"recv", "merge"} =>
          /\ Nth(c) = {1, 2} => \A i \in {1, 2} : Row1n(disk[c].t[i])
          /\ Nth(c) = {1} => Row1n(disk[c].file)

Unused(k) == \/ k[2] > cl[k[1]].n
             \/ k[2] = cl[k[1]].n /\ cl[k[1]].at \in {"sizes", "connect"}
Fresh(k)  == sv[k].at = "none" /\ up[k] = <<>> /\ down[k] = <<>> /\ k \notin held
FirstWord(k) == sv[k].at \in {"queued", "cmd"} /\ up[k] # <<>> =>
                   up[k][1] \in [k : {"cmd"}, v : Lines]
ConnInv(k) == /\ Unused(k) => Fresh(k)
              /\ FirstWord(k)
              /\ sv[k].at \in {"queued", "cmd"} => sv[k].pos = 0
              /\ Open(k) => sv[k].s \in Servers

QueueInv == \A s \in Servers :
    /\ \A i \in 1..Len(que[s]) : sv[que[s][i]].at = "queued" /\ sv[que[s][i]].s = s
    /\ \A i, j \in 1..Len(que[s]) : que[s][i] = que[s][j] => i = j
PoolInv == \A s \in Servers : Cardinality(Busy(s)) <= NThreads

Plain == /\ Types /\ QueueInv /\ PoolInv
         /\ \A c \in Clients : LineInv(c) /\ WireInv(c) /\ ShapeInv(c)
         /\ \A k \in Conns : ConnInv(k)

-----------------------------------------------------------------------------
(* Uploads that nobody cut short *)

Kept(m)          == alive = Servers /\ m \notin cut
HasContent(s, m) == repo[s][m] = Content[m]
CmdWord(op, m)   == [k |-> "cmd", v |-> <<op, m>>]
SizeWord(m)      == [k |-> "size", v |-> Size(m)]
PageWord(m, p)   == [k |-> "page", v |-> Content[m][p]]

\* A file grows a page at a time, whoever writes it.
RepoFile(f, m) == f = NULL \/ f = <<>> \/ f \in [1..Size(m) -> Page \cup {Hole}]
Holds(s, m, p) == /\ repo[s][m] \in [1..Size(m) -> Page \cup {Hole}]
                  /\ \A j \in 1..p : repo[s][m][j] = Content[m][j]

\* The client has sent so many words and pages, and the thread has the rest to come.
Upload(k, m, sent) ==
    \/ /\ sv[k].at \in {"queued", "cmd"}
       /\ \/ sent = 0 /\ up[k] = <<>>
          \/ sent = 1 /\ up[k] = <<CmdWord("puts", m)>>
          \/ sent = 2 /\ up[k] = <<CmdWord("puts", m), SizeWord(m)>>
    \/ /\ sv[k].at \in {"puts", "size"} /\ sv[k].m = m /\ sv[k].pos = 0
       /\ \/ sent = 1 /\ up[k] = <<>>
          \/ sent = 2 /\ up[k] = <<SizeWord(m)>>
    \/ /\ sv[k].at = "recv" /\ sv[k].m = m /\ sv[k].len = Size(m)
       /\ Holds(sv[k].s, m, sv[k].pos)
       /\ \/ sent = 2 + sv[k].pos /\ up[k] = <<>>
          \/ sent = 3 + sv[k].pos /\ up[k] = <<PageWord(m, sv[k].pos + 1)>>

Sent(c, i) == CASE cl[c].at = "train" -> 0
                [] cl[c].at = "size"  -> 1
                [] OTHER              -> 2 + cl[c].pos[i]

Owing(c)   == cl[c].at \in {"connect", "train", "size", "send1", "send2"} /\ Line(c)[1] = "puts"
Parted(r)  == r.part = <<Part1(r.md5), Part2(r.md5)>>
PutConn(c, i, k, m) ==
    \/ sv[k].s = cl[c].row.s[i] /\ Upload(k, m, Sent(c, i))
    \/ sv[k].at = "closed" /\ HasContent(cl[c].row.s[i], m)
PutClient(c) ==
    (Owing(c) \/ cl[c].at = "sizes") /\ Kept(cl[c].row.md5) =>
        LET m == cl[c].row.md5 IN
        /\ Parted(cl[c].row)
        /\ cl[c].at \in {"send1", "send2"} => \A i \in Nth(c) : cl[c].pos[i] <= Size(m)
        /\ cl[c].at = "send2" => cl[c].pos[1] = Size(m)
        /\ Wired(c) => \A i \in Nth(c) : PutConn(c, i, K(c, i), m)

\* The thread at the end of a connection has an upload to do.
Uploads(k, m) == \/ sv[k].at \in {"puts", "size", "recv"} /\ sv[k].m = m
                 \/ /\ sv[k].at \in {"queued", "cmd"} /\ up[k] # <<>>
                    /\ up[k][1] = CmdWord("puts", m)
Current(k) == /\ k[2] = cl[k[1]].n /\ Wired(k[1]) /\ k[3] \in Nth(k[1])
PutLeft(k) == ~Current(k) => \A m \in Md5s : Kept(m) /\ Uploads(k, m) =>
                  Upload(k, m, 2 + Size(m))

RepoInv == \A s \in Servers, m \in Md5s : Kept(m) => RepoFile(repo[s][m], m)

\* What a row names is there, or on its way.
OnItsWay(s, m) ==
    \/ \E c \in Clients : Owing(c) /\ cl[c].row.md5 = m /\ \E i \in Nth(c) : cl[c].row.s[i] = s
    \/ \E k \in Conns : sv[k].s = s /\ Uploads(k, m)
RowInv == \A r \in rows : Kept(r.md5) =>
    /\ Parted(r)
    /\ \A i \in {1, 2} : i = 1 \/ r.part[2] # 0 =>
          HasContent(r.s[i], r.md5) \/ OnItsWay(r.s[i], r.md5)

Uploaded == RepoInv /\ RowInv /\ (\A c \in Clients : PutClient(c)) /\ \A k \in Conns : PutLeft(k)

-----------------------------------------------------------------------------
(* Downloads of contents that were there *)

Good == ~early /\ cut = {}

\* A thread that serves a download has the file.
GetThread(k) ==
    /\ sv[k].at \in {"queued", "cmd"} /\ up[k] # <<>> =>
          \A m \in Md5s : up[k][1] = CmdWord("gets", m) => HasContent(sv[k].s, m)
    /\ sv[k].at \in {"gets", "offs", "send"} => sv[k].m \in Md5s /\ HasContent(sv[k].s, sv[k].m)

Base(r, i)    == IF i = 1 THEN 0 ELSE r.part[1]
OffsWord(o, l) == [k |-> "offs", off |-> o, len |-> l]

\* The page that is under way is the one the client waits for.
PageComing(k, m, at) == down[k] # <<>> => down[k][1] = Content[m][at]

\* off and got: what was there before, and what has come.
Download(k, m, off, len, got) ==
    \/ /\ sv[k].at \in {"queued", "cmd"} /\ got = 0 /\ down[k] = <<>>
       /\ up[k] = <<CmdWord("gets", m), OffsWord(off, len)>>
    \/ /\ sv[k].at \in {"gets", "offs"} /\ sv[k].m = m /\ sv[k].pos = 0
       /\ got = 0 /\ down[k] = <<>> /\ up[k] = <<OffsWord(off, len)>>
    \/ /\ sv[k].at = "send" /\ sv[k].m = m /\ sv[k].off = off /\ sv[k].len = len
       /\ sv[k].pos = got + Len(down[k])
    \/ /\ sv[k].at = "closed"
       /\ got + Len(down[k]) >= len \/ off + got + Len(down[k]) >= Size(m)

GetConn(c, i, k, m) ==
    LET off == cl[c].off[i] + Base(cl[c].row, i)
        got == cl[c].pos[i]
    IN
    /\ sv[k].at # "closed" => sv[k].s = cl[c].row.s[i]
    /\ cl[c].at = "train" => sv[k].at \in {"queued", "cmd"} /\ down[k] = <<>>
    /\ cl[c].at = "open" =>
          /\ down[k] = <<>>
          /\ \/ sv[k].at \in {"queued", "cmd"} /\ up[k] = <<CmdWord("gets", m)>>
             \/ sv[k].at \in {"gets", "offs"} /\ sv[k].m = m /\ sv[k].pos = 0 /\ up[k] = <<>>
    /\ cl[c].at = "recv" =>
          /\ Download(k, m, off, cl[c].row.part[i], got)
          /\ Wanted(c, i) => PageComing(k, m, off + got + 1)
GetClient(c) ==
    cl[c].at \in {"connect", "train"} \cup Getting /\ Line(c)[1] = "gets" =>
        LET r == cl[c].row
            m == r.md5
        IN
        /\ Parted(r)
        /\ \A i \in Nth(c) : HasContent(r.s[i], m)
        /\ Wired(c) => \A i \in Nth(c) : GetConn(c, i, K(c, i), m)

Downloading == Good => /\ alive = Servers
                       /\ \A k \in Conns : GetThread(k)
                       /\ \A c \in Clients : GetClient(c)

-----------------------------------------------------------------------------
(* The files of a client *)

\* Pages of m from base on are those of the content, up to one that may be partial.
Right(f, m, base, n) == \A j \in 1..n : f[j] = Content[m][base + j]
PartFile(f, m, base, n) ==
    \/ f = NULL
    \/ /\ Len(f) \in Nat /\ n <= Len(f) /\ base + Len(f) <= Size(m)
       /\ f \in [1..Len(f) -> Page \cup {Hole, Partial}]
       /\ \A j \in 1..Len(f) : f[j] # Hole => Right(f, m, base, j - 1)
EmptyBehind(f, n) == \A j \in DOMAIN f : j > n => f[j] = Hole

PartsInv(c) ==
    LET d == disk[c] IN
    \/ d.of = NULL /\ d.t[1] = NULL /\ d.t[2] = NULL
    \/ /\ d.of \in Md5s /\ Big(d.of)
       /\ PartFile(d.t[1], d.of, 0, Part1(d.of))
       /\ PartFile(d.t[2], d.of, Part1(d.of), Part2(d.of))

\* How far a download has come.
Filled(c, i) == cl[c].off[i] + cl[c].pos[i]
StageInv(c) ==
    LET d == disk[c]
        r == cl[c].row
        m == r.md5
    IN
    /\ cl[c].at \in Getting \ {"open"} /\ Nth(c) = {1, 2} =>
          d.of = m
    /\ cl[c].at = "recv" /\ Nth(c) = {1, 2} =>
          \A i \in {1, 2} :
             /\ d.t[i] # NULL
             /\ Filled(c, i) <= Len(d.t[i]) /\ Right(d.t[i], m, Base(r, i), Filled(c, i))
             /\ EmptyBehind(d.t[i], Filled(c, i) + 1)
             /\ i \in cl[c].over => ~Wanted(c, i)
    /\ cl[c].at = "recv" /\ Nth(c) = {1} =>
          /\ cl[c].off[1] = 0
          /\ cl[c].pos[1] <= Len(d.file) /\ Right(d.file, m, 0, cl[c].pos[1])
          /\ 1 \in cl[c].over => ~Wanted(c, 1)
    /\ cl[c].at = "merge" =>
          /\ d.t[1] # NULL /\ d.t[2] # NULL
          /\ cl[c].pos[2] <= r.part[2]
          /\ Len(d.t[1]) = Size(m) /\ Right(d.t[1], m, 0, r.part[1] + cl[c].pos[2])
          /\ Len(d.t[2]) = r.part[2] /\ Right(d.t[2], m, r.part[1], r.part[2])
    /\ cl[c].at \in {"merge", "rename", "unlink"} => Nth(c) = {1, 2}
    /\ cl[c].at = "rename" => d.t[1] = Content[m]
    /\ cl[c].at = "unlink" => d.file = Content[m] /\ d.t[1] = NULL
    /\ Finished(c) =>
          IF Nth(c) = {1, 2} THEN d.file = Content[m] /\ d.t[1] = NULL /\ d.t[2] = NULL /\ d.of = NULL
          ELSE Row1n(d.file) /\ Size(m) <= Len(d.file) /\ Right(d.file, m, 0, Size(m))
    /\ Finished(c) => Parted(r)

PartsWhole == Good /\ ~mixed => \A c \in Clients : PartsInv(c) /\ StageInv(c)

IInv == Plain /\ Uploaded /\ Downloading /\ PartsWhole
-----------------------------------------------------------------------------
(* Contents, connections and sequences *)

LEMMA MarksApart == /\ Hole \notin Page /\ Partial \notin Page /\ NULL \notin Page
                    /\ NULL \notin Md5s
BY ContentAssumption

LEMMA ContentIs ==
    ASSUME NEW m \in Md5s
    PROVE  /\ Size(m) \in Nat /\ Content[m] \in [1..Size(m) -> Page]
           /\ Content[m] # NULL
<1>1. Content[m] \in Seq(Page)
  BY ContentAssumption
<1>2. Size(m) \in Nat /\ Content[m] \in [1..Size(m) -> Page]
  BY <1>1 DEF Size
<1>3. NULL \notin [1..Size(m) -> Page \cup {Hole, Partial}]
  BY <1>2, ContentAssumption DEF Size
<1> QED
  BY <1>2, <1>3

LEMMA NotAFile ==
    ASSUME NEW m \in Md5s
    PROVE  \A n \in 0..Size(m) : /\ NULL \notin [1..n -> Page \cup {Hole, Partial}]
                                /\ NULL \notin [1..n -> Page \cup {Hole}]
<1> SUFFICES ASSUME NEW n \in 0..Size(m)
             PROVE  NULL \notin [1..n -> Page \cup {Hole, Partial}] /\ NULL \notin [1..n -> Page \cup {Hole}]
  OBVIOUS
<1>1. NULL \notin [1..n -> Page \cup {Hole, Partial}]
  BY ContentAssumption DEF Size
<1>2. [1..n -> Page \cup {Hole}] \subseteq [1..n -> Page \cup {Hole, Partial}]
  OBVIOUS
<1> QED
  BY <1>1, <1>2

\* A big file has two parts, and either is long enough to be mapped.
LEMMA PartsAre ==
    ASSUME NEW m \in Md5s
    PROVE  /\ Part1(m) \in Nat /\ Part2(m) \in Nat /\ Part1(m) + Part2(m) = Size(m)
           /\ Big(m) <=> Part2(m) # 0
           /\ Big(m) => Part1(m) >= BigPages \div 2 /\ Part2(m) >= BigPages \div 2
<1> DEFINE n == Size(m)
<1>1. n \in Nat /\ BigPages \in Nat \ {0}
  BY ContentIs, TransferAssumption
<1>2. n \div 2 \in Nat /\ 2 * (n \div 2) <= n /\ n <= 2 * (n \div 2) + 1
  BY <1>1
<1>3. /\ BigPages \div 2 \in Nat /\ 2 * (BigPages \div 2) <= BigPages
      /\ BigPages <= 2 * (BigPages \div 2) + 1
  BY <1>1
<1>4. CASE Big(m)
  <2>1. Part1(m) = n \div 2 /\ Part2(m) = n - n \div 2 /\ n >= BigPages
    BY <1>4 DEF Part1, Part2, Big
  <2>2. PICK h \in Nat, b \in Nat : h = n \div 2 /\ b = BigPages \div 2
    BY <1>2, <1>3
  <2>3. Part1(m) = h /\ Part2(m) = n - h /\ 2 * h <= n /\ n <= 2 * h + 1
    BY <1>2, <2>1, <2>2
  <2>4. 2 * b <= BigPages /\ BigPages <= n /\ BigPages >= 1
    BY <1>1, <1>3, <2>1, <2>2
  <2> HIDE DEF n
  <2>5. h >= b /\ n - h >= b /\ n - h \in Nat /\ n - h # 0 /\ h + (n - h) = n
    BY <1>1, <2>3, <2>4
  <2> QED
    BY <1>4, <2>2, <2>3, <2>5 DEF n
<1>5. CASE ~Big(m)
  <2>1. Part1(m) = n /\ Part2(m) = 0
    BY <1>1, <1>5 DEF Part1, Part2
  <2> QED
    BY <1>1, <1>5, <2>1
<1> QED
  BY <1>4, <1>5

LEMMA ConnIs ==
    ASSUME NEW k \in Conns
    PROVE  /\ k = <<k[1], k[2], k[3]>> /\ k[1] \in Clients /\ k[2] \in 1..MaxTries
           /\ k[3] \in {1, 2}
BY DEF Conns

LEMMA ConnsFinite == IsFiniteSet(Conns)
<1> DEFINE S == (Clients \X (1..MaxTries)) \X {1, 2}
           f == [p \in S |-> <<p[1][1], p[1][2], p[2]>>]
<1>1. IsFiniteSet(Clients) /\ IsFiniteSet(1..MaxTries) /\ IsFiniteSet({1, 2})
  <2>1. IsFiniteSet({} \cup {1}) /\ {} \cup {1} = {1} /\ {1} \cup {2} = {1, 2}
    BY FS_EmptySet, FS_AddElement
  <2>2. IsFiniteSet({1} \cup {2})
    BY <2>1, FS_AddElement
  <2>3. IsFiniteSet(1..MaxTries)
    BY TransferAssumption, FS_Interval
  <2> QED
    BY <2>1, <2>2, <2>3, ClientsFinite
<1>2. IsFiniteSet(S)
  BY <1>1, FS_Product
<1>3. f \in Surjection(S, Conns)
  <2>1. \A p \in S : f[p] \in Conns
    BY DEF Conns
  <2>2. \A k \in Conns : <<<<k[1], k[2]>>, k[3]>> \in S /\ f[<<<<k[1], k[2]>>, k[3]>>] = k
    BY ConnIs DEF Conns
  <2> HIDE DEF S
  <2> QED
    BY <2>1, <2>2 DEF Surjection
<1> QED
  BY <1>2, <1>3, FS_Surjection

LEMMA BusyFinite ==
    ASSUME NEW s
    PROVE  IsFiniteSet(Busy(s)) /\ Cardinality(Busy(s)) \in Nat
<1>1. Busy(s) \subseteq Conns
  BY DEF Busy
<1> QED
  BY <1>1, ConnsFinite, FS_Subset, FS_CardinalityType

LEMMA NthIs ==
    ASSUME NEW c
    PROVE  /\ Nth(c) = {1} \/ Nth(c) = {1, 2}
           /\ Nth(c) = {1, 2} <=> cl[c].row.part[2] # 0
BY DEF Nth

\* A line that is being done has connections and a row.
LEMMA LineIs ==
    ASSUME Types, NEW c \in Clients, LineInv(c), Busy1(c)
    PROVE  /\ cl[c].op \in Seq(Lines) /\ cl[c].op # <<>> /\ Line(c) \in Lines
           /\ Tail(cl[c].op) \in Seq(Lines)
           /\ cl[c].row \in Rows /\ cl[c].row.md5 = Line(c)[2]
           /\ cl[c].row.md5 \in Md5s /\ cl[c].row.part \in Pair
           /\ Line(c) = <<Line(c)[1], cl[c].row.md5>> /\ Line(c)[1] \in {"gets", "puts"}
           /\ \A i \in {1, 2} : /\ K(c, i) \in Conns /\ K(c, i)[1] = c /\ K(c, i)[2] = cl[c].n
                                /\ K(c, i)[3] = i
<1>1. cl[c].op \in Seq(Lines) /\ cl[c].op # <<>> /\ cl[c].n \in 1..MaxTries
  BY DEF Types, ClientTypes, ClientState, LineInv, Busy1
<1>2. Line(c) \in Lines /\ Tail(cl[c].op) \in Seq(Lines)
  BY <1>1 DEF Line
<1>3. cl[c].row \in Rows /\ cl[c].row.md5 = Line(c)[2]
  BY DEF LineInv, Busy1
<1>4. \A i \in {1, 2} : /\ K(c, i) \in Conns /\ K(c, i)[1] = c /\ K(c, i)[2] = cl[c].n
                        /\ K(c, i)[3] = i
  BY <1>1 DEF K, Conns
<1>5. cl[c].row.part \in Pair /\ cl[c].row.md5 \in Md5s
  BY <1>3 DEF Rows
<1>6. Line(c) = <<Line(c)[1], Line(c)[2]>> /\ Line(c)[1] \in {"gets", "puts"}
  BY <1>2 DEF Lines
<1> QED
  BY <1>1, <1>2, <1>3, <1>4, <1>5, <1>6

\* The connections of a line are told apart by their number.
LEMMA KIs ==
    ASSUME NEW c, NEW k, k = <<k[1], k[2], k[3]>>, NEW i, k = K(c, i)
    PROVE  k[1] = c /\ k[2] = cl[c].n /\ k[3] = i
BY DEF K

LEMMA CurrentIs ==
    ASSUME NEW k \in Conns, Current(k)
    PROVE  k = K(k[1], k[3]) /\ k[1] \in Clients /\ k[3] \in Nth(k[1])
BY ConnIs DEF Current, K

LEMMA OneMore ==
    ASSUME NEW S, NEW s \in Seq(S), NEW e \in S
    PROVE  /\ Append(s, e) \in Seq(S) /\ Append(s, e) # <<>>
           /\ s = <<>> => Append(s, e) = <<e>>
           /\ s # <<>> => Append(s, e)[1] = s[1]
           /\ \A a : s = <<a>> => Append(s, e) = <<a, e>>
<1>1. Append(s, e) \in Seq(S) /\ Len(Append(s, e)) = Len(s) + 1
  OBVIOUS
<1>2. Append(s, e) # <<>>
  <2>1. Len(s) \in Nat /\ Len(<<>>) = 0
    OBVIOUS
  <2> QED
    BY <1>1, <2>1
<1>3. s = <<>> => Append(s, e) = <<e>>
  OBVIOUS
<1>4. s # <<>> => Append(s, e)[1] = s[1]
  OBVIOUS
<1>5. ASSUME NEW a, s = <<a>> PROVE Append(s, e) = <<a, e>>
  <2>1. Len(s) = 1 /\ s[1] = a /\ a \in S
    BY <1>5
  <2>2. \A k \in 1..(Len(s) + 1) : Append(s, e)[k] = IF k = Len(s) + 1 THEN e ELSE s[k]
    OBVIOUS
  <2>3. <<a, e>> \in Seq(S) /\ Len(<<a, e>>) = 2 /\ <<a, e>>[1] = a /\ <<a, e>>[2] = e
    BY <2>1
  <2>4. \A k \in 1..2 : Append(s, e)[k] = <<a, e>>[k]
    <3>1. Append(s, e)[1] = s[1]
      BY <2>1, <2>2
    <3>2. Append(s, e)[2] = e
      BY <2>1, <2>2
    <3>3. \A k \in 1..2 : k = 1 \/ k = 2
      OBVIOUS
    <3> QED
      BY <2>1, <2>3, <3>1, <3>2, <3>3
  <2>5. Append(s, e) \in Seq(S) /\ Len(Append(s, e)) = 2
    BY <1>1, <2>1
  <2> QED
    BY <2>3, <2>4, <2>5, SeqEqual
<1> QED
  BY <1>1, <1>2, <1>3, <1>4, <1>5

\* The first word is taken.
LEMMA OneLess ==
    ASSUME NEW S, NEW s \in Seq(S), s # <<>>
    PROVE  /\ s[1] \in S /\ Tail(s) \in Seq(S)
           /\ \A a : s = <<a>> => Tail(s) = <<>>
           /\ \A a, b : s = <<a, b>> => Tail(s) = <<b>>
<1>1. s[1] \in S /\ Tail(s) \in Seq(S)
  OBVIOUS
<1>2. ASSUME NEW a, s = <<a>> PROVE Tail(s) = <<>>
  BY <1>2
<1>3. ASSUME NEW a, NEW b, s = <<a, b>> PROVE Tail(s) = <<b>>
  BY <1>3
<1> QED
  BY <1>1, <1>2, <1>3

LEMMA SendEffect ==
    ASSUME NetTypes, NEW c, NEW w, Send(c, w), NEW k \in Conns
    PROVE  up'[k] = IF (\E i \in Nth(c) : k = K(c, i)) /\ Open(k) THEN Append(up[k], w[k[3]]) ELSE up[k]
BY DEF Send, NetTypes
-----------------------------------------------------------------------------
(* A step of a file server's thread *)

\* The thread at k moves, and no other does.
ThreadStep(k) == /\ \A j \in Conns \ {k} : sv'[j] = sv[j] /\ up'[j] = up[j] /\ down'[j] = down[j]
                 /\ held' = held /\ UNCHANGED clientVars

LEMMA ClientsStay ==
    ASSUME UNCHANGED clientVars
    PROVE  /\ rows' = rows /\ cl' = cl /\ disk' = disk /\ kills' = kills /\ route' = route
           /\ early' = early /\ cut' = cut /\ mixed' = mixed
BY DEF clientVars, history

LEMMA ClientPart ==
    ASSUME UNCHANGED clientVars
    PROVE  /\ \A c : /\ Line(c)' = Line(c) /\ Nth(c)' = Nth(c) /\ (Wired(c)' <=> Wired(c))
                     /\ (Begun(c)' <=> Begun(c)) /\ (Busy1(c)' <=> Busy1(c))
                     /\ (LineInv(c)' <=> LineInv(c)) /\ (ShapeInv(c)' <=> ShapeInv(c))
                     /\ \A i : K(c, i)' = K(c, i)
           /\ \A k : (Unused(k)' <=> Unused(k))
           /\ (ClientTypes' <=> ClientTypes) /\ (DiskTypes' <=> DiskTypes)
           /\ (HistoryTypes' <=> HistoryTypes)
<1>1. /\ rows' = rows /\ cl' = cl /\ disk' = disk /\ kills' = kills
      /\ early' = early /\ cut' = cut /\ mixed' = mixed
  BY ClientsStay
<1>2. \A c : /\ Line(c)' = Line(c) /\ Nth(c)' = Nth(c) /\ (Wired(c)' <=> Wired(c))
             /\ (Begun(c)' <=> Begun(c)) /\ (Busy1(c)' <=> Busy1(c))
             /\ \A i : K(c, i)' = K(c, i)
  BY <1>1 DEF Line, Nth, Wired, Begun, Busy1, K
<1>3. \A c : (LineInv(c)' <=> LineInv(c))
  BY <1>1, <1>2 DEF LineInv
<1>4. \A c : (ShapeInv(c)' <=> ShapeInv(c))
  BY <1>1, <1>2 DEF ShapeInv
<1>5. \A k : (Unused(k)' <=> Unused(k))
  BY <1>1 DEF Unused
<1>6. /\ (ClientTypes' <=> ClientTypes) /\ (DiskTypes' <=> DiskTypes)
      /\ (HistoryTypes' <=> HistoryTypes)
  BY <1>1 DEF ClientTypes, DiskTypes, HistoryTypes
<1> QED
  BY <1>2, <1>3, <1>4, <1>5, <1>6

\* The pool of no server grows.
LEMMA PoolShrinks ==
    ASSUME PoolInv, \A s \in Servers : Busy(s)' \subseteq Busy(s)
    PROVE  PoolInv'
<1> SUFFICES ASSUME NEW s \in Servers PROVE Cardinality(Busy(s)') <= NThreads
  BY DEF PoolInv
<1>1. IsFiniteSet(Busy(s)) /\ Cardinality(Busy(s)) \in Nat /\ Cardinality(Busy(s)) <= NThreads
  BY BusyFinite DEF PoolInv
<1>2. /\ IsFiniteSet(Busy(s)') /\ Cardinality(Busy(s)') <= Cardinality(Busy(s))
      /\ Cardinality(Busy(s)') \in Nat
  BY <1>1, FS_Subset, FS_CardinalityType
<1> QED
  BY <1>1, <1>2, TransferAssumption

\* A thread that has its command goes on with it or ends.
LEMMA PlainThread ==
    ASSUME Plain, NEW k \in Conns, sv[k].at \in Running \cup {"cmd"}, ThreadStep(k),
           alive' \subseteq Servers, que' = que, SvTypes', NetTypes',
           DOMAIN repo' = Servers, \A s \in Servers : DOMAIN repo'[s] = Md5s,
           sv'[k].at \in Running \cup {"closed", "leaked"},
           sv'[k].at \in Running => sv'[k].s = sv[k].s,
           sv'[k].at \in {"puts", "size", "recv"} => sv[k].at \in {"puts", "size", "recv", "cmd"},
           sv[k].at # "cmd" /\ sv'[k].at \in Running => sv'[k].m = sv[k].m,
           sv[k].at = "cmd" => \/ /\ up[k] # <<>>
                                  /\ sv'[k].at = up[k][1].v[1] /\ sv'[k].m = up[k][1].v[2]
                               \/ k \notin held
    PROVE  Plain'
<1>a. /\ Types /\ QueueInv /\ PoolInv
      /\ \A c \in Clients : LineInv(c) /\ WireInv(c) /\ ShapeInv(c)
      /\ \A j \in Conns : ConnInv(j)
  BY DEF Plain
<1>b. UNCHANGED clientVars /\ held' = held
  BY DEF ThreadStep
<1>c. \A j \in Conns : j # k => sv'[j] = sv[j] /\ up'[j] = up[j] /\ down'[j] = down[j]
  BY DEF ThreadStep
<1>d. sv[k].at \notin {"none", "queued", "closed", "leaked"} /\ sv'[k].at \notin {"none", "queued", "cmd"}
  BY DEF Running
<1>1. Types'
  <2>1. ServerTypes'
    BY <1>a, <1>b, ClientsStay DEF Types, ServerTypes
  <2> QED
    BY <1>a, <1>b, <2>1, ClientPart DEF Types
<1>2. QueueInv'
  <2>1. \A s \in Servers : \A i \in 1..Len(que[s]) :
           que[s][i] \in Conns /\ sv[que[s][i]].at = "queued" /\ sv[que[s][i]].s = s
    BY <1>a DEF Types, ServerTypes, QueueInv
  <2>2. \A s \in Servers : \A i \in 1..Len(que[s]) : sv'[que[s][i]] = sv[que[s][i]]
    BY <1>c, <1>d, <2>1
  <2> QED
    BY <1>a, <2>1, <2>2 DEF QueueInv
<1>3. PoolInv'
  <2>1. \A s \in Servers : Busy(s)' \subseteq Busy(s)
    <3> SUFFICES ASSUME NEW s \in Servers, NEW j \in Busy(s)' PROVE j \in Busy(s)
      OBVIOUS
    <3>1. CASE j # k
      BY <1>c, <3>1 DEF Busy, Open
    <3>2. CASE j = k
      BY <1>d, <3>2 DEF Busy, Open
    <3> QED
      BY <3>1, <3>2
  <2> QED
    BY <1>a, <2>1, PoolShrinks
<1>4. ASSUME NEW c \in Clients PROVE WireInv(c)'
  <2> SUFFICES ASSUME Wired(c), NEW i \in Nth(c) PROVE Wire(c, K(c, i))'
    BY <1>b, ClientPart DEF WireInv
  <2> DEFINE j == K(c, i)
  <2>1. Wire(c, j) /\ Wired(c)
    BY <1>a DEF WireInv
  <2>2. j \in Conns /\ Line(c)' = Line(c) /\ cl' = cl /\ K(c, i)' = j
    <3>1. Busy1(c) /\ i \in {1, 2}
      BY NthIs DEF Wired, Busy1, Resting
    <3> QED
      BY <1>a, <1>b, <3>1, LineIs, ClientPart, ClientsStay
  <2>w. Line(c) = <<Line(c)[1], cl[c].row.md5>> /\ j \in held
    <3>1. Busy1(c)
      BY DEF Wired, Busy1, Resting
    <3> QED
      BY <1>a, <2>1, <3>1, LineIs DEF Wire
  <2> HIDE DEF j
  <2>3. CASE j # k
    BY <1>b, <1>c, <2>1, <2>2, <2>3 DEF Wire, Begun, Wired
  <2>4. CASE j = k
    <3>1. cl[c].at # "train"
      BY <1>d, <2>1, <2>4, <2>w DEF Wire
    <3>2. sv'[j].at \notin {"queued", "cmd"}
      BY <1>d, <2>4
    <3>3. Line(c)[1] = "gets" => sv'[j].at \notin {"puts", "size", "recv"}
      <4>1. CASE sv[k].at = "cmd"
        <5>1. up[k] # <<>> /\ sv'[k].at = up[k][1].v[1]
          BY <2>4, <2>w, <4>1
        <5>2. up[k][1] = [k |-> "cmd", v |-> Line(c)]
          BY <2>1, <2>4, <3>1, <4>1 DEF Wire, Begun
        <5>3. up[k][1].v = Line(c)
          BY <5>2
        <5> QED
          BY <2>4, <5>1, <5>3
      <4>2. CASE sv[k].at # "cmd"
        BY <2>1, <2>4, <4>2 DEF Wire
      <4> QED
        BY <4>1, <4>2
    <3>4. sv'[j].at \in Running => sv'[j].m = Line(c)[2]
      <4>1. CASE sv[k].at = "cmd"
        <5>1. up[k] # <<>> /\ sv'[k].m = up[k][1].v[2]
          BY <2>4, <2>w, <4>1
        <5>2. up[k][1] = [k |-> "cmd", v |-> Line(c)]
          BY <2>1, <2>4, <3>1, <4>1 DEF Wire, Begun
        <5>3. up[k][1].v = Line(c)
          BY <5>2
        <5> QED
          BY <2>4, <5>1, <5>3
      <4>2. CASE sv[k].at # "cmd"
        BY <2>1, <2>4, <4>2 DEF Wire
      <4> QED
        BY <4>1, <4>2
    <3> QED
      BY <1>b, <2>1, <2>2, <3>1, <3>2, <3>3, <3>4 DEF Wire, Begun, Wired
  <2> QED
    BY <2>2, <2>3, <2>4
<1>5. ASSUME NEW j \in Conns PROVE ConnInv(j)'
  <2>1. Unused(j)' <=> Unused(j)
    BY <1>b, ClientPart
  <2>2. CASE j # k
    BY <1>a, <1>b, <1>c, <2>1, <2>2 DEF ConnInv, Fresh, FirstWord, Open
  <2>3. CASE j = k
    <3>1. Open(k)' => sv'[k].s \in Servers
      <4>1. Open(k)' => sv'[k].at \in Running
        BY <1>d DEF Open
      <4>2. Open(k)
        BY <1>d DEF Open
      <4> QED
        BY <1>a, <4>1, <4>2 DEF ConnInv
    <3> QED
      BY <1>a, <1>d, <2>1, <2>3, <3>1 DEF ConnInv, Fresh, FirstWord
  <2> QED
    BY <2>2, <2>3
<1> QED
  BY <1>1, <1>2, <1>3, <1>4, <1>5, <1>a, <1>b, ClientPart DEF Plain
-----------------------------------------------------------------------------
(* What such a step does to uploads and downloads *)

\* The repositories keep what is in them.
RepoGrows == \A s \in Servers, m \in Md5s : Kept(m) =>
    /\ RepoFile(repo'[s][m], m)
    /\ HasContent(s, m) => HasContent(s, m)'
    /\ \A p \in Nat : p <= Size(m) /\ Holds(s, m, p) => Holds(s, m, p)'

\* The upload at k goes on, or it is complete.
Goes(k) == \A m \in Md5s, sent \in Nat :
    Kept(m) /\ Upload(k, m, sent) /\ sent <= 2 + Size(m) /\ (k \in held \/ sent = 2 + Size(m)) =>
        \/ Upload(k, m, sent)' /\ sv'[k].s = sv[k].s
        \/ sv'[k].at = "closed" /\ sv[k].s \in Servers /\ repo'[sv[k].s][m] = Content[m]

LEMMA UploadFrame ==
    ASSUME Types, NEW k \in Conns, sv'[k] = sv[k], up'[k] = up[k],
           NEW m \in Md5s, Kept(m), RepoGrows, NEW sent \in Nat, sent <= 2 + Size(m),
           Upload(k, m, sent), sv[k].s \in Servers
    PROVE  Upload(k, m, sent)'
<1>1. CASE sv[k].at = "recv"
  <2>1. sv[k].pos \in Nat /\ Size(m) \in Nat
    BY ContentIs DEF Types, ServerTypes, SvTypes, Thread
  <2>2. sv[k].pos <= Size(m) /\ Holds(sv[k].s, m, sv[k].pos)
    BY <1>1, <2>1 DEF Upload
  <2>3. Holds(sv[k].s, m, sv[k].pos)'
    <3>1. PICK p \in Nat, s \in Servers : p = sv[k].pos /\ s = sv[k].s
      BY <2>1
    <3>2. Holds(s, m, p)'
      BY <2>2, <3>1 DEF RepoGrows
    <3> QED
      BY <3>1, <3>2 DEF Holds
  <2> QED
    BY <1>1, <2>3 DEF Upload
<1>2. CASE sv[k].at # "recv"
  BY <1>2 DEF Upload
<1> QED
  BY <1>1, <1>2

LEMMA UploadsSent ==
    ASSUME Types, NEW k \in Conns, NEW m, NEW sent \in Nat, Upload(k, m, sent)
    PROVE  Uploads(k, m) <=> sent # 0
<1>0. sv[k].pos \in Nat
  BY DEF Types, ServerTypes, SvTypes, Thread
<1>1. CASE sent = 0
  BY <1>0, <1>1 DEF Upload, Uploads
<1>2. CASE sent # 0
  BY <1>2 DEF Upload, Uploads
<1> QED
  BY <1>1, <1>2

\* Whose upload it is.
LEMMA UploadOf ==
    ASSUME Plain, Uploaded, NEW k \in Conns, NEW m \in Md5s, Kept(m), Uploads(k, m)
    PROVE  \E sent \in Nat : /\ Upload(k, m, sent) /\ 1 <= sent /\ sent <= 2 + Size(m)
                             /\ k \in held \/ sent = 2 + Size(m)
<1>a. /\ Types /\ \A c \in Clients : LineInv(c) /\ WireInv(c)
      /\ \A j \in Conns : ConnInv(j)
  BY DEF Plain
<1>b. Size(m) \in Nat
  BY ContentIs
<1>1. CASE ~Current(k)
  <2>1. Upload(k, m, 2 + Size(m))
    BY <1>1 DEF Uploaded, PutLeft
  <2> QED
    BY <1>b, <2>1
<1>2. CASE Current(k)
  <2> DEFINE c == k[1]
             i == k[3]
  <2>1. k = K(c, i) /\ c \in Clients /\ i \in Nth(c) /\ Wired(c)
    BY <1>2, CurrentIs DEF Current
  <2>2. Wire(c, k) /\ Busy1(c)
    BY <1>a, <2>1 DEF WireInv, Wired, Busy1, Resting
  <2>3. /\ Line(c) = <<Line(c)[1], cl[c].row.md5>> /\ Line(c)[1] \in {"gets", "puts"}
        /\ cl[c].row.md5 \in Md5s /\ cl[c].pos \in Pair
    BY <1>a, <2>1, <2>2, LineIs DEF Types, ClientTypes, ClientState
  <2>4. Line(c)[1] = "puts" /\ Begun(c)
    <3>1. CASE sv[k].at \in {"puts", "size", "recv"}
      BY <2>1, <2>2, <2>3, <3>1 DEF Wire, Begun
    <3>2. CASE sv[k].at \in {"queued", "cmd"}
      <4>1. up[k] # <<>> /\ up[k][1] = CmdWord("puts", m)
        BY <3>2 DEF Uploads
      <4>2. Begun(c)
        BY <2>1, <2>2, <4>1 DEF Wire, Begun
      <4>3. CmdWord("puts", m).v[1] = "puts" /\ CmdWord("puts", m).v = Line(c)
        BY <2>2, <3>2, <4>1, <4>2 DEF Wire, CmdWord
      <4> QED
        BY <4>2, <4>3
    <3> QED
      BY <3>1, <3>2 DEF Uploads
  <2>5. Owing(c)
    BY <1>a, <2>1, <2>2, <2>4 DEF Owing, Wired, LineInv, Getting
  <2>6. cl[c].row.md5 = m
    <3>1. CASE sv[k].at \in {"queued", "cmd"}
      <4>1. CmdWord("puts", m).v = Line(c)
        BY <2>2, <2>4, <3>1 DEF Wire, CmdWord, Uploads
      <4> QED
        BY <2>3, <4>1 DEF CmdWord
    <3>2. CASE sv[k].at \in {"puts", "size", "recv"}
      BY <2>2, <2>3, <3>2 DEF Wire, Running, Uploads
    <3> QED
      BY <3>1, <3>2 DEF Uploads
  <2>7. PutConn(c, i, k, m) /\ (cl[c].at \in {"send1", "send2"} => cl[c].pos[i] <= Size(m))
    BY <2>1, <2>5, <2>6 DEF Uploaded, PutClient
  <2>8. sv[k].at # "closed"
    BY DEF Uploads
  <2>9. Upload(k, m, Sent(c, i)) /\ i \in {1, 2}
    BY <2>1, <2>7, <2>8, ConnIs DEF PutConn
  <2>10. Sent(c, i) \in Nat /\ Sent(c, i) <= 2 + Size(m)
    <3>1. cl[c].at \in {"train", "size", "send1", "send2"}
      BY <2>1, <2>5 DEF Wired, Owing
    <3>2. cl[c].pos[i] \in Nat
      BY <2>3, <2>9 DEF Pair
    <3> QED
      BY <1>b, <2>7, <3>1, <3>2 DEF Sent
  <2>11. Sent(c, i) # 0
    BY <1>a, <2>9, <2>10, UploadsSent
  <2> QED
    BY <2>2, <2>9, <2>10, <2>11 DEF Wire
<1> QED
  BY <1>1, <1>2

\* What a row names stays there or on its way.
LEMMA UploadedThread ==
    ASSUME Plain, Uploaded, NEW k \in Conns, ThreadStep(k), alive' = alive, RepoGrows, Goes(k),
           Open(k), \A m \in Md5s : Uploads(k, m)' => Uploads(k, m)
    PROVE  Uploaded'
<1>a. /\ Types /\ \A c \in Clients : LineInv(c) /\ WireInv(c)
      /\ \A j \in Conns : ConnInv(j)
  BY DEF Plain
<1>b. /\ UNCHANGED clientVars /\ held' = held
      /\ rows' = rows /\ cl' = cl /\ cut' = cut
  BY ClientsStay DEF ThreadStep
<1>c. \A j \in Conns : j # k => sv'[j] = sv[j] /\ up'[j] = up[j]
  BY DEF ThreadStep
<1>d. RepoInv /\ RowInv /\ (\A c \in Clients : PutClient(c)) /\ \A j \in Conns : PutLeft(j)
  BY DEF Uploaded
<1>e. \A m : Kept(m)' <=> Kept(m)
  BY <1>b DEF Kept
<1>f. \A c : (Owing(c)' <=> Owing(c)) /\ \A i : Sent(c, i)' = Sent(c, i)
  BY <1>b DEF Owing, Sent, Line
<1>g. \A j : Current(j)' <=> Current(j)
  BY <1>b, ClientPart DEF Current
<1>h. sv[k].s \in Servers
  BY <1>a DEF ConnInv
<1>1. RepoInv'
  BY <1>e DEF RepoInv, RepoGrows
<1>2. ASSUME NEW s \in Servers, NEW m \in Md5s, Kept(m), HasContent(s, m) \/ OnItsWay(s, m)
      PROVE  (HasContent(s, m) \/ OnItsWay(s, m))'
  <2>1. CASE HasContent(s, m)
    BY <1>2, <2>1 DEF RepoGrows
  <2>2. CASE \E c \in Clients : /\ Owing(c) /\ cl[c].row.md5 = m
                                /\ \E i \in Nth(c) : cl[c].row.s[i] = s
    <3>1. \E c \in Clients : /\ Owing(c)' /\ cl'[c].row.md5 = m
                             /\ \E i \in Nth(c)' : cl'[c].row.s[i] = s
      BY <1>b, <1>f, <2>2, ClientPart
    <3> QED
      BY <3>1 DEF OnItsWay
  <2>3. CASE \E j \in Conns : sv[j].s = s /\ Uploads(j, m)
    <3>1. PICK j \in Conns : sv[j].s = s /\ Uploads(j, m)
      BY <2>3
    <3>2. CASE j # k
      <4>1. sv'[j].s = s /\ Uploads(j, m)'
        BY <1>c, <3>1, <3>2 DEF Uploads
      <4> QED
        BY <4>1 DEF OnItsWay
    <3>3. CASE j = k
      <4>1. PICK sent \in Nat : /\ Upload(k, m, sent) /\ 1 <= sent /\ sent <= 2 + Size(m)
                                /\ k \in held \/ sent = 2 + Size(m)
        BY <1>2, <3>1, <3>3, UploadOf
      <4>2. \/ Upload(k, m, sent)' /\ sv'[k].s = sv[k].s
            \/ sv'[k].at = "closed" /\ repo'[sv[k].s][m] = Content[m]
        BY <1>2, <4>1 DEF Goes
      <4>3. CASE Upload(k, m, sent)' /\ sv'[k].s = sv[k].s
        <5>1. Uploads(k, m)'
          BY <4>1, <4>3 DEF Upload, Uploads
        <5> QED
          BY <3>1, <3>3, <4>3, <5>1 DEF OnItsWay
      <4> QED
        BY <3>1, <3>3, <4>2, <4>3 DEF HasContent
    <3> QED
      BY <3>2, <3>3
  <2> QED
    BY <1>2, <2>1, <2>2, <2>3 DEF OnItsWay
<1>3. RowInv'
  <2> SUFFICES ASSUME NEW r \in rows, Kept(r.md5), NEW i \in {1, 2}, i = 1 \/ r.part[2] # 0
               PROVE  Parted(r) /\ (HasContent(r.s[i], r.md5) \/ OnItsWay(r.s[i], r.md5))'
    BY <1>b, <1>e DEF RowInv, Parted
  <2>1. r.md5 \in Md5s /\ r.s[i] \in Servers
    BY <1>a DEF Types, ServerTypes, Rows, Pairs, Servers
  <2>2. Parted(r) /\ (HasContent(r.s[i], r.md5) \/ OnItsWay(r.s[i], r.md5))
    BY <1>d DEF RowInv
  <2>3. PICK s \in Servers, m \in Md5s : s = r.s[i] /\ m = r.md5
    BY <2>1
  <2>4. (HasContent(s, m) \/ OnItsWay(s, m))'
    BY <1>2, <2>2, <2>3
  <2> QED
    BY <2>2, <2>3, <2>4
<1>4. ASSUME NEW c \in Clients PROVE PutClient(c)'
  <2> SUFFICES ASSUME Owing(c) \/ cl[c].at = "sizes", Kept(cl[c].row.md5), Wired(c), NEW i \in Nth(c)
               PROVE  PutConn(c, i, K(c, i), cl[c].row.md5)'
    <3>1. PutClient(c) /\ (PutClient(c)' <=> PutClient(c)') /\ cl'[c] = cl[c] /\ Nth(c)' = Nth(c)
          /\ (Wired(c)' <=> Wired(c)) /\ (Owing(c)' <=> Owing(c))
          /\ (Kept(cl[c].row.md5)' <=> Kept(cl[c].row.md5))
      BY <1>b, <1>d, <1>e, <1>f, ClientPart
    <3> QED
      BY <1>b, <3>1 DEF PutClient, Parted
  <2>1. Busy1(c)
    BY DEF Owing, Busy1, Resting
  <2>2. PICK m \in Md5s : m = cl[c].row.md5
    BY <1>a, <2>1, LineIs
  <2>3. PICK j \in Conns : j = K(c, i) /\ i \in {1, 2}
    BY <1>a, <2>1, LineIs, NthIs
  <2>4. PutConn(c, i, j, m) /\ (cl[c].at \in {"send1", "send2"} => cl[c].pos[i] <= Size(m))
    BY <1>d, <2>2, <2>3 DEF PutClient
  <2>5. PICK s \in Servers : s = cl[c].row.s[i]
    <3>1. cl[c].row \in Rows
      BY <1>a, <2>1, LineIs
    <3> QED
      BY <2>3, <3>1 DEF Rows, Pairs, Servers
  <2>6. PICK n : n = Sent(c, i)
    OBVIOUS
  <2>7. n \in Nat /\ n <= 2 + Size(m) /\ n = Sent(c, i)'
    <3>1. cl[c].pos[i] \in Nat /\ Size(m) \in Nat
      BY <1>a, <2>3, ContentIs DEF Types, ClientTypes, ClientState, Pair
    <3>2. cl[c].at \in {"train", "size"} \/ (cl[c].at \in {"send1", "send2"} /\ cl[c].pos[i] <= Size(m))
      <4>1. cl[c].at \in {"train", "size", "send1", "send2"}
        BY DEF Wired, Owing
      <4> QED
        BY <2>4, <4>1
    <3> QED
      BY <1>f, <2>6, <3>1, <3>2 DEF Sent
  <2>8. j \in held
    BY <1>a, <2>3 DEF WireInv, Wire
  <2>9. (sv'[j].s = s /\ Upload(j, m, n)') \/ (sv'[j].at = "closed" /\ HasContent(s, m)')
    <3>1. CASE sv[j].at = "closed" /\ HasContent(s, m)
      <4>1. j # k
        BY <3>1 DEF Open
      <4> QED
        BY <1>c, <2>2, <3>1, <4>1 DEF RepoGrows
    <3>2. CASE sv[j].s = s /\ Upload(j, m, n)
      <4>1. CASE j # k
        <5>1. sv'[j] = sv[j] /\ up'[j] = up[j]
          BY <1>c, <4>1
        <5>2. Upload(j, m, n)'
          BY <1>a, <2>2, <2>7, <3>2, <5>1, UploadFrame
        <5> QED
          BY <3>2, <5>1, <5>2
      <4>2. CASE j = k
        <5>1. \/ Upload(k, m, n)' /\ sv'[k].s = sv[k].s
              \/ sv'[k].at = "closed" /\ repo'[sv[k].s][m] = Content[m]
          BY <2>2, <2>7, <2>8, <3>2, <4>2 DEF Goes
        <5> QED
          BY <3>2, <4>2, <5>1 DEF HasContent
      <4> QED
        BY <4>1, <4>2
    <3> QED
      BY <2>2, <2>4, <2>5, <2>6, <3>1, <3>2 DEF PutConn
  <2>10. K(c, i)' = j /\ cl' = cl
    BY <1>b, <2>3, ClientPart
  <2> QED
    BY <2>2, <2>5, <2>6, <2>7, <2>9, <2>10 DEF PutConn, HasContent
<1>5. ASSUME NEW j \in Conns PROVE PutLeft(j)'
  <2> SUFFICES ASSUME ~Current(j), NEW m \in Md5s, Kept(m), Uploads(j, m)'
               PROVE  Upload(j, m, 2 + Size(m))'
    BY <1>e, <1>g DEF PutLeft
  <2>1. Size(m) \in Nat
    BY ContentIs
  <2>2. CASE j # k
    <3>1. sv'[j] = sv[j] /\ up'[j] = up[j]
      BY <1>c, <2>2
    <3>2. Uploads(j, m)
      BY <3>1 DEF Uploads
    <3>3. Upload(j, m, 2 + Size(m)) /\ sv[j].s \in Servers
      <4>1. Open(j)
        BY <3>2 DEF Uploads, Open
      <4> QED
        BY <1>a, <1>d, <3>2, <4>1 DEF PutLeft, ConnInv
    <3> QED
      BY <1>a, <2>1, <3>1, <3>3, UploadFrame
  <2>3. CASE j = k
    <3>1. Upload(k, m, 2 + Size(m))
      BY <1>d, <2>3 DEF PutLeft
    <3>2. Upload(k, m, 2 + Size(m))' \/ sv'[k].at = "closed"
      BY <2>1, <3>1 DEF Goes
    <3> QED
      BY <2>3, <3>2 DEF Uploads
  <2> QED
    BY <2>2, <2>3
<1> QED
  BY <1>1, <1>3, <1>4, <1>5 DEF Uploaded

\* When a server has ended nothing is promised.
LEMMA UploadedLost ==
    ASSUME alive' # Servers
    PROVE  Uploaded'
BY DEF Uploaded, RepoInv, RowInv, PutClient, PutLeft, Kept

\* The download at k goes on.
Served(k) == Good =>
    /\ GetThread(k)'
    /\ \A c \in Clients : \A i \in Nth(c) :
          Wired(c) /\ Line(c)[1] = "gets" /\ k = K(c, i) => GetConn(c, i, k, cl[c].row.md5)'

LEMMA DownloadingThread ==
    ASSUME Plain, Downloading, NEW k \in Conns, ThreadStep(k), alive' = alive, RepoGrows, Served(k)
    PROVE  Downloading'
<1>a. /\ Types /\ \A c \in Clients : LineInv(c)
      /\ \A j \in Conns : ConnInv(j)
  BY DEF Plain
<1>b. /\ UNCHANGED clientVars /\ held' = held
      /\ cl' = cl /\ cut' = cut /\ early' = early
  BY ClientsStay DEF ThreadStep
<1>c. \A j \in Conns : j # k => sv'[j] = sv[j] /\ up'[j] = up[j] /\ down'[j] = down[j]
  BY DEF ThreadStep
<1> SUFFICES ASSUME Good
             PROVE  /\ alive' = Servers
                    /\ \A j \in Conns : GetThread(j)'
                    /\ \A c \in Clients : GetClient(c)'
  BY <1>b DEF Downloading, Good
<1>d. /\ alive = Servers /\ (\A j \in Conns : GetThread(j)) /\ (\A c \in Clients : GetClient(c))
      /\ \A m \in Md5s : Kept(m)
  BY DEF Downloading, Good, Kept
<1>e. \A s \in Servers, m \in Md5s : HasContent(s, m) => HasContent(s, m)'
  BY <1>d DEF RepoGrows
<1>1. ASSUME NEW j \in Conns, j # k PROVE GetThread(j)'
  <2>1. GetThread(j) /\ sv'[j] = sv[j] /\ up'[j] = up[j] /\ (Open(j) => sv[j].s \in Servers)
    BY <1>a, <1>c, <1>1, <1>d DEF ConnInv
  <2>2. sv[j].at \in {"queued", "cmd", "gets", "offs", "send"} => sv[j].s \in Servers
    BY <2>1 DEF Open
  <2> QED
    BY <1>e, <2>1, <2>2 DEF GetThread, HasContent
<1>2. ASSUME NEW c \in Clients PROVE GetClient(c)'
  <2> SUFFICES ASSUME cl[c].at \in {"connect", "train"} \cup Getting, Line(c)[1] = "gets"
               PROVE  GetClient(c)'
    BY <1>b, ClientPart DEF GetClient
  <2>1. Busy1(c)
    BY DEF Busy1, Resting, Getting
  <2>2. cl[c].row \in Rows /\ cl[c].row.md5 \in Md5s
    BY <1>a, <2>1, LineIs
  <2>3. \A i \in Nth(c) : i \in {1, 2} /\ cl[c].row.s[i] \in Servers
    BY <2>2, NthIs DEF Rows, Pairs, Servers
  <2>4. \A i \in Nth(c) : HasContent(cl[c].row.s[i], cl[c].row.md5)'
    BY <1>b, <1>d, <1>e, <2>2, <2>3 DEF GetClient, HasContent
  <2>5. ASSUME NEW i \in Nth(c), Wired(c)
        PROVE  GetConn(c, i, K(c, i), cl[c].row.md5)'
    <3>1. PICK j \in Conns : j = K(c, i)
      BY <1>a, <2>1, <2>3, LineIs
    <3>2. GetConn(c, i, j, cl[c].row.md5)
      BY <1>d, <2>5, <3>1 DEF GetClient
    <3>3. CASE j = k
      <4>1. GetConn(c, i, k, cl[c].row.md5)'
        BY <2>5, <3>1, <3>3 DEF Served
      <4>2. K(c, i)' = k
        BY <1>b, <3>1, <3>3, ClientPart
      <4> QED
        BY <4>1, <4>2 DEF GetConn, Download, PageComing, Wanted
    <3>4. CASE j # k
      <4>1. sv'[j] = sv[j] /\ up'[j] = up[j] /\ down'[j] = down[j]
        BY <1>c, <3>4
      <4>2. K(c, i)' = j /\ cl' = cl
        BY <1>b, <3>1, ClientPart
      <4> QED
        BY <3>2, <4>1, <4>2 DEF GetConn, Download, PageComing, Wanted
    <3> QED
      BY <3>3, <3>4
  <2>6. Nth(c)' = Nth(c) /\ cl' = cl /\ (Wired(c)' <=> Wired(c))
    BY <1>b, ClientPart
  <2>7. Parted(cl[c].row)
    BY <1>d DEF GetClient
  <2> QED
    BY <2>4, <2>5, <2>6, <2>7 DEF GetClient, Parted
<1> QED
  BY <1>1, <1>2, <1>d DEF Served

LEMMA PartsThread ==
    ASSUME PartsWhole, UNCHANGED clientVars
    PROVE  PartsWhole'
<1>1. /\ cl' = cl /\ disk' = disk /\ cut' = cut /\ early' = early /\ mixed' = mixed
  BY ClientsStay
<1>2. \A c : (PartsInv(c)' <=> PartsInv(c))
  BY <1>1 DEF PartsInv
<1>3. \A c : (StageInv(c)' <=> StageInv(c))
  <2>1. \A c : /\ Nth(c)' = Nth(c) /\ (Finished(c)' <=> Finished(c))
               /\ \A i : Filled(c, i)' = Filled(c, i) /\ (Wanted(c, i)' <=> Wanted(c, i))
    BY <1>1 DEF Nth, Finished, Filled, Wanted, Line
  <2> QED
    BY <1>1, <2>1 DEF StageInv
<1> QED
  BY <1>1, <1>2, <1>3 DEF PartsWhole, Good

-----------------------------------------------------------------------------
(* The tasks of the file servers *)

LEMMA RunningIs ==
    ASSUME NEW s, NEW a, NEW k \in At(s, a)
    PROVE  k \in Conns /\ sv[k].s = s /\ sv[k].at = a /\ Open(k) /\ a # "queued"
BY DEF At, Busy

LEMMA StepIs ==
    ASSUME Types, NEW k \in Conns, NEW r, Thread(r), Step(k, r)
    PROVE  /\ sv'[k] = r /\ \A j \in Conns \ {k} : sv'[j] = sv[j]
           /\ SvTypes'
BY DEF Step, Types, ServerTypes, SvTypes

LEMMA ThreadIs ==
    ASSUME Types, NEW k \in Conns
    PROVE  /\ Thread(sv[k])
           /\ \A a \in Serving : Thread([sv[k] EXCEPT !.at = a])
           /\ \A a \in Serving : Thread([NoThread EXCEPT !.at = a])
<1>1. Thread(sv[k])
  BY DEF Types, ServerTypes, SvTypes
<1>2. Thread(NoThread)
  BY DEF NoThread, Thread, Serving
<1> QED
  BY <1>1, <1>2 DEF Thread

\* What a task writes down of a word.
SetSend(r, a, o, l) == [r EXCEPT !.at = a, !.off = o, !.len = l]
SetCommand(r, a, m) == [r EXCEPT !.at = a, !.m = m]
SetSize(r, a, l)    == [r EXCEPT !.at = a, !.len = l]

LEMMA ThreadSend ==
    ASSUME NEW r, Thread(r), NEW a \in Serving, NEW o, NEW l, NEW t, t = SetSend(r, a, o, l)
    PROVE  /\ Thread(t) /\ t.at = a /\ t.off = o /\ t.len = l
           /\ t.s = r.s /\ t.m = r.m /\ t.pos = r.pos
<1>1. PICK r1 : r1 = [r EXCEPT !.at = a]
  OBVIOUS
<1>2. PICK r2 : r2 = [r1 EXCEPT !.off = o]
  OBVIOUS
<1>3. PICK r3 : r3 = [r2 EXCEPT !.len = l]
  OBVIOUS
<1>4. Thread(r1) /\ r1.at = a /\ r1.pos = r.pos /\ r1.s = r.s /\ r1.m = r.m
  BY <1>1 DEF Thread
<1>5. Thread(r2) /\ r2.at = a /\ r2.pos = r.pos /\ r2.s = r.s /\ r2.m = r.m /\ r2.off = o
  BY <1>2, <1>4 DEF Thread
<1>6. /\ Thread(r3) /\ r3.at = a /\ r3.pos = r.pos /\ r3.s = r.s /\ r3.m = r.m /\ r3.off = o
      /\ r3.len = l
  BY <1>3, <1>5 DEF Thread
<1>7. t = r3
  BY <1>1, <1>2, <1>3 DEF SetSend
<1> QED
  BY <1>6, <1>7

LEMMA ThreadCommand ==
    ASSUME NEW r, Thread(r), NEW a \in Serving, NEW m, NEW t, t = SetCommand(r, a, m)
    PROVE  Thread(t) /\ t.at = a /\ t.m = m /\ t.s = r.s /\ t.pos = r.pos
<1>1. PICK r1 : r1 = [r EXCEPT !.at = a]
  OBVIOUS
<1>2. PICK r2 : r2 = [r1 EXCEPT !.m = m]
  OBVIOUS
<1>3. Thread(r1) /\ r1.at = a /\ r1.pos = r.pos /\ r1.s = r.s
  BY <1>1 DEF Thread
<1>4. Thread(r2) /\ r2.at = a /\ r2.pos = r.pos /\ r2.s = r.s /\ r2.m = m
  BY <1>2, <1>3 DEF Thread
<1>5. t = r2
  BY <1>1, <1>2 DEF SetCommand
<1> QED
  BY <1>4, <1>5

LEMMA ThreadSize ==
    ASSUME NEW r, Thread(r), NEW a \in Serving, NEW l, NEW t, t = SetSize(r, a, l)
    PROVE  Thread(t) /\ t.at = a /\ t.len = l /\ t.s = r.s /\ t.m = r.m /\ t.pos = r.pos
<1>1. PICK r1 : r1 = [r EXCEPT !.at = a]
  OBVIOUS
<1>2. PICK r2 : r2 = [r1 EXCEPT !.len = l]
  OBVIOUS
<1>3. Thread(r1) /\ r1.at = a /\ r1.pos = r.pos /\ r1.s = r.s /\ r1.m = r.m
  BY <1>1 DEF Thread
<1>4. Thread(r2) /\ r2.at = a /\ r2.pos = r.pos /\ r2.s = r.s /\ r2.m = r.m /\ r2.len = l
  BY <1>2, <1>3 DEF Thread
<1>5. t = r2
  BY <1>1, <1>2 DEF SetSize
<1> QED
  BY <1>4, <1>5

LEMMA RepoSame ==
    ASSUME Uploaded, repo' = repo
    PROVE  RepoGrows
BY DEF Uploaded, RepoInv, RepoGrows, HasContent, Holds

\* A download of a content that was there, seen from its connection.
LEMMA GetConnNow ==
    ASSUME Plain, Downloading, Good, NEW c \in Clients, NEW i \in Nth(c), Wired(c),
           Line(c)[1] = "gets", NEW k \in Conns, k = K(c, i)
    PROVE  /\ GetConn(c, i, k, cl[c].row.md5) /\ cl[c].at \in {"train", "open", "recv"}
           /\ cl[c].row.md5 \in Md5s /\ Parted(cl[c].row) /\ i \in {1, 2}
           /\ cl[c].row.s[i] \in Servers /\ HasContent(cl[c].row.s[i], cl[c].row.md5)
           /\ Wire(c, k) /\ cl[c].off \in Pair /\ cl[c].pos \in Pair
<1>a. Types /\ LineInv(c) /\ WireInv(c)
  BY DEF Plain
<1>1. Busy1(c)
  BY DEF Wired, Busy1, Resting
<1>2. cl[c].at \in {"train", "open", "recv"}
  BY <1>a, <1>1 DEF Wired, LineInv, Putting
<1>3. cl[c].row \in Rows /\ cl[c].row.md5 \in Md5s
  BY <1>a, <1>1, LineIs
<1>4. i \in {1, 2} /\ cl[c].row.s[i] \in Servers
  BY <1>3, NthIs DEF Rows, Pairs, Servers
<1>5. GetClient(c)
  BY DEF Downloading
<1> QED
  BY <1>a, <1>2, <1>3, <1>4, <1>5 DEF GetClient, Getting, WireInv, Types, ClientTypes, ClientState

\* A step after the command, in four parts.
LEMMA ThreadInv ==
    ASSUME IInv, NEW k \in Conns, Open(k), ThreadStep(k), alive' = alive, Plain', RepoGrows, Goes(k),
           Served(k), \A m \in Md5s : Uploads(k, m)' => Uploads(k, m)
    PROVE  IInv'
<1>1. Uploaded'
  BY UploadedThread DEF IInv
<1>2. Downloading'
  BY DownloadingThread DEF IInv
<1>3. PartsWhole'
  BY PartsThread DEF IInv, ThreadStep
<1> QED
  BY <1>1, <1>2, <1>3 DEF IInv

\* error(-1, ...) under a thread.
LEMMA ServerEndsStep ==
    ASSUME IInv, NEW s \in Servers, ServerEnds(s), ~Good, UNCHANGED <<repo, netVars, clientVars>>
    PROVE  IInv'
<1>a. /\ Types /\ QueueInv /\ PoolInv
      /\ \A c \in Clients : LineInv(c) /\ WireInv(c) /\ ShapeInv(c)
      /\ \A j \in Conns : ConnInv(j)
  BY DEF IInv, Plain
<1>b. up' = up /\ down' = down /\ held' = held /\ UNCHANGED clientVars
  BY DEF netVars
<1>c. alive' = alive \ {s} /\ que' = [que EXCEPT ![s] = <<>>]
  BY DEF ServerEnds
<1>d. \A j \in Conns : sv'[j] = IF sv[j].s = s /\ Open(j) THEN [NoThread EXCEPT !.at = "closed"] ELSE sv[j]
  BY DEF ServerEnds
<1>e. Thread([NoThread EXCEPT !.at = "closed"]) /\ [NoThread EXCEPT !.at = "closed"].at = "closed"
  BY DEF NoThread, Thread, Serving, Running
<1>1. Types'
  <2>1. SvTypes'
    BY <1>a, <1>d, <1>e DEF ServerEnds, Types, ServerTypes, SvTypes
  <2>2. que' \in [Servers -> Seq(Conns)]
    BY <1>a, <1>c DEF Types, ServerTypes
  <2>3. ServerTypes'
    BY <1>a, <1>b, <1>c, <2>1, <2>2, ClientsStay DEF Types, ServerTypes
  <2>4. NetTypes'
    BY <1>a, <1>b DEF Types, NetTypes
  <2> QED
    BY <1>a, <1>b, <2>3, <2>4, ClientPart DEF Types
<1>2. QueueInv'
  <2> SUFFICES ASSUME NEW t \in Servers
               PROVE  /\ \A i \in 1..Len(que'[t]) : sv'[que'[t][i]].at = "queued" /\ sv'[que'[t][i]].s = t
                      /\ \A i, j \in 1..Len(que'[t]) : que'[t][i] = que'[t][j] => i = j
    BY DEF QueueInv
  <2>1. CASE t = s
    <3>1. que'[t] = <<>>
      BY <1>a, <1>c, <2>1 DEF Types, ServerTypes
    <3> QED
      BY <3>1
  <2>2. CASE t # s
    <3>1. que'[t] = que[t] /\ que[t] \in Seq(Conns)
      BY <1>a, <1>c, <2>2 DEF Types, ServerTypes
    <3>2. \A i \in 1..Len(que[t]) : que[t][i] \in Conns /\ sv[que[t][i]].s = t
      BY <1>a, <3>1 DEF QueueInv
    <3>3. \A i \in 1..Len(que[t]) : sv'[que[t][i]] = sv[que[t][i]]
      BY <1>d, <2>2, <3>2
    <3> QED
      BY <1>a, <3>1, <3>3 DEF QueueInv
  <2> QED
    BY <2>1, <2>2
<1>3. PoolInv'
  <2>1. \A t \in Servers : Busy(t)' \subseteq Busy(t)
    <3> SUFFICES ASSUME NEW t \in Servers, NEW j \in Busy(t)' PROVE j \in Busy(t)
      OBVIOUS
    <3>1. sv'[j] = sv[j] /\ j \in Conns
      BY <1>d, <1>e DEF Busy, Open
    <3> QED
      BY <3>1 DEF Busy, Open
  <2> QED
    BY <1>a, <2>1, PoolShrinks
<1>4. ASSUME NEW c \in Clients PROVE WireInv(c)'
  <2> SUFFICES ASSUME Wired(c), NEW i \in Nth(c) PROVE Wire(c, K(c, i))'
    BY <1>b, ClientPart DEF WireInv
  <2>1. PICK j \in Conns : j = K(c, i) /\ K(c, i)' = j
    <3>1. Busy1(c) /\ i \in {1, 2}
      BY NthIs DEF Wired, Busy1, Resting
    <3> QED
      BY <1>a, <1>b, <3>1, LineIs, ClientPart
  <2>2. Wire(c, j) /\ Line(c)' = Line(c) /\ cl' = cl
    BY <1>a, <1>b, <2>1, ClientPart, ClientsStay DEF WireInv
  <2>3. CASE sv'[j] = sv[j]
    BY <1>b, <2>1, <2>2, <2>3 DEF Wire, Begun, Wired
  <2>4. CASE sv'[j] # sv[j]
    <3>1. sv'[j].at = "closed"
      BY <1>d, <1>e, <2>4
    <3> QED
      BY <1>b, <2>1, <2>2, <3>1 DEF Wire, Begun, Wired, Running
  <2> QED
    BY <2>3, <2>4
<1>5. ASSUME NEW j \in Conns PROVE ConnInv(j)'
  <2>1. (Unused(j)' <=> Unused(j)) /\ ConnInv(j)
    BY <1>a, <1>b, ClientPart
  <2>2. CASE sv'[j] = sv[j]
    BY <1>b, <2>1, <2>2 DEF ConnInv, Fresh, FirstWord, Open
  <2>3. CASE sv'[j] # sv[j]
    <3>1. sv'[j].at = "closed" /\ Open(j)
      BY <1>d, <1>e, <2>3
    <3> QED
      BY <2>1, <3>1 DEF ConnInv, Fresh, FirstWord, Open
  <2> QED
    BY <2>2, <2>3
<1>6. Plain'
  BY <1>1, <1>2, <1>3, <1>4, <1>5, <1>a, <1>b, ClientPart DEF Plain
<1>7. Uploaded'
  <2>1. alive' # Servers
    BY <1>c
  <2> QED
    BY <2>1, UploadedLost
<1>8. ~Good'
  BY <1>b, ClientsStay DEF Good
<1> QED
  BY <1>6, <1>7, <1>8 DEF IInv, Downloading, PartsWhole

LEMMA GetsOpenStep == ASSUME IInv, NEW s \in Servers, GetsOpen(s) PROVE IInv'
<1>a. Plain /\ Types /\ Uploaded /\ Downloading
  BY DEF IInv, Plain
<1>1. PICK k \in At(s, "gets") :
         /\ \/ /\ repo[s][sv[k].m] # NULL
               /\ Now(k, "offs") /\ UNCHANGED <<alive, que>>
            \/ repo[s][sv[k].m] = NULL /\ ServerEnds(s)
         /\ UNCHANGED <<repo, netVars, clientVars>>
  BY DEF GetsOpen
<1>2. k \in Conns /\ sv[k].s = s /\ sv[k].at = "gets" /\ Open(k)
  BY RunningIs
<1>3. CASE repo[s][sv[k].m] = NULL /\ ServerEnds(s)
  <2>1. ~Good
    <3> SUFFICES ASSUME Good PROVE FALSE
      OBVIOUS
    <3>1. GetThread(k)
      BY <1>a, <1>2 DEF Downloading
    <3>2. sv[k].m \in Md5s /\ repo[s][sv[k].m] = Content[sv[k].m]
      BY <1>2, <3>1 DEF GetThread, HasContent
    <3> QED
      BY <1>3, <3>2, ContentIs
  <2> QED
    BY <1>1, <1>3, <2>1, ServerEndsStep
<1>4. CASE Now(k, "offs") /\ UNCHANGED <<alive, que>>
  <2>1. Thread([sv[k] EXCEPT !.at = "offs"])
    BY <1>a, <1>2, ThreadIs DEF Serving
  <2>2. /\ sv'[k] = [sv[k] EXCEPT !.at = "offs"] /\ \A j \in Conns \ {k} : sv'[j] = sv[j]
        /\ SvTypes'
    BY <1>a, <1>2, <1>4, <2>1, StepIs DEF Now
  <2>3. /\ sv'[k].at = "offs" /\ sv'[k].m = sv[k].m /\ sv'[k].s = sv[k].s /\ sv'[k].pos = sv[k].pos
    BY <2>1, <2>2 DEF Thread
  <2>4. up' = up /\ down' = down /\ held' = held /\ repo' = repo /\ alive' = alive /\ que' = que
    BY <1>1, <1>4 DEF netVars
  <2>5. ThreadStep(k)
    BY <1>1, <2>2, <2>4 DEF ThreadStep
  <2>6. Plain'
    <3>1. NetTypes' /\ alive' \subseteq Servers /\ DOMAIN repo' = Servers
          /\ \A t \in Servers : DOMAIN repo'[t] = Md5s
      BY <1>a, <2>4 DEF Types, NetTypes, ServerTypes
    <3> QED
      BY <1>a, <1>2, <2>2, <2>3, <2>4, <2>5, <3>1, PlainThread DEF Running
  <2>7. RepoGrows
    BY <1>a, <2>4, RepoSame
  <2>8. Goes(k)
    BY <1>2 DEF Goes, Upload
  <2>9. Served(k)
    <3> SUFFICES ASSUME Good
                 PROVE  /\ GetThread(k)'
                        /\ \A c \in Clients : \A i \in Nth(c) :
                              Wired(c) /\ Line(c)[1] = "gets" /\ k = K(c, i) =>
                                 GetConn(c, i, k, cl[c].row.md5)'
      BY DEF Served
    <3>1. GetThread(k)'
      <4>1. GetThread(k)
        BY <1>a, <1>2 DEF Downloading
      <4> QED
        BY <1>2, <2>3, <2>4, <4>1 DEF GetThread, HasContent
    <3>2. ASSUME NEW c \in Clients, NEW i \in Nth(c), Wired(c), Line(c)[1] = "gets", k = K(c, i)
          PROVE  GetConn(c, i, k, cl[c].row.md5)'
      <4>1. GetConn(c, i, k, cl[c].row.md5)
        BY <1>a, <1>2, <3>2, GetConnNow
      <4>2. cl' = cl
        BY <1>1, ClientsStay
      <4> QED
        BY <1>2, <2>3, <2>4, <4>1, <4>2 DEF GetConn, Download, PageComing, Wanted
    <3> QED
      BY <3>1, <3>2
  <2>10. \A m \in Md5s : Uploads(k, m)' => Uploads(k, m)
    BY <2>3 DEF Uploads
  <2> QED
    BY <1>2, <2>4, <2>5, <2>6, <2>7, <2>8, <2>9, <2>10, ThreadInv
<1> QED
  BY <1>1, <1>3, <1>4

LEMMA TakeIs ==
    ASSUME Types, NEW k \in Conns, Word(k), TakeWord(k)
    PROVE  /\ up' \in [Conns -> Seq(Words)] /\ \A j \in Conns \ {k} : up'[j] = up[j]
           /\ up[k][1] \in Words
           /\ \A a : up[k] = <<a>> => up[k][1] = a /\ up'[k] = <<>>
           /\ \A a, b : up[k] = <<a, b>> => up[k][1] = a /\ up'[k] = <<b>>
<1>1. up \in [Conns -> Seq(Words)] /\ up[k] \in Seq(Words) /\ up[k] # <<>>
  BY DEF Types, NetTypes, Word
<1>2. /\ up[k][1] \in Words /\ Tail(up[k]) \in Seq(Words)
      /\ \A a : up[k] = <<a>> => Tail(up[k]) = <<>>
      /\ \A a, b : up[k] = <<a, b>> => Tail(up[k]) = <<b>>
  BY <1>1, OneLess
<1>3. up' = [up EXCEPT ![k] = Tail(up[k])]
  BY DEF TakeWord
<1>4. up'[k] = Tail(up[k]) /\ up' \in [Conns -> Seq(Words)] /\ \A j \in Conns \ {k} : up'[j] = up[j]
  BY <1>1, <1>2, <1>3
<1> QED
  BY <1>2, <1>4

LEMMA GetsOffsetStep == ASSUME IInv, NEW s \in Servers, GetsOffset(s) PROVE IInv'
<1>a. Plain /\ Types /\ Uploaded /\ Downloading
  BY DEF IInv, Plain
<1>1. PICK k \in At(s, "offs") :
         /\ \/ /\ Word(k) /\ TakeWord(k)
               /\ Step(k, [sv[k] EXCEPT !.at = "send", !.off = up[k][1].off, !.len = up[k][1].len])
            \/ Lost(k) /\ Now(k, "send") /\ UNCHANGED up
         /\ UNCHANGED <<repo, alive, que, down, held, clientVars>>
  BY DEF GetsOffset
<1>2. k \in Conns /\ sv[k].s = s /\ sv[k].at = "offs" /\ Open(k)
  BY RunningIs
<1>3. PICK r : /\ Step(k, r) /\ Thread(r) /\ r.at = "send" /\ r.m = sv[k].m /\ r.s = sv[k].s
               /\ r.pos = sv[k].pos
               /\ Word(k) => r.off = up[k][1].off /\ r.len = up[k][1].len
  <2>1. Thread(sv[k])
    BY <1>a, <1>2, ThreadIs
  <2>2. CASE Word(k)
    <3>1. Step(k, [sv[k] EXCEPT !.at = "send", !.off = up[k][1].off, !.len = up[k][1].len])
      BY <1>1, <2>2 DEF Word, Lost
    <3>2. PICK o, l : o = up[k][1].off /\ l = up[k][1].len
      OBVIOUS
    <3>3. "send" \in Serving
      BY DEF Serving
    <3>4. PICK w : w = SetSend(sv[k], "send", o, l)
      OBVIOUS
    <3>5. /\ Thread(w) /\ w.at = "send" /\ w.off = o /\ w.len = l
          /\ w.s = sv[k].s /\ w.m = sv[k].m /\ w.pos = sv[k].pos
      BY <2>1, <3>3, <3>4, ThreadSend
    <3>6. Step(k, w)
      BY <3>1, <3>2, <3>4 DEF SetSend
    <3> QED
      BY <3>2, <3>5, <3>6
  <2>3. CASE ~Word(k)
    <3>1. PICK w : w = [sv[k] EXCEPT !.at = "send"]
      OBVIOUS
    <3>2. Step(k, w)
      BY <1>1, <2>3, <3>1 DEF Now
    <3>3. Thread(w) /\ w.at = "send" /\ w.m = sv[k].m /\ w.s = sv[k].s /\ w.pos = sv[k].pos
      BY <2>1, <3>1 DEF Thread, Serving
    <3> QED
      BY <2>3, <3>2, <3>3
  <2> QED
    BY <2>2, <2>3
<1>4. sv'[k] = r /\ (\A j \in Conns \ {k} : sv'[j] = sv[j]) /\ SvTypes'
  BY <1>a, <1>2, <1>3, StepIs
<1>5. /\ up' \in [Conns -> Seq(Words)] /\ \A j \in Conns \ {k} : up'[j] = up[j]
      /\ \A a : up[k] = <<a>> => Word(k) /\ up[k][1] = a /\ up'[k] = <<>>
  <2>1. CASE Word(k)
    BY <1>a, <1>1, <1>2, <2>1, TakeIs DEF Lost, Word
  <2>2. CASE ~Word(k)
    BY <1>a, <1>1, <2>2, SMTT(30) DEF Word, Types, NetTypes
  <2> QED
    BY <2>1, <2>2
<1>6. down' = down /\ held' = held /\ repo' = repo /\ alive' = alive /\ que' = que
  BY <1>1
<1>7. ThreadStep(k)
  BY <1>1, <1>4, <1>5, <1>6 DEF ThreadStep
<1>8. Plain'
  <2>1. NetTypes' /\ alive' \subseteq Servers /\ DOMAIN repo' = Servers
        /\ \A t \in Servers : DOMAIN repo'[t] = Md5s
    BY <1>a, <1>5, <1>6 DEF Types, NetTypes, ServerTypes
  <2> QED
    BY <1>a, <1>2, <1>3, <1>4, <1>6, <1>7, <2>1, PlainThread DEF Running
<1>9. RepoGrows
  BY <1>a, <1>6, RepoSame
<1>10. Goes(k)
  BY <1>2 DEF Goes, Upload
<1>11. Served(k)
  <2> SUFFICES ASSUME Good
               PROVE  /\ GetThread(k)'
                      /\ \A c \in Clients : \A i \in Nth(c) :
                            Wired(c) /\ Line(c)[1] = "gets" /\ k = K(c, i) =>
                               GetConn(c, i, k, cl[c].row.md5)'
    BY DEF Served
  <2>1. GetThread(k)'
    <3>1. GetThread(k)
      BY <1>a, <1>2 DEF Downloading
    <3> QED
      BY <1>2, <1>3, <1>4, <1>6, <3>1 DEF GetThread, HasContent
  <2>2. ASSUME NEW c \in Clients, NEW i \in Nth(c), Wired(c), Line(c)[1] = "gets", k = K(c, i)
        PROVE  GetConn(c, i, k, cl[c].row.md5)'
    <3>1. GetConn(c, i, k, cl[c].row.md5) /\ cl[c].at \in {"train", "open", "recv"} /\ k \in held
      BY <1>a, <1>2, <2>2, GetConnNow DEF Wire
    <3>2. cl' = cl
      BY <1>1, ClientsStay
    <3>3. cl[c].at # "train"
      BY <1>2, <3>1 DEF GetConn
    <3>4. cl[c].at # "open"
      <4> SUFFICES ASSUME cl[c].at = "open" PROVE FALSE
        OBVIOUS
      <4>1. up[k] = <<>>
        BY <1>2, <3>1 DEF GetConn
      <4> QED
        BY <1>1, <3>1, <4>1 DEF Word, Lost, Gone
    <3> DEFINE m == cl[c].row.md5
               off == cl[c].off[i] + Base(cl[c].row, i)
               len == cl[c].row.part[i]
    <3>5. /\ sv[k].m = m /\ sv[k].pos = 0 /\ cl[c].pos[i] = 0 /\ down[k] = <<>>
          /\ up[k] = <<OffsWord(off, len)>>
      <4>1. Download(k, m, off, len, cl[c].pos[i])
        BY <3>1, <3>3, <3>4 DEF GetConn
      <4> QED
        BY <1>2, <4>1 DEF Download
    <3>6. r.off = off /\ r.len = len
      <4>1. Word(k) /\ up[k][1] = OffsWord(off, len)
        BY <1>5, <3>5
      <4> QED
        BY <1>3, <4>1 DEF OffsWord
    <3>7. Download(k, m, off, len, cl[c].pos[i])'
      <4>1. Len(down'[k]) = 0
        BY <1>6, <3>5
      <4>2. /\ sv'[k].at = "send" /\ sv'[k].m = m /\ sv'[k].off = off /\ sv'[k].len = len
            /\ sv'[k].pos = cl[c].pos[i] + Len(down'[k])
        BY <1>3, <1>4, <3>5, <3>6, <4>1
      <4> QED
        BY <3>2, <4>2 DEF Download, Base
    <3>8. sv'[k].s = cl[c].row.s[i]
      BY <1>2, <1>3, <1>4, <3>1 DEF GetConn
    <3> QED
      BY <1>6, <3>1, <3>2, <3>3, <3>4, <3>5, <3>7, <3>8 DEF GetConn, PageComing, Base
  <2> QED
    BY <2>1, <2>2
<1>12. \A m \in Md5s : Uploads(k, m)' => Uploads(k, m)
  BY <1>3, <1>4 DEF Uploads
<1> QED
  BY <1>2, <1>6, <1>7, <1>8, <1>9, <1>10, <1>11, <1>12, ThreadInv

LEMMA RecvTrainStep == ASSUME IInv, NEW s \in Servers, RecvTrain(s) PROVE IInv'
<1>a. Plain /\ Types /\ Uploaded /\ Downloading
  BY DEF IInv, Plain
<1>1. PICK k \in At(s, "cmd") :
         /\ \/ /\ Word(k) /\ TakeWord(k)
               /\ Step(k, [sv[k] EXCEPT !.at = up[k][1].v[1], !.m = up[k][1].v[2]])
            \/ Lost(k) /\ End(k, "leaked") /\ UNCHANGED up
         /\ UNCHANGED <<repo, alive, que, down, held, clientVars>>
  BY DEF RecvTrain
<1>2. k \in Conns /\ sv[k].s = s /\ sv[k].at = "cmd" /\ Open(k) /\ ConnInv(k)
  BY <1>a, RunningIs DEF Plain
<1>3. down' = down /\ held' = held /\ repo' = repo /\ alive' = alive /\ que' = que
  BY <1>1
<1>4. RepoGrows
  BY <1>a, <1>3, RepoSame
<1>5. CASE Lost(k) /\ End(k, "leaked") /\ UNCHANGED up
  <2>0. Thread([NoThread EXCEPT !.at = "leaked"]) /\ [NoThread EXCEPT !.at = "leaked"].at = "leaked"
    BY DEF NoThread, Thread, Serving
  <2>1. /\ sv'[k].at = "leaked" /\ (\A j \in Conns \ {k} : sv'[j] = sv[j]) /\ SvTypes'
    <3>1. PICK r : r = [NoThread EXCEPT !.at = "leaked"]
      OBVIOUS
    <3>2. Step(k, r) /\ Thread(r) /\ r.at = "leaked"
      BY <1>5, <2>0, <3>1 DEF End
    <3> QED
      BY <1>a, <1>2, <3>2, StepIs
  <2>2. ThreadStep(k)
    BY <1>1, <1>3, <1>5, <2>1 DEF ThreadStep
  <2>3. up[k] = <<>> /\ k \notin held
    BY <1>5 DEF Lost, Gone
  <2>4. Plain'
    <3>1. NetTypes' /\ alive' \subseteq Servers /\ DOMAIN repo' = Servers
          /\ \A t \in Servers : DOMAIN repo'[t] = Md5s
      BY <1>a, <1>3, <1>5 DEF Types, NetTypes, ServerTypes
    <3> QED
      BY <1>a, <1>2, <1>3, <2>1, <2>2, <2>3, <3>1, PlainThread DEF Running
  <2>5. Goes(k)
    <3> SUFFICES ASSUME NEW m \in Md5s, NEW sent \in Nat, Upload(k, m, sent), sent = 2 + Size(m)
                 PROVE  FALSE
      BY <2>3 DEF Goes
    <3>1. sent = 0 /\ Size(m) \in Nat
      BY <1>2, <2>3, ContentIs DEF Upload
    <3> QED
      BY <3>1
  <2>6. Served(k)
    <3>1. GetThread(k)'
      BY <2>1 DEF GetThread
    <3>2. ASSUME Good, NEW c \in Clients, NEW i \in Nth(c), Wired(c), Line(c)[1] = "gets", k = K(c, i)
          PROVE  FALSE
      BY <1>a, <1>2, <2>3, <3>2, GetConnNow DEF Wire
    <3> QED
      BY <3>1, <3>2 DEF Served
  <2>7. \A m \in Md5s : Uploads(k, m)' => Uploads(k, m)
    BY <2>1 DEF Uploads
  <2> QED
    BY <1>2, <1>3, <1>4, <2>2, <2>4, <2>5, <2>6, <2>7, ThreadInv
<1>6. CASE Word(k) /\ TakeWord(k)
           /\ Step(k, [sv[k] EXCEPT !.at = up[k][1].v[1], !.m = up[k][1].v[2]])
  <2>1. /\ up' \in [Conns -> Seq(Words)] /\ \A j \in Conns \ {k} : up'[j] = up[j]
        /\ \A a : up[k] = <<a>> => up[k][1] = a /\ up'[k] = <<>>
        /\ \A a, b : up[k] = <<a, b>> => up[k][1] = a /\ up'[k] = <<b>>
    BY <1>a, <1>2, <1>6, TakeIs
  <2>2. PICK op \in {"gets", "puts"}, md \in Md5s : up[k][1] = CmdWord(op, md)
    <3>1. up[k][1] \in [k : {"cmd"}, v : Lines]
      BY <1>2, <1>6 DEF ConnInv, FirstWord, Word
    <3>2. PICK v \in Lines : up[k][1] = [k |-> "cmd", v |-> v]
      BY <3>1
    <3>3. v = <<v[1], v[2]>> /\ v[1] \in {"gets", "puts"} /\ v[2] \in Md5s
      BY <3>2 DEF Lines
    <3> QED
      BY <3>2, <3>3 DEF CmdWord
  <2>3. up[k][1].v[1] = op /\ up[k][1].v[2] = md
    BY <2>2 DEF CmdWord
  <2>4. /\ sv'[k].at = op /\ sv'[k].m = md /\ sv'[k].s = s /\ sv'[k].pos = 0
        /\ (\A j \in Conns \ {k} : sv'[j] = sv[j]) /\ SvTypes'
    <3>1. PICK r : r = SetCommand(sv[k], op, md)
      OBVIOUS
    <3>2. Step(k, r)
      BY <1>6, <2>3, <3>1 DEF SetCommand
    <3>3. Thread(sv[k]) /\ op \in Serving /\ sv[k].pos = 0
      BY <1>a, <1>2, ThreadIs DEF Serving, ConnInv
    <3>4. Thread(r) /\ r.at = op /\ r.m = md /\ r.s = s /\ r.pos = 0
      BY <1>2, <3>1, <3>3, ThreadCommand
    <3> QED
      BY <1>a, <1>2, <3>2, <3>4, StepIs
  <2>5. ThreadStep(k)
    BY <1>1, <1>3, <2>1, <2>4 DEF ThreadStep
  <2>6. Plain'
    <3>1. NetTypes' /\ alive' \subseteq Servers /\ DOMAIN repo' = Servers
          /\ \A t \in Servers : DOMAIN repo'[t] = Md5s
      BY <1>a, <1>3, <2>1 DEF Types, NetTypes, ServerTypes
    <3>2. up[k] # <<>>
      BY <1>6 DEF Word
    <3> QED
      BY <1>a, <1>2, <1>3, <2>3, <2>4, <2>5, <3>1, <3>2, PlainThread DEF Running
  <2>7. Goes(k)
    <3> SUFFICES ASSUME NEW m \in Md5s, NEW sent \in Nat, Upload(k, m, sent)
                 PROVE  Upload(k, m, sent)' /\ sv'[k].s = sv[k].s
      BY DEF Goes
    <3>1. \/ sent = 1 /\ up[k] = <<CmdWord("puts", m)>>
          \/ sent = 2 /\ up[k] = <<CmdWord("puts", m), SizeWord(m)>>
      BY <1>2, <1>6 DEF Upload, Word
    <3>2. \/ sent = 1 /\ up'[k] = <<>>
          \/ sent = 2 /\ up'[k] = <<SizeWord(m)>>
      BY <2>1, <3>1
    <3>c. CmdWord("puts", m) = CmdWord(op, md)
      BY <2>1, <2>2, <3>1
    <3>3. op = "puts" /\ md = m
      BY <3>c DEF CmdWord
    <3> QED
      BY <1>2, <2>4, <3>2, <3>3 DEF Upload, SizeWord, CmdWord, PageWord
  <2>8. Served(k)
    <3> SUFFICES ASSUME Good
                 PROVE  /\ GetThread(k)'
                        /\ \A c \in Clients : \A i \in Nth(c) :
                              Wired(c) /\ Line(c)[1] = "gets" /\ k = K(c, i) =>
                                 GetConn(c, i, k, cl[c].row.md5)'
      BY DEF Served
    <3>1. GetThread(k)'
      <4>1. op = "gets" => HasContent(s, md)
        <5>1. GetThread(k) /\ up[k] # <<>>
          BY <1>a, <1>2, <1>6 DEF Downloading, Word
        <5> QED
          BY <1>2, <2>2, <5>1 DEF GetThread
      <4> QED
        BY <1>3, <2>4, <4>1 DEF GetThread, HasContent
    <3>2. ASSUME NEW c \in Clients, NEW i \in Nth(c), Wired(c), Line(c)[1] = "gets", k = K(c, i)
          PROVE  GetConn(c, i, k, cl[c].row.md5)'
      <4>1. /\ GetConn(c, i, k, cl[c].row.md5) /\ cl[c].at \in {"train", "open", "recv"}
            /\ Wire(c, k) /\ cl' = cl
        BY <1>1, <1>2, <1>a, <3>2, ClientsStay, GetConnNow
      <4>2. cl[c].at # "train"
        BY <1>6, <4>1 DEF Wire, Word
      <4> DEFINE m == cl[c].row.md5
                 off == cl[c].off[i] + Base(cl[c].row, i)
                 len == cl[c].row.part[i]
      <4>3. CASE cl[c].at = "open"
        <5>1. up[k] = <<CmdWord("gets", m)>> /\ down[k] = <<>>
          BY <1>2, <4>1, <4>3 DEF GetConn
        <5>2. CmdWord("gets", m) = CmdWord(op, md) /\ up'[k] = <<>>
          BY <2>1, <2>2, <5>1
        <5>3. op = "gets" /\ md = m
          BY <5>2 DEF CmdWord
        <5> QED
          BY <1>2, <1>3, <2>4, <4>1, <4>3, <5>1, <5>2, <5>3 DEF GetConn
      <4>4. CASE cl[c].at = "recv"
        <5>1. up[k] = <<CmdWord("gets", m), OffsWord(off, len)>> /\ down[k] = <<>> /\ cl[c].pos[i] = 0
          <6>1. Download(k, m, off, len, cl[c].pos[i])
            BY <4>1, <4>4 DEF GetConn
          <6> QED
            BY <1>2, <6>1 DEF Download
        <5>2. CmdWord("gets", m) = CmdWord(op, md) /\ up'[k] = <<OffsWord(off, len)>>
          BY <2>1, <2>2, <5>1
        <5>3. op = "gets" /\ md = m
          BY <5>2 DEF CmdWord
        <5>4. Download(k, m, off, len, cl[c].pos[i])'
          BY <1>3, <2>4, <4>1, <5>1, <5>2, <5>3 DEF Download, Base, OffsWord
        <5> QED
          BY <1>2, <1>3, <2>4, <4>1, <4>4, <5>1, <5>4 DEF GetConn, PageComing, Base
      <4> QED
        BY <4>1, <4>2, <4>3, <4>4
    <3> QED
      BY <3>1, <3>2
  <2>9. \A m \in Md5s : Uploads(k, m)' => Uploads(k, m)
    <3> SUFFICES ASSUME NEW m \in Md5s, Uploads(k, m)' PROVE Uploads(k, m)
      OBVIOUS
    <3>1. op = "puts" /\ md = m
      BY <2>4 DEF Uploads
    <3> QED
      BY <1>2, <1>6, <2>2, <3>1 DEF Uploads, Word
  <2> QED
    BY <1>2, <1>3, <1>4, <2>5, <2>6, <2>7, <2>8, <2>9, ThreadInv
<1> QED
  BY <1>1, <1>5, <1>6

\* What is read for a download is the page its client waits for.
LEMMA SourceIs ==
    ASSUME NEW s, NEW k, NEW m \in Md5s, repo[s][sv[k].m] = Content[m],
           sv[k].pos \in Nat, sv[k].off \in Nat, sv[k].len \in Nat,
           sv[k].len >= BigPages \div 2 \/ sv[k].off = 0
    PROVE  /\ sv[k].off + sv[k].pos < Size(m) => Source(s, k) = Content[m][sv[k].off + sv[k].pos + 1]
           /\ Source(s, k) = NULL => sv[k].off + sv[k].pos >= Size(m)
<1>1. PICK off \in Nat, pos \in Nat, len \in Nat : off = sv[k].off /\ pos = sv[k].pos /\ len = sv[k].len
  OBVIOUS
<1>2. PICK n \in Nat : n = Size(m) /\ Content[m] \in [1..n -> Page] /\ n = Len(Content[m])
  BY ContentIs DEF Size
<1>3. BigPages \div 2 \in Nat
  BY TransferAssumption
<1>4. pos + 1 + (IF len >= BigPages \div 2 THEN off ELSE 0) = off + pos + 1
  BY <1>1, <1>3
<1>5. Source(s, k) = IF off + pos + 1 <= n THEN Content[m][off + pos + 1]
                     ELSE IF len >= BigPages \div 2 THEN NULL ELSE Hole
  BY <1>1, <1>2, <1>4 DEF Source
<1>6. off + pos < n => Source(s, k) = Content[m][off + pos + 1]
  BY <1>5
<1>7. off + pos < n => Source(s, k) # NULL
  <2> SUFFICES ASSUME off + pos < n PROVE Content[m][off + pos + 1] # NULL
    BY <1>6
  <2>1. off + pos + 1 \in 1..n
    OBVIOUS
  <2>2. Content[m][off + pos + 1] \in Page
    BY <1>2, <2>1
  <2> QED
    BY <2>2, MarksApart
<1> QED
  BY <1>1, <1>2, <1>6, <1>7

\* The thread that sends what a client of a download waits for.
LEMMA SendingIs ==
    ASSUME Plain, Downloading, Good, NEW c \in Clients, NEW i \in Nth(c), Wired(c),
           Line(c)[1] = "gets", NEW k \in Conns, k = K(c, i), sv[k].at = "send"
    PROVE  /\ cl[c].at = "recv" /\ i \in {1, 2} /\ cl[c].row.md5 \in Md5s
           /\ Download(k, cl[c].row.md5, cl[c].off[i] + Base(cl[c].row, i), cl[c].row.part[i], cl[c].pos[i])
           /\ Wanted(c, i) => PageComing(k, cl[c].row.md5, cl[c].off[i] + Base(cl[c].row, i) + cl[c].pos[i] + 1)
           /\ sv[k].m = cl[c].row.md5 /\ HasContent(sv[k].s, sv[k].m) /\ sv[k].s = cl[c].row.s[i]
           /\ sv[k].off = cl[c].off[i] + Base(cl[c].row, i) /\ sv[k].len = cl[c].row.part[i]
           /\ cl[c].pos[i] \in Nat /\ sv[k].off \in Nat /\ sv[k].len \in Nat
           /\ sv[k].len >= BigPages \div 2 \/ sv[k].off = 0
           /\ k \in held
           /\ sv[k].off + cl[c].pos[i] >= Size(cl[c].row.md5) => ~Wanted(c, i)
<1> DEFINE m == cl[c].row.md5
           r == cl[c].row
<1>1. /\ GetConn(c, i, k, m) /\ cl[c].at \in {"train", "open", "recv"}
      /\ m \in Md5s /\ Parted(r) /\ i \in {1, 2}
      /\ r.s[i] \in Servers /\ HasContent(r.s[i], m) /\ Wire(c, k)
      /\ cl[c].off \in Pair /\ cl[c].pos \in Pair
  BY GetConnNow
<1>2. cl[c].at = "recv"
  BY <1>1 DEF GetConn
<1>3. /\ Download(k, m, cl[c].off[i] + Base(r, i), r.part[i], cl[c].pos[i])
      /\ Wanted(c, i) => PageComing(k, m, cl[c].off[i] + Base(r, i) + cl[c].pos[i] + 1)
      /\ sv[k].s = r.s[i]
  BY <1>1, <1>2 DEF GetConn
<1>4. /\ sv[k].m = m /\ sv[k].off = cl[c].off[i] + Base(r, i) /\ sv[k].len = r.part[i]
  BY <1>3 DEF Download
<1>5. Busy1(c) /\ LineInv(c)
  BY <1>2 DEF Plain, Busy1, Resting
<1>6. r.part \in Pair /\ r.part[1] = Part1(m) /\ r.part[2] = Part2(m)
  <2>1. r \in Rows
    BY <1>5 DEF LineInv
  <2> QED
    BY <1>1, <2>1 DEF Parted, Rows
<1>7. PICK o \in Nat, p \in Nat, p1 \in Nat, p2 \in Nat :
         o = cl[c].off[i] /\ p = cl[c].pos[i] /\ p1 = r.part[1] /\ p2 = r.part[2]
  BY <1>1, <1>6 DEF Pair
<1>8. sv[k].off = o + (IF i = 1 THEN 0 ELSE p1) /\ sv[k].len = IF i = 1 THEN p1 ELSE p2
  BY <1>1, <1>4, <1>7 DEF Base
<1>9. p1 = Part1(m) /\ p2 = Part2(m)
  BY <1>6, <1>7
<1>10. p1 + p2 = Size(m) /\ (Big(m) <=> p2 # 0) /\ Size(m) \in Nat
       /\ (Big(m) => p1 >= BigPages \div 2 /\ p2 >= BigPages \div 2)
  BY <1>1, <1>9, PartsAre, ContentIs
<1>11. (Nth(c) = {1, 2} <=> p2 # 0) /\ (Nth(c) = {1} \/ Nth(c) = {1, 2})
  BY <1>7, NthIs
<1>12. sv[k].len >= BigPages \div 2 \/ sv[k].off = 0
  <2>1. CASE p2 # 0
    BY <1>1, <1>8, <1>10, <2>1
  <2>2. CASE p2 = 0
    <3>1. Nth(c) = {1} /\ i = 1
      BY <1>11, <2>2
    <3>2. o = 0
      BY <1>2, <1>5, <1>7, <3>1 DEF LineInv
    <3> QED
      BY <1>8, <3>1, <3>2
  <2> QED
    BY <2>1, <2>2
<1>13. sv[k].off + p >= Size(m) => ~Wanted(c, i)
  <2> SUFFICES ASSUME sv[k].off + p >= Size(m) PROVE ~(p < sv[k].len - o)
    BY <1>4, <1>7 DEF Wanted
  <2>1. CASE i = 1
    BY <1>8, <1>10, <2>1
  <2>2. CASE i = 2
    BY <1>8, <1>10, <2>2
  <2> QED
    BY <1>1, <2>1, <2>2
<1>14. sv[k].off \in Nat /\ sv[k].len \in Nat
  BY <1>1, <1>8
<1> QED
  BY <1>1, <1>2, <1>3, <1>4, <1>7, <1>12, <1>13, <1>14 DEF Wire

LEMMA SendFileStep == ASSUME IInv, NEW s \in Servers, SendFile(s) PROVE IInv'
<1>a. Plain /\ Types /\ Uploaded /\ Downloading
  BY DEF IInv, Plain
<1>1. PICK k \in At(s, "send") :
         /\ \/ /\ sv[k].pos < sv[k].len /\ ~Gone(k) /\ down[k] = <<>> /\ Source(s, k) # NULL
               /\ down' = [down EXCEPT ![k] = <<Source(s, k)>>]
               /\ Step(k, [sv[k] EXCEPT !.pos = @ + 1])
            \/ /\ \/ sv[k].pos >= sv[k].len \/ Gone(k) \/ Source(s, k) = NULL
               /\ End(k, "closed") /\ UNCHANGED down
         /\ UNCHANGED <<repo, alive, que, up, held, clientVars>>
  BY DEF SendFile
<1>2. k \in Conns /\ sv[k].s = s /\ sv[k].at = "send" /\ Open(k) /\ ConnInv(k) /\ Thread(sv[k])
      /\ sv[k].pos \in Nat
  BY <1>a, RunningIs, ThreadIs DEF Plain, Thread
<1>3. up' = up /\ held' = held /\ repo' = repo /\ alive' = alive /\ que' = que
  BY <1>1
<1>4. RepoGrows
  BY <1>a, <1>3, RepoSame
<1>5. Goes(k)
  BY <1>2 DEF Goes, Upload
<1>6. CASE /\ ~Gone(k) /\ down[k] = <<>> /\ Source(s, k) # NULL
           /\ down' = [down EXCEPT ![k] = <<Source(s, k)>>]
           /\ Step(k, [sv[k] EXCEPT !.pos = @ + 1])
  <2>1. /\ sv'[k].at = "send" /\ sv'[k].m = sv[k].m /\ sv'[k].s = s /\ sv'[k].pos = sv[k].pos + 1
        /\ sv'[k].off = sv[k].off /\ sv'[k].len = sv[k].len
        /\ (\A j \in Conns \ {k} : sv'[j] = sv[j]) /\ SvTypes'
    <3>1. PICK r : r = [sv[k] EXCEPT !.pos = sv[k].pos + 1]
      OBVIOUS
    <3>2. Step(k, r)
      BY <1>6, <3>1
    <3>3. /\ Thread(r) /\ r.at = "send" /\ r.m = sv[k].m /\ r.s = s /\ r.pos = sv[k].pos + 1
          /\ r.off = sv[k].off /\ r.len = sv[k].len
      BY <1>2, <3>1 DEF Thread, Serving
    <3> QED
      BY <1>a, <1>2, <3>2, <3>3, StepIs
  <2>2. /\ DOMAIN down' = Conns /\ down'[k] = <<Source(s, k)>> /\ \A j \in Conns \ {k} : down'[j] = down[j]
    BY <1>a, <1>2, <1>6 DEF Types, NetTypes
  <2>3. down'[k][1] = Source(s, k) /\ Len(down'[k]) = 1 /\ down'[k] # <<>>
    BY <2>2
  <2>4. ThreadStep(k)
    BY <1>1, <1>3, <2>1, <2>2 DEF ThreadStep
  <2>5. Plain'
    <3>1. NetTypes'
      BY <1>a, <1>3, <2>2, <2>3 DEF Types, NetTypes
    <3>2. alive' \subseteq Servers /\ DOMAIN repo' = Servers
          /\ \A t \in Servers : DOMAIN repo'[t] = Md5s
      BY <1>a, <1>3 DEF Types, ServerTypes
    <3> QED
      BY <1>a, <1>2, <1>3, <2>1, <2>4, <3>1, <3>2, PlainThread DEF Running
  <2>6. Served(k)
    <3> SUFFICES ASSUME Good
                 PROVE  /\ GetThread(k)'
                        /\ \A c \in Clients : \A i \in Nth(c) :
                              Wired(c) /\ Line(c)[1] = "gets" /\ k = K(c, i) =>
                                 GetConn(c, i, k, cl[c].row.md5)'
      BY DEF Served
    <3>1. GetThread(k)'
      <4>1. GetThread(k)
        BY <1>a, <1>2 DEF Downloading
      <4> QED
        BY <1>2, <1>3, <2>1, <4>1 DEF GetThread, HasContent
    <3>2. ASSUME NEW c \in Clients, NEW i \in Nth(c), Wired(c), Line(c)[1] = "gets", k = K(c, i)
          PROVE  GetConn(c, i, k, cl[c].row.md5)'
      <4> DEFINE off == cl[c].off[i] + Base(cl[c].row, i)
      <4>1. PICK m \in Md5s : m = cl[c].row.md5
        BY <1>a, <1>2, <3>2, SendingIs
      <4>2. /\ cl[c].at = "recv"
            /\ Download(k, m, off, cl[c].row.part[i], cl[c].pos[i])
            /\ sv[k].m = m /\ HasContent(sv[k].s, sv[k].m) /\ sv[k].s = cl[c].row.s[i]
            /\ sv[k].off = off /\ sv[k].len = cl[c].row.part[i]
            /\ cl[c].pos[i] \in Nat /\ sv[k].off \in Nat /\ sv[k].len \in Nat
            /\ sv[k].len >= BigPages \div 2 \/ sv[k].off = 0
            /\ sv[k].off + cl[c].pos[i] >= Size(m) => ~Wanted(c, i)
        BY <1>a, <1>2, <3>2, <4>1, SendingIs
      <4>3. cl' = cl
        BY <1>1, ClientsStay
      <4> HIDE DEF off
      <4>4. sv[k].pos = cl[c].pos[i]
        BY <1>2, <1>6, <4>2 DEF Download
      <4>5. Wanted(c, i) => Source(s, k) = Content[m][off + cl[c].pos[i] + 1]
        <5>1. repo[s][sv[k].m] = Content[m]
          BY <1>2, <4>2 DEF HasContent
        <5>2. sv[k].off + sv[k].pos < Size(m) => Source(s, k) = Content[m][sv[k].off + sv[k].pos + 1]
          BY <1>2, <4>2, <5>1, SourceIs
        <5>3. Size(m) \in Nat
          BY ContentIs
        <5> QED
          BY <4>2, <4>4, <5>2, <5>3
      <4>6. sv'[k].pos = cl[c].pos[i] + Len(down'[k])
        BY <2>1, <2>3, <4>4
      <4> USE DEF off
      <4>7. Download(k, m, off, cl[c].row.part[i], cl[c].pos[i])'
        BY <2>1, <4>2, <4>3, <4>6 DEF Download, Base
      <4>8. Wanted(c, i)' => PageComing(k, m, off + cl[c].pos[i] + 1)'
        BY <2>3, <4>3, <4>5 DEF PageComing, Wanted, Base
      <4>9. sv'[k].s = cl[c].row.s[i]
        BY <1>2, <2>1, <4>2
      <4> QED
        BY <4>1, <4>2, <4>3, <4>7, <4>8, <4>9 DEF GetConn, Base, Download, PageComing, Wanted
    <3> QED
      BY <3>1, <3>2
  <2>7. \A m \in Md5s : Uploads(k, m)' => Uploads(k, m)
    BY <2>1 DEF Uploads
  <2> QED
    BY <1>2, <1>3, <1>4, <1>5, <2>4, <2>5, <2>6, <2>7, ThreadInv
<1>7. CASE /\ sv[k].pos >= sv[k].len \/ Gone(k) \/ Source(s, k) = NULL
           /\ End(k, "closed") /\ UNCHANGED down
  <2>0. Thread([NoThread EXCEPT !.at = "closed"]) /\ [NoThread EXCEPT !.at = "closed"].at = "closed"
    BY DEF NoThread, Thread, Serving
  <2>1. /\ sv'[k].at = "closed" /\ (\A j \in Conns \ {k} : sv'[j] = sv[j]) /\ SvTypes'
    <3>1. PICK r : r = [NoThread EXCEPT !.at = "closed"]
      OBVIOUS
    <3>2. Step(k, r) /\ Thread(r) /\ r.at = "closed"
      BY <1>7, <2>0, <3>1 DEF End
    <3> QED
      BY <1>a, <1>2, <3>2, StepIs
  <2>2. ThreadStep(k)
    BY <1>1, <1>3, <1>7, <2>1 DEF ThreadStep
  <2>3. Plain'
    <3>1. NetTypes' /\ alive' \subseteq Servers /\ DOMAIN repo' = Servers
          /\ \A t \in Servers : DOMAIN repo'[t] = Md5s
      BY <1>a, <1>3, <1>7 DEF Types, NetTypes, ServerTypes
    <3> QED
      BY <1>a, <1>2, <1>3, <2>1, <2>2, <3>1, PlainThread DEF Running
  <2>4. Served(k)
    <3> SUFFICES ASSUME Good
                 PROVE  /\ GetThread(k)'
                        /\ \A c \in Clients : \A i \in Nth(c) :
                              Wired(c) /\ Line(c)[1] = "gets" /\ k = K(c, i) =>
                                 GetConn(c, i, k, cl[c].row.md5)'
      BY DEF Served
    <3>1. GetThread(k)'
      BY <2>1 DEF GetThread
    <3>2. ASSUME NEW c \in Clients, NEW i \in Nth(c), Wired(c), Line(c)[1] = "gets", k = K(c, i)
          PROVE  GetConn(c, i, k, cl[c].row.md5)'
      <4> DEFINE off == cl[c].off[i] + Base(cl[c].row, i)
      <4>1. PICK m \in Md5s : m = cl[c].row.md5
        BY <1>a, <1>2, <3>2, SendingIs
      <4>2. /\ cl[c].at = "recv"
            /\ Download(k, m, off, cl[c].row.part[i], cl[c].pos[i])
            /\ Wanted(c, i) => PageComing(k, m, off + cl[c].pos[i] + 1)
            /\ sv[k].m = m /\ HasContent(sv[k].s, sv[k].m)
            /\ sv[k].off = off /\ sv[k].len = cl[c].row.part[i]
            /\ cl[c].pos[i] \in Nat /\ sv[k].off \in Nat /\ sv[k].len \in Nat
            /\ sv[k].len >= BigPages \div 2 \/ sv[k].off = 0
            /\ k \in held
        BY <1>a, <1>2, <3>2, <4>1, SendingIs
      <4>3. cl' = cl /\ down' = down
        BY <1>1, <1>7, ClientsStay
      <4> HIDE DEF off
      <4>4. sv[k].pos = cl[c].pos[i] + Len(down[k])
        BY <1>2, <4>2 DEF Download
      <4>5. \/ sv[k].pos >= sv[k].len
            \/ sv[k].off + sv[k].pos >= Size(m)
        <5>1. repo[s][sv[k].m] = Content[m]
          BY <1>2, <4>2 DEF HasContent
        <5> QED
          BY <1>2, <1>7, <4>2, <5>1, SourceIs DEF Gone
      <4>6. \/ cl[c].pos[i] + Len(down[k]) >= cl[c].row.part[i]
            \/ off + cl[c].pos[i] + Len(down[k]) >= Size(m)
        <5>1. Len(down[k]) \in Nat
          <6>1. down[k] = <<>> \/ down[k] = <<down[k][1]>>
            BY <1>a, <1>2 DEF Types, NetTypes
          <6> QED
            BY <6>1
        <5>2. PICK n \in Nat, p \in Nat, o \in Nat : n = Len(down[k]) /\ p = cl[c].pos[i] /\ o = off
          BY <4>2, <5>1
        <5> QED
          BY <4>2, <4>4, <4>5, <5>2
      <4> USE DEF off
      <4>7. Download(k, m, off, cl[c].row.part[i], cl[c].pos[i])'
        BY <2>1, <4>3, <4>6 DEF Download, Base
      <4>8. Wanted(c, i)' => PageComing(k, m, off + cl[c].pos[i] + 1)'
        BY <4>2, <4>3 DEF PageComing, Wanted, Base
      <4> QED
        BY <2>1, <4>1, <4>2, <4>3, <4>7, <4>8 DEF GetConn, Base, Download, PageComing, Wanted
    <3> QED
      BY <3>1, <3>2
  <2>5. \A m \in Md5s : Uploads(k, m)' => Uploads(k, m)
    BY <2>1 DEF Uploads
  <2> QED
    BY <1>2, <1>3, <1>4, <1>5, <2>2, <2>3, <2>4, <2>5, ThreadInv
<1> QED
  BY <1>1, <1>6, <1>7

LEMMA RepoPut ==
    ASSUME Types, NEW s \in Servers, NEW x, NEW f, repo' = [repo EXCEPT ![s][x] = f]
    PROVE  /\ DOMAIN repo' = Servers /\ \A t \in Servers : DOMAIN repo'[t] = Md5s
           /\ \A t \in Servers, m \in Md5s : repo'[t][m] = IF t = s /\ m = x THEN f ELSE repo[t][m]
<1>1. DOMAIN repo = Servers /\ \A t \in Servers : DOMAIN repo[t] = Md5s
  BY DEF Types, ServerTypes
<1>2. \A t \in Servers : repo'[t] = IF t = s THEN [repo[s] EXCEPT ![x] = f] ELSE repo[t]
  BY <1>1
<1> QED
  BY <1>1, <1>2

\* One file is written.
LEMMA RepoPutGrows ==
    ASSUME Types, Uploaded, NEW s \in Servers, NEW x, NEW f, repo' = [repo EXCEPT ![s][x] = f],
           x \in Md5s /\ Kept(x) =>
              /\ RepoFile(f, x)
              /\ repo[s][x] = Content[x] => f = Content[x]
              /\ \A p \in Nat : p <= Size(x) /\ Holds(s, x, p) =>
                    /\ f \in [1..Size(x) -> Page \cup {Hole}]
                    /\ \A j \in 1..p : f[j] = Content[x][j]
    PROVE  RepoGrows
<1> SUFFICES ASSUME NEW t \in Servers, NEW m \in Md5s, Kept(m)
             PROVE  /\ RepoFile(repo'[t][m], m)
                    /\ HasContent(t, m) => HasContent(t, m)'
                    /\ \A p \in Nat : p <= Size(m) /\ Holds(t, m, p) => Holds(t, m, p)'
  BY DEF RepoGrows
<1>1. repo'[t][m] = IF t = s /\ m = x THEN f ELSE repo[t][m]
  BY RepoPut
<1>2. CASE t = s /\ m = x
  BY <1>1, <1>2 DEF HasContent, Holds
<1>3. CASE ~(t = s /\ m = x)
  <2>1. repo'[t][m] = repo[t][m] /\ RepoFile(repo[t][m], m)
    BY <1>1, <1>3 DEF Uploaded, RepoInv
  <2> QED
    BY <2>1 DEF HasContent, Holds
<1> QED
  BY <1>2, <1>3

\* A thread with an upload serves no download.
LEMMA NotServed ==
    ASSUME Plain, Downloading, NEW k \in Conns, sv[k].at \in {"puts", "size", "recv"},
           sv'[k].at \in {"size", "recv", "closed"}
    PROVE  Served(k)
<1>1. GetThread(k)'
  BY DEF GetThread
<1>2. ASSUME Good, NEW c \in Clients, NEW i \in Nth(c), Wired(c), Line(c)[1] = "gets", k = K(c, i)
      PROVE  FALSE
  BY <1>2, GetConnNow DEF Wire
<1> QED
  BY <1>1, <1>2 DEF Served

LEMMA PutsOpenStep == ASSUME IInv, NEW s \in Servers, PutsOpen(s) PROVE IInv'
<1>a. Plain /\ Types /\ Uploaded /\ Downloading
  BY DEF IInv, Plain
<1>1. PICK k \in At(s, "puts") :
         /\ repo' = [repo EXCEPT ![s][sv[k].m] = IF @ = NULL THEN <<>> ELSE @]
         /\ Now(k, "size")
         /\ UNCHANGED <<alive, que, netVars, clientVars>>
  BY DEF PutsOpen
<1>2. k \in Conns /\ sv[k].s = s /\ sv[k].at = "puts" /\ Open(k) /\ Thread(sv[k])
  BY <1>a, RunningIs, ThreadIs
<1>3. up' = up /\ down' = down /\ held' = held /\ alive' = alive /\ que' = que
  BY <1>1 DEF netVars
<1>4. PICK x, f : x = sv[k].m /\ f = IF repo[s][x] = NULL THEN <<>> ELSE repo[s][x]
  OBVIOUS
<1>5. repo' = [repo EXCEPT ![s][x] = f]
  BY <1>1, <1>4
<1>6. /\ sv'[k].at = "size" /\ sv'[k].m = sv[k].m /\ sv'[k].s = s /\ sv'[k].pos = sv[k].pos
      /\ (\A j \in Conns \ {k} : sv'[j] = sv[j]) /\ SvTypes'
  <2>1. PICK r : r = [sv[k] EXCEPT !.at = "size"]
    OBVIOUS
  <2>2. Step(k, r)
    BY <1>1, <2>1 DEF Now
  <2>3. Thread(r) /\ r.at = "size" /\ r.m = sv[k].m /\ r.s = s /\ r.pos = sv[k].pos
    BY <1>2, <2>1 DEF Thread, Serving
  <2> QED
    BY <1>a, <1>2, <2>2, <2>3, StepIs
<1>7. ThreadStep(k)
  BY <1>1, <1>3, <1>6 DEF ThreadStep
<1>8. Plain'
  <2>1. NetTypes' /\ alive' \subseteq Servers
    BY <1>a, <1>3 DEF Types, NetTypes, ServerTypes
  <2>2. DOMAIN repo' = Servers /\ \A t \in Servers : DOMAIN repo'[t] = Md5s
    BY <1>a, <1>5, RepoPut
  <2> QED
    BY <1>a, <1>2, <1>3, <1>6, <1>7, <2>1, <2>2, PlainThread DEF Running
<1>9. RepoGrows
  <2> SUFFICES ASSUME x \in Md5s, Kept(x)
               PROVE  /\ RepoFile(f, x)
                      /\ repo[s][x] = Content[x] => f = Content[x]
                      /\ \A p \in Nat : p <= Size(x) /\ Holds(s, x, p) =>
                            /\ f \in [1..Size(x) -> Page \cup {Hole}]
                            /\ \A j \in 1..p : f[j] = Content[x][j]
    BY <1>a, <1>5, RepoPutGrows
  <2>1. RepoFile(repo[s][x], x)
    BY <1>a DEF Uploaded, RepoInv
  <2>2. CASE repo[s][x] # NULL
    BY <1>4, <2>1, <2>2 DEF Holds
  <2>3. CASE repo[s][x] = NULL
    <3>1. f = <<>> /\ Content[x] # NULL
      BY <1>4, <2>3, ContentIs
    <3>2. NULL \notin [1..Size(x) -> Page \cup {Hole}]
      BY NotAFile, ContentIs
    <3> QED
      BY <2>3, <3>1, <3>2 DEF Holds, RepoFile
  <2> QED
    BY <2>2, <2>3
<1>10. Goes(k)
  <2> SUFFICES ASSUME NEW m \in Md5s, NEW sent \in Nat, Upload(k, m, sent)
               PROVE  Upload(k, m, sent)' /\ sv'[k].s = sv[k].s
    BY DEF Goes
  <2> QED
    BY <1>2, <1>3, <1>6 DEF Upload
<1>11. Served(k)
  BY <1>a, <1>2, <1>6, NotServed
<1>12. \A m \in Md5s : Uploads(k, m)' => Uploads(k, m)
  BY <1>2, <1>6 DEF Uploads
<1> QED
  BY <1>2, <1>3, <1>7, <1>8, <1>9, <1>10, <1>11, <1>12, ThreadInv

\* The file gets its size, and keeps what it has.
LEMMA TruncateIs ==
    ASSUME NEW m \in Md5s, NEW f, RepoFile(f, m), NEW g, g = Truncate(f, Size(m))
    PROVE  /\ g \in [1..Size(m) -> Page \cup {Hole}]
           /\ f \in [1..Size(m) -> Page \cup {Hole}] => g = f
<1>1. PICK n \in Nat : n = Size(m)
  BY ContentIs
<1>2. g = [i \in 1..n |-> IF f # NULL /\ i <= Len(f) THEN f[i] ELSE Hole]
  BY <1>1 DEF Truncate
<1>3. CASE f \in [1..n -> Page \cup {Hole}]
  <2>1. f # NULL /\ Len(f) = n
    BY <1>1, <1>3, NotAFile
  <2>2. g = [i \in 1..n |-> f[i]]
    BY <1>2, <2>1
  <2> QED
    BY <1>1, <1>3, <2>2
<1>4. CASE f = NULL /\ f \notin [1..n -> Page \cup {Hole}]
  <2>1. g = [i \in 1..n |-> Hole]
    BY <1>2, <1>4
  <2> QED
    BY <1>1, <1>4, <2>1
<1>5. CASE f = <<>> /\ f \notin [1..n -> Page \cup {Hole}]
  <2>1. g = [i \in 1..n |-> Hole]
    BY <1>2, <1>5
  <2> QED
    BY <1>1, <1>5, <2>1
<1> QED
  BY <1>1, <1>3, <1>4, <1>5 DEF RepoFile

LEMMA PutsSizeStep == ASSUME IInv, NEW s \in Servers, PutsSize(s) PROVE IInv'
<1>a. Plain /\ Types /\ Uploaded /\ Downloading
  BY DEF IInv, Plain
<1>1. PICK k \in At(s, "size") :
         /\ \/ /\ Word(k) /\ TakeWord(k)
               /\ repo' = [repo EXCEPT ![s][sv[k].m] = Truncate(@, up[k][1].v)]
               /\ Step(k, [sv[k] EXCEPT !.at = "recv", !.len = up[k][1].v])
            \/ /\ Lost(k) /\ UNCHANGED up
               /\ repo' = [repo EXCEPT ![s][sv[k].m] = <<>>]
               /\ Now(k, "recv")
         /\ UNCHANGED <<alive, que, down, held, clientVars>>
  BY DEF PutsSize
<1>2. k \in Conns /\ sv[k].s = s /\ sv[k].at = "size" /\ Open(k) /\ Thread(sv[k])
  BY <1>a, RunningIs, ThreadIs
<1>3. down' = down /\ held' = held /\ alive' = alive /\ que' = que
  BY <1>1
<1>4. PICK x : x = sv[k].m
  OBVIOUS
<1>5. ASSUME NEW m \in Md5s, Kept(m), x = m
      PROVE  \E sent \in Nat : /\ Upload(k, m, sent) /\ 1 <= sent /\ sent <= 2 + Size(m)
                               /\ k \in held \/ sent = 2 + Size(m)
  <2>1. Uploads(k, m)
    BY <1>2, <1>4, <1>5 DEF Uploads
  <2> QED
    BY <1>a, <1>2, <1>5, <2>1, UploadOf
<1> DEFINE Puts(r, f, w) ==
         /\ Step(k, r) /\ Thread(r) /\ r.at = "recv" /\ r.m = x /\ r.s = s /\ r.pos = sv[k].pos
         /\ repo' = [repo EXCEPT ![s][x] = f]
         /\ up' \in [Conns -> Seq(Words)] /\ \A j \in Conns \ {k} : up'[j] = up[j]
         /\ Word(k) => /\ r.len = w.v /\ f = Truncate(repo[s][x], w.v)
                       /\ \A a : up[k] = <<a>> => a = w /\ up'[k] = <<>>
         /\ ~Word(k) => Lost(k)
<1>p. \E r, f, w : Puts(r, f, w)
  <2>1. CASE Word(k)
    <3>1. /\ TakeWord(k) /\ repo' = [repo EXCEPT ![s][x] = Truncate(repo[s][x], up[k][1].v)]
          /\ Step(k, [sv[k] EXCEPT !.at = "recv", !.len = up[k][1].v])
      BY <1>1, <1>4, <2>1 DEF Word, Lost
    <3>2. PICK w, l, f : w = up[k][1] /\ l = w.v /\ f = Truncate(repo[s][x], l)
      OBVIOUS
    <3>3. PICK r : r = SetSize(sv[k], "recv", l)
      OBVIOUS
    <3>4. Step(k, r)
      BY <3>1, <3>2, <3>3 DEF SetSize
    <3>5. "recv" \in Serving
      BY DEF Serving
    <3>6. Thread(r) /\ r.at = "recv" /\ r.len = l /\ r.s = sv[k].s /\ r.m = sv[k].m /\ r.pos = sv[k].pos
      BY <1>2, <3>3, <3>5, ThreadSize
    <3>7. /\ up' \in [Conns -> Seq(Words)] /\ \A j \in Conns \ {k} : up'[j] = up[j]
          /\ \A a : up[k] = <<a>> => up[k][1] = a /\ up'[k] = <<>>
      BY <1>a, <1>2, <2>1, <3>1, TakeIs
    <3>8. repo' = [repo EXCEPT ![s][x] = f]
      BY <3>1, <3>2
    <3>9. Step(k, r) /\ Thread(r) /\ r.at = "recv" /\ r.m = x /\ r.s = s /\ r.pos = sv[k].pos
      BY <1>2, <1>4, <3>4, <3>6
    <3>10. /\ r.len = w.v /\ f = Truncate(repo[s][x], w.v)
           /\ \A a : up[k] = <<a>> => a = w /\ up'[k] = <<>>
      BY <3>2, <3>6, <3>7
    <3>11. Puts(r, f, w)
      BY <2>1, <3>7, <3>8, <3>9, <3>10
    <3> HIDE DEF Puts
    <3> QED
      BY <3>11
  <2>2. CASE ~Word(k)
    <3>1. Lost(k) /\ up' = up /\ repo' = [repo EXCEPT ![s][x] = <<>>] /\ Now(k, "recv")
      BY <1>1, <1>4, <2>2
    <3>f. PICK f : f = <<>>
      OBVIOUS
    <3>2. PICK r : r = [sv[k] EXCEPT !.at = "recv"]
      OBVIOUS
    <3>3. Step(k, r)
      BY <3>1, <3>2 DEF Now
    <3>4. Thread(r) /\ r.at = "recv" /\ r.m = sv[k].m /\ r.s = sv[k].s /\ r.pos = sv[k].pos
      BY <1>2, <3>2 DEF Thread, Serving
    <3>5. up' \in [Conns -> Seq(Words)]
      BY <1>a, <3>1 DEF Types, NetTypes
    <3>6. Puts(r, f, f)
      BY <1>2, <1>4, <2>2, <3>1, <3>3, <3>4, <3>5, <3>f
    <3> HIDE DEF Puts
    <3> QED
      BY <3>6
  <2> QED
    BY <2>1, <2>2
<1>6. PICK r, f, w : Puts(r, f, w)
  BY <1>p
<1>r. repo' = [repo EXCEPT ![s][x] = f]
  BY <1>6
<1>7. sv'[k] = r /\ (\A j \in Conns \ {k} : sv'[j] = sv[j]) /\ SvTypes'
  BY <1>a, <1>2, <1>6, StepIs
<1>8. ThreadStep(k)
  BY <1>1, <1>3, <1>6, <1>7 DEF ThreadStep
<1>9. Plain'
  <2>1. NetTypes' /\ alive' \subseteq Servers
    BY <1>a, <1>3, <1>6 DEF Types, NetTypes, ServerTypes
  <2>2. DOMAIN repo' = Servers /\ \A t \in Servers : DOMAIN repo'[t] = Md5s
    BY <1>a, <1>6, RepoPut
  <2> QED
    BY <1>a, <1>2, <1>3, <1>4, <1>6, <1>7, <1>8, <2>1, <2>2, PlainThread DEF Running
\* The size has come, as the client still holds the connection or has sent it all.
<1>10. ASSUME NEW m \in Md5s, Kept(m), NEW sent \in Nat, Upload(k, m, sent),
              k \in held \/ sent = 2 + Size(m)
       PROVE  x = m /\ Word(k) /\ sent = 2 /\ r.len = Size(m) /\ f = Truncate(repo[s][m], Size(m))
              /\ up'[k] = <<>> /\ sv[k].pos = 0
  <2>1. /\ x = m /\ sv[k].pos = 0
        /\ \/ sent = 1 /\ up[k] = <<>>
           \/ sent = 2 /\ up[k] = <<SizeWord(m)>>
    BY <1>2, <1>4, <1>10 DEF Upload
  <2>2. Word(k)
    <3> SUFFICES ASSUME ~Word(k) PROVE FALSE
      OBVIOUS
    <3>1. k \notin held /\ up[k] = <<>>
      BY <1>6 DEF Lost, Gone
    <3>2. sent = 1 /\ Size(m) \in Nat
      BY <2>1, <3>1, ContentIs
    <3> QED
      BY <1>10, <3>1, <3>2
  <2>3. up[k] = <<SizeWord(m)>> /\ sent = 2
    BY <2>1, <2>2 DEF Word
  <2>4. w = SizeWord(m) /\ up'[k] = <<>>
    BY <1>6, <2>2, <2>3
  <2> QED
    BY <1>6, <2>1, <2>2, <2>3, <2>4 DEF SizeWord
<1>11. ASSUME NEW m \in Md5s, Kept(m), x = m
       PROVE  /\ f \in [1..Size(m) -> Page \cup {Hole}]
              /\ repo[s][m] \in [1..Size(m) -> Page \cup {Hole}] => f = repo[s][m]
  <2>1. f = Truncate(repo[s][m], Size(m))
    BY <1>5, <1>10, <1>11
  <2>2. RepoFile(repo[s][m], m)
    BY <1>a, <1>11 DEF Uploaded, RepoInv
  <2> QED
    BY <2>1, <2>2, TruncateIs
<1>12. RepoGrows
  <2> SUFFICES ASSUME x \in Md5s, Kept(x)
               PROVE  /\ RepoFile(f, x)
                      /\ repo[s][x] = Content[x] => f = Content[x]
                      /\ \A p \in Nat : p <= Size(x) /\ Holds(s, x, p) =>
                            /\ f \in [1..Size(x) -> Page \cup {Hole}]
                            /\ \A j \in 1..p : f[j] = Content[x][j]
    BY <1>a, <1>r, RepoPutGrows
  <2>1. Content[x] \in [1..Size(x) -> Page \cup {Hole}]
    BY ContentIs
  <2>2. /\ f \in [1..Size(x) -> Page \cup {Hole}]
        /\ repo[s][x] \in [1..Size(x) -> Page \cup {Hole}] => f = repo[s][x]
    BY <1>11
  <2>3. repo[s][x] = Content[x] => f = Content[x]
    BY <2>1, <2>2
  <2>4. ASSUME NEW p \in Nat, Holds(s, x, p) PROVE \A j \in 1..p : f[j] = Content[x][j]
    BY <2>2, <2>4 DEF Holds
  <2>5. \A p \in Nat : p <= Size(x) /\ Holds(s, x, p) => \A j \in 1..p : f[j] = Content[x][j]
    BY <2>4
  <2>6. RepoFile(f, x)
    BY <2>2 DEF RepoFile
  <2> QED
    BY <2>2, <2>3, <2>5, <2>6
<1>13. Goes(k)
  <2> SUFFICES ASSUME NEW m \in Md5s, NEW sent \in Nat, Kept(m), Upload(k, m, sent),
                      k \in held \/ sent = 2 + Size(m)
               PROVE  Upload(k, m, sent)' /\ sv'[k].s = sv[k].s
    BY DEF Goes
  <2>1. x = m /\ sent = 2 /\ r.len = Size(m) /\ up'[k] = <<>> /\ sv[k].pos = 0
    BY <1>10
  <2>2. repo'[s][m] = f
    BY <1>a, <1>6, <2>1, RepoPut
  <2>3. repo'[s][m] \in [1..Size(m) -> Page \cup {Hole}]
    BY <1>11, <2>1, <2>2
  <2>4. Holds(s, m, 0)'
    BY <2>3 DEF Holds
  <2>5. /\ sv'[k].at = "recv" /\ sv'[k].m = m /\ sv'[k].len = Size(m) /\ sv'[k].s = s
        /\ sv'[k].pos = 0
    BY <1>6, <1>7, <2>1
  <2>6. Holds(sv[k].s, m, sv[k].pos)'
    BY <2>4, <2>5 DEF Holds
  <2>7. sent = 2 + sv'[k].pos
    BY <2>1, <2>5
  <2> QED
    BY <1>2, <2>1, <2>5, <2>6, <2>7 DEF Upload
<1>14. Served(k)
  BY <1>a, <1>2, <1>6, <1>7, NotServed
<1>15. \A m \in Md5s : Uploads(k, m)' => Uploads(k, m)
  BY <1>2, <1>4, <1>6, <1>7 DEF Uploads
<1> QED
  BY <1>2, <1>3, <1>8, <1>9, <1>12, <1>13, <1>14, <1>15, ThreadInv

\* The next page of a file.
LEMMA PageIs ==
    ASSUME NEW m \in Md5s, NEW f \in [1..Size(m) -> Page \cup {Hole}], NEW p \in Nat, p < Size(m),
           NEW g, g = WriteAt(f, p + 1, Content[m][p + 1])
    PROVE  /\ g \in [1..Size(m) -> Page \cup {Hole}] /\ g[p + 1] = Content[m][p + 1]
           /\ \A j \in 1..Size(m) : j # p + 1 => g[j] = f[j]
<1>1. PICK n \in Nat : n = Size(m) /\ Content[m] \in [1..n -> Page]
  BY ContentIs
<1>2. Len(f) = n /\ p + 1 \in 1..n
  BY <1>1
<1>3. g = [j \in 1..n |-> IF j = p + 1 THEN Content[m][p + 1] ELSE IF j <= n THEN f[j] ELSE Hole]
  BY <1>1, <1>2 DEF WriteAt
<1>4. Content[m][p + 1] \in Page
  BY <1>1, <1>2
<1> QED
  BY <1>1, <1>2, <1>3, <1>4

LEMMA RecvFileStep == ASSUME IInv, NEW s \in Servers, RecvFile(s) PROVE IInv'
<1>a. Plain /\ Types /\ Uploaded /\ Downloading
  BY DEF IInv, Plain
<1>1. PICK k \in At(s, "recv") :
         /\ \/ /\ sv[k].pos < sv[k].len /\ Word(k) /\ TakeWord(k)
               /\ repo' = [repo EXCEPT ![s][sv[k].m] = WriteAt(@, sv[k].pos + 1, up[k][1].v)]
               /\ Step(k, [sv[k] EXCEPT !.pos = @ + 1])
            \/ /\ sv[k].pos >= sv[k].len \/ Lost(k)
               /\ End(k, "closed")
               /\ UNCHANGED <<repo, up>>
         /\ UNCHANGED <<alive, que, down, held, clientVars>>
  BY DEF RecvFile
<1>2. k \in Conns /\ sv[k].s = s /\ sv[k].at = "recv" /\ Open(k) /\ Thread(sv[k]) /\ sv[k].pos \in Nat
  BY <1>a, RunningIs, ThreadIs DEF Thread
<1>3. down' = down /\ held' = held /\ alive' = alive /\ que' = que
  BY <1>1
<1>4. PICK x : x = sv[k].m
  OBVIOUS
<1>5. ASSUME NEW m \in Md5s, NEW sent \in Nat, Upload(k, m, sent)
      PROVE  /\ x = m /\ sv[k].len = Size(m) /\ Holds(s, m, sv[k].pos)
             /\ \/ sent = 2 + sv[k].pos /\ up[k] = <<>>
                \/ sent = 3 + sv[k].pos /\ up[k] = <<PageWord(m, sv[k].pos + 1)>>
  BY <1>2, <1>4, <1>5 DEF Upload
<1>6. CASE /\ sv[k].pos < sv[k].len /\ Word(k) /\ TakeWord(k)
           /\ repo' = [repo EXCEPT ![s][sv[k].m] = WriteAt(@, sv[k].pos + 1, up[k][1].v)]
           /\ Step(k, [sv[k] EXCEPT !.pos = @ + 1])
  <2>1. /\ sv'[k].at = "recv" /\ sv'[k].m = x /\ sv'[k].s = s /\ sv'[k].pos = sv[k].pos + 1
        /\ sv'[k].len = sv[k].len
        /\ (\A j \in Conns \ {k} : sv'[j] = sv[j]) /\ SvTypes'
    <3>1. PICK r : r = [sv[k] EXCEPT !.pos = sv[k].pos + 1]
      OBVIOUS
    <3>2. Step(k, r)
      BY <1>6, <3>1
    <3>3. /\ Thread(r) /\ r.at = "recv" /\ r.m = x /\ r.s = s /\ r.pos = sv[k].pos + 1
          /\ r.len = sv[k].len
      BY <1>2, <1>4, <3>1 DEF Thread, Serving
    <3> QED
      BY <1>a, <1>2, <3>2, <3>3, StepIs
  <2>2. /\ up' \in [Conns -> Seq(Words)] /\ \A j \in Conns \ {k} : up'[j] = up[j]
        /\ \A a : up[k] = <<a>> => up[k][1] = a /\ up'[k] = <<>>
    BY <1>a, <1>2, <1>6, TakeIs
  <2>3. ThreadStep(k)
    BY <1>1, <1>3, <2>1, <2>2 DEF ThreadStep
  <2>4. PICK f : f = WriteAt(repo[s][x], sv[k].pos + 1, up[k][1].v)
    OBVIOUS
  <2>5. repo' = [repo EXCEPT ![s][x] = f]
    BY <1>4, <1>6, <2>4
  <2>6. Plain'
    <3>1. NetTypes' /\ alive' \subseteq Servers
      BY <1>a, <1>3, <2>2 DEF Types, NetTypes, ServerTypes
    <3>2. DOMAIN repo' = Servers /\ \A t \in Servers : DOMAIN repo'[t] = Md5s
      BY <1>a, <2>5, RepoPut
    <3> QED
      BY <1>a, <1>2, <1>3, <1>4, <2>1, <2>3, <3>1, <3>2, PlainThread DEF Running
  \* The page is the one that is missing.
  <2>7. ASSUME NEW m \in Md5s, NEW sent \in Nat, Upload(k, m, sent)
        PROVE  /\ x = m /\ sv[k].len = Size(m) /\ sent = 3 + sv[k].pos /\ up'[k] = <<>>
               /\ repo[s][m] \in [1..Size(m) -> Page \cup {Hole}]
               /\ \A j \in 1..sv[k].pos : repo[s][m][j] = Content[m][j]
               /\ f \in [1..Size(m) -> Page \cup {Hole}]
               /\ f[sv[k].pos + 1] = Content[m][sv[k].pos + 1]
               /\ \A j \in 1..Size(m) : j # sv[k].pos + 1 => f[j] = repo[s][m][j]
    <3>1. /\ x = m /\ sv[k].len = Size(m) /\ Holds(s, m, sv[k].pos)
          /\ sent = 3 + sv[k].pos /\ up[k] = <<PageWord(m, sv[k].pos + 1)>>
      BY <1>5, <1>6, <2>7 DEF Word
    <3>2. up[k][1] = PageWord(m, sv[k].pos + 1) /\ up'[k] = <<>>
      BY <2>2, <3>1
    <3>3. f = WriteAt(repo[s][m], sv[k].pos + 1, Content[m][sv[k].pos + 1])
      BY <2>4, <3>1, <3>2 DEF PageWord
    <3>4. sv[k].pos < Size(m)
      BY <1>6, <3>1
    <3>5. /\ repo[s][m] \in [1..Size(m) -> Page \cup {Hole}]
          /\ \A j \in 1..sv[k].pos : repo[s][m][j] = Content[m][j]
      BY <3>1 DEF Holds
    <3>6. /\ f \in [1..Size(m) -> Page \cup {Hole}]
          /\ f[sv[k].pos + 1] = Content[m][sv[k].pos + 1]
          /\ \A j \in 1..Size(m) : j # sv[k].pos + 1 => f[j] = repo[s][m][j]
      BY <1>2, <3>3, <3>4, <3>5, PageIs, SMTT(30)
    <3> QED
      BY <3>1, <3>2, <3>5, <3>6
  <2>8. RepoGrows
    <3> SUFFICES ASSUME x \in Md5s, Kept(x)
                 PROVE  /\ RepoFile(f, x)
                        /\ repo[s][x] = Content[x] => f = Content[x]
                        /\ \A p \in Nat : p <= Size(x) /\ Holds(s, x, p) =>
                              /\ f \in [1..Size(x) -> Page \cup {Hole}]
                              /\ \A j \in 1..p : f[j] = Content[x][j]
      BY <1>a, <2>5, RepoPutGrows
    <3>1. Uploads(k, x)
      BY <1>2, <1>4 DEF Uploads
    <3>2. PICK sent \in Nat : Upload(k, x, sent)
      BY <1>a, <1>2, <3>1, UploadOf
    <3>3. PICK n \in Nat, p0 \in Nat : n = Size(x) /\ p0 = sv[k].pos /\ Content[x] \in [1..n -> Page]
      BY <1>2, ContentIs
    <3>4. /\ f \in [1..n -> Page \cup {Hole}] /\ f[p0 + 1] = Content[x][p0 + 1]
          /\ \A j \in 1..n : j # p0 + 1 => f[j] = repo[s][x][j]
      BY <2>7, <3>2, <3>3
    <3>5. ASSUME NEW p \in Nat, p <= n, \A j \in 1..p : repo[s][x][j] = Content[x][j]
          PROVE  \A j \in 1..p : f[j] = Content[x][j]
      <4> SUFFICES ASSUME NEW j \in 1..p PROVE f[j] = Content[x][j]
        OBVIOUS
      <4>1. j \in 1..n
        BY <3>5
      <4> QED
        BY <3>4, <3>5, <4>1
    <3>6. repo[s][x] = Content[x] => f = Content[x]
      <4> SUFFICES ASSUME repo[s][x] = Content[x] PROVE f = Content[x]
        OBVIOUS
      <4>1. \A j \in 1..n : f[j] = Content[x][j]
        BY <3>5
      <4> QED
        BY <3>3, <3>4, <4>1
    <3>7. \A p \in Nat : p <= n /\ Holds(s, x, p) => \A j \in 1..p : f[j] = Content[x][j]
      BY <3>5 DEF Holds
    <3>8. RepoFile(f, x)
      BY <3>3, <3>4 DEF RepoFile
    <3> QED
      BY <3>3, <3>4, <3>6, <3>7, <3>8
  <2>9. Goes(k)
    <3> SUFFICES ASSUME NEW m \in Md5s, NEW sent \in Nat, Upload(k, m, sent)
                 PROVE  Upload(k, m, sent)' /\ sv'[k].s = sv[k].s
      BY DEF Goes
    <3>1. PICK n \in Nat, p0 \in Nat : n = Size(m) /\ p0 = sv[k].pos
      BY <1>2, ContentIs
    <3>2. /\ x = m /\ sv[k].len = n /\ sent = 3 + p0 /\ up'[k] = <<>>
          /\ \A j \in 1..p0 : repo[s][m][j] = Content[m][j]
          /\ f \in [1..n -> Page \cup {Hole}] /\ f[p0 + 1] = Content[m][p0 + 1]
          /\ \A j \in 1..n : j # p0 + 1 => f[j] = repo[s][m][j]
      BY <2>7, <3>1
    <3>3. p0 < n
      BY <1>6, <3>1, <3>2
    <3>4. \A j \in 1..(p0 + 1) : f[j] = Content[m][j]
      BY <3>2, <3>3
    <3>5. repo'[s][m] = f
      BY <1>a, <2>5, <3>2, RepoPut
    <3>6. /\ sv'[k].at = "recv" /\ sv'[k].m = m /\ sv'[k].s = s /\ sv'[k].pos = p0 + 1
          /\ sv'[k].len = Size(m) /\ sent = 2 + sv'[k].pos
      BY <2>1, <3>1, <3>2
    <3>7. Holds(sv[k].s, m, sv[k].pos)'
      BY <3>1, <3>2, <3>4, <3>5, <3>6 DEF Holds
    <3> QED
      BY <1>2, <3>2, <3>6, <3>7 DEF Upload
  <2>10. Served(k)
    BY <1>a, <1>2, <2>1, NotServed
  <2>11. \A m \in Md5s : Uploads(k, m)' => Uploads(k, m)
    BY <1>2, <1>4, <2>1 DEF Uploads
  <2> QED
    BY <1>2, <1>3, <2>3, <2>6, <2>8, <2>9, <2>10, <2>11, ThreadInv
<1>7. CASE /\ sv[k].pos >= sv[k].len \/ Lost(k)
           /\ End(k, "closed") /\ UNCHANGED <<repo, up>>
  <2>0. Thread([NoThread EXCEPT !.at = "closed"]) /\ [NoThread EXCEPT !.at = "closed"].at = "closed"
    BY DEF NoThread, Thread, Serving
  <2>1. /\ sv'[k].at = "closed" /\ (\A j \in Conns \ {k} : sv'[j] = sv[j]) /\ SvTypes'
    <3>1. PICK r : r = [NoThread EXCEPT !.at = "closed"]
      OBVIOUS
    <3>2. Step(k, r) /\ Thread(r) /\ r.at = "closed"
      BY <1>7, <2>0, <3>1 DEF End
    <3> QED
      BY <1>a, <1>2, <3>2, StepIs
  <2>2. ThreadStep(k)
    BY <1>1, <1>3, <1>7, <2>1 DEF ThreadStep
  <2>3. Plain'
    <3>1. NetTypes' /\ alive' \subseteq Servers /\ DOMAIN repo' = Servers
          /\ \A t \in Servers : DOMAIN repo'[t] = Md5s
      BY <1>a, <1>3, <1>7 DEF Types, NetTypes, ServerTypes
    <3> QED
      BY <1>a, <1>2, <1>3, <2>1, <2>2, <3>1, PlainThread DEF Running
  <2>4. RepoGrows
    BY <1>a, <1>7, RepoSame
  <2>5. Goes(k)
    <3> SUFFICES ASSUME NEW m \in Md5s, NEW sent \in Nat, Upload(k, m, sent),
                        k \in held \/ sent = 2 + Size(m)
                 PROVE  repo[s][m] = Content[m]
      BY <1>2, <1>7, <2>1 DEF Goes
    <3>1. PICK n \in Nat, p0 \in Nat : n = Size(m) /\ p0 = sv[k].pos /\ Content[m] \in [1..n -> Page]
      BY <1>2, ContentIs
    <3>2. /\ sv[k].len = n /\ Holds(s, m, p0)
          /\ \/ sent = 2 + p0 /\ up[k] = <<>>
             \/ sent = 3 + p0 /\ up[k] = <<PageWord(m, p0 + 1)>>
      BY <1>5, <3>1
    <3>3. p0 >= n
      <4>1. CASE Lost(k)
        <5>1. up[k] = <<>> /\ k \notin held
          BY <4>1 DEF Lost, Gone
        <5>2. up[k] # <<PageWord(m, p0 + 1)>>
          BY <5>1
        <5> QED
          BY <3>1, <3>2, <5>1, <5>2
      <4>2. CASE sv[k].pos >= sv[k].len
        BY <3>1, <3>2, <4>2
      <4> QED
        BY <1>7, <4>1, <4>2
    <3>4. /\ repo[s][m] \in [1..n -> Page \cup {Hole}]
          /\ \A j \in 1..p0 : repo[s][m][j] = Content[m][j]
      BY <3>1, <3>2 DEF Holds
    <3>5. \A j \in 1..n : repo[s][m][j] = Content[m][j]
      BY <3>3, <3>4
    <3> QED
      BY <3>1, <3>4, <3>5
  <2>6. Served(k)
    BY <1>a, <1>2, <2>1, NotServed
  <2>7. \A m \in Md5s : Uploads(k, m)' => Uploads(k, m)
    BY <2>1 DEF Uploads
  <2> QED
    BY <1>2, <1>3, <2>2, <2>3, <2>4, <2>5, <2>6, <2>7, ThreadInv
<1> QED
  BY <1>1, <1>6, <1>7

\* A thread takes the connection that waits longest.
LEMMA PopStep == ASSUME IInv, NEW s \in Servers, Pop(s) PROVE IInv'
<1>a. /\ Plain /\ Types /\ Uploaded /\ Downloading /\ QueueInv /\ PoolInv
      /\ \A c \in Clients : LineInv(c) /\ WireInv(c) /\ ShapeInv(c)
      /\ \A j \in Conns : ConnInv(j)
  BY DEF IInv, Plain
<1>1. /\ que[s] # <<>> /\ Cardinality(Busy(s)) < NThreads
      /\ Now(que[s][1], "cmd")
      /\ que' = [que EXCEPT ![s] = Tail(que[s])]
      /\ UNCHANGED <<repo, alive, netVars, clientVars>>
  BY DEF Pop
<1>2. que[s] \in Seq(Conns) /\ que \in [Servers -> Seq(Conns)]
  BY <1>a DEF Types, ServerTypes
<1>3. PICK k \in Conns : k = que[s][1]
  BY <1>1, <1>2
<1>4. sv[k].at = "queued" /\ sv[k].s = s /\ Open(k) /\ Thread(sv[k]) /\ ConnInv(k)
  <2>1. Len(que[s]) \in Nat /\ 1 <= Len(que[s])
    BY <1>1, <1>2
  <2>2. sv[k].at = "queued" /\ sv[k].s = s
    BY <1>a, <1>3, <2>1 DEF QueueInv
  <2> QED
    BY <1>a, <2>2, ThreadIs DEF Open
<1>5. up' = up /\ down' = down /\ held' = held /\ repo' = repo /\ alive' = alive
      /\ UNCHANGED clientVars
  BY <1>1 DEF netVars
<1>6. /\ sv'[k].at = "cmd" /\ sv'[k].m = sv[k].m /\ sv'[k].s = s /\ sv'[k].pos = sv[k].pos
      /\ (\A j \in Conns \ {k} : sv'[j] = sv[j]) /\ SvTypes'
  <2>1. PICK r : r = [sv[k] EXCEPT !.at = "cmd"]
    OBVIOUS
  <2>2. Step(k, r)
    BY <1>1, <1>3, <2>1 DEF Now
  <2>3. Thread(r) /\ r.at = "cmd" /\ r.m = sv[k].m /\ r.s = s /\ r.pos = sv[k].pos
    BY <1>4, <2>1 DEF Thread, Serving
  <2> QED
    BY <1>a, <2>2, <2>3, StepIs
<1>7. ThreadStep(k)
  BY <1>5, <1>6 DEF ThreadStep
<1>8. Tail(que[s]) \in Seq(Conns) /\ Len(Tail(que[s])) = Len(que[s]) - 1 /\ Len(que[s]) \in Nat
      /\ \A i \in 1..Len(Tail(que[s])) : Tail(que[s])[i] = que[s][i + 1]
  BY <1>1, <1>2
<1>9. que' \in [Servers -> Seq(Conns)] /\ que'[s] = Tail(que[s])
      /\ \A t \in Servers \ {s} : que'[t] = que[t]
  BY <1>1, <1>2, <1>8
<1>10. Types'
  <2>1. ServerTypes'
    BY <1>a, <1>5, <1>6, <1>9, ClientsStay DEF Types, ServerTypes
  <2>2. NetTypes'
    BY <1>a, <1>5 DEF Types, NetTypes
  <2> QED
    BY <1>a, <1>5, <2>1, <2>2, ClientPart DEF Types
<1>11. QueueInv'
  <2> SUFFICES ASSUME NEW t \in Servers
               PROVE  /\ \A i \in 1..Len(que'[t]) : sv'[que'[t][i]].at = "queued" /\ sv'[que'[t][i]].s = t
                      /\ \A i, j \in 1..Len(que'[t]) : que'[t][i] = que'[t][j] => i = j
    BY DEF QueueInv
  <2>1. CASE t = s
    <3>1. PICK q \in Seq(Conns) : q = que[s]
      BY <1>2
    <3>2. /\ \A i \in 1..Len(q) : q[i] \in Conns /\ sv[q[i]].at = "queued" /\ sv[q[i]].s = s
          /\ \A i, j \in 1..Len(q) : q[i] = q[j] => i = j
      BY <1>a, <3>1 DEF QueueInv
    <3>e. q # <<>> /\ que'[t] = Tail(q)
      BY <1>1, <1>9, <2>1, <3>1
    <3>3. PICK n \in Nat : n = Len(q) /\ n > 0 /\ Len(que'[t]) = n - 1
      BY <3>e
    <3>4. \A i \in 1..(n - 1) : que'[t][i] = q[i + 1] /\ i + 1 \in 1..n
      BY <3>e, <3>3
    <3>5. \A i \in 1..(n - 1) : q[i + 1] # k
      BY <1>3, <3>1, <3>2, <3>3
    <3>6. \A i \in 1..(n - 1) : sv'[q[i + 1]] = sv[q[i + 1]]
      BY <1>6, <3>2, <3>3, <3>4, <3>5
    <3>7. \A i \in 1..(n - 1) : sv'[que'[t][i]].at = "queued" /\ sv'[que'[t][i]].s = t
      BY <2>1, <3>2, <3>3, <3>4, <3>6
    <3>8. \A i, j \in 1..(n - 1) : que'[t][i] = que'[t][j] => i = j
      BY <3>2, <3>3, <3>4
    <3> QED
      BY <3>3, <3>7, <3>8
  <2>2. CASE t # s
    <3>1. que'[t] = que[t] /\ que[t] \in Seq(Conns)
      BY <1>2, <1>9, <2>2
    <3>2. \A i \in 1..Len(que[t]) : que[t][i] \in Conns /\ sv[que[t][i]].s = t
      BY <1>a, <3>1 DEF QueueInv
    <3>3. \A i \in 1..Len(que[t]) : sv'[que[t][i]] = sv[que[t][i]]
      BY <1>4, <1>6, <2>2, <3>2
    <3> QED
      BY <1>a, <3>1, <3>3 DEF QueueInv
  <2> QED
    BY <2>1, <2>2
<1>12. PoolInv'
  <2> SUFFICES ASSUME NEW t \in Servers PROVE Cardinality(Busy(t)') <= NThreads
    BY DEF PoolInv
  <2>1. IsFiniteSet(Busy(t)) /\ Cardinality(Busy(t)) \in Nat /\ Cardinality(Busy(t)) <= NThreads
    BY <1>a, BusyFinite DEF PoolInv
  <2>2. CASE t = s
    <3>1. Busy(t)' \subseteq Busy(t) \cup {k}
      <4> SUFFICES ASSUME NEW j \in Busy(t)', j # k PROVE j \in Busy(t)
        OBVIOUS
      <4>1. j \in Conns /\ sv'[j] = sv[j]
        BY <1>6 DEF Busy
      <4> QED
        BY <4>1 DEF Busy, Open
    <3>2. k \notin Busy(t)
      BY <1>4 DEF Busy
    <3>3. IsFiniteSet(Busy(t) \cup {k}) /\ Cardinality(Busy(t) \cup {k}) = Cardinality(Busy(t)) + 1
      BY <2>1, <3>2, FS_AddElement
    <3>4. /\ IsFiniteSet(Busy(t)') /\ Cardinality(Busy(t)') <= Cardinality(Busy(t) \cup {k})
          /\ Cardinality(Busy(t)') \in Nat
      BY <3>1, <3>3, FS_Subset, FS_CardinalityType
    <3> QED
      BY <1>1, <2>1, <2>2, <3>3, <3>4, TransferAssumption
  <2>3. CASE t # s
    <3>1. Busy(t)' \subseteq Busy(t)
      <4> SUFFICES ASSUME NEW j \in Busy(t)' PROVE j \in Busy(t)
        OBVIOUS
      <4>1. j \in Conns /\ sv'[j].s = t
        BY DEF Busy
      <4>2. sv'[j] = sv[j]
        BY <1>6, <2>3, <4>1
      <4> QED
        BY <4>1, <4>2 DEF Busy, Open
    <3>2. Cardinality(Busy(t)') <= Cardinality(Busy(t)) /\ Cardinality(Busy(t)') \in Nat
      BY <2>1, <3>1, FS_Subset, FS_CardinalityType
    <3> QED
      BY <2>1, <3>2, TransferAssumption
  <2> QED
    BY <2>2, <2>3
<1>13. ASSUME NEW c \in Clients PROVE WireInv(c)'
  <2> SUFFICES ASSUME Wired(c), NEW i \in Nth(c) PROVE Wire(c, K(c, i))'
    BY <1>5, ClientPart DEF WireInv
  <2>1. PICK j \in Conns : j = K(c, i) /\ K(c, i)' = j
    <3>1. Busy1(c) /\ i \in {1, 2}
      BY NthIs DEF Wired, Busy1, Resting
    <3> QED
      BY <1>a, <1>5, <3>1, LineIs, ClientPart
  <2>2. Wire(c, j) /\ Line(c)' = Line(c) /\ cl' = cl
    BY <1>a, <1>5, <2>1, ClientPart, ClientsStay DEF WireInv
  <2>3. CASE j # k
    <3>1. sv'[j] = sv[j]
      BY <1>6, <2>3
    <3> QED
      BY <1>5, <2>1, <2>2, <3>1 DEF Wire, Begun, Wired
  <2>4. CASE j = k
    BY <1>4, <1>5, <1>6, <2>1, <2>2, <2>4 DEF Wire, Begun, Wired, Running
  <2> QED
    BY <2>3, <2>4
<1>14. ASSUME NEW j \in Conns PROVE ConnInv(j)'
  <2>1. (Unused(j)' <=> Unused(j)) /\ ConnInv(j)
    BY <1>a, <1>5, ClientPart
  <2>2. CASE j # k
    <3>1. sv'[j] = sv[j]
      BY <1>6, <2>2
    <3> QED
      BY <1>5, <2>1, <3>1 DEF ConnInv, Fresh, FirstWord, Open
  <2>3. CASE j = k
    BY <1>4, <1>5, <1>6, <2>1, <2>3 DEF ConnInv, Fresh, FirstWord, Open
  <2> QED
    BY <2>2, <2>3
<1>15. Plain'
  BY <1>10, <1>11, <1>12, <1>13, <1>14, <1>a, <1>5, ClientPart DEF Plain
<1>16. RepoGrows
  BY <1>a, <1>5, RepoSame
<1>17. Goes(k)
  <2> SUFFICES ASSUME NEW m \in Md5s, NEW sent \in Nat, Upload(k, m, sent)
               PROVE  Upload(k, m, sent)' /\ sv'[k].s = sv[k].s
    BY DEF Goes
  <2> QED
    BY <1>4, <1>5, <1>6 DEF Upload
<1>18. Served(k)
  <2> SUFFICES ASSUME Good
               PROVE  /\ GetThread(k)'
                      /\ \A c \in Clients : \A i \in Nth(c) :
                            Wired(c) /\ Line(c)[1] = "gets" /\ k = K(c, i) =>
                               GetConn(c, i, k, cl[c].row.md5)'
    BY DEF Served
  <2>1. GetThread(k)'
    <3>1. GetThread(k)
      BY <1>a DEF Downloading
    <3> QED
      BY <1>4, <1>5, <1>6, <3>1 DEF GetThread, HasContent
  <2>2. ASSUME NEW c \in Clients, NEW i \in Nth(c), Wired(c), Line(c)[1] = "gets", k = K(c, i)
        PROVE  GetConn(c, i, k, cl[c].row.md5)'
    <3>1. GetConn(c, i, k, cl[c].row.md5)
      BY <1>a, <2>2, GetConnNow
    <3>2. cl' = cl
      BY <1>5, ClientsStay
    <3> QED
      BY <1>4, <1>5, <1>6, <3>1, <3>2 DEF GetConn, Download, PageComing, Wanted
  <2> QED
    BY <2>1, <2>2
<1>19. \A m \in Md5s : Uploads(k, m)' => Uploads(k, m)
  BY <1>4, <1>5, <1>6 DEF Uploads
<1> QED
  BY <1>4, <1>5, <1>7, <1>15, <1>16, <1>17, <1>18, <1>19, ThreadInv

LEMMA ServersStep == ASSUME IInv, FileServers PROVE IInv'
<1>1. \E s \in Servers : Pop(s) \/ RecvTrain(s) \/ GetsOpen(s) \/ GetsOffset(s) \/ PutsOpen(s)
                         \/ PutsSize(s) \/ SendFile(s) \/ RecvFile(s)
  BY DEF FileServers, Pool2, Tasks2, Trans2, Pool3, Tasks3, Trans3, Tasks, Servers
<1> QED
  BY <1>1, PopStep, RecvTrainStep, GetsOpenStep, GetsOffsetStep, PutsOpenStep, PutsSizeStep,
     SendFileStep, RecvFileStep

-----------------------------------------------------------------------------
(* A step of a client *)

\* The client c moves, over connections of its own.
ClientStep(c) ==
    /\ \A d \in Clients \ {c} : cl'[d] = cl[d] /\ disk'[d] = disk[d]
    /\ \A k \in Conns : k[1] # c => /\ sv'[k] = sv[k] /\ up'[k] = up[k] /\ down'[k] = down[k]
                                    /\ (k \in held' <=> k \in held)
    /\ repo' = repo /\ alive' = alive /\ rows \subseteq rows' /\ cut \subseteq cut'
    /\ early => early'
    /\ mixed => mixed'

LEMMA OtherClient ==
    ASSUME NEW c, ClientStep(c), NEW d \in Clients, d # c
    PROVE  /\ cl'[d] = cl[d] /\ disk'[d] = disk[d]
           /\ Line(d)' = Line(d) /\ Nth(d)' = Nth(d) /\ (Wired(d)' <=> Wired(d))
           /\ (Begun(d)' <=> Begun(d)) /\ (Busy1(d)' <=> Busy1(d)) /\ (Owing(d)' <=> Owing(d))
           /\ \A i : K(d, i)' = K(d, i) /\ Sent(d, i)' = Sent(d, i)
           /\ (LineInv(d)' <=> LineInv(d)) /\ (ShapeInv(d)' <=> ShapeInv(d))
<1>1. cl'[d] = cl[d] /\ disk'[d] = disk[d]
  BY DEF ClientStep
<1>2. /\ Line(d)' = Line(d) /\ Nth(d)' = Nth(d) /\ (Wired(d)' <=> Wired(d))
      /\ (Begun(d)' <=> Begun(d)) /\ (Busy1(d)' <=> Busy1(d))
      /\ \A i : K(d, i)' = K(d, i) /\ Sent(d, i)' = Sent(d, i)
  BY <1>1 DEF Line, Nth, Wired, Begun, Busy1, K, Sent
<1>3. Owing(d)' <=> Owing(d)
  BY <1>1, <1>2 DEF Owing
<1>4. LineInv(d)' <=> LineInv(d)
  BY <1>1, <1>2 DEF LineInv
<1>5. ShapeInv(d)' <=> ShapeInv(d)
  BY <1>1, <1>2 DEF ShapeInv
<1> QED
  BY <1>1, <1>2, <1>3, <1>4, <1>5

LEMMA OtherConn ==
    ASSUME NEW c, ClientStep(c), NEW k \in Conns, k[1] # c
    PROVE  /\ sv'[k] = sv[k] /\ up'[k] = up[k] /\ down'[k] = down[k] /\ (k \in held' <=> k \in held)
           /\ k[1] \in Clients /\ (Current(k)' <=> Current(k)) /\ (Unused(k)' <=> Unused(k))
           /\ (Open(k)' <=> Open(k))
<1>1. /\ sv'[k] = sv[k] /\ up'[k] = up[k] /\ down'[k] = down[k] /\ (k \in held' <=> k \in held)
      /\ k[1] \in Clients
  BY ConnIs DEF ClientStep
<1>2. /\ cl'[k[1]] = cl[k[1]] /\ Nth(k[1])' = Nth(k[1]) /\ (Wired(k[1])' <=> Wired(k[1]))
  BY <1>1, OtherClient
<1> QED
  BY <1>1, <1>2 DEF Current, Unused, Open

LEMMA PlainClient ==
    ASSUME Plain, NEW c \in Clients, ClientStep(c), Types', QueueInv', PoolInv',
           LineInv(c)', WireInv(c)', ShapeInv(c)', \A k \in Conns : k[1] = c => ConnInv(k)'
    PROVE  Plain'
<1>a. /\ Types /\ \A d \in Clients : LineInv(d) /\ WireInv(d) /\ ShapeInv(d)
      /\ \A k \in Conns : ConnInv(k)
  BY DEF Plain
<1>1. ASSUME NEW d \in Clients, d # c PROVE LineInv(d)' /\ ShapeInv(d)'
  BY <1>a, <1>1, OtherClient
<1>2. ASSUME NEW d \in Clients, d # c PROVE WireInv(d)'
  <2> SUFFICES ASSUME Wired(d), NEW i \in Nth(d) PROVE Wire(d, K(d, i))'
    BY <1>2, OtherClient DEF WireInv
  <2>1. PICK k \in Conns : k = K(d, i) /\ k[1] = d /\ K(d, i)' = k
    <3>1. Busy1(d) /\ i \in {1, 2}
      BY NthIs DEF Wired, Busy1, Resting
    <3> QED
      BY <1>a, <1>2, <3>1, LineIs, OtherClient
  <2>2. Wire(d, k)
    BY <1>a, <2>1 DEF WireInv
  <2>3. /\ cl'[d] = cl[d] /\ Line(d)' = Line(d) /\ (Begun(d)' <=> Begun(d))
        /\ sv'[k] = sv[k] /\ up'[k] = up[k] /\ (k \in held' <=> k \in held)
    BY <1>2, <2>1, OtherClient, OtherConn
  <2> QED
    BY <2>1, <2>2, <2>3 DEF Wire
<1>3. ASSUME NEW k \in Conns, k[1] # c PROVE ConnInv(k)'
  <2>1. ConnInv(k)
    BY <1>a
  <2>2. /\ sv'[k] = sv[k] /\ up'[k] = up[k] /\ down'[k] = down[k] /\ (k \in held' <=> k \in held)
        /\ (Unused(k)' <=> Unused(k)) /\ (Open(k)' <=> Open(k))
    BY <1>3, OtherConn
  <2> QED
    BY <2>1, <2>2 DEF ConnInv, Fresh, FirstWord
<1> QED
  BY <1>1, <1>2, <1>3 DEF Plain

\* What the step does to the uploads of c.
UploadsStay(c) == \A k \in Conns, m \in Md5s :
    k[1] = c /\ Kept(m)' /\ Uploads(k, m) => Uploads(k, m)' /\ sv'[k].s = sv[k].s
OweStays(c) == \A m \in Md5s : Kept(m)' /\ Owing(c) /\ cl[c].row.md5 = m =>
    \A i \in Nth(c) :
       \/ HasContent(cl[c].row.s[i], m)
       \/ Owing(c)' /\ cl'[c].row = cl[c].row
       \/ \E k \in Conns : sv'[k].s = cl[c].row.s[i] /\ Uploads(k, m)'
NewRow(c) == \A r \in rows' \ rows : Kept(r.md5)' => Parted(r) /\ Owing(c)' /\ cl'[c].row = r

LEMMA UploadedClient ==
    ASSUME Plain, Uploaded, NEW c \in Clients, ClientStep(c), Types', UploadsStay(c), OweStays(c),
           NewRow(c), PutClient(c)', \A k \in Conns : k[1] = c => PutLeft(k)'
    PROVE  Uploaded'
<1>a. /\ Types /\ \A d \in Clients : LineInv(d)
      /\ \A k \in Conns : ConnInv(k)
  BY DEF Plain
<1>b. /\ RepoInv /\ RowInv /\ (\A d \in Clients : PutClient(d)) /\ \A k \in Conns : PutLeft(k)
  BY DEF Uploaded
<1>c. \A m : Kept(m)' => Kept(m)
  BY DEF Kept, ClientStep
<1>d. repo' = repo
  BY DEF ClientStep
<1>1. RepoInv'
  BY <1>b, <1>c, <1>d DEF RepoInv
<1>2. ASSUME NEW s \in Servers, NEW m \in Md5s, Kept(m)', HasContent(s, m) \/ OnItsWay(s, m)
      PROVE  (HasContent(s, m) \/ OnItsWay(s, m))'
  <2>1. CASE HasContent(s, m)
    BY <1>d, <2>1 DEF HasContent
  <2>2. CASE \E d \in Clients : /\ Owing(d) /\ cl[d].row.md5 = m
                                /\ \E i \in Nth(d) : cl[d].row.s[i] = s
    <3>1. PICK d \in Clients : Owing(d) /\ cl[d].row.md5 = m /\ \E i \in Nth(d) : cl[d].row.s[i] = s
      BY <2>2
    <3>2. PICK i \in Nth(d) : cl[d].row.s[i] = s
      BY <3>1
    <3>3. CASE d # c
      <4>1. Owing(d)' /\ cl'[d] = cl[d] /\ Nth(d)' = Nth(d)
        BY <3>1, <3>3, OtherClient
      <4> QED
        BY <3>1, <3>2, <4>1 DEF OnItsWay
    <3>4. CASE d = c
      <4>1. \/ HasContent(s, m)
            \/ Owing(c)' /\ cl'[c].row = cl[c].row
            \/ \E k \in Conns : sv'[k].s = s /\ Uploads(k, m)'
        BY <1>2, <3>1, <3>2, <3>4 DEF OweStays
      <4>2. CASE Owing(c)' /\ cl'[c].row = cl[c].row
        <5>1. i \in Nth(c)' /\ cl'[c].row.s[i] = s /\ cl'[c].row.md5 = m
          BY <3>1, <3>2, <3>4, <4>2 DEF Nth
        <5> QED
          BY <4>2, <5>1 DEF OnItsWay
      <4> QED
        BY <1>d, <4>1, <4>2 DEF OnItsWay, HasContent
    <3> QED
      BY <3>3, <3>4
  <2>3. CASE \E k \in Conns : sv[k].s = s /\ Uploads(k, m)
    <3>1. PICK k \in Conns : sv[k].s = s /\ Uploads(k, m)
      BY <2>3
    <3>2. sv'[k].s = s /\ Uploads(k, m)'
      <4>1. CASE k[1] = c
        BY <1>2, <3>1, <4>1 DEF UploadsStay
      <4>2. CASE k[1] # c
        <5>1. sv'[k] = sv[k] /\ up'[k] = up[k]
          BY <4>2, OtherConn
        <5> QED
          BY <3>1, <5>1 DEF Uploads
      <4> QED
        BY <4>1, <4>2
    <3> QED
      BY <3>2 DEF OnItsWay
  <2> QED
    BY <1>2, <2>1, <2>2, <2>3 DEF OnItsWay
<1>3. RowInv'
  <2> SUFFICES ASSUME NEW r \in rows', Kept(r.md5)', NEW i \in {1, 2}, i = 1 \/ r.part[2] # 0
               PROVE  Parted(r) /\ (HasContent(r.s[i], r.md5) \/ OnItsWay(r.s[i], r.md5))'
    BY DEF RowInv, Parted
  <2>1. PICK s \in Servers, m \in Md5s : s = r.s[i] /\ m = r.md5
    BY DEF Types, ServerTypes, Rows, Pairs, Servers
  <2>2. CASE r \in rows
    <3>1. Parted(r) /\ (HasContent(r.s[i], r.md5) \/ OnItsWay(r.s[i], r.md5))
      BY <1>b, <1>c, <2>2 DEF RowInv
    <3>2. (HasContent(s, m) \/ OnItsWay(s, m))'
      BY <1>2, <2>1, <3>1
    <3> QED
      BY <2>1, <3>1, <3>2
  <2>3. CASE r \notin rows
    <3>1. Parted(r) /\ Owing(c)' /\ cl'[c].row = r
      BY <2>3 DEF NewRow
    <3>2. i \in Nth(c)'
      BY <3>1 DEF Nth
    <3>3. OnItsWay(s, m)'
      BY <2>1, <3>1, <3>2 DEF OnItsWay
    <3> QED
      BY <2>1, <3>1, <3>3
  <2> QED
    BY <2>2, <2>3
<1>4. ASSUME NEW d \in Clients, d # c PROVE PutClient(d)'
  <2>1. /\ PutClient(d) /\ cl'[d] = cl[d] /\ Nth(d)' = Nth(d) /\ (Wired(d)' <=> Wired(d))
        /\ (Owing(d)' <=> Owing(d))
    BY <1>4, <1>b, OtherClient
  <2> SUFFICES ASSUME Owing(d) \/ cl[d].at = "sizes", Kept(cl[d].row.md5), Wired(d), NEW i \in Nth(d)
               PROVE  PutConn(d, i, K(d, i), cl[d].row.md5)'
    <3>1. Kept(cl[d].row.md5)' => Kept(cl[d].row.md5)
      BY <2>1 DEF Kept, ClientStep
    <3> QED
      BY <2>1, <3>1 DEF PutClient, Parted
  <2>2. PICK m : m = cl[d].row.md5
    OBVIOUS
  <2>3. PICK k \in Conns : k = K(d, i) /\ k[1] = d /\ K(d, i)' = k
    <3>1. Busy1(d) /\ i \in {1, 2}
      BY NthIs DEF Wired, Busy1, Resting
    <3> QED
      BY <1>a, <1>4, <3>1, LineIs, OtherClient
  <2>4. PutConn(d, i, k, m)
    BY <2>1, <2>2, <2>3 DEF PutClient
  <2>5. sv'[k] = sv[k] /\ up'[k] = up[k] /\ Sent(d, i)' = Sent(d, i)
    BY <1>4, <2>3, OtherClient, OtherConn
  <2> QED
    BY <1>d, <2>1, <2>2, <2>3, <2>4, <2>5 DEF PutConn, HasContent, Upload, Holds
<1>5. ASSUME NEW k \in Conns, k[1] # c PROVE PutLeft(k)'
  <2>1. PutLeft(k) /\ sv'[k] = sv[k] /\ up'[k] = up[k] /\ (Current(k)' <=> Current(k))
    BY <1>5, <1>b, OtherConn
  <2> SUFFICES ASSUME ~Current(k), NEW m \in Md5s, Kept(m)', Uploads(k, m)'
               PROVE  Upload(k, m, 2 + Size(m))'
    BY <2>1 DEF PutLeft
  <2>2. Uploads(k, m)
    BY <2>1 DEF Uploads
  <2>3. Upload(k, m, 2 + Size(m))
    BY <1>c, <2>1, <2>2 DEF PutLeft
  <2> QED
    BY <1>d, <2>1, <2>3 DEF Upload, Holds
<1> QED
  BY <1>1, <1>3, <1>4, <1>5 DEF Uploaded

LEMMA DownloadingClient ==
    ASSUME Plain, Downloading, NEW c \in Clients, ClientStep(c),
           Good' => (\A k \in Conns : k[1] = c => GetThread(k)') /\ GetClient(c)'
    PROVE  Downloading'
<1>a. /\ Types /\ \A d \in Clients : LineInv(d)
  BY DEF Plain
<1>d. repo' = repo /\ alive' = alive
  BY DEF ClientStep
<1> SUFFICES ASSUME Good'
             PROVE  /\ alive' = Servers
                    /\ \A k \in Conns : GetThread(k)'
                    /\ \A d \in Clients : GetClient(d)'
  BY DEF Downloading
<1>1. Good /\ alive = Servers /\ (\A k \in Conns : GetThread(k)) /\ \A d \in Clients : GetClient(d)
  BY DEF Downloading, Good, ClientStep
<1>2. ASSUME NEW k \in Conns, k[1] # c PROVE GetThread(k)'
  <2>1. GetThread(k) /\ sv'[k] = sv[k] /\ up'[k] = up[k]
    BY <1>1, <1>2, OtherConn
  <2> QED
    BY <1>d, <2>1 DEF GetThread, HasContent
<1>3. ASSUME NEW d \in Clients, d # c PROVE GetClient(d)'
  <2>1. /\ GetClient(d) /\ cl'[d] = cl[d] /\ Nth(d)' = Nth(d) /\ (Wired(d)' <=> Wired(d))
        /\ Line(d)' = Line(d)
    BY <1>1, <1>3, OtherClient
  <2>2. ASSUME NEW i \in Nth(d), Wired(d), GetConn(d, i, K(d, i), cl[d].row.md5)
        PROVE  GetConn(d, i, K(d, i), cl[d].row.md5)'
    <3>1. PICK k \in Conns : k = K(d, i) /\ k[1] = d /\ K(d, i)' = k
      <4>1. Busy1(d) /\ i \in {1, 2}
        BY <2>2, NthIs DEF Wired, Busy1, Resting
      <4> QED
        BY <1>a, <1>3, <4>1, LineIs, OtherClient
    <3>2. sv'[k] = sv[k] /\ up'[k] = up[k] /\ down'[k] = down[k]
      BY <1>3, <3>1, OtherConn
    <3>3. Wanted(d, i)' <=> Wanted(d, i)
      BY <2>1 DEF Wanted
    <3> QED
      BY <2>1, <2>2, <3>1, <3>2, <3>3, SMTT(30) DEF GetConn, Download, PageComing
  <2> QED
    BY <1>d, <2>1, <2>2 DEF GetClient, HasContent, Parted
<1> QED
  BY <1>1, <1>2, <1>3, <1>d

LEMMA PartsClient ==
    ASSUME PartsWhole, NEW c \in Clients, ClientStep(c),
           Good' /\ ~mixed' => PartsInv(c)' /\ StageInv(c)'
    PROVE  PartsWhole'
<1> SUFFICES ASSUME Good', ~mixed', NEW d \in Clients, d # c PROVE PartsInv(d)' /\ StageInv(d)'
  BY DEF PartsWhole
<1>1. PartsInv(d) /\ StageInv(d)
  BY DEF PartsWhole, Good, ClientStep
<1>2. cl'[d] = cl[d] /\ disk'[d] = disk[d] /\ Nth(d)' = Nth(d) /\ Line(d)' = Line(d)
  BY OtherClient
<1>3. PartsInv(d)'
  BY <1>1, <1>2 DEF PartsInv
<1>4. StageInv(d)'
  <2>1. /\ (Finished(d)' <=> Finished(d))
        /\ \A i : Filled(d, i)' = Filled(d, i) /\ (Wanted(d, i)' <=> Wanted(d, i))
    BY <1>2 DEF Finished, Filled, Wanted
  <2> QED
    BY <1>1, <1>2, <2>1 DEF StageInv
<1> QED
  BY <1>3, <1>4

\* A step of a client, in its parts.
LEMMA ClientInv ==
    ASSUME IInv, NEW c \in Clients, ClientStep(c), Plain',
           UploadsStay(c), OweStays(c), NewRow(c), PutClient(c)',
           \A k \in Conns : k[1] = c => PutLeft(k)',
           Good' => (\A k \in Conns : k[1] = c => GetThread(k)') /\ GetClient(c)',
           Good' /\ ~mixed' => PartsInv(c)' /\ StageInv(c)'
    PROVE  IInv'
<1>1. Uploaded'
  BY UploadedClient DEF IInv, Plain
<1>2. Downloading'
  BY DownloadingClient DEF IInv
<1>3. PartsWhole'
  BY PartsClient DEF IInv
<1> QED
  BY <1>1, <1>2, <1>3 DEF IInv

\* An upload that is under way on a connection in use is the one of its client's line.
LEMMA CurrentUploads ==
    ASSUME Plain, NEW k \in Conns, Current(k), NEW m, Uploads(k, m)
    PROVE  /\ Line(k[1])[1] = "puts" /\ cl[k[1]].row.md5 = m /\ Line(k[1])[2] = m
           /\ Begun(k[1])
<1> DEFINE c == k[1]
           i == k[3]
<1>a. Types /\ \A d \in Clients : LineInv(d) /\ WireInv(d)
  BY DEF Plain
<1>1. k = K(c, i) /\ c \in Clients /\ i \in Nth(c) /\ Wired(c)
  BY CurrentIs DEF Current
<1>2. Wire(c, k) /\ Busy1(c)
  BY <1>a, <1>1 DEF WireInv, Wired, Busy1, Resting
<1>3. /\ Line(c) = <<Line(c)[1], cl[c].row.md5>> /\ Line(c)[1] \in {"gets", "puts"}
  BY <1>a, <1>1, <1>2, LineIs
<1>4. CASE sv[k].at \in {"puts", "size", "recv"}
  <2>1. Line(c)[1] = "puts" /\ sv[k].m = m
    BY <1>2, <1>3, <1>4 DEF Wire, Uploads
  <2>2. Begun(c)
    BY <1>1, <1>2, <1>4 DEF Wire, Begun
  <2> QED
    BY <1>2, <1>3, <1>4, <2>1, <2>2 DEF Wire, Running
<1>5. CASE sv[k].at \in {"queued", "cmd"}
  <2>1. up[k] # <<>> /\ up[k][1] = CmdWord("puts", m)
    BY <1>5 DEF Uploads
  <2>2. Begun(c)
    BY <1>1, <1>2, <2>1 DEF Wire, Begun
  <2>3. CmdWord("puts", m).v[1] = "puts" /\ CmdWord("puts", m).v[2] = m /\ CmdWord("puts", m).v = Line(c)
    BY <1>2, <1>5, <2>1, <2>2 DEF Wire, CmdWord
  <2> QED
    BY <1>3, <2>2, <2>3
<1> QED
  BY <1>4, <1>5 DEF Uploads

\* The threads do not move.
LEMMA PlainQuiet ==
    ASSUME Plain, NEW c \in Clients, ClientStep(c), sv' = sv, up' = up, que' = que, rows' \subseteq Rows,
           ClientTypes', DiskTypes', HistoryTypes', DOMAIN down' = Conns, held' \subseteq Conns,
           \A k \in Conns : down'[k] = <<>> \/ down'[k] = <<down'[k][1]>>,
           LineInv(c)', WireInv(c)', ShapeInv(c)',
           \A k \in Conns : k[1] = c /\ Unused(k)' => Unused(k),
           \A k \in Conns : k[1] = c /\ Fresh(k) => Fresh(k)'
    PROVE  Plain' /\ Types'
<1>a. /\ Types /\ QueueInv /\ PoolInv /\ \A k \in Conns : ConnInv(k)
  BY DEF Plain
<1>1. Types'
  <2>1. ServerTypes'
    BY <1>a DEF Types, ServerTypes, SvTypes, ClientStep
  <2>2. NetTypes'
    BY <1>a DEF Types, NetTypes
  <2> QED
    BY <2>1, <2>2 DEF Types
<1>2. QueueInv'
  BY <1>a DEF QueueInv
<1>3. PoolInv'
  <2>1. \A s \in Servers : Busy(s)' = Busy(s)
    BY DEF Busy, Open
  <2> QED
    BY <1>a, <2>1 DEF PoolInv
<1>4. ASSUME NEW k \in Conns, k[1] = c PROVE ConnInv(k)'
  <2>1. ConnInv(k)
    BY <1>a
  <2> QED
    BY <1>4, <2>1 DEF ConnInv, FirstWord, Open
<1> QED
  BY <1>1, <1>2, <1>3, <1>4, PlainClient

\* The client has uploaded nothing yet, and the threads do not move.
LEMMA QuietStep ==
    ASSUME IInv, NEW c \in Clients, ClientStep(c), sv' = sv, up' = up, Plain', NewRow(c),
           ~Owing(c), PutClient(c)', Wired(c) => Line(c)[1] = "gets",
           Good' => GetClient(c)',
           Good' /\ ~mixed' => PartsInv(c)' /\ StageInv(c)'
    PROVE  IInv'
<1>a. Plain /\ Uploaded /\ Downloading
  BY DEF IInv
<1>b. repo' = repo /\ \A m : Kept(m)' => Kept(m)
  BY DEF Kept, ClientStep
<1>1. UploadsStay(c)
  BY DEF UploadsStay, Uploads
<1>2. OweStays(c)
  BY DEF OweStays
<1>5. ASSUME NEW k \in Conns, k[1] = c PROVE PutLeft(k)'
  <2> SUFFICES ASSUME NEW m \in Md5s, Kept(m)', Uploads(k, m)'
               PROVE  Upload(k, m, 2 + Size(m))'
    BY DEF PutLeft
  <2>1. Uploads(k, m)
    BY DEF Uploads
  <2>2. ~Current(k)
    <3> SUFFICES ASSUME Current(k) PROVE FALSE
      OBVIOUS
    <3>1. Line(c)[1] = "puts"
      BY <1>a, <1>5, <2>1, CurrentUploads
    <3> QED
      BY <1>5, <3>1 DEF Current
  <2>3. Upload(k, m, 2 + Size(m))
    BY <1>a, <1>b, <2>1, <2>2 DEF Uploaded, PutLeft
  <2> QED
    BY <1>b, <2>3 DEF Upload, Holds
<1>6. ASSUME Good', NEW k \in Conns PROVE GetThread(k)'
  <2>1. Good
    BY <1>6 DEF Good, ClientStep
  <2>2. GetThread(k)
    BY <1>a, <2>1 DEF Downloading
  <2> QED
    BY <1>b, <2>2 DEF GetThread, HasContent
<1> QED
  BY <1>1, <1>2, <1>5, <1>6, ClientInv

\* It does not even begin to.
LEMMA NoPut ==
    ASSUME NEW c, rows' = rows, ~Owing(c)', cl'[c].at # "sizes"
    PROVE  NewRow(c) /\ PutClient(c)'
BY DEF NewRow, PutClient

\* What a client's stage says of its files, where it keeps them.
LEMMA PartsStay ==
    ASSUME NEW c, PartsInv(c), disk'[c] = disk[c]
    PROVE  PartsInv(c)'
BY DEF PartsInv

LEMMA StageFree ==
    ASSUME NEW c, cl'[c].at \notin Getting \cup {"done"} \/ cl'[c].at = "open"
    PROVE  StageInv(c)'
BY DEF StageInv, Getting, Finished

-----------------------------------------------------------------------------
(* The dialogue with the route server *)

LEMMA BeginIs ==
    ASSUME Types, NEW c \in Clients, NEW op, Begin(c, op)
    PROVE  /\ cl[c] \in ClientState /\ cl[c].at = "idle" /\ cl[c].n + 1 \in 1..MaxTries
           /\ cl[c].op \in Seq(Lines) /\ cl[c].op # <<>> /\ Tail(cl[c].op) \in Seq(Lines)
           /\ Line(c) \in Lines /\ Line(c)[1] = op /\ Line(c)[2] \in Md5s
           /\ ~Wired(c) /\ ~Owing(c)
<1>1. cl[c] \in ClientState /\ cl[c].at = "idle" /\ cl[c].n < MaxTries
  BY DEF Types, ClientTypes, Begin
<1>2. cl[c].op \in Seq(Lines) /\ cl[c].op # <<>> /\ cl[c].n \in 0..MaxTries
  BY <1>1 DEF Begin, ClientState
<1>3. cl[c].n + 1 \in 1..MaxTries
  BY <1>1, <1>2, TransferAssumption
<1>4. Line(c) \in Lines /\ Tail(cl[c].op) \in Seq(Lines)
  BY <1>2 DEF Line
<1> QED
  BY <1>1, <1>2, <1>3, <1>4 DEF Begin, Lines, Wired, Owing

\* The line is given up, as there is nothing to do.
LEMMA SkipStep ==
    ASSUME IInv, NEW c \in Clients, NEW op, Begin(c, op), cl' = [cl EXCEPT ![c].op = Tail(@)],
           early' = early, UNCHANGED <<rows, serverVars, netVars, disk, kills, route, cut, mixed>>
    PROVE  IInv'
<1>a. Plain /\ Types /\ PartsWhole
  BY DEF IInv, Plain
<1>b. /\ repo' = repo /\ alive' = alive /\ sv' = sv /\ que' = que /\ up' = up /\ down' = down
      /\ held' = held /\ rows' = rows /\ disk' = disk /\ kills' = kills /\ cut' = cut /\ mixed' = mixed
  BY DEF serverVars, netVars
<1>1. cl[c] \in ClientState /\ cl[c].at = "idle" /\ Tail(cl[c].op) \in Seq(Lines) /\ ~Wired(c) /\ ~Owing(c)
  BY <1>a, BeginIs
<1>2. /\ cl'[c].at = "idle" /\ cl'[c].n = cl[c].n
      /\ (\A d \in Clients \ {c} : cl'[d] = cl[d]) /\ ClientTypes'
  BY <1>a, <1>1 DEF Types, ClientTypes, ClientState
<1>3. ClientStep(c)
  BY <1>b, <1>2 DEF ClientStep
<1>4. LineInv(c)' /\ WireInv(c)'
  BY <1>2 DEF LineInv, Busy1, Resting, WireInv, Wired
<1>5. ShapeInv(c)'
  <2>1. ShapeInv(c)
    BY <1>a DEF Plain
  <2> QED
    BY <1>b, <1>2, <2>1 DEF ShapeInv
<1>6. Plain'
  <2>1. DiskTypes' /\ HistoryTypes' /\ rows' \subseteq Rows
    BY <1>a, <1>b DEF Types, DiskTypes, HistoryTypes, ServerTypes
  <2>2. /\ DOMAIN down' = Conns /\ held' \subseteq Conns
        /\ \A k \in Conns : down'[k] = <<>> \/ down'[k] = <<down'[k][1]>>
    BY <1>a, <1>b DEF Types, NetTypes
  <2>3. \A k \in Conns : k[1] = c /\ Unused(k)' => Unused(k)
    BY <1>1, <1>2 DEF Unused
  <2>4. \A k \in Conns : Fresh(k) => Fresh(k)'
    BY <1>b DEF Fresh
  <2> QED
    BY <1>a, <1>b, <1>2, <1>3, <1>4, <1>5, <2>1, <2>2, <2>3, <2>4, PlainQuiet
<1>7. ~Owing(c)' /\ GetClient(c)' /\ StageInv(c)'
  BY <1>2 DEF Owing, GetClient, Getting, StageInv, Finished
<1>8. Good' /\ ~mixed' => PartsInv(c)'
  BY <1>a, <1>b DEF PartsWhole, Good, PartsInv
<1> QED
  BY <1>b, <1>1, <1>2, <1>3, <1>6, <1>7, <1>8, QuietStep, NoPut

LEMMA GetsAskStep == ASSUME IInv, NEW c \in Clients, GetsAsk(c) PROVE IInv'
<1>a. Plain /\ Types /\ PartsWhole /\ Downloading
  BY DEF IInv, Plain
<1>b. /\ repo' = repo /\ alive' = alive /\ sv' = sv /\ que' = que /\ up' = up /\ down' = down
      /\ held' = held /\ rows' = rows /\ disk' = disk /\ kills' = kills /\ cut' = cut /\ mixed' = mixed
      /\ route' = route
  BY DEF GetsAsk, serverVars, netVars
<1>c. Begin(c, "gets")
  BY DEF GetsAsk
<1>1. CASE cl' = [cl EXCEPT ![c].op = Tail(@)] /\ early' = early
  BY <1>b, <1>c, <1>1, SkipStep DEF serverVars, netVars
<1>2. ASSUME NEW r \in rows, r.md5 = Line(c)[2], early' = (early \/ ~Complete(r)),
             cl' = [cl EXCEPT ![c].at = "connect", ![c].n = @ + 1, ![c].row = r]
      PROVE  IInv'
  <2>1. /\ cl[c] \in ClientState /\ cl[c].at = "idle" /\ cl[c].n + 1 \in 1..MaxTries
        /\ cl[c].op # <<>> /\ Line(c)[1] = "gets" /\ ~Wired(c) /\ ~Owing(c)
        /\ r \in Rows
    BY <1>a, <1>c, BeginIs DEF Types, ServerTypes
  <2>2. cl \in [Clients -> ClientState]
    BY <1>a DEF Types, ClientTypes
  <2>3. /\ cl'[c].at = "connect" /\ cl'[c].n = cl[c].n + 1 /\ cl'[c].row = r /\ cl'[c].op = cl[c].op
        /\ (\A d \in Clients \ {c} : cl'[d] = cl[d])
    BY <1>2, <2>1, <2>2 DEF ClientState
  <2>4. ClientTypes'
    <3>1. cl[c].n + 1 \in 0..MaxTries /\ "connect" \in Stages
      BY <2>1 DEF Stages
    <3> QED
      BY <1>2, <2>1, <2>2, <3>1 DEF ClientTypes, ClientState
  <2>5. ClientStep(c)
    BY <1>b, <1>2, <2>3 DEF ClientStep
  <2>6. Line(c)' = Line(c)
    BY <2>3 DEF Line
  <2>7. LineInv(c)' /\ WireInv(c)'
    BY <1>2, <2>1, <2>3, <2>6 DEF LineInv, Getting, Putting, WireInv, Wired
  <2>8. ShapeInv(c)'
    <3>1. ShapeInv(c)
      BY <1>a DEF Plain
    <3> QED
      BY <1>b, <2>3, <3>1 DEF ShapeInv
  <2>9. Plain'
    <3>1. DiskTypes' /\ HistoryTypes' /\ rows' \subseteq Rows
      BY <1>a, <1>b, <1>2 DEF Types, DiskTypes, HistoryTypes, ServerTypes
    <3>2. /\ DOMAIN down' = Conns /\ held' \subseteq Conns
          /\ \A k \in Conns : down'[k] = <<>> \/ down'[k] = <<down'[k][1]>>
      BY <1>a, <1>b DEF Types, NetTypes
    <3>3. \A k \in Conns : k[1] = c /\ Unused(k)' => Unused(k)
      <4>1. cl[c].n \in Nat
        BY <2>1, TransferAssumption DEF ClientState
      <4>2. \A k \in Conns : k[2] \in Nat
        BY ConnIs, TransferAssumption
      <4> QED
        BY <2>3, <4>1, <4>2 DEF Unused
    <3>4. \A k \in Conns : Fresh(k) => Fresh(k)'
      BY <1>b DEF Fresh
    <3> QED
      BY <1>a, <1>b, <2>4, <2>5, <2>7, <2>8, <3>1, <3>2, <3>3, <3>4, PlainQuiet
  <2>10. ~Owing(c)' /\ StageInv(c)'
    BY <2>1, <2>3, <2>6 DEF Owing, Getting, StageInv, Finished
  <2>11. Good' => GetClient(c)'
    <3> SUFFICES ASSUME Good' PROVE GetClient(c)'
      OBVIOUS
    <3>1. Complete(r)
      BY <1>2 DEF Good
    <3>2. Nth(c)' = IF r.part[2] = 0 THEN {1} ELSE {1, 2}
      BY <2>3 DEF Nth
    <3> QED
      BY <1>b, <2>3, <3>1, <3>2 DEF GetClient, Complete, Parted, HasContent, Wired, Getting
  <2>12. Good' /\ ~mixed' => PartsInv(c)'
    BY <1>a, <1>b, <1>2 DEF PartsWhole, Good, PartsInv
  <2> QED
    BY <1>b, <2>1, <2>3, <2>5, <2>9, <2>10, <2>11, <2>12, QuietStep, NoPut
<1> QED
  BY <1>1, <1>2 DEF GetsAsk

LEMMA PairIs ==
    ASSUME NEW S, NEW a \in S, NEW b \in S
    PROVE  <<a, b>> \in [{1, 2} -> S] /\ <<a, b>>[1] = a /\ <<a, b>>[2] = b
<1>1. DOMAIN <<a, b>> = {1, 2}
  OBVIOUS
<1>2. <<a, b>> = [i \in {1, 2} |-> IF i = 1 THEN a ELSE b]
  BY <1>1
<1> QED
  BY <1>2

LEMMA RowIs ==
    ASSUME NEW m \in Md5s, NEW s \in Pairs, NEW r, r = Row(m, s, Part1(m), Part2(m))
    PROVE  r \in Rows /\ r.md5 = m /\ r.s = s /\ Parted(r)
<1>1. <<Part1(m), Part2(m)>> \in Pair
  BY PartsAre, PairIs DEF Pair
<1> QED
  BY <1>1 DEF Row, Rows, Parted

LEMMA PutsAskStep == ASSUME IInv, NEW c \in Clients, PutsAsk(c) PROVE IInv'
<1>a. Plain /\ Types /\ PartsWhole /\ Downloading
  BY DEF IInv, Plain
<1>b. /\ repo' = repo /\ alive' = alive /\ sv' = sv /\ que' = que /\ up' = up /\ down' = down
      /\ held' = held /\ rows' = rows /\ disk' = disk /\ kills' = kills /\ cut' = cut /\ mixed' = mixed
      /\ route' = route /\ early' = early
  BY DEF PutsAsk, serverVars, netVars, history
<1>c. Begin(c, "puts")
  BY DEF PutsAsk
<1>1. CASE cl' = [cl EXCEPT ![c].op = Tail(@)]
  BY <1>b, <1>c, <1>1, SkipStep DEF serverVars, netVars
<1>2. ASSUME NEW s \in Pairs,
             cl' = [cl EXCEPT ![c].at = "sizes", ![c].n = @ + 1,
                              ![c].row = Row(Line(c)[2], s, Part1(Line(c)[2]), Part2(Line(c)[2]))]
      PROVE  IInv'
  <2>0. PICK r : r = Row(Line(c)[2], s, Part1(Line(c)[2]), Part2(Line(c)[2]))
    OBVIOUS
  <2>1. /\ cl[c] \in ClientState /\ cl[c].at = "idle" /\ cl[c].n + 1 \in 1..MaxTries
        /\ cl[c].op # <<>> /\ Line(c)[1] = "puts" /\ ~Wired(c) /\ ~Owing(c)
        /\ r \in Rows /\ r.md5 = Line(c)[2] /\ Parted(r)
    BY <1>a, <1>c, <2>0, BeginIs, RowIs
  <2>2. cl \in [Clients -> ClientState]
    BY <1>a DEF Types, ClientTypes
  <2>e. cl' = [cl EXCEPT ![c].at = "sizes", ![c].n = @ + 1, ![c].row = r]
    BY <1>2, <2>0
  <2>3. /\ cl'[c].at = "sizes" /\ cl'[c].n = cl[c].n + 1 /\ cl'[c].row = r /\ cl'[c].op = cl[c].op
        /\ (\A d \in Clients \ {c} : cl'[d] = cl[d])
    BY <2>e, <2>1, <2>2 DEF ClientState
  <2>4. ClientTypes'
    <3>1. cl[c].n + 1 \in 0..MaxTries /\ "sizes" \in Stages
      BY <2>1 DEF Stages, Putting
    <3> QED
      BY <2>e, <2>1, <2>2, <3>1 DEF ClientTypes, ClientState
  <2>5. ClientStep(c)
    BY <1>b, <2>3 DEF ClientStep
  <2>6. Line(c)' = Line(c)
    BY <2>3 DEF Line
  <2>7. LineInv(c)' /\ WireInv(c)'
    BY <2>1, <2>3, <2>6 DEF LineInv, Getting, Putting, WireInv, Wired
  <2>8. ShapeInv(c)'
    <3>1. ShapeInv(c)
      BY <1>a DEF Plain
    <3> QED
      BY <1>b, <2>3, <3>1 DEF ShapeInv
  <2>9. Plain'
    <3>1. DiskTypes' /\ HistoryTypes' /\ rows' \subseteq Rows
      BY <1>a, <1>b DEF Types, DiskTypes, HistoryTypes, ServerTypes
    <3>2. /\ DOMAIN down' = Conns /\ held' \subseteq Conns
          /\ \A k \in Conns : down'[k] = <<>> \/ down'[k] = <<down'[k][1]>>
      BY <1>a, <1>b DEF Types, NetTypes
    <3>3. \A k \in Conns : k[1] = c /\ Unused(k)' => Unused(k)
      <4>1. cl[c].n \in Nat
        BY <2>1, TransferAssumption DEF ClientState
      <4>2. \A k \in Conns : k[2] \in Nat
        BY ConnIs, TransferAssumption
      <4> QED
        BY <2>3, <4>1, <4>2 DEF Unused
    <3>4. \A k \in Conns : Fresh(k) => Fresh(k)'
      BY <1>b DEF Fresh
    <3> QED
      BY <1>a, <1>b, <2>4, <2>5, <2>7, <2>8, <3>1, <3>2, <3>3, <3>4, PlainQuiet
  <2>10. GetClient(c)' /\ StageInv(c)'
    BY <2>1, <2>3, <2>6 DEF GetClient, Getting, StageInv, Finished
  <2>11. PutClient(c)'
    <3>1. Parted(cl[c].row)'
      BY <2>1, <2>3 DEF Parted
    <3> QED
      BY <2>3, <3>1 DEF PutClient, Wired
  <2>12. Good' /\ ~mixed' => PartsInv(c)'
    BY <1>a, <1>b DEF PartsWhole, Good, PartsInv
  <2>13. NewRow(c)
    BY <1>b DEF NewRow
  <2> QED
    BY <1>b, <2>1, <2>5, <2>9, <2>10, <2>11, <2>12, <2>13, QuietStep
<1> QED
  BY <1>1, <1>2 DEF PutsAsk

LEMMA PutsSizesStep == ASSUME IInv, NEW c \in Clients, PutsSizes(c) PROVE IInv'
<1>a. Plain /\ Types /\ PartsWhole /\ Downloading /\ Uploaded
  BY DEF IInv, Plain
<1>b. /\ repo' = repo /\ alive' = alive /\ sv' = sv /\ que' = que /\ up' = up /\ down' = down
      /\ held' = held /\ disk' = disk /\ kills' = kills /\ cut' = cut /\ mixed' = mixed
      /\ early' = early
  BY DEF PutsSizes, serverVars, netVars, history
<1>c. cl[c].at = "sizes" /\ rows' = rows \cup {cl[c].row} /\ cl' = [cl EXCEPT ![c].at = "connect"]
  BY DEF PutsSizes, Goto
<1>1. cl \in [Clients -> ClientState] /\ cl[c] \in ClientState
  BY <1>a DEF Types, ClientTypes
<1>2. /\ cl'[c].at = "connect" /\ cl'[c].n = cl[c].n /\ cl'[c].row = cl[c].row
      /\ cl'[c].op = cl[c].op /\ (\A d \in Clients \ {c} : cl'[d] = cl[d]) /\ ClientTypes'
  BY <1>c, <1>1 DEF ClientState, ClientTypes, Stages
<1>3. LineInv(c) /\ Busy1(c)
  BY <1>a, <1>c DEF Plain, Busy1, Resting
<1>4. ClientStep(c)
  BY <1>b, <1>c, <1>2 DEF ClientStep
<1>5. Line(c)' = Line(c) /\ Line(c)[1] = "puts" /\ cl[c].row \in Rows
  BY <1>2, <1>3, <1>c DEF Line, LineInv, Putting
<1>6. LineInv(c)' /\ WireInv(c)'
  BY <1>2, <1>3, <1>5 DEF LineInv, Getting, Putting, WireInv, Wired, Busy1
<1>7. ShapeInv(c)'
  <2>1. ShapeInv(c)
    BY <1>a DEF Plain
  <2> QED
    BY <1>b, <1>2, <2>1 DEF ShapeInv
<1>8. Plain'
  <2>1. DiskTypes' /\ HistoryTypes' /\ rows' \subseteq Rows
    BY <1>a, <1>b, <1>c, <1>5 DEF Types, DiskTypes, HistoryTypes, ServerTypes
  <2>2. /\ DOMAIN down' = Conns /\ held' \subseteq Conns
        /\ \A k \in Conns : down'[k] = <<>> \/ down'[k] = <<down'[k][1]>>
    BY <1>a, <1>b DEF Types, NetTypes
  <2>3. \A k \in Conns : k[1] = c /\ Unused(k)' => Unused(k)
    BY <1>c, <1>2 DEF Unused
  <2>4. \A k \in Conns : Fresh(k) => Fresh(k)'
    BY <1>b DEF Fresh
  <2> QED
    BY <1>a, <1>b, <1>2, <1>4, <1>6, <1>7, <2>1, <2>2, <2>3, <2>4, PlainQuiet
<1>9. ~Owing(c) /\ ~Wired(c) /\ GetClient(c)' /\ StageInv(c)'
  BY <1>c, <1>2, <1>5 DEF Owing, Wired, GetClient, Getting, StageInv, Finished
<1>10. Kept(cl[c].row.md5)' => Parted(cl[c].row)
  <2>1. Kept(cl[c].row.md5)' => Kept(cl[c].row.md5)
    BY <1>b, <1>2 DEF Kept
  <2> QED
    <3>1. PutClient(c)
      BY <1>a DEF Uploaded
    <3>2. Kept(cl[c].row.md5) => Parted(cl[c].row)
      BY <1>c, <3>1 DEF PutClient
    <3> QED
      BY <2>1, <3>2
<1>11. PutClient(c)'
  BY <1>2, <1>10 DEF PutClient, Wired, Parted, Kept
<1>12. NewRow(c)
  BY <1>c, <1>2, <1>5, <1>10 DEF NewRow, Owing
<1>13. Good' /\ ~mixed' => PartsInv(c)'
  BY <1>a, <1>b DEF PartsWhole, Good, PartsInv
<1> QED
  BY <1>b, <1>4, <1>8, <1>9, <1>11, <1>12, <1>13, QuietStep

-----------------------------------------------------------------------------
(* What a client does to its files *)

SetFile(c, a) == disk' = [disk EXCEPT ![c].file = a]
SetParts(c, a) == disk' = [disk EXCEPT ![c].t = a]
SetPartsOf(c, a, b) == disk' = [disk EXCEPT ![c].t = a, ![c].of = b]
SetFilePart(c, a, x) == disk' = [disk EXCEPT ![c].file = a, ![c].t[1] = x]
SetPart(c, n, x) == disk' = [disk EXCEPT ![c].t[n] = x]
SetPartOf(c, n, x, b) == disk' = [disk EXCEPT ![c].t[n] = x, ![c].of = b]

LEMMA PairPut ==
    ASSUME NEW t, t = [i \in {1, 2} |-> t[i]], NEW x, NEW n \in {1, 2}, NEW u, u = [t EXCEPT ![n] = x]
    PROVE  u[n] = x /\ (\A i \in {1, 2} : i # n => u[i] = t[i]) /\ u = [i \in {1, 2} |-> u[i]]
<1>1. DOMAIN t = {1, 2}
  OBVIOUS
<1>2. u = [i \in {1, 2} |-> IF i = n THEN x ELSE t[i]]
  BY <1>1
<1> QED
  BY <1>2

LEMMA DiskPut ==
    ASSUME DiskTypes, NEW c \in Clients, NEW a, NEW b, NEW o, b = [i \in {1, 2} |-> b[i]],
           disk' = [disk EXCEPT ![c] = [file |-> a, t |-> b, of |-> o]]
    PROVE  /\ disk'[c].file = a /\ disk'[c].t = b /\ disk'[c].of = o
           /\ (\A d \in Clients \ {c} : disk'[d] = disk[d]) /\ DiskTypes'
BY DEF DiskTypes

LEMMA DiskIs ==
    ASSUME DiskTypes, NEW c \in Clients
    PROVE  /\ disk[c] = [file |-> disk[c].file, t |-> disk[c].t, of |-> disk[c].of]
           /\ disk[c].t = [i \in {1, 2} |-> disk[c].t[i]]
BY DEF DiskTypes

LEMMA DiskFile ==
    ASSUME DiskTypes, NEW c \in Clients, NEW a, SetFile(c, a)
    PROVE  /\ disk'[c].file = a /\ disk'[c].t = disk[c].t /\ disk'[c].of = disk[c].of
           /\ (\A d \in Clients \ {c} : disk'[d] = disk[d]) /\ DiskTypes'
<1> DEFINE f == disk[c].file
           t == disk[c].t
           o == disk[c].of
<1>1. disk[c] = [file |-> f, t |-> t, of |-> o] /\ t = [i \in {1, 2} |-> t[i]]
  BY DiskIs
<1>2. [disk[c] EXCEPT !.file = a] = [file |-> a, t |-> t, of |-> o]
  BY <1>1
<1>3. disk' = [disk EXCEPT ![c] = [file |-> a, t |-> t, of |-> o]]
  BY <1>2 DEF SetFile
<1> HIDE DEF f, t, o
<1>4. /\ disk'[c].file = a /\ disk'[c].t = t /\ disk'[c].of = o
      /\ (\A d \in Clients \ {c} : disk'[d] = disk[d]) /\ DiskTypes'
  BY <1>1, <1>3, DiskPut
<1> QED
  BY <1>1, <1>4 DEF f, t, o

LEMMA DiskParts ==
    ASSUME DiskTypes, NEW c \in Clients, NEW a, a = [i \in {1, 2} |-> a[i]],
           SetParts(c, a)
    PROVE  /\ disk'[c].file = disk[c].file /\ disk'[c].t = a /\ disk'[c].of = disk[c].of
           /\ (\A d \in Clients \ {c} : disk'[d] = disk[d]) /\ DiskTypes'
<1> DEFINE f == disk[c].file
           t == disk[c].t
           o == disk[c].of
<1>1. disk[c] = [file |-> f, t |-> t, of |-> o] /\ t = [i \in {1, 2} |-> t[i]]
  BY DiskIs
<1>2. [disk[c] EXCEPT !.t = a] = [file |-> f, t |-> a, of |-> o]
  BY <1>1
<1>3. disk' = [disk EXCEPT ![c] = [file |-> f, t |-> a, of |-> o]]
  BY <1>2 DEF SetParts
<1> HIDE DEF f, t, o
<1>4. /\ disk'[c].file = f /\ disk'[c].t = a /\ disk'[c].of = o
      /\ (\A d \in Clients \ {c} : disk'[d] = disk[d]) /\ DiskTypes'
  BY <1>3, DiskPut
<1> QED
  BY <1>1, <1>4 DEF f, t, o

LEMMA DiskPart ==
    ASSUME DiskTypes, NEW c \in Clients, NEW n \in {1, 2}, NEW x, SetPart(c, n, x)
    PROVE  /\ disk'[c].file = disk[c].file /\ disk'[c].of = disk[c].of
           /\ disk'[c].t[n] = x /\ \A i \in {1, 2} : i # n => disk'[c].t[i] = disk[c].t[i]
           /\ (\A d \in Clients \ {c} : disk'[d] = disk[d]) /\ DiskTypes'
<1>1. PICK u : u = [disk[c].t EXCEPT ![n] = x]
  OBVIOUS
<1>2. disk[c].t = [i \in {1, 2} |-> disk[c].t[i]]
  BY DEF DiskTypes
<1>3. u[n] = x /\ (\A i \in {1, 2} : i # n => u[i] = disk[c].t[i]) /\ u = [i \in {1, 2} |-> u[i]]
  BY <1>1, <1>2, PairPut
<1>4. SetParts(c, u)
  BY <1>1 DEF SetPart, SetParts
<1>5. /\ disk'[c].file = disk[c].file /\ disk'[c].t = u /\ disk'[c].of = disk[c].of
      /\ (\A d \in Clients \ {c} : disk'[d] = disk[d]) /\ DiskTypes'
  BY <1>3, <1>4, DiskParts
<1> QED
  BY <1>3, <1>5

LEMMA DiskPartsOf ==
    ASSUME DiskTypes, NEW c \in Clients, NEW a, NEW b, a = [i \in {1, 2} |-> a[i]],
           SetPartsOf(c, a, b)
    PROVE  /\ disk'[c].file = disk[c].file /\ disk'[c].t = a /\ disk'[c].of = b
           /\ (\A d \in Clients \ {c} : disk'[d] = disk[d]) /\ DiskTypes'
<1> DEFINE f == disk[c].file
           t == disk[c].t
           o == disk[c].of
<1>1. disk[c] = [file |-> f, t |-> t, of |-> o] /\ t = [i \in {1, 2} |-> t[i]]
  BY DiskIs
<1>2. PICK D : D = [disk EXCEPT ![c].t = a]
  OBVIOUS
<1>3. [disk[c] EXCEPT !.t = a] = [file |-> f, t |-> a, of |-> o]
  BY <1>1
<1>4. D = [disk EXCEPT ![c] = [file |-> f, t |-> a, of |-> o]]
  BY <1>2, <1>3
<1>5. disk' = [D EXCEPT ![c].of = b]
  BY <1>2 DEF SetPartsOf
<1>6. disk' = [disk EXCEPT ![c] = [file |-> f, t |-> a, of |-> b]]
  <2>1. D[c] = [file |-> f, t |-> a, of |-> o]
    BY <1>4 DEF DiskTypes
  <2>2. [D[c] EXCEPT !.of = b] = [file |-> f, t |-> a, of |-> b]
    BY <2>1
  <2>3. disk' = [D EXCEPT ![c] = [file |-> f, t |-> a, of |-> b]]
    BY <1>5, <2>2
  <2> QED
    BY <1>4, <2>3 DEF DiskTypes
<1> HIDE DEF f, t, o
<1>7. /\ disk'[c].file = f /\ disk'[c].t = a /\ disk'[c].of = b
      /\ (\A d \in Clients \ {c} : disk'[d] = disk[d]) /\ DiskTypes'
  BY <1>6, DiskPut
<1> QED
  BY <1>1, <1>7 DEF f, t, o

LEMMA DiskPartOf ==
    ASSUME DiskTypes, NEW c \in Clients, NEW n \in {1, 2}, NEW x, NEW b,
           SetPartOf(c, n, x, b)
    PROVE  /\ disk'[c].file = disk[c].file /\ disk'[c].of = b
           /\ disk'[c].t[n] = x /\ \A i \in {1, 2} : i # n => disk'[c].t[i] = disk[c].t[i]
           /\ (\A d \in Clients \ {c} : disk'[d] = disk[d]) /\ DiskTypes'
<1>1. PICK u : u = [disk[c].t EXCEPT ![n] = x]
  OBVIOUS
<1>2. disk[c].t = [i \in {1, 2} |-> disk[c].t[i]]
  BY DEF DiskTypes
<1>3. u[n] = x /\ (\A i \in {1, 2} : i # n => u[i] = disk[c].t[i]) /\ u = [i \in {1, 2} |-> u[i]]
  BY <1>1, <1>2, PairPut
<1>4. SetPartsOf(c, u, b)
  BY <1>1 DEF SetPartOf, SetPartsOf
<1>5. /\ disk'[c].file = disk[c].file /\ disk'[c].t = u /\ disk'[c].of = b
      /\ (\A d \in Clients \ {c} : disk'[d] = disk[d]) /\ DiskTypes'
  BY <1>3, <1>4, DiskPartsOf
<1> QED
  BY <1>3, <1>5

LEMMA DiskFilePart ==
    ASSUME DiskTypes, NEW c \in Clients, NEW a, NEW x,
           SetFilePart(c, a, x)
    PROVE  /\ disk'[c].file = a /\ disk'[c].of = disk[c].of
           /\ disk'[c].t[1] = x /\ disk'[c].t[2] = disk[c].t[2]
           /\ (\A d \in Clients \ {c} : disk'[d] = disk[d]) /\ DiskTypes'
<1> DEFINE f == disk[c].file
           t == disk[c].t
           o == disk[c].of
<1>1. disk[c] = [file |-> f, t |-> t, of |-> o] /\ t = [i \in {1, 2} |-> t[i]]
  BY DiskIs
<1>2. PICK D : D = [disk EXCEPT ![c].file = a]
  OBVIOUS
<1>3. [disk[c] EXCEPT !.file = a] = [file |-> a, t |-> t, of |-> o]
  BY <1>1
<1>4. D = [disk EXCEPT ![c] = [file |-> a, t |-> t, of |-> o]]
  BY <1>2, <1>3
<1>5. D[c] = [file |-> a, t |-> t, of |-> o] /\ D[c].t = t
  BY <1>4 DEF DiskTypes
<1>6. PICK u : u = [t EXCEPT ![1] = x]
  OBVIOUS
<1>7. u[1] = x /\ u[2] = t[2] /\ u = [i \in {1, 2} |-> u[i]]
  <2>1. 1 \in {1, 2} /\ 2 \in {1, 2} /\ 2 # 1
    OBVIOUS
  <2>2. u[1] = x /\ (\A i \in {1, 2} : i # 1 => u[i] = t[i]) /\ u = [i \in {1, 2} |-> u[i]]
    BY <1>1, <1>6, <2>1, PairPut
  <2> QED
    BY <2>1, <2>2
<1>8. disk' = [D EXCEPT ![c].t[1] = x]
  BY <1>2 DEF SetFilePart
<1>9. [D[c].t EXCEPT ![1] = x] = u
  BY <1>5, <1>6
<1>10. disk' = [D EXCEPT ![c].t = u]
  BY <1>8, <1>9
<1>11. [D[c] EXCEPT !.t = u] = [file |-> a, t |-> u, of |-> o]
  BY <1>5
<1>12. disk' = [D EXCEPT ![c] = [file |-> a, t |-> u, of |-> o]]
  BY <1>10, <1>11
<1>13. disk' = [disk EXCEPT ![c] = [file |-> a, t |-> u, of |-> o]]
  BY <1>4, <1>12 DEF DiskTypes
<1> HIDE DEF f, t, o
<1>14. /\ disk'[c].file = a /\ disk'[c].t = u /\ disk'[c].of = o
       /\ (\A d \in Clients \ {c} : disk'[d] = disk[d]) /\ DiskTypes'
  BY <1>7, <1>13, DiskPut
<1> QED
  BY <1>1, <1>7, <1>14 DEF f, t, o

-----------------------------------------------------------------------------
(* A client fetches what a server has sent, and puts its files in order *)

\* Nothing goes to a server.
LEMMA OwnStep ==
    ASSUME IInv, NEW c \in Clients, cl[c].at \in Getting \cup {"done"},
           UNCHANGED <<rows, serverVars, up, kills, route, history>>,
           ClientTypes', \A d \in Clients \ {c} : cl'[d] = cl[d],
           cl'[c].n = cl[c].n, cl'[c].at \in Getting \cup {"done", "idle"},
           DiskTypes', \A d \in Clients \ {c} : disk'[d] = disk[d],
           DOMAIN down' = Conns, \A k \in Conns : down'[k] = down[k] \/ (k[1] = c /\ down'[k] = <<>>),
           held' \subseteq held, \A k \in held : k[1] # c => k \in held',
           LineInv(c)', WireInv(c)', ShapeInv(c)', Good => GetClient(c)',
           Good /\ ~mixed /\ PartsInv(c) /\ StageInv(c) => PartsInv(c)' /\ StageInv(c)'
    PROVE  IInv'
<1>a. Plain /\ Types /\ PartsWhole /\ LineInv(c)
  BY DEF IInv, Plain
<1>b. /\ repo' = repo /\ alive' = alive /\ sv' = sv /\ que' = que /\ up' = up
      /\ rows' = rows /\ kills' = kills /\ cut' = cut /\ mixed' = mixed /\ early' = early
  BY DEF serverVars, history
<1>1. ClientStep(c)
  BY <1>b DEF ClientStep
<1>2. Plain'
  <2>1. HistoryTypes' /\ rows' \subseteq Rows
    BY <1>a, <1>b DEF Types, HistoryTypes, ServerTypes
  <2>2. /\ held' \subseteq Conns /\ \A k \in Conns : down'[k] = <<>> \/ down'[k] = <<down'[k][1]>>
    BY <1>a DEF Types, NetTypes
  <2>3. \A k \in Conns : k[1] = c /\ Unused(k)' => Unused(k)
    BY DEF Unused, Getting
  <2>4. \A k \in Conns : Fresh(k) => Fresh(k)'
    BY <1>b DEF Fresh
  <2> QED
    BY <1>a, <1>b, <1>1, <2>1, <2>2, <2>3, <2>4, PlainQuiet
<1>3. ~Owing(c) /\ ~Owing(c)' /\ cl'[c].at # "sizes"
  BY DEF Owing, Getting
<1>4. Wired(c) => Line(c)[1] = "gets"
  BY <1>a DEF Wired, LineInv, Busy1, Resting, Getting
<1>5. (Good' <=> Good) /\ mixed' = mixed
  BY <1>b DEF Good
<1>6. Good /\ ~mixed => PartsInv(c) /\ StageInv(c)
  BY <1>a DEF PartsWhole
<1> QED
  BY <1>b, <1>1, <1>2, <1>3, <1>4, <1>5, <1>6, QuietStep, NoPut

\* Only the stage changes.
LEMMA GotoIs ==
    ASSUME Types, NEW c \in Clients, NEW at \in Stages, Goto(c, at)
    PROVE  /\ cl'[c].at = at /\ cl'[c].n = cl[c].n /\ cl'[c].op = cl[c].op /\ cl'[c].row = cl[c].row
           /\ cl'[c].off = cl[c].off /\ cl'[c].pos = cl[c].pos /\ cl'[c].over = cl[c].over
           /\ (\A d \in Clients \ {c} : cl'[d] = cl[d]) /\ ClientTypes'
           /\ Line(c)' = Line(c) /\ Nth(c)' = Nth(c) /\ \A i : K(c, i)' = K(c, i)
<1>1. cl \in [Clients -> ClientState] /\ cl[c] \in ClientState
  BY DEF Types, ClientTypes
<1>2. /\ cl'[c].at = at /\ cl'[c].n = cl[c].n /\ cl'[c].op = cl[c].op /\ cl'[c].row = cl[c].row
      /\ cl'[c].off = cl[c].off /\ cl'[c].pos = cl[c].pos /\ cl'[c].over = cl[c].over
      /\ (\A d \in Clients \ {c} : cl'[d] = cl[d])
  BY <1>1 DEF Goto, ClientState
<1>3. ClientTypes'
  BY <1>1 DEF Goto, ClientTypes, ClientState
<1> QED
  BY <1>2, <1>3 DEF Line, Nth, K

LEMMA CloseIs ==
    ASSUME Types, NEW c \in Clients, LineInv(c), Busy1(c), Close(c)
    PROVE  /\ DOMAIN down' = Conns
           /\ \A k \in Conns : down'[k] = down[k] \/ (k[1] = c /\ down'[k] = <<>>)
           /\ held' \subseteq held /\ \A k \in held : k[1] # c => k \in held'
<1>1. \A i \in Nth(c) : K(c, i)[1] = c
  BY LineIs, NthIs
<1> DEFINE ks == IF Line(c)[1] = "gets" THEN {K(c, i) : i \in Nth(c)} ELSE {}
<1>2. \A k \in ks : k[1] = c
  BY <1>1
<1>3. held' = held \ ks /\ down' = [k \in Conns |-> IF k \in ks THEN <<>> ELSE down[k]]
  BY DEF Close
<1> HIDE DEF ks
<1> QED
  BY <1>2, <1>3

LEMMA FinishStep == ASSUME IInv, NEW c \in Clients, Finish(c) PROVE IInv'
<1>a. Plain /\ Types /\ LineInv(c) /\ ShapeInv(c)
  BY DEF IInv, Plain
<1>b. /\ cl[c].at = "done" /\ Close(c) /\ disk' = disk
      /\ cl' = [cl EXCEPT ![c].at = "idle", ![c].op = Tail(@), ![c].row = NULL,
                          ![c].off = <<0, 0>>, ![c].pos = <<0, 0>>, ![c].over = {}]
  BY DEF Finish
<1>1. cl \in [Clients -> ClientState] /\ cl[c] \in ClientState
  BY <1>a DEF Types, ClientTypes
<1>2. Busy1(c) /\ Tail(cl[c].op) \in Seq(Lines) /\ <<0, 0>> \in Pair
  BY <1>a, <1>b, LineIs, PairIs DEF Busy1, Resting, Pair
<1>3. /\ cl'[c].at = "idle" /\ cl'[c].n = cl[c].n /\ (\A d \in Clients \ {c} : cl'[d] = cl[d])
  BY <1>b, <1>1 DEF ClientState
<1>4. ClientTypes'
  <2>1. "idle" \in Stages /\ {} \in SUBSET {1, 2}
    BY DEF Stages, Resting
  <2> QED
    BY <1>b, <1>1, <1>2, <2>1 DEF ClientTypes, ClientState
<1>5. /\ DOMAIN down' = Conns
      /\ \A k \in Conns : down'[k] = down[k] \/ (k[1] = c /\ down'[k] = <<>>)
      /\ held' \subseteq held /\ \A k \in held : k[1] # c => k \in held'
  BY <1>a, <1>b, <1>2, CloseIs
<1>6. LineInv(c)' /\ WireInv(c)' /\ GetClient(c)' /\ StageInv(c)'
  BY <1>3 DEF LineInv, Busy1, Resting, WireInv, Wired, GetClient, Getting, StageInv, Finished
<1>7. ShapeInv(c)'
  BY <1>a, <1>b, <1>3 DEF ShapeInv
<1>8. DiskTypes'
  BY <1>a, <1>b DEF Types, DiskTypes
<1>9. PartsInv(c) => PartsInv(c)'
  BY <1>b DEF PartsInv
<1>10. UNCHANGED <<rows, serverVars, up, kills, route, history>>
  BY DEF Finish
<1> QED
  BY <1>b, <1>3, <1>4, <1>5, <1>6, <1>7, <1>8, <1>9, <1>10, OwnStep

LEMMA RenameStep == ASSUME IInv, NEW c \in Clients, Rename(c) PROVE IInv'
<1>a. Plain /\ Types /\ LineInv(c) /\ ShapeInv(c) /\ Downloading
  BY DEF IInv, Plain
<1>b. /\ cl[c].at = "rename" /\ Goto(c, "unlink") /\ UNCHANGED netVars
      /\ disk' = [disk EXCEPT ![c].file = disk[c].t[1], ![c].t[1] = NULL]
      /\ UNCHANGED <<rows, serverVars, up, kills, route, history>>
  BY DEF Rename, netVars
<1>1. /\ cl'[c].at = "unlink" /\ cl'[c].n = cl[c].n /\ cl'[c].op = cl[c].op /\ cl'[c].row = cl[c].row
      /\ (\A d \in Clients \ {c} : cl'[d] = cl[d]) /\ ClientTypes'
      /\ Line(c)' = Line(c) /\ Nth(c)' = Nth(c)
  <2>1. "unlink" \in Stages
    BY DEF Stages, Getting
  <2> QED
    BY <1>a, <1>b, <2>1, GotoIs
<1>2. LineInv(c)' /\ WireInv(c)'
  BY <1>a, <1>b, <1>1 DEF LineInv, Busy1, Resting, WireInv, Wired, Getting, Putting
<1>3. PICK f, t2 : disk[c].t[1] = f /\ disk[c].t[2] = t2
  OBVIOUS
<1>4. /\ disk'[c].file = f /\ disk'[c].t[1] = NULL /\ disk'[c].t[2] = t2 /\ disk'[c].of = disk[c].of
      /\ (\A d \in Clients \ {c} : disk'[d] = disk[d]) /\ DiskTypes'
  <2>1. DiskTypes /\ SetFilePart(c, f, NULL)
    BY <1>a, <1>b, <1>3 DEF Types, SetFilePart
  <2> QED
    BY <1>3, <2>1, DiskFilePart
<1>5. ShapeInv(c)'
  BY <1>a, <1>1, <1>3, <1>4 DEF ShapeInv
<1>6. Good => GetClient(c)'
  <2>1. Good => GetClient(c)
    BY <1>a DEF Downloading
  <2>2. repo' = repo
    BY <1>b DEF serverVars
  <2> QED
    BY <1>b, <1>1, <2>1, <2>2 DEF GetClient, Getting, Wired, Parted, HasContent
<1>7. ASSUME PartsInv(c), StageInv(c) PROVE PartsInv(c)' /\ StageInv(c)'
  <2>1. PartsInv(c)'
    BY <1>7, <1>3, <1>4 DEF PartsInv, PartFile
  <2>2. StageInv(c)'
    BY <1>7, <1>b, <1>1, <1>3, <1>4 DEF StageInv, Getting, Finished
  <2> QED
    BY <2>1, <2>2
<1>8. down' = down /\ held' = held /\ DOMAIN down = Conns
  BY <1>a, <1>b DEF netVars, Types, NetTypes
<1> QED
  BY <1>b, <1>1, <1>2, <1>4, <1>5, <1>6, <1>7, <1>8, OwnStep DEF Getting

LEMMA UnlinkStep == ASSUME IInv, NEW c \in Clients, Unlink(c) PROVE IInv'
<1>a. Plain /\ Types /\ LineInv(c) /\ ShapeInv(c) /\ Downloading
  BY DEF IInv, Plain
<1>b. /\ cl[c].at = "unlink" /\ Goto(c, "done") /\ UNCHANGED netVars
      /\ disk' = [disk EXCEPT ![c].t[2] = NULL, ![c].of = NULL]
      /\ UNCHANGED <<rows, serverVars, up, kills, route, history>>
  BY DEF Unlink, netVars
<1>1. /\ cl'[c].at = "done" /\ cl'[c].n = cl[c].n /\ cl'[c].op = cl[c].op /\ cl'[c].row = cl[c].row
      /\ (\A d \in Clients \ {c} : cl'[d] = cl[d]) /\ ClientTypes'
      /\ Line(c)' = Line(c) /\ Nth(c)' = Nth(c)
  <2>1. "done" \in Stages
    BY DEF Stages
  <2> QED
    BY <1>a, <1>b, <2>1, GotoIs
<1>2. LineInv(c)' /\ WireInv(c)'
  BY <1>a, <1>b, <1>1 DEF LineInv, Busy1, Resting, WireInv, Wired, Getting, Putting
<1>3. PICK f, t1 : disk[c].file = f /\ disk[c].t[1] = t1
  OBVIOUS
<1>4. /\ disk'[c].file = f /\ disk'[c].t[1] = t1 /\ disk'[c].t[2] = NULL /\ disk'[c].of = NULL
      /\ (\A d \in Clients \ {c} : disk'[d] = disk[d]) /\ DiskTypes'
  <2>1. DiskTypes /\ SetPartOf(c, 2, NULL, NULL)
    BY <1>a, <1>b, <1>3 DEF Types, SetPartOf
  <2>2. 1 \in {1, 2} /\ 2 \in {1, 2} /\ 1 # 2
    OBVIOUS
  <2>3. disk'[c].t[1] = disk[c].t[1]
    BY <2>1, <2>2, DiskPartOf
  <2> QED
    BY <1>3, <2>1, <2>2, <2>3, DiskPartOf
<1>5. ShapeInv(c)'
  BY <1>a, <1>1, <1>3, <1>4 DEF ShapeInv
<1>6. Good => GetClient(c)' /\ Parted(cl[c].row)
  BY <1>a, <1>b, <1>1 DEF Downloading, GetClient, Getting, LineInv, Busy1, Resting
<1>7. ASSUME PartsInv(c), StageInv(c), Good PROVE PartsInv(c)' /\ StageInv(c)'
  <2>1. cl[c].at = "unlink" => f = Content[cl[c].row.md5] /\ t1 = NULL /\ Nth(c) = {1, 2}
    BY <1>7, <1>3 DEF StageInv
  <2>2. PartsInv(c)'
    BY <1>b, <1>4, <2>1 DEF PartsInv
  <2>3. StageInv(c)'
    BY <1>b, <1>1, <1>4, <1>6, <1>7, <2>1 DEF StageInv, Getting, Finished, Parted
  <2> QED
    BY <2>2, <2>3
<1>8. down' = down /\ held' = held /\ DOMAIN down = Conns
  BY <1>a, <1>b DEF netVars, Types, NetTypes
<1> QED
  BY <1>b, <1>1, <1>2, <1>4, <1>5, <1>6, <1>7, <1>8, OwnStep DEF Getting

LEMMA JoinedIs ==
    ASSUME NEW m \in Md5s, NEW f, f # NULL, PartFile(f, m, 0, Part1(m)), NEW g, g = Truncate(f, Size(m))
    PROVE  /\ Len(g) = Size(m) /\ PartFile(g, m, 0, Part1(m)) /\ Row1n(g) /\ g # NULL
           /\ \A j \in 1..Len(f) : g[j] = f[j]
<1>1. /\ Len(f) \in Nat /\ Part1(m) <= Len(f) /\ Len(f) <= Size(m)
      /\ f \in [1..Len(f) -> Page \cup {Hole, Partial}]
      /\ \A j \in 1..Len(f) : f[j] # Hole => Right(f, m, 0, j - 1)
  BY DEF PartFile
<1>2. Size(m) \in Nat
  BY ContentIs
<1>3. /\ g \in [1..Size(m) -> Page \cup {Hole, Partial}] /\ g = [j \in 1..Size(m) |-> g[j]]
      /\ \A j \in 1..Size(m) : g[j] = IF j <= Len(f) THEN f[j] ELSE Hole
  BY <1>1, <1>2 DEF Truncate
<1>4. Len(g) = Size(m)
  BY <1>2, <1>3
<1>5. g # NULL
  BY <1>2, <1>3, NotAFile
<1>6. \A j \in 1..Len(f) : g[j] = f[j]
  BY <1>1, <1>2, <1>3
<1>7. \A j \in 1..Len(g) : g[j] # Hole => Right(g, m, 0, j - 1)
  <2> SUFFICES ASSUME NEW j \in 1..Size(m), g[j] # Hole PROVE Right(g, m, 0, j - 1)
    BY <1>4
  <2>1. j <= Len(f) /\ f[j] # Hole
    BY <1>3
  <2>2. Right(f, m, 0, j - 1)
    BY <1>1, <1>2, <2>1
  <2>3. \A k \in 1..(j - 1) : k \in 1..Len(f)
    BY <1>1, <1>2, <2>1
  <2> QED
    BY <1>6, <2>2, <2>3 DEF Right
<1>8. PartFile(g, m, 0, Part1(m))
  <2>1. Part1(m) <= Size(m) /\ 0 + Size(m) <= Size(m)
    BY <1>1, <1>2, PartsAre
  <2> QED
    BY <1>2, <1>3, <1>4, <1>7, <2>1 DEF PartFile
<1>9. Row1n(g)
  BY <1>2, <1>3, <1>4 DEF Row1n
<1> QED
  BY <1>4, <1>5, <1>6, <1>8, <1>9

LEMMA JoinStep == ASSUME IInv, NEW c \in Clients, Join(c) PROVE IInv'
<1>a. Plain /\ Types /\ LineInv(c) /\ ShapeInv(c) /\ Downloading
  BY DEF IInv, Plain
<1>b. /\ cl[c].at = "recv" /\ cl[c].over = Nth(c) /\ UNCHANGED netVars
      /\ UNCHANGED <<rows, serverVars, up, kills, route, history>>
  BY DEF Join, netVars
<1>c. down' = down /\ held' = held /\ DOMAIN down = Conns
  BY <1>a, <1>b DEF netVars, Types, NetTypes
<1>d. PICK r, m, off, pos : cl[c].row = r /\ r.md5 = m /\ cl[c].off = off /\ cl[c].pos = pos
  OBVIOUS
<1>e. /\ m \in Md5s /\ r.part \in Pair /\ off \in Pair /\ pos \in Pair /\ Busy1(c)
      /\ Line(c)[1] = "gets"
  <2>1. Busy1(c)
    BY <1>b DEF Busy1, Resting
  <2>2. m \in Md5s /\ r.part \in Pair
    BY <1>a, <1>d, <2>1, LineIs
  <2>3. cl[c] \in ClientState
    BY <1>a DEF Types, ClientTypes
  <2> QED
    BY <1>a, <1>b, <1>d, <2>1, <2>2, <2>3 DEF ClientState, LineInv, Getting
<1>f. Good => Parted(r) /\ \A i \in Nth(c) : HasContent(r.s[i], m)
  BY <1>a, <1>b, <1>d, <1>e DEF Downloading, GetClient, Getting
<1>g. Size(m) \in Nat /\ Part1(m) \in Nat /\ Part2(m) \in Nat /\ Part1(m) + Part2(m) = Size(m)
  BY <1>e, ContentIs, PartsAre
<1>1. CASE Nth(c) = {1} /\ Goto(c, "done") /\ disk' = disk
  <2>1. /\ cl'[c].at = "done" /\ cl'[c].n = cl[c].n /\ cl'[c].op = cl[c].op /\ cl'[c].row = r
        /\ (\A d \in Clients \ {c} : cl'[d] = cl[d]) /\ ClientTypes'
        /\ Line(c)' = Line(c) /\ Nth(c)' = Nth(c)
    <3>1. "done" \in Stages
      BY DEF Stages
    <3> QED
      BY <1>1, <1>a, <1>d, <3>1, GotoIs
  <2>2. LineInv(c)' /\ WireInv(c)'
    BY <1>a, <1>b, <1>d, <2>1 DEF LineInv, Busy1, Resting, WireInv, Wired, Getting, Putting
  <2>3. ShapeInv(c)'
    BY <1>1, <1>a, <2>1 DEF ShapeInv
  <2>4. Good => GetClient(c)'
    BY <2>1 DEF GetClient, Getting
  <2>5. ASSUME PartsInv(c), StageInv(c), Good PROVE PartsInv(c)' /\ StageInv(c)'
    <3>1. off[1] = 0 /\ pos[1] <= Len(disk[c].file) /\ Right(disk[c].file, m, 0, pos[1]) /\ ~Wanted(c, 1)
      BY <1>1, <1>b, <1>d, <2>5 DEF StageInv
    <3>2. r.part[2] = 0
      BY <1>1, <1>d, NthIs
    <3>3. r.part[1] = Size(m)
      BY <1>d, <1>f, <1>g, <2>5, <3>2 DEF Parted
    <3>4. pos[1] \in Nat /\ pos[1] >= Size(m)
      BY <1>d, <1>e, <1>g, <3>1, <3>3 DEF Wanted, Pair
    <3>5. Row1n(disk[c].file)
      BY <1>1, <1>a, <1>b DEF ShapeInv
    <3>6. Size(m) <= Len(disk[c].file) /\ Right(disk[c].file, m, 0, Size(m))
      BY <1>g, <3>1, <3>4, <3>5 DEF Right, Row1n
    <3>7. StageInv(c)'
      <4>1. Nth(c)' # {1, 2} /\ Parted(r) /\ cl'[c].row = r /\ r.md5 = m
        BY <1>1, <1>d, <1>f, <2>1, <2>5
      <4>2. disk'[c].file = disk[c].file
        BY <1>1
      <4>3. Parted(cl[c].row)'
        BY <4>1 DEF Parted
      <4> QED
        BY <2>1, <3>5, <3>6, <4>1, <4>2, <4>3 DEF StageInv, Getting, Finished
    <3> QED
      BY <1>1, <2>5, <3>7 DEF PartsInv
  <2>6. DiskTypes'
    BY <1>1, <1>a DEF Types, DiskTypes
  <2> QED
    BY <1>1, <1>b, <1>c, <2>1, <2>2, <2>3, <2>4, <2>5, <2>6, OwnStep DEF Getting
<1>2. CASE /\ Nth(c) = {1, 2}
           /\ disk' = [disk EXCEPT ![c].t[1] = Truncate(@, r.part[1] + r.part[2])]
           /\ cl' = [cl EXCEPT ![c].at = "merge", ![c].pos = <<0, 0>>]
  <2>1. /\ cl'[c].at = "merge" /\ cl'[c].n = cl[c].n /\ cl'[c].op = cl[c].op /\ cl'[c].row = r
        /\ cl'[c].pos = <<0, 0>>
        /\ (\A d \in Clients \ {c} : cl'[d] = cl[d]) /\ ClientTypes'
        /\ Line(c)' = Line(c) /\ Nth(c)' = Nth(c)
    <3>1. "merge" \in Stages /\ <<0, 0>> \in Pair
      BY PairIs DEF Stages, Getting, Pair
    <3>2. cl \in [Clients -> ClientState] /\ cl[c] \in ClientState
      BY <1>a DEF Types, ClientTypes
    <3>3. /\ cl'[c].at = "merge" /\ cl'[c].n = cl[c].n /\ cl'[c].op = cl[c].op /\ cl'[c].row = cl[c].row
          /\ cl'[c].pos = <<0, 0>> /\ (\A d \in Clients \ {c} : cl'[d] = cl[d])
      BY <1>2, <3>2 DEF ClientState
    <3>4. ClientTypes'
      BY <1>2, <3>1, <3>2 DEF ClientTypes, ClientState
    <3> QED
      BY <1>d, <3>3, <3>4 DEF Line, Nth
  <2>2. LineInv(c)' /\ WireInv(c)'
    BY <1>a, <1>b, <1>d, <2>1 DEF LineInv, Busy1, Resting, WireInv, Wired, Getting, Putting
  <2>3. PICK f, t1, t2, g : /\ disk[c].file = f /\ disk[c].t[1] = t1 /\ disk[c].t[2] = t2
                            /\ g = Truncate(t1, r.part[1] + r.part[2])
    OBVIOUS
  <2>4. /\ disk'[c].file = f /\ disk'[c].t[1] = g /\ disk'[c].t[2] = t2 /\ disk'[c].of = disk[c].of
        /\ (\A d \in Clients \ {c} : disk'[d] = disk[d]) /\ DiskTypes'
    <3>1. DiskTypes /\ SetPart(c, 1, g)
      BY <1>2, <1>a, <2>3 DEF Types, SetPart
    <3>2. 1 \in {1, 2} /\ 2 \in {1, 2} /\ 2 # 1
      OBVIOUS
    <3>3. disk'[c].t[2] = disk[c].t[2]
      BY <3>1, <3>2, DiskPart
    <3> QED
      BY <2>3, <3>1, <3>2, <3>3, DiskPart
  <2>5. ShapeInv(c)'
    <3>1. r.part[1] + r.part[2] \in Nat
      BY <1>e DEF Pair
    <3>2. Row1n(g)
      BY <2>3, <3>1 DEF Row1n, Truncate
    <3>3. Row1n(t2) /\ (f = NULL \/ Row1n(f))
      BY <1>2, <1>a, <1>b, <2>3 DEF ShapeInv
    <3> QED
      BY <1>2, <2>1, <2>4, <3>2, <3>3 DEF ShapeInv
  <2>6. Good => GetClient(c)'
    <3>1. repo' = repo
      BY <1>b DEF serverVars
    <3> QED
      BY <1>d, <1>f, <2>1, <3>1 DEF GetClient, Wired, Parted, HasContent
  <2>7. ASSUME PartsInv(c), StageInv(c), Good PROVE PartsInv(c)' /\ StageInv(c)'
    <3>1. disk[c].of = m
      BY <1>2, <1>b, <1>d, <2>7 DEF StageInv, Getting
    <3>2. /\ Big(m) /\ PartFile(t1, m, 0, Part1(m)) /\ PartFile(t2, m, Part1(m), Part2(m))
      BY <1>e, <2>3, <2>7, <3>1, MarksApart DEF PartsInv
    <3>3. \A i \in {1, 2} : /\ disk[c].t[i] # NULL /\ ~Wanted(c, i)
                            /\ Right(disk[c].t[i], m, Base(r, i), Filled(c, i))
      BY <1>2, <1>b, <1>d, <2>7 DEF StageInv
    <3>4. r.part[1] = Part1(m) /\ r.part[2] = Part2(m)
      BY <1>d, <1>f, <2>7 DEF Parted
    <3>5. \A i \in {1, 2} : Filled(c, i) \in Nat /\ Filled(c, i) >= r.part[i]
      BY <1>d, <1>e, <3>3 DEF Wanted, Filled, Pair
    <3>6. t1 # NULL /\ Right(t1, m, 0, Part1(m))
      BY <1>g, <2>3, <3>3, <3>4, <3>5 DEF Right, Base
    <3>7. t2 # NULL /\ Right(t2, m, Part1(m), Part2(m))
      BY <1>g, <2>3, <3>3, <3>4, <3>5 DEF Right, Base
    <3>8. Len(t2) = Part2(m)
      BY <1>g, <3>2, <3>7 DEF PartFile
    <3>9. g = Truncate(t1, Size(m))
      BY <1>g, <2>3, <3>4
    <3>10. Len(g) = Size(m) /\ PartFile(g, m, 0, Part1(m)) /\ g # NULL /\ \A j \in 1..Len(t1) : g[j] = t1[j]
      BY <1>e, <3>2, <3>6, <3>9, JoinedIs
    <3>11. Right(g, m, 0, Part1(m))
      <4>1. Part1(m) <= Len(t1) /\ Len(t1) \in Nat
        BY <3>2, <3>6 DEF PartFile
      <4> QED
        BY <1>g, <3>6, <3>10, <4>1 DEF Right
    <3>12. PartsInv(c)'
      BY <1>e, <2>4, <3>1, <3>2, <3>10 DEF PartsInv
    <3>13. StageInv(c)'
      <4>1. Part1(m) + 0 = Part1(m) /\ 0 <= Part2(m) /\ cl'[c].pos[2] = 0
        BY <1>g, <2>1
      <4>2. Right(g, m, 0, r.part[1] + cl'[c].pos[2])
        BY <3>4, <3>11, <4>1
      <4> QED
        BY <1>2, <1>d, <2>1, <2>4, <3>1, <3>4, <3>6, <3>7, <3>8, <3>10, <4>1, <4>2
           DEF StageInv, Getting, Finished
    <3> QED
      BY <3>12, <3>13
  <2> QED
    BY <1>b, <1>c, <2>1, <2>2, <2>4, <2>5, <2>6, <2>7, OwnStep DEF Getting
<1>3. \/ Nth(c) = {1} /\ Goto(c, "done") /\ disk' = disk
      \/ /\ Nth(c) = {1, 2}
         /\ disk' = [disk EXCEPT ![c].t[1] = Truncate(@, r.part[1] + r.part[2])]
         /\ cl' = [cl EXCEPT ![c].at = "merge", ![c].pos = <<0, 0>>]
  BY <1>d DEF Join
<1> QED
  BY <1>1, <1>2, <1>3

LEMMA RowWritten ==
    ASSUME NEW f, Row1n(f), NEW p \in Nat, NEW v
    PROVE  Row1n(WriteAt(f, p, v))
<1>1. PICK n \in Nat : n = IF p > Len(f) THEN p ELSE Len(f)
  BY DEF Row1n
<1>2. PICK g : g = WriteAt(f, p, v)
  OBVIOUS
<1>3. g = [j \in 1..n |-> IF j = p THEN v ELSE IF j <= Len(f) THEN f[j] ELSE Hole]
  BY <1>1, <1>2 DEF WriteAt
<1>4. Len(g) = n
  BY <1>1, <1>3
<1>5. g = [j \in 1..n |-> g[j]]
  BY <1>3
<1> QED
  BY <1>1, <1>2, <1>4, <1>5 DEF Row1n

LEMMA PagePut ==
    ASSUME NEW m \in Md5s, NEW base \in Nat, NEW n, NEW f, f # NULL, PartFile(f, m, base, n),
           NEW p \in 1..Len(f), Right(f, m, base, p - 1), NEW g, g = WriteAt(f, p, Content[m][base + p])
    PROVE  /\ PartFile(g, m, base, n) /\ g # NULL /\ Row1n(g) /\ Len(g) = Len(f) /\ Len(f) \in Nat
           /\ g[p] = Content[m][base + p] /\ \A j \in 1..Len(f) : j # p => g[j] = f[j]
<1>1. PICK l \in Nat : l = Len(f)
  BY DEF PartFile
<1>2. /\ n <= l /\ base + l <= Size(m) /\ f \in [1..l -> Page \cup {Hole, Partial}]
      /\ \A j \in 1..l : f[j] # Hole => Right(f, m, base, j - 1)
  BY <1>1 DEF PartFile
<1>3. Size(m) \in Nat /\ Content[m] \in [1..Size(m) -> Page]
  BY ContentIs
<1>4. base + p \in 1..Size(m) /\ Content[m][base + p] \in Page \cup {Hole, Partial}
  <2>1. base + p \in 1..Size(m)
    BY <1>1, <1>2, <1>3
  <2> QED
    BY <1>3, <2>1
<1>5. PICK v \in Page \cup {Hole, Partial} : v = Content[m][base + p]
  BY <1>4
<1>6. /\ g \in [1..l -> Page \cup {Hole, Partial}] /\ Len(g) = l
      /\ g[p] = v /\ \A j \in 1..l : j # p => g[j] = f[j]
  <2>1. PICK S : S = Page \cup {Hole, Partial}
    OBVIOUS
  <2>2. f \in [1..l -> S] /\ p \in 1..l /\ v \in S /\ g = WriteAt(f, p, v)
    BY <1>1, <1>2, <1>5, <2>1
  <2>3. /\ g \in [1..l -> S] /\ Len(g) = l
        /\ g[p] = v /\ \A j \in 1..l : j # p => g[j] = f[j]
    <3>1. Len(f) = l
      BY <1>1
    <3>2. g = [j \in 1..l |-> IF j = p THEN v ELSE IF j <= l THEN f[j] ELSE Hole]
      BY <2>2, <3>1 DEF WriteAt
    <3>3. Len(g) = l
      BY <3>2
    <3> QED
      BY <2>2, <3>2, <3>3
  <2> QED
    BY <2>1, <2>3
<1>7. g # NULL
  <2>1. l \in 0..Size(m)
    BY <1>2, <1>3
  <2> QED
    BY <1>6, <2>1, NotAFile
<1>8. \A j \in 1..l : g[j] # Hole => Right(g, m, base, j - 1)
  <2> SUFFICES ASSUME NEW j \in 1..l, g[j] # Hole, NEW k \in 1..(j - 1)
               PROVE  g[k] = Content[m][base + k]
    BY DEF Right
  <2>1. CASE k = p
    BY <1>5, <1>6, <2>1
  <2>2. CASE k # p
    <3>1. k \in 1..l /\ g[k] = f[k]
      BY <1>6, <2>2
    <3>2. CASE j = p
      BY <3>1, <3>2 DEF Right
    <3>3. CASE j # p
      <4>1. f[j] # Hole
        BY <1>6, <3>3
      <4>2. Right(f, m, base, j - 1)
        BY <1>2, <4>1
      <4> QED
        BY <3>1, <4>2 DEF Right
    <3> QED
      BY <3>2, <3>3
  <2> QED
    BY <2>1, <2>2
<1>9. PartFile(g, m, base, n)
  BY <1>2, <1>6, <1>8 DEF PartFile
<1>10. Row1n(g)
  BY <1>6 DEF Row1n
<1> QED
  BY <1>1, <1>5, <1>6, <1>7, <1>9, <1>10

\* The page a process dies in may be wrong; what comes before is right.
LEMMA PartialPut ==
    ASSUME NEW m \in Md5s, NEW base \in Nat, NEW n, NEW f, f # NULL, PartFile(f, m, base, n),
           NEW p \in 1..Len(f), Right(f, m, base, p - 1), EmptyBehind(f, p),
           NEW g, g = WriteAt(f, p, Partial)
    PROVE  PartFile(g, m, base, n) /\ Row1n(g)
<1>1. PICK l \in Nat : l = Len(f)
  BY DEF PartFile
<1>2. /\ n <= l /\ base + l <= Size(m) /\ f \in [1..l -> Page \cup {Hole, Partial}]
  BY <1>1 DEF PartFile
<1>3. PICK v \in Page \cup {Hole, Partial} : v = Partial
  OBVIOUS
<1>4. /\ g \in [1..l -> Page \cup {Hole, Partial}] /\ Len(g) = l
      /\ \A j \in 1..l : j # p => g[j] = f[j]
  <2>1. PICK S : S = Page \cup {Hole, Partial}
    OBVIOUS
  <2>2. f \in [1..l -> S] /\ p \in 1..l /\ v \in S /\ g = WriteAt(f, p, v)
    BY <1>1, <1>2, <1>3, <2>1
  <2>3. /\ g \in [1..l -> S] /\ Len(g) = l
        /\ g[p] = v /\ \A j \in 1..l : j # p => g[j] = f[j]
    <3>1. Len(f) = l
      BY <1>1
    <3>2. g = [j \in 1..l |-> IF j = p THEN v ELSE IF j <= l THEN f[j] ELSE Hole]
      BY <2>2, <3>1 DEF WriteAt
    <3>3. Len(g) = l
      BY <3>2
    <3> QED
      BY <2>2, <3>2, <3>3
  <2> QED
    BY <2>1, <2>3
<1>5. \A j \in 1..l : g[j] # Hole => Right(g, m, base, j - 1)
  <2> SUFFICES ASSUME NEW j \in 1..l, g[j] # Hole, NEW k \in 1..(j - 1)
               PROVE  g[k] = Content[m][base + k]
    BY DEF Right
  <2>1. j <= p
    BY <1>2, <1>4 DEF EmptyBehind
  <2>2. k \in 1..(p - 1) /\ k \in 1..l /\ k # p
    BY <1>1, <2>1
  <2> QED
    BY <1>4, <2>2 DEF Right
<1>6. PartFile(g, m, base, n)
  BY <1>2, <1>4, <1>5 DEF PartFile
<1>7. Row1n(g)
  BY <1>4 DEF Row1n
<1> QED
  BY <1>6, <1>7

SetPos(c, n, x) == cl' = [cl EXCEPT ![c].pos[n] = x]

LEMMA PosIs ==
    ASSUME Types, NEW c \in Clients, NEW n \in {1, 2}, NEW x \in Nat, SetPos(c, n, x)
    PROVE  /\ cl'[c].at = cl[c].at /\ cl'[c].n = cl[c].n /\ cl'[c].op = cl[c].op /\ cl'[c].row = cl[c].row
           /\ cl'[c].off = cl[c].off /\ cl'[c].over = cl[c].over
           /\ cl'[c].pos[n] = x /\ (\A i \in {1, 2} : i # n => cl'[c].pos[i] = cl[c].pos[i])
           /\ (\A d \in Clients \ {c} : cl'[d] = cl[d]) /\ ClientTypes'
           /\ Line(c)' = Line(c) /\ Nth(c)' = Nth(c) /\ \A i : K(c, i)' = K(c, i)
<1>1. cl \in [Clients -> ClientState] /\ cl[c] \in ClientState /\ cl[c].pos \in Pair
  BY DEF Types, ClientTypes, ClientState
<1>2. PICK u : u = [cl[c].pos EXCEPT ![n] = x]
  OBVIOUS
<1>3. u \in Pair /\ u[n] = x /\ \A i \in {1, 2} : i # n => u[i] = cl[c].pos[i]
  BY <1>1, <1>2 DEF Pair
<1>4. cl' = [cl EXCEPT ![c].pos = u]
  BY <1>2 DEF SetPos
<1>5. /\ cl'[c].at = cl[c].at /\ cl'[c].n = cl[c].n /\ cl'[c].op = cl[c].op /\ cl'[c].row = cl[c].row
      /\ cl'[c].off = cl[c].off /\ cl'[c].over = cl[c].over /\ cl'[c].pos = u
      /\ (\A d \in Clients \ {c} : cl'[d] = cl[d])
  BY <1>1, <1>4 DEF ClientState
<1>6. ClientTypes'
  BY <1>1, <1>3, <1>4 DEF ClientTypes, ClientState
<1> QED
  BY <1>3, <1>5, <1>6 DEF Line, Nth, K

LEMMA MergeStep == ASSUME IInv, NEW c \in Clients, Merge(c) PROVE IInv'
<1>a. Plain /\ Types /\ LineInv(c) /\ ShapeInv(c) /\ Downloading
  BY DEF IInv, Plain
<1>b. /\ cl[c].at = "merge"
      /\ UNCHANGED <<rows, serverVars, up, kills, route, history>>
  BY DEF Merge
<1>d. PICK r, m, pos : cl[c].row = r /\ r.md5 = m /\ cl[c].pos = pos
  OBVIOUS
<1>e. m \in Md5s /\ r.part \in Pair /\ pos \in Pair /\ Busy1(c) /\ Line(c)[1] = "gets"
  <2>1. Busy1(c)
    BY <1>b DEF Busy1, Resting
  <2>2. m \in Md5s /\ r.part \in Pair
    BY <1>a, <1>d, <2>1, LineIs
  <2>3. cl[c] \in ClientState
    BY <1>a DEF Types, ClientTypes
  <2> QED
    BY <1>a, <1>b, <1>d, <2>1, <2>2, <2>3 DEF ClientState, LineInv, Getting
<1>f. Good => Parted(r) /\ \A i \in Nth(c) : HasContent(r.s[i], m)
  BY <1>a, <1>b, <1>d, <1>e DEF Downloading, GetClient, Getting
<1>g. Size(m) \in Nat /\ Part1(m) \in Nat /\ Part2(m) \in Nat /\ Part1(m) + Part2(m) = Size(m)
  BY <1>e, ContentIs, PartsAre
<1>h. PICK i : i = pos[2] + 1
  OBVIOUS
<1>i. i \in Nat \ {0} /\ r.part[1] \in Nat /\ r.part[2] \in Nat /\ pos[2] = i - 1 /\ pos[2] \in Nat
  BY <1>e, <1>h DEF Pair
<1>j. PICK f, t1, t2 : disk[c].file = f /\ disk[c].t[1] = t1 /\ disk[c].t[2] = t2
  OBVIOUS
<1>k. PartsInv(c) /\ StageInv(c) /\ Good =>
        /\ Nth(c) = {1, 2} /\ disk[c].of = m
        /\ Big(m) /\ PartFile(t1, m, 0, Part1(m)) /\ PartFile(t2, m, Part1(m), Part2(m))
        /\ t1 # NULL /\ t2 # NULL /\ pos[2] <= Part2(m)
        /\ Len(t1) = Size(m) /\ Right(t1, m, 0, Part1(m) + pos[2])
        /\ Len(t2) = Part2(m) /\ Right(t2, m, Part1(m), Part2(m))
        /\ r.part[1] = Part1(m) /\ r.part[2] = Part2(m)
  <2> SUFFICES ASSUME PartsInv(c), StageInv(c), Good
               PROVE  /\ Nth(c) = {1, 2} /\ disk[c].of = m
                      /\ Big(m) /\ PartFile(t1, m, 0, Part1(m)) /\ PartFile(t2, m, Part1(m), Part2(m))
                      /\ t1 # NULL /\ t2 # NULL /\ pos[2] <= Part2(m)
                      /\ Len(t1) = Size(m) /\ Right(t1, m, 0, Part1(m) + pos[2])
                      /\ Len(t2) = Part2(m) /\ Right(t2, m, Part1(m), Part2(m))
                      /\ r.part[1] = Part1(m) /\ r.part[2] = Part2(m)
    OBVIOUS
  <2>1. r.part[1] = Part1(m) /\ r.part[2] = Part2(m)
    BY <1>d, <1>f DEF Parted
  <2>2. /\ Nth(c) = {1, 2} /\ t1 # NULL /\ t2 # NULL /\ pos[2] <= r.part[2]
        /\ Len(t1) = Size(m) /\ Right(t1, m, 0, r.part[1] + pos[2])
        /\ Len(t2) = r.part[2] /\ Right(t2, m, r.part[1], r.part[2])
    BY <1>b, <1>d, <1>j DEF StageInv
  <2>3. disk[c].of = m
    BY <1>b, <1>d, <2>2 DEF StageInv, Getting
  <2>4. /\ Big(m) /\ PartFile(t1, m, 0, Part1(m)) /\ PartFile(t2, m, Part1(m), Part2(m))
    BY <1>e, <1>j, <2>3, MarksApart DEF PartsInv
  <2> QED
    BY <2>1, <2>2, <2>3, <2>4
<1>1. CASE /\ i <= r.part[2]
           /\ disk' = [disk EXCEPT ![c].t[1] = WriteAt(@, r.part[1] + i, disk[c].t[2][i])]
           /\ cl' = [cl EXCEPT ![c].pos[2] = i]
           /\ held' = held /\ down' = down
  <2>1. /\ cl'[c].at = "merge" /\ cl'[c].n = cl[c].n /\ cl'[c].op = cl[c].op /\ cl'[c].row = r
        /\ cl'[c].pos[2] = i
        /\ (\A d \in Clients \ {c} : cl'[d] = cl[d]) /\ ClientTypes'
        /\ Line(c)' = Line(c) /\ Nth(c)' = Nth(c)
    <3>1. 2 \in {1, 2} /\ i \in Nat
      BY <1>i
    <3> QED
      BY <1>1, <1>a, <1>b, <1>d, <3>1, PosIs DEF SetPos
  <2>2. LineInv(c)' /\ WireInv(c)'
    BY <1>a, <1>b, <1>d, <2>1 DEF LineInv, Busy1, Resting, WireInv, Wired, Getting, Putting
  <2>3. PICK p, g : p = r.part[1] + i /\ g = WriteAt(t1, p, t2[i])
    OBVIOUS
  <2>4. /\ disk'[c].file = f /\ disk'[c].t[1] = g /\ disk'[c].t[2] = t2 /\ disk'[c].of = disk[c].of
        /\ (\A d \in Clients \ {c} : disk'[d] = disk[d]) /\ DiskTypes'
    <3>1. DiskTypes /\ SetPart(c, 1, g)
      BY <1>1, <1>a, <1>j, <2>3 DEF Types, SetPart
    <3>2. 1 \in {1, 2} /\ 2 \in {1, 2} /\ 2 # 1
      OBVIOUS
    <3>3. disk'[c].t[2] = disk[c].t[2]
      BY <3>1, <3>2, DiskPart
    <3> QED
      BY <1>j, <3>1, <3>2, <3>3, DiskPart
  <2>5. ShapeInv(c)'
    <3>1. Nth(c) = {1, 2}
      BY <1>1, <1>d, <1>i, NthIs
    <3>2. Row1n(t1) /\ Row1n(t2) /\ (f = NULL \/ Row1n(f))
      BY <1>a, <1>b, <1>j, <3>1 DEF ShapeInv
    <3>3. Row1n(g)
      <4>1. p \in Nat
        BY <1>i, <2>3
      <4> QED
        BY <2>3, <3>2, <4>1, RowWritten
    <3> QED
      BY <2>1, <2>4, <3>1, <3>2, <3>3 DEF ShapeInv
  <2>6. Good => GetClient(c)'
    <3>1. repo' = repo
      BY <1>b DEF serverVars
    <3> QED
      BY <1>d, <1>f, <2>1, <3>1 DEF GetClient, Wired, Parted, HasContent
  <2>7. ASSUME PartsInv(c), StageInv(c), Good PROVE PartsInv(c)' /\ StageInv(c)'
    <3>1. /\ Nth(c) = {1, 2} /\ disk[c].of = m
          /\ Big(m) /\ PartFile(t1, m, 0, Part1(m)) /\ PartFile(t2, m, Part1(m), Part2(m))
          /\ t1 # NULL /\ t2 # NULL /\ pos[2] <= Part2(m)
          /\ Len(t1) = Size(m) /\ Right(t1, m, 0, Part1(m) + pos[2])
          /\ Len(t2) = Part2(m) /\ Right(t2, m, Part1(m), Part2(m))
          /\ r.part[1] = Part1(m) /\ r.part[2] = Part2(m)
      BY <1>k, <2>7
    <3>2. p \in 1..Len(t1) /\ p - 1 = Part1(m) + pos[2] /\ i \in 1..Part2(m) /\ p = Part1(m) + i
          /\ p \in Nat
      BY <1>1, <1>g, <1>i, <2>3, <3>1
    <3>3. t2[i] = Content[m][0 + p]
      <4>1. t2[i] = Content[m][Part1(m) + i]
        BY <3>1, <3>2 DEF Right
      <4>2. 0 + p = Part1(m) + i
        BY <3>2
      <4> QED
        BY <4>1, <4>2
    <3>4. Right(t1, m, 0, p - 1)
      BY <3>1, <3>2
    <3>5. g = WriteAt(t1, p, Content[m][0 + p])
      BY <2>3, <3>3
    <3>6. PICK n : n = Part1(m)
      OBVIOUS
    <3>7. 0 \in Nat /\ PartFile(t1, m, 0, n)
      BY <3>1, <3>6
    <3>8. /\ PartFile(g, m, 0, n) /\ g # NULL /\ Len(g) = Len(t1)
          /\ g[p] = Content[m][0 + p] /\ \A j \in 1..Len(t1) : j # p => g[j] = t1[j]
      BY <1>e, <3>1, <3>2, <3>4, <3>5, <3>7, PagePut
    <3>9. Right(g, m, 0, Part1(m) + i)
      <4> SUFFICES ASSUME NEW j \in 1..p PROVE g[j] = Content[m][0 + j]
        BY <3>2 DEF Right
      <4>1. CASE j = p
        BY <3>8, <4>1
      <4>2. CASE j # p
        <5>1. j \in 1..Len(t1) /\ j \in 1..(p - 1)
          BY <3>2, <4>2
        <5> QED
          BY <3>4, <3>8, <4>2, <5>1 DEF Right
      <4> QED
        BY <4>1, <4>2
    <3>10. PartsInv(c)'
      BY <1>e, <2>4, <3>1, <3>6, <3>8 DEF PartsInv
    <3>11. StageInv(c)'
      BY <1>1, <1>d, <1>i, <2>1, <2>4, <3>1, <3>8, <3>9 DEF StageInv, Getting, Finished
    <3> QED
      BY <3>10, <3>11
  <2>8. DOMAIN down = Conns
    BY <1>a DEF Types, NetTypes
  <2> QED
    BY <1>1, <1>b, <2>1, <2>2, <2>4, <2>5, <2>6, <2>7, <2>8, OwnStep DEF Getting
<1>2. CASE i > r.part[2] /\ Close(c) /\ Goto(c, "rename") /\ disk' = disk
  <2>1. /\ cl'[c].at = "rename" /\ cl'[c].n = cl[c].n /\ cl'[c].op = cl[c].op /\ cl'[c].row = r
        /\ (\A d \in Clients \ {c} : cl'[d] = cl[d]) /\ ClientTypes'
        /\ Line(c)' = Line(c) /\ Nth(c)' = Nth(c)
    <3>1. "rename" \in Stages
      BY DEF Stages, Getting
    <3> QED
      BY <1>2, <1>a, <1>d, <3>1, GotoIs
  <2>2. LineInv(c)' /\ WireInv(c)'
    BY <1>a, <1>b, <1>d, <2>1 DEF LineInv, Busy1, Resting, WireInv, Wired, Getting, Putting
  <2>3. ShapeInv(c)'
    BY <1>2, <1>a, <2>1 DEF ShapeInv
  <2>4. Good => GetClient(c)'
    <3>1. repo' = repo
      BY <1>b DEF serverVars
    <3> QED
      BY <1>d, <1>f, <2>1, <3>1 DEF GetClient, Wired, Parted, HasContent
  <2>5. ASSUME PartsInv(c), StageInv(c), Good PROVE PartsInv(c)' /\ StageInv(c)'
    <3>1. /\ Nth(c) = {1, 2} /\ disk[c].of = m /\ PartFile(t1, m, 0, Part1(m))
          /\ t1 # NULL /\ pos[2] <= Part2(m)
          /\ Len(t1) = Size(m) /\ Right(t1, m, 0, Part1(m) + pos[2]) /\ r.part[2] = Part2(m)
      BY <1>k, <2>5
    <3>2. Part1(m) + pos[2] = Size(m)
      BY <1>2, <1>g, <1>i, <3>1
    <3>3. t1 = Content[m]
      <4>1. t1 \in [1..Size(m) -> Page \cup {Hole, Partial}]
        BY <3>1 DEF PartFile
      <4>2. \A j \in 1..Size(m) : t1[j] = Content[m][j]
        BY <1>g, <3>1, <3>2 DEF Right
      <4>3. Content[m] \in [1..Size(m) -> Page]
        BY <1>e, ContentIs
      <4>4. PICK n, w : n = Size(m) /\ w = Content[m]
        OBVIOUS
      <4>5. t1 = [j \in 1..n |-> t1[j]]
        BY <4>1, <4>4
      <4>6. w = [j \in 1..n |-> w[j]]
        BY <4>3, <4>4
      <4>7. \A j \in 1..n : t1[j] = w[j]
        BY <4>2, <4>4
      <4>8. t1 = w
        BY <4>5, <4>6, <4>7
      <4> QED
        BY <4>4, <4>8
    <3>4. StageInv(c)'
      BY <1>2, <1>d, <1>j, <2>1, <3>1, <3>3 DEF StageInv, Getting, Finished
    <3> QED
      BY <1>2, <2>5, <3>4 DEF PartsInv
  <2>6. DiskTypes'
    BY <1>2, <1>a DEF Types, DiskTypes
  <2>7. /\ DOMAIN down' = Conns
        /\ \A k \in Conns : down'[k] = down[k] \/ (k[1] = c /\ down'[k] = <<>>)
        /\ held' \subseteq held /\ \A k \in held : k[1] # c => k \in held'
    BY <1>2, <1>a, <1>e, CloseIs
  <2> QED
    BY <1>2, <1>b, <2>1, <2>2, <2>3, <2>4, <2>5, <2>6, <2>7, OwnStep DEF Getting
<1>3. \/ /\ i <= r.part[2]
         /\ disk' = [disk EXCEPT ![c].t[1] = WriteAt(@, r.part[1] + i, disk[c].t[2][i])]
         /\ cl' = [cl EXCEPT ![c].pos[2] = i]
         /\ held' = held /\ down' = down
      \/ i > r.part[2] /\ Close(c) /\ Goto(c, "rename") /\ disk' = disk
  BY <1>d, <1>h DEF Merge
<1> QED
  BY <1>1, <1>2, <1>3

\* The page that comes is the next one of the file.
LEMMA FilePut ==
    ASSUME NEW m, NEW f, Row1n(f), NEW p \in Nat \ {0}, p - 1 <= Len(f), Right(f, m, 0, p - 1),
           NEW g, g = WriteAt(f, p, Content[m][0 + p])
    PROVE  p <= Len(g) /\ Right(g, m, 0, p)
<1>1. PICK n \in Nat : n = IF p > Len(f) THEN p ELSE Len(f)
  BY DEF Row1n
<1>2. PICK v : v = Content[m][0 + p]
  OBVIOUS
<1>3. g = [j \in 1..n |-> IF j = p THEN v ELSE IF j <= Len(f) THEN f[j] ELSE Hole]
  BY <1>1, <1>2 DEF WriteAt
<1>4. Len(g) = n
  BY <1>1, <1>3
<1>5. p <= n /\ Len(f) \in Nat /\ Len(f) <= n
  BY <1>1 DEF Row1n
<1>6. Right(g, m, 0, p)
  <2> SUFFICES ASSUME NEW j \in 1..p PROVE g[j] = Content[m][0 + j]
    BY DEF Right
  <2>1. CASE j = p
    BY <1>2, <1>3, <1>5, <2>1
  <2>2. CASE j # p
    <3>1. j \in 1..(p - 1) /\ j \in 1..n /\ j <= Len(f)
      BY <1>5, <2>2
    <3>2. g[j] = f[j]
      BY <1>3, <2>2, <3>1
    <3> QED
      BY <3>1, <3>2 DEF Right
  <2> QED
    BY <2>1, <2>2
<1> QED
  BY <1>4, <1>5, <1>6

\* What is known of a download under way.
LEMMA ReceivingIs ==
    ASSUME IInv, NEW c \in Clients, NEW i, cl[c].at = "recv", i \in Nth(c) \ cl[c].over
    PROVE  /\ i \in {1, 2} /\ (Nth(c) = {1} => i = 1)
           /\ Busy1(c) /\ Line(c)[1] = "gets" /\ cl[c].row.md5 \in Md5s /\ cl[c].row.part \in Pair
           /\ cl[c].off \in Pair /\ cl[c].pos \in Pair
           /\ Good => /\ Parted(cl[c].row) /\ GetConn(c, i, K(c, i), cl[c].row.md5)
                      /\ \A j \in Nth(c) : HasContent(cl[c].row.s[j], cl[c].row.md5)
                                           /\ GetConn(c, j, K(c, j), cl[c].row.md5)
<1>a. Plain /\ Types /\ LineInv(c) /\ Downloading
  BY DEF IInv, Plain
<1>1. Busy1(c)
  BY DEF Busy1, Resting
<1>2. cl[c].row.md5 \in Md5s /\ cl[c].row.part \in Pair
  BY <1>a, <1>1, LineIs
<1>3. cl[c] \in ClientState
  BY <1>a DEF Types, ClientTypes
<1>4. i \in {1, 2} /\ (Nth(c) = {1} => i = 1)
  BY NthIs
<1>5. Line(c)[1] = "gets"
  BY <1>a, <1>1 DEF LineInv, Getting
<1>6. Wired(c)
  BY DEF Wired
<1> QED
  BY <1>a, <1>1, <1>2, <1>3, <1>4, <1>5, <1>6 DEF ClientState, Downloading, GetClient, Getting

\* A connection that has ended has brought what the client wanted.
LEMMA EndedIs ==
    ASSUME IInv, Good, NEW c \in Clients, NEW i, cl[c].at = "recv", i \in Nth(c) \ cl[c].over,
           ~Wanted(c, i) \/ (down[K(c, i)] = <<>> /\ ~Open(K(c, i)))
    PROVE  ~Wanted(c, i)
<1>1. PICK r, m, off, pos, k : /\ cl[c].row = r /\ r.md5 = m /\ cl[c].off = off /\ cl[c].pos = pos
                               /\ k = K(c, i)
  OBVIOUS
<1>2. /\ i \in {1, 2} /\ (Nth(c) = {1} => i = 1)
      /\ m \in Md5s /\ r.part \in Pair /\ off \in Pair /\ pos \in Pair
      /\ Parted(r) /\ GetConn(c, i, k, m)
  BY <1>1, ReceivingIs
<1>3. /\ Size(m) \in Nat /\ Part1(m) \in Nat /\ Part2(m) \in Nat /\ Part1(m) + Part2(m) = Size(m)
      /\ r.part[1] = Part1(m) /\ r.part[2] = Part2(m)
  BY <1>1, <1>2, ContentIs, PartsAre DEF Parted
<1>4. pos[i] \in Nat /\ off[i] \in Nat
  BY <1>2 DEF Pair
<1>5. CASE down[k] = <<>> /\ ~Open(k)
  <2>1. Download(k, m, off[i] + Base(r, i), r.part[i], pos[i])
    BY <1>1, <1>2 DEF GetConn
  <2>2. pos[i] + Len(down[k]) >= r.part[i] \/ off[i] + Base(r, i) + pos[i] + Len(down[k]) >= Size(m)
    BY <1>5, <2>1 DEF Download, Open
  <2>3. Len(down[k]) = 0
    BY <1>5
  <2>4. PICK b : b = Base(r, i) /\ (IF i = 1 THEN b = 0 ELSE b = Part1(m))
    BY <1>3 DEF Base
  <2>5. pos[i] >= r.part[i] \/ off[i] + b + pos[i] >= Size(m)
    BY <1>3, <1>4, <2>2, <2>3, <2>4
  <2>6. ~(pos[i] < r.part[i] - off[i])
    <3>1. CASE i = 1
      BY <1>3, <1>4, <2>4, <2>5, <3>1
    <3>2. CASE i = 2
      BY <1>3, <1>4, <2>4, <2>5, <3>2
    <3> QED
      BY <1>2, <3>1, <3>2
  <2> QED
    BY <1>1, <2>6 DEF Wanted
<1> QED
  BY <1>1, <1>5

\* Nothing changes on the line but what the client has read.
LEMMA ReadsOn ==
    ASSUME Plain, NEW c \in Clients, cl[c].at = "recv", cl'[c].at = "recv",
           cl'[c].op = cl[c].op, cl'[c].row = cl[c].row, cl'[c].n = cl[c].n, cl'[c].off = cl[c].off,
           sv' = sv, up' = up, held' = held
    PROVE  /\ LineInv(c)' /\ WireInv(c)'
           /\ Line(c)' = Line(c) /\ Nth(c)' = Nth(c) /\ \A i : K(c, i)' = K(c, i)
<1>1. LineInv(c) /\ WireInv(c)
  BY DEF Plain
<1>2. Line(c)' = Line(c) /\ Nth(c)' = Nth(c) /\ \A i : K(c, i)' = K(c, i)
  BY DEF Line, Nth, K
<1>3. LineInv(c)'
  BY <1>1, <1>2 DEF LineInv, Busy1, Resting, Getting, Putting
<1>4. Wired(c) /\ Wired(c)' /\ (Begun(c)' <=> Begun(c))
  BY DEF Wired, Begun
<1>5. ASSUME NEW k, Wire(c, k) PROVE Wire(c, k)'
  BY <1>2, <1>4, <1>5 DEF Wire
<1>6. WireInv(c)'
  BY <1>1, <1>2, <1>4, <1>5 DEF WireInv
<1> QED
  BY <1>2, <1>3, <1>6

LEMMA EndPartStep ==
    ASSUME IInv, NEW c \in Clients, NEW i, cl[c].at = "recv", i \in Nth(c) \ cl[c].over,
           ~Wanted(c, i) \/ (down[K(c, i)] = <<>> /\ ~Open(K(c, i))),
           cl' = [cl EXCEPT ![c].over = @ \cup {i}], down' = down, disk' = disk,
           UNCHANGED <<rows, serverVars, up, held, kills, route, history>>
    PROVE  IInv'
<1>a. Plain /\ Types /\ ShapeInv(c) /\ Downloading
  BY DEF IInv, Plain
<1>b. i \in {1, 2}
  BY ReceivingIs
<1>1. /\ cl'[c].at = "recv" /\ cl'[c].n = cl[c].n /\ cl'[c].op = cl[c].op /\ cl'[c].row = cl[c].row
      /\ cl'[c].off = cl[c].off /\ cl'[c].pos = cl[c].pos /\ cl'[c].over = cl[c].over \cup {i}
      /\ (\A d \in Clients \ {c} : cl'[d] = cl[d]) /\ ClientTypes'
  <2>1. cl \in [Clients -> ClientState] /\ cl[c] \in ClientState
    BY <1>a DEF Types, ClientTypes
  <2>2. /\ cl'[c].at = cl[c].at /\ cl'[c].n = cl[c].n /\ cl'[c].op = cl[c].op /\ cl'[c].row = cl[c].row
        /\ cl'[c].off = cl[c].off /\ cl'[c].pos = cl[c].pos /\ cl'[c].over = cl[c].over \cup {i}
        /\ (\A d \in Clients \ {c} : cl'[d] = cl[d])
    BY <2>1 DEF ClientState
  <2>3. ClientTypes'
    BY <1>b, <2>1 DEF ClientTypes, ClientState
  <2> QED
    BY <2>2, <2>3
<1>2. /\ LineInv(c)' /\ WireInv(c)'
      /\ Line(c)' = Line(c) /\ Nth(c)' = Nth(c) /\ \A j : K(c, j)' = K(c, j)
  BY <1>a, <1>1, ReadsOn DEF serverVars
<1>3. ShapeInv(c)'
  BY <1>a, <1>1, <1>2 DEF ShapeInv
<1>4. \A j : (Wanted(c, j)' <=> Wanted(c, j)) /\ Filled(c, j)' = Filled(c, j)
  BY <1>1 DEF Wanted, Filled
<1>5. Good => GetClient(c)'
  <2> SUFFICES ASSUME Good PROVE GetClient(c)'
    OBVIOUS
  <2>1. GetClient(c)
    BY <1>a DEF Downloading
  <2>2. repo' = repo /\ sv' = sv /\ up' = up /\ down' = down
    BY DEF serverVars
  <2>3. Wired(c) /\ Wired(c)'
    BY <1>1 DEF Wired
  <2>4. ASSUME NEW j, NEW k, NEW m, GetConn(c, j, k, m) PROVE GetConn(c, j, k, m)'
    <3>1. \A off, len, got : Download(k, m, off, len, got)' <=> Download(k, m, off, len, got)
      BY <2>2 DEF Download
    <3>2. \A p : PageComing(k, m, p)' <=> PageComing(k, m, p)
      BY <2>2 DEF PageComing
    <3> QED
      BY <1>1, <1>4, <2>2, <2>4, <3>1, <3>2 DEF GetConn
  <2> QED
    BY <1>1, <1>2, <2>1, <2>2, <2>3, <2>4 DEF GetClient, Parted, HasContent
<1>6. ASSUME PartsInv(c), StageInv(c), Good PROVE PartsInv(c)' /\ StageInv(c)'
  <2>1. PartsInv(c)'
    BY <1>6 DEF PartsInv
  <2>2. ~Wanted(c, i)
    BY <1>6, EndedIs
  <2>3. StageInv(c)'
    BY <1>1, <1>2, <1>4, <1>6, <2>2 DEF StageInv, Getting, Finished
  <2> QED
    BY <2>1, <2>3
<1>7. DOMAIN down = Conns /\ DiskTypes'
  BY <1>a DEF Types, NetTypes, DiskTypes
<1> QED
  BY <1>1, <1>2, <1>3, <1>5, <1>6, <1>7, OwnStep DEF Getting

\* A page under way is taken to its place.
TakesPage(c, i) ==
    /\ Wanted(c, i) /\ down[K(c, i)] # <<>>
    /\ disk' = Store(c, i, down[K(c, i)][1])
    /\ down' = [down EXCEPT ![K(c, i)] = Tail(@)]
    /\ cl' = [cl EXCEPT ![c].pos[i] = @ + 1]

LEMMA PageStep ==
    ASSUME IInv, NEW c \in Clients, NEW i, cl[c].at = "recv", i \in Nth(c) \ cl[c].over,
           TakesPage(c, i), UNCHANGED <<rows, serverVars, up, held, kills, route, history>>
    PROVE  IInv'
<1>a. Plain /\ Types /\ ShapeInv(c) /\ Downloading /\ LineInv(c)
  BY DEF IInv, Plain
<1>b. PICK r, m, off, pos, k : /\ cl[c].row = r /\ r.md5 = m /\ cl[c].off = off /\ cl[c].pos = pos
                               /\ k = K(c, i)
  OBVIOUS
<1>c. /\ i \in {1, 2} /\ (Nth(c) = {1} => i = 1) /\ Busy1(c)
      /\ m \in Md5s /\ r.part \in Pair /\ off \in Pair /\ pos \in Pair
      /\ Good => Parted(r) /\ GetConn(c, i, k, m)
  BY <1>b, ReceivingIs
<1>d. pos[i] \in Nat /\ off[i] \in Nat /\ r.part[i] \in Nat
  BY <1>c DEF Pair
<1>e. /\ k \in Conns /\ k[1] = c
      /\ \A j \in {1, 2} : K(c, j) \in Conns /\ (j # i => K(c, j) # k)
  <2>1. \A j \in {1, 2} : K(c, j) \in Conns /\ K(c, j)[1] = c /\ K(c, j)[3] = j
    BY <1>a, <1>c, LineIs
  <2> QED
    BY <1>b, <1>c, <2>1
<1>f. PICK v : down[k] = <<v>> /\ down[k][1] = v
  <2>1. down[k] # <<>>
    BY <1>b DEF TakesPage
  <2>2. down[k] = <<down[k][1]>>
    BY <1>a, <1>e, <2>1 DEF Types, NetTypes
  <2> QED
    BY <2>2
<1>g. /\ DOMAIN down' = Conns /\ down'[k] = <<>>
      /\ \A j \in Conns : j # k => down'[j] = down[j]
  BY <1>a, <1>b, <1>e, <1>f DEF Types, NetTypes, TakesPage
<1>h. PICK p : p = off[i] + pos[i] + 1
  OBVIOUS
<1>i. p \in Nat \ {0} /\ p - 1 = off[i] + pos[i] /\ p <= r.part[i] /\ pos[i] + 1 \in Nat
  BY <1>b, <1>d, <1>h DEF Wanted, TakesPage
<1>1. /\ cl'[c].at = "recv" /\ cl'[c].n = cl[c].n /\ cl'[c].op = cl[c].op /\ cl'[c].row = cl[c].row
      /\ cl'[c].off = cl[c].off /\ cl'[c].over = cl[c].over
      /\ cl'[c].pos[i] = pos[i] + 1 /\ (\A j \in {1, 2} : j # i => cl'[c].pos[j] = pos[j])
      /\ (\A d \in Clients \ {c} : cl'[d] = cl[d]) /\ ClientTypes'
  <2>1. PICK x \in Nat : x = pos[i] + 1
    BY <1>d
  <2>2. SetPos(c, i, x)
    BY <1>b, <2>1 DEF SetPos, TakesPage
  <2> QED
    BY <1>a, <1>b, <1>c, <2>1, <2>2, PosIs
<1>2. /\ LineInv(c)' /\ WireInv(c)'
      /\ Line(c)' = Line(c) /\ Nth(c)' = Nth(c) /\ \A j : K(c, j)' = K(c, j)
  BY <1>a, <1>1, ReadsOn DEF serverVars
<1>3. PICK f, t : disk[c].file = f /\ disk[c].t = t
  OBVIOUS
<1>4. /\ disk'[c].of = disk[c].of /\ DiskTypes'
      /\ \A d \in Clients \ {c} : disk'[d] = disk[d]
      /\ Nth(c) = {1} => /\ disk'[c].file = WriteAt(f, p, v)
                         /\ disk'[c].t = t
      /\ Nth(c) # {1} => /\ disk'[c].file = f
                         /\ disk'[c].t[i] = WriteAt(t[i], p, v)
                         /\ \A j \in {1, 2} : j # i => disk'[c].t[j] = t[j]
  <2>1. DiskTypes /\ down[K(c, i)][1] = v
    BY <1>a, <1>b, <1>f DEF Types
  <2>0. disk' = Store(c, i, v)
    BY <2>1 DEF TakesPage
  <2>2. CASE Nth(c) = {1}
    <3>1. i = 1
      BY <1>c, <2>2
    <3>2. SetFile(c, WriteAt(f, p, v))
      BY <1>b, <1>h, <1>3, <2>0, <2>2, <3>1 DEF Store, Arrived, SetFile
    <3> QED
      BY <1>3, <2>1, <2>2, <3>2, DiskFile
  <2>3. CASE Nth(c) # {1}
    <3>1. SetPart(c, i, WriteAt(t[i], p, v))
      BY <1>b, <1>h, <1>3, <2>0, <2>3 DEF Store, Arrived, SetPart
    <3> QED
      BY <1>c, <1>3, <2>1, <2>3, <3>1, DiskPart
  <2> QED
    BY <2>2, <2>3
<1>5. ShapeInv(c)'
  <2>1. /\ \A j \in {1, 2} : t[j] = NULL \/ Row1n(t[j])
        /\ f = NULL \/ Row1n(f)
        /\ Nth(c) = {1, 2} => \A j \in {1, 2} : Row1n(t[j])
        /\ Nth(c) = {1} => Row1n(f)
    BY <1>a, <1>3 DEF ShapeInv
  <2>2. Nth(c) = {1} \/ Nth(c) = {1, 2}
    BY NthIs
  <2>3. CASE Nth(c) = {1}
    <3>1. Row1n(WriteAt(f, p, v))
      BY <1>i, <2>1, <2>3, RowWritten
    <3>2. Nth(c)' # {1, 2}
      BY <1>2, <2>3
    <3>3. disk'[c].t = t /\ disk'[c].file = WriteAt(f, p, v)
      BY <1>4, <2>3
    <3> QED
      BY <1>1, <2>1, <3>1, <3>2, <3>3 DEF ShapeInv
  <2>4. CASE Nth(c) = {1, 2}
    <3>1. Row1n(WriteAt(t[i], p, v))
      BY <1>c, <1>i, <2>1, <2>4, RowWritten
    <3>2. Nth(c) # {1}
      BY <2>4
    <3>3. \A j \in {1, 2} : Row1n(disk'[c].t[j])
      BY <1>4, <2>1, <2>4, <3>1, <3>2
    <3> QED
      BY <1>1, <1>2, <1>4, <2>1, <3>2, <3>3 DEF ShapeInv
  <2> QED
    BY <2>2, <2>3, <2>4
<1>6. Good => GetClient(c)'
  <2> SUFFICES ASSUME Good PROVE GetClient(c)'
    OBVIOUS
  <2>1. Line(c)[1] = "gets" /\ Parted(r) /\ \A j \in Nth(c) : HasContent(r.s[j], m) /\ GetConn(c, j, K(c, j), m)
    BY <1>b, ReceivingIs
  <2>2. repo' = repo /\ sv' = sv /\ up' = up
    BY DEF serverVars
  <2>3. Wired(c) /\ Wired(c)'
    BY <1>1 DEF Wired
  <2>4. ASSUME NEW j \in Nth(c) PROVE GetConn(c, j, K(c, j), m)'
    <3>1. j \in {1, 2} /\ GetConn(c, j, K(c, j), m) /\ K(c, j)' = K(c, j)
      BY <1>2, <2>1, <2>4, NthIs
    <3>2. CASE j = i
      <4>1. Download(k, m, off[i] + Base(r, i), r.part[i], pos[i]) /\ sv[k].at # "closed" => sv[k].s = r.s[i]
        BY <1>b, <2>1, <3>1, <3>2 DEF GetConn
      <4>2. Len(down[k]) = 1 /\ Len(down'[k]) = 0
        BY <1>f, <1>g
      <4>3. pos[i] + 1 = pos[i] + Len(down[k]) /\ pos[i] + 1 + Len(down'[k]) = pos[i] + Len(down[k])
        BY <1>d, <4>2
      <4>4. down[k] # <<>>
        BY <1>f
      <4>5. PICK o : o = off[i] + Base(r, i) /\ o \in Nat
        BY <1>c, <1>d DEF Base, Pair
      <4>6. Download(k, m, o, r.part[i], pos[i])
        BY <3>1, <3>2, <1>b, <4>5 DEF GetConn
      <4>7. \/ /\ sv[k].at = "send" /\ sv[k].m = m /\ sv[k].off = o /\ sv[k].len = r.part[i]
               /\ sv[k].pos = pos[i] + Len(down[k])
            \/ /\ sv[k].at = "closed"
               /\ pos[i] + Len(down[k]) >= r.part[i] \/ o + pos[i] + Len(down[k]) >= Size(m)
        BY <4>4, <4>6 DEF Download
      <4>8. o + (pos[i] + 1) + Len(down'[k]) = o + pos[i] + Len(down[k])
        BY <1>d, <4>2, <4>5
      <4>9. PICK got : got = pos[i] + 1
        OBVIOUS
      <4>10. \/ /\ sv'[k].at = "send" /\ sv'[k].m = m /\ sv'[k].off = o /\ sv'[k].len = r.part[i]
                /\ sv'[k].pos = got + Len(down'[k])
             \/ /\ sv'[k].at = "closed"
                /\ got + Len(down'[k]) >= r.part[i] \/ o + got + Len(down'[k]) >= Size(m)
        BY <2>2, <4>3, <4>7, <4>8, <4>9
      <4>11. /\ cl'[c].off[j] + Base(cl'[c].row, j) = o /\ cl'[c].row.part[j] = r.part[i]
             /\ cl'[c].pos[j] = got /\ cl'[c].row.s[j] = r.s[i] /\ K(c, j)' = k
        BY <1>b, <1>1, <1>2, <3>2, <4>5, <4>9
      <4>12. sv'[k].at # "closed" => sv'[k].s = r.s[i]
        BY <1>b, <2>2, <3>1, <3>2 DEF GetConn
      <4>13. Download(k, m, o, r.part[i], got)'
        BY <4>10, <4>11 DEF Download
      <4>14. \A x : PageComing(k, m, x)'
        BY <1>g DEF PageComing
      <4> QED
        BY <1>1, <4>11, <4>12, <4>13, <4>14 DEF GetConn
    <3>3. CASE j # i
      <4>1. PICK q : q = K(c, j) /\ q = K(c, j)' /\ q \in Conns /\ q # k
        BY <1>e, <3>1, <3>3
      <4>2. down'[q] = down[q] /\ sv'[q] = sv[q] /\ up'[q] = up[q] /\ cl'[c].pos[j] = cl[c].pos[j]
        BY <1>b, <1>g, <1>1, <2>2, <3>1, <3>3, <4>1
      <4>3. \A o, len, got : Download(q, m, o, len, got)' <=> Download(q, m, o, len, got)
        BY <4>2 DEF Download
      <4>4. \A x : PageComing(q, m, x)' <=> PageComing(q, m, x)
        BY <4>2 DEF PageComing
      <4>5. Wanted(c, j)' <=> Wanted(c, j)
        BY <1>1, <4>2 DEF Wanted
      <4>6. GetConn(c, j, q, m)
        BY <3>1, <4>1
      <4>7. GetConn(c, j, q, m)'
        BY <1>1, <4>2, <4>3, <4>4, <4>5, <4>6 DEF GetConn
      <4> QED
        BY <4>1, <4>7
    <3> QED
      BY <3>2, <3>3
  <2> QED
    BY <1>b, <1>1, <1>2, <2>1, <2>2, <2>3, <2>4 DEF GetClient, Parted, HasContent
<1>7. ASSUME PartsInv(c), StageInv(c), Good PROVE PartsInv(c)' /\ StageInv(c)'
  <2>1. v = Content[m][off[i] + Base(r, i) + pos[i] + 1]
    <3>1. PageComing(k, m, off[i] + Base(r, i) + pos[i] + 1)
      <4>1. Wanted(c, i)
        BY DEF TakesPage
      <4> QED
        BY <1>b, <1>c, <1>7, <4>1 DEF GetConn
    <3> QED
      BY <1>f, <3>1 DEF PageComing
  <2>2. PICK b \in Nat : b = Base(r, i) /\ v = Content[m][b + p]
    <3>1. Base(r, i) \in Nat
      BY <1>c DEF Base, Pair
    <3>2. off[i] + Base(r, i) + pos[i] + 1 = Base(r, i) + p
      BY <1>d, <1>h, <3>1
    <3> QED
      BY <2>1, <3>1, <3>2
  <2>3. r.part[1] = Part1(m) /\ r.part[2] = Part2(m)
    BY <1>b, <1>c, <1>7 DEF Parted
  <2>4. CASE Nth(c) = {1}
    <3>1. i = 1 /\ b = 0
      BY <1>c, <2>2, <2>4 DEF Base
    <3>2. off[1] = 0 /\ pos[1] <= Len(f) /\ Right(f, m, 0, pos[1]) /\ 1 \notin cl[c].over
      BY <1>b, <1>3, <1>7, <2>4, <3>1 DEF StageInv
    <3>3. p = pos[1] + 1 /\ p - 1 = pos[1]
      BY <1>d, <1>h, <3>1, <3>2
    <3>4. Row1n(f)
      BY <1>a, <1>3, <2>4 DEF ShapeInv
    <3>5. PICK g : g = WriteAt(f, p, v)
      OBVIOUS
    <3>6. p - 1 <= Len(f) /\ Right(f, m, 0, p - 1) /\ g = WriteAt(f, p, Content[m][0 + p])
      BY <2>2, <3>1, <3>2, <3>3, <3>5
    <3>7. p <= Len(g) /\ Right(g, m, 0, p)
      BY <1>i, <3>4, <3>6, FilePut
    <3>8. disk'[c].file = g /\ disk'[c].t = t /\ disk'[c].of = disk[c].of /\ Nth(c)' # {1, 2}
      BY <1>2, <1>4, <2>4, <3>5
    <3>9. PartsInv(c)'
      BY <1>3, <1>7, <3>8 DEF PartsInv
    <3>10. StageInv(c)'
      BY <1>b, <1>1, <2>4, <3>1, <3>2, <3>3, <3>7, <3>8 DEF StageInv, Getting, Finished
    <3> QED
      BY <3>9, <3>10
  <2>5. CASE Nth(c) = {1, 2}
    <3>1. disk[c].of = m
      BY <1>b, <1>7, <2>5 DEF StageInv, Getting
    <3>2. /\ Big(m) /\ PartFile(t[1], m, 0, Part1(m)) /\ PartFile(t[2], m, Part1(m), Part2(m))
      BY <1>c, <1>3, <1>7, <3>1, MarksApart DEF PartsInv
    <3>3. /\ \A j \in {1, 2} : /\ t[j] # NULL
                               /\ Filled(c, j) <= Len(t[j]) /\ Right(t[j], m, Base(r, j), Filled(c, j))
                               /\ EmptyBehind(t[j], Filled(c, j) + 1)
                               /\ j \in cl[c].over => ~Wanted(c, j)
      BY <1>b, <1>3, <1>7, <2>5 DEF StageInv
    <3>4. PICK h, n, g : h = t[i] /\ n = (IF i = 1 THEN Part1(m) ELSE Part2(m)) /\ g = WriteAt(h, p, v)
      OBVIOUS
    <3>5. PartFile(h, m, b, n) /\ h # NULL
      BY <1>c, <2>2, <2>3, <3>2, <3>3, <3>4 DEF Base
    <3>6. Filled(c, i) = p - 1
      BY <1>b, <1>i DEF Filled
    <3>7. p \in 1..Len(h)
      <4>1. n <= Len(h) /\ Len(h) \in Nat
        BY <3>5 DEF PartFile
      <4>2. p <= n
        BY <1>c, <1>i, <2>3, <3>4
      <4>3. n \in Nat
        BY <1>c, <3>4, PartsAre
      <4> QED
        BY <1>i, <4>1, <4>2, <4>3
    <3>8. Right(h, m, b, p - 1) /\ EmptyBehind(h, p)
      <4>1. p - 1 + 1 = p
        BY <1>i
      <4> QED
        BY <1>c, <2>2, <3>3, <3>4, <3>6, <4>1
    <3>9. /\ PartFile(g, m, b, n) /\ g # NULL /\ Len(g) = Len(h) /\ Len(h) \in Nat
          /\ g[p] = Content[m][b + p] /\ (\A j \in 1..Len(h) : j # p => g[j] = h[j]) /\ Row1n(g)
      <4>1. g = WriteAt(h, p, Content[m][b + p])
        BY <2>2, <3>4
      <4> QED
        BY <1>c, <3>5, <3>7, <3>8, <4>1, PagePut
    <3>10. Right(g, m, b, p)
      <4> SUFFICES ASSUME NEW j \in 1..p PROVE g[j] = Content[m][b + j]
        BY DEF Right
      <4>1. CASE j = p
        BY <3>9, <4>1
      <4>2. CASE j # p
        <5>1. j \in 1..Len(h) /\ j \in 1..(p - 1)
          BY <3>7, <4>2
        <5> QED
          BY <3>8, <3>9, <4>2, <5>1 DEF Right
      <4> QED
        BY <4>1, <4>2
    <3>11. EmptyBehind(g, p + 1)
      <4> SUFFICES ASSUME NEW j \in DOMAIN g, j > p + 1 PROVE g[j] = Hole
        BY DEF EmptyBehind
      <4>1. j \in 1..Len(h)
        BY <3>9 DEF Row1n
      <4>2. j \in DOMAIN h /\ j > p /\ j # p
        BY <1>i, <3>5, <4>1 DEF PartFile
      <4> QED
        BY <3>8, <3>9, <4>1, <4>2 DEF EmptyBehind
    <3>12. /\ disk'[c].t[i] = g /\ (\A j \in {1, 2} : j # i => disk'[c].t[j] = t[j])
           /\ disk'[c].of = m /\ Nth(c)' = {1, 2} /\ Nth(c)' # {1}
      BY <1>2, <1>4, <2>5, <3>1, <3>4
    <3>13. Filled(c, i)' = p /\ \A j \in {1, 2} : j # i => Filled(c, j)' = Filled(c, j) /\ (Wanted(c, j)' <=> Wanted(c, j))
      BY <1>b, <1>d, <1>h, <1>1 DEF Filled, Wanted
    <3>14. PartsInv(c)'
      <4>1. PartFile(disk'[c].t[1], m, 0, Part1(m))
        <5>1. CASE i = 1
          BY <2>2, <3>4, <3>9, <3>12, <5>1 DEF Base
        <5>2. CASE i # 1
          BY <3>2, <3>12, <5>2
        <5> QED
          BY <5>1, <5>2
      <4>2. PartFile(disk'[c].t[2], m, Part1(m), Part2(m))
        <5>1. CASE i = 2
          BY <2>2, <2>3, <3>4, <3>9, <3>12, <5>1 DEF Base
        <5>2. CASE i # 2
          BY <3>2, <3>12, <5>2
        <5> QED
          BY <5>1, <5>2
      <4> QED
        BY <1>c, <3>2, <3>12, <4>1, <4>2 DEF PartsInv
    <3>15. StageInv(c)'
      <4>1. ASSUME NEW j \in {1, 2}
            PROVE  /\ disk'[c].t[j] # NULL
                   /\ Filled(c, j)' <= Len(disk'[c].t[j]) /\ Right(disk'[c].t[j], m, Base(r, j), Filled(c, j)')
                   /\ EmptyBehind(disk'[c].t[j], Filled(c, j)' + 1)
                   /\ j \in cl'[c].over => ~Wanted(c, j)'
        <5>1. CASE j = i
          BY <1>1, <2>2, <3>7, <3>9, <3>10, <3>11, <3>12, <3>13, <5>1
        <5>2. CASE j # i
          BY <1>1, <3>3, <3>12, <3>13, <5>2
        <5> QED
          BY <5>1, <5>2
      <4> QED
        BY <1>b, <1>1, <3>12, <4>1 DEF StageInv, Getting, Finished
    <3> QED
      BY <3>14, <3>15
  <2> QED
    BY <2>4, <2>5, NthIs
<1>8. /\ \A j \in Conns : down'[j] = down[j] \/ (j[1] = c /\ down'[j] = <<>>)
      /\ held' \subseteq held /\ \A j \in held : j[1] # c => j \in held'
  BY <1>e, <1>g
<1> QED
  BY <1>1, <1>2, <1>4, <1>5, <1>6, <1>7, <1>8, <1>g, OwnStep DEF Getting

LEMMA RecvPartStep == ASSUME IInv, NEW c \in Clients, NEW i, RecvPart(c, i) PROVE IInv'
<1>1. /\ cl[c].at = "recv" /\ i \in Nth(c) \ cl[c].over
      /\ UNCHANGED <<rows, serverVars, up, held, kills, route, history>>
  BY DEF RecvPart
<1>2. CASE /\ Wanted(c, i) /\ down[K(c, i)] # <<>>
           /\ disk' = Store(c, i, down[K(c, i)][1])
           /\ down' = [down EXCEPT ![K(c, i)] = Tail(@)]
           /\ cl' = [cl EXCEPT ![c].pos[i] = @ + 1]
  BY <1>1, <1>2, PageStep DEF TakesPage
<1>3. CASE /\ ~Wanted(c, i) \/ (down[K(c, i)] = <<>> /\ ~Open(K(c, i)))
           /\ cl' = [cl EXCEPT ![c].over = @ \cup {i}]
           /\ down' = down /\ disk' = disk
  BY <1>1, <1>3, EndPartStep
<1> QED
  BY <1>2, <1>3 DEF RecvPart

-----------------------------------------------------------------------------
(* A client sends a word *)

\* A word goes on every open connection of the line, and the client goes on.
SendsWord(c, w) ==
    /\ ClientStep(c) /\ Send(c, w) /\ w[1] \in Words /\ w[2] \in Words
    /\ sv' = sv /\ que' = que /\ down' = down /\ held' = held /\ rows' = rows
    /\ ClientTypes' /\ DiskTypes' /\ HistoryTypes' /\ LineInv(c)' /\ ShapeInv(c)'
    /\ cl[c].at \in {"train", "open", "size"} /\ cl'[c].at \in {"open", "recv", "size", "send1"}
    /\ cl'[c].n = cl[c].n /\ cl'[c].op = cl[c].op /\ cl'[c].row = cl[c].row
    /\ cl[c].at = "train" => \A i \in {1, 2} : w[i] = [k |-> "cmd", v |-> Line(c)]

LEMMA SentIs ==
    ASSUME Plain, NEW c \in Clients, NEW w, SendsWord(c, w)
    PROVE  /\ Wired(c) /\ Wired(c)' /\ Begun(c)' /\ Busy1(c)
           /\ Line(c)' = Line(c) /\ Nth(c)' = Nth(c) /\ \A i : K(c, i)' = K(c, i)
           /\ \A k \in Conns :
                 /\ ~(\E i \in Nth(c) : k = K(c, i)) => up'[k] = up[k]
                 /\ up'[k] = up[k] \/ (up'[k] = Append(up[k], w[k[3]]) /\ w[k[3]] \in Words)
                 /\ up'[k] \in Seq(Words)
                 /\ up[k] # <<>> => up'[k] # <<>> /\ up'[k][1] = up[k][1]
                 /\ Unused(k)' /\ k[1] = c => up'[k] = up[k]
                 /\ Current(k)' <=> Current(k)
           /\ \A i \in Nth(c) : /\ K(c, i) \in Conns /\ K(c, i)[1] = c /\ i \in {1, 2}
                                /\ Open(K(c, i)) => up'[K(c, i)] = Append(up[K(c, i)], w[i])
                                /\ ~Open(K(c, i)) => up'[K(c, i)] = up[K(c, i)]
<1>a. /\ Types /\ NetTypes /\ LineInv(c) /\ Send(c, w) /\ up \in [Conns -> Seq(Words)]
      /\ w[1] \in Words /\ w[2] \in Words /\ ClientStep(c)
      /\ cl[c].at \in {"train", "open", "size"} /\ cl'[c].at \in {"open", "recv", "size", "send1"}
      /\ cl'[c].n = cl[c].n /\ cl'[c].op = cl[c].op /\ cl'[c].row = cl[c].row
  BY DEF Plain, SendsWord, Types, NetTypes
<1>1. Wired(c) /\ Wired(c)' /\ Begun(c)' /\ Busy1(c)
  BY <1>a DEF Wired, Begun, Busy1, Resting
<1>2. Line(c)' = Line(c) /\ Nth(c)' = Nth(c) /\ \A i : K(c, i)' = K(c, i)
  BY <1>a DEF Line, Nth, K
<1>3. \A i \in {1, 2} : K(c, i) \in Conns /\ K(c, i)[1] = c /\ K(c, i)[2] = cl[c].n /\ K(c, i)[3] = i
  BY <1>a, <1>1, LineIs
<1>4. \A k \in Conns : up'[k] = IF (\E i \in Nth(c) : k = K(c, i)) /\ Open(k) THEN Append(up[k], w[k[3]])
                                ELSE up[k]
  BY <1>a, SendEffect
<1>5. ASSUME NEW k \in Conns
      PROVE  /\ ~(\E i \in Nth(c) : k = K(c, i)) => up'[k] = up[k]
             /\ up'[k] = up[k] \/ (up'[k] = Append(up[k], w[k[3]]) /\ w[k[3]] \in Words)
             /\ up'[k] \in Seq(Words)
             /\ up[k] # <<>> => up'[k] # <<>> /\ up'[k][1] = up[k][1]
             /\ Unused(k)' /\ k[1] = c => up'[k] = up[k]
             /\ Current(k)' <=> Current(k)
  <2>1. w[k[3]] \in Words
    BY <1>a, ConnIs
  <2>2. up'[k] = up[k] \/ (up'[k] = Append(up[k], w[k[3]]) /\ w[k[3]] \in Words)
    BY <1>4, <2>1
  <2>3. up[k] \in Seq(Words)
    BY <1>a
  <2>4. up'[k] \in Seq(Words) /\ (up[k] # <<>> => up'[k] # <<>> /\ up'[k][1] = up[k][1])
    <3>1. CASE up'[k] = up[k]
      BY <2>3, <3>1
    <3>2. CASE up'[k] = Append(up[k], w[k[3]])
      <4>0. PICK S : S = Words
        OBVIOUS
      <4>1. PICK u \in Seq(S), e \in S : u = up[k] /\ e = w[k[3]]
        BY <2>1, <2>3, <4>0
      <4>2. Append(u, e) \in Seq(S) /\ Append(u, e) # <<>> /\ (u # <<>> => Append(u, e)[1] = u[1])
        BY <4>1, OneMore
      <4> QED
        BY <3>2, <4>0, <4>1, <4>2
    <3> QED
      BY <2>2, <3>1, <3>2
  <2>5. Unused(k)' /\ k[1] = c => up'[k] = up[k]
    <3> SUFFICES ASSUME Unused(k)', k[1] = c PROVE up'[k] = up[k]
      OBVIOUS
    <3>1. k[2] # cl[c].n
      <4>1. k[2] > cl[c].n \/ (k[2] = cl[c].n /\ cl'[c].at \in {"sizes", "connect"})
        BY <1>a DEF Unused
      <4>2. k[2] > cl[c].n
        BY <1>a, <4>1
      <4>3. cl[c].n \in Nat /\ k[2] \in Nat
        <5>1. cl[c] \in ClientState
          BY <1>a DEF Types, ClientTypes
        <5> QED
          BY <5>1, ConnIs, TransferAssumption DEF ClientState
      <4> QED
        BY <4>2, <4>3
    <3>2. ~(\E i \in Nth(c) : k = K(c, i))
      BY <1>3, <3>1, NthIs
    <3> QED
      BY <1>4, <3>2
  <2>6. Current(k)' <=> Current(k)
    <3>1. CASE k[1] = c
      BY <1>a, <1>1, <1>2, <3>1 DEF Current
    <3>2. CASE k[1] # c
      BY <1>a, <3>2, OtherConn
    <3> QED
      BY <3>1, <3>2
  <2> QED
    BY <1>4, <2>2, <2>4, <2>5, <2>6
<1>6. ASSUME NEW i \in Nth(c)
      PROVE  /\ K(c, i) \in Conns /\ K(c, i)[1] = c /\ i \in {1, 2}
             /\ Open(K(c, i)) => up'[K(c, i)] = Append(up[K(c, i)], w[i])
             /\ ~Open(K(c, i)) => up'[K(c, i)] = up[K(c, i)]
  <2>1. i \in {1, 2} /\ K(c, i) \in Conns /\ K(c, i)[1] = c /\ K(c, i)[3] = i
    BY <1>3, <1>6, NthIs
  <2> QED
    BY <1>4, <1>6, <2>1
<1> QED
  BY <1>1, <1>2, <1>5, <1>6

LEMMA SendPlain ==
    ASSUME Plain, NEW c \in Clients, NEW w, SendsWord(c, w)
    PROVE  Plain' /\ Types'
<1>a. /\ Types /\ QueueInv /\ PoolInv /\ \A k \in Conns : ConnInv(k)
  BY DEF Plain
<1>b. /\ LineInv(c) /\ WireInv(c)
  BY DEF Plain
<1>c. /\ ClientStep(c) /\ sv' = sv /\ que' = que /\ down' = down /\ held' = held /\ rows' = rows
      /\ ClientTypes' /\ DiskTypes' /\ HistoryTypes' /\ LineInv(c)' /\ ShapeInv(c)'
      /\ cl[c].at \in {"train", "open", "size"} /\ cl'[c].at \in {"open", "recv", "size", "send1"}
      /\ cl'[c].n = cl[c].n
  BY DEF SendsWord
<1>1. Types'
  <2>1. ServerTypes'
    BY <1>a, <1>c DEF Types, ServerTypes, SvTypes, ClientStep
  <2>2. NetTypes'
    <3>1. up' = [k \in Conns |-> up'[k]]
      BY DEF SendsWord, Send
    <3>2. \A k \in Conns : up'[k] \in Seq(Words)
      BY SentIs
    <3>3. up' \in [Conns -> Seq(Words)]
      BY <3>1, <3>2
    <3> QED
      BY <1>a, <1>c, <3>3 DEF Types, NetTypes
  <2> QED
    BY <1>c, <2>1, <2>2 DEF Types
<1>2. QueueInv'
  BY <1>a, <1>c DEF QueueInv
<1>3. PoolInv'
  <2>1. \A s \in Servers : Busy(s)' = Busy(s)
    BY <1>c DEF Busy, Open
  <2> QED
    BY <1>a, <2>1 DEF PoolInv
<1>4. ASSUME NEW i \in Nth(c) PROVE Wire(c, K(c, i)) /\ Wire(c, K(c, i))'
  <2>1. PICK k : k = K(c, i) /\ k \in Conns
    BY <1>4, SentIs
  <2>2. Wire(c, k) /\ k = K(c, i)'
    BY <1>b, <1>4, <2>1, SentIs DEF WireInv
  <2>3. Line(c)' = Line(c) /\ Begun(c)'
    BY SentIs
  <2>4. up[k] # <<>> => up'[k] # <<>> /\ up'[k][1] = up[k][1]
    BY <2>1, SentIs
  <2>5. ASSUME sv[k].at \in {"queued", "cmd"}
        PROVE  up'[k] # <<>> /\ up'[k][1] = [k |-> "cmd", v |-> Line(c)]
    <3>1. CASE cl[c].at = "train"
      <4>1. up[k] = <<>> /\ Open(k)
        BY <2>2, <2>5, <3>1 DEF Wire, Open
      <4>2. PICK e \in Words : e = w[i] /\ e = [k |-> "cmd", v |-> Line(c)]
        <5>1. i \in {1, 2}
          BY <1>4, NthIs
        <5> QED
          BY <3>1, <5>1 DEF SendsWord
      <4>3. up'[k] = Append(up[k], e)
        <5>1. Open(K(c, i)) => up'[K(c, i)] = Append(up[K(c, i)], w[i])
          BY <1>4, SentIs
        <5> QED
          BY <2>1, <4>1, <4>2, <5>1
      <4>4. up'[k] = <<e>>
        BY <4>1, <4>3
      <4> QED
        BY <4>2, <4>4
    <3>2. CASE cl[c].at # "train"
      <4>1. Begun(c)
        BY <3>2, SentIs DEF Begun
      <4> QED
        BY <2>2, <2>4, <2>5, <4>1 DEF Wire
    <3> QED
      BY <3>1, <3>2
  <2>6. cl'[c].at # "train"
    BY <1>c
  <2>7. Wire(c, k)'
    BY <1>c, <2>2, <2>3, <2>5, <2>6 DEF Wire
  <2> QED
    BY <2>1, <2>2, <2>7
<1>5. WireInv(c)'
  <2>1. Nth(c)' = Nth(c) /\ \A i : K(c, i)' = K(c, i)
    BY SentIs
  <2> QED
    BY <1>4, <2>1 DEF WireInv
<1>6. ASSUME NEW k \in Conns, k[1] = c PROVE ConnInv(k)'
  <2>1. ConnInv(k)
    BY <1>a
  <2>2. Unused(k)' => Unused(k)
    BY <1>c, <1>6 DEF Unused
  <2>3. Unused(k)' => Fresh(k)'
    <3>1. Unused(k)' => up'[k] = up[k]
      BY <1>6, SentIs
    <3> QED
      BY <1>c, <2>1, <2>2, <3>1 DEF ConnInv, Fresh
  <2>4. FirstWord(k)'
    <3> SUFFICES ASSUME sv[k].at \in {"queued", "cmd"}, up'[k] # <<>>
                 PROVE  up'[k][1] \in [k : {"cmd"}, v : Lines]
      BY <1>c DEF FirstWord
    <3>1. CASE up[k] # <<>>
      <4>1. up'[k][1] = up[k][1]
        BY <3>1, SentIs
      <4> QED
        BY <2>1, <3>1, <4>1 DEF ConnInv, FirstWord
    <3>2. CASE up[k] = <<>>
      <4>1. PICK i \in Nth(c) : k = K(c, i)
        BY <3>2, SentIs
      <4>2. Wire(c, k)' /\ K(c, i)' = K(c, i)
        BY <1>4, <4>1, SentIs
      <4>3. Begun(c)' /\ Line(c)' = Line(c)
        BY SentIs
      <4>4. up'[k][1] = [k |-> "cmd", v |-> Line(c)]
        BY <1>c, <4>2, <4>3 DEF Wire
      <4>5. Line(c) \in Lines
        BY <1>a, <1>b, SentIs, LineIs
      <4> QED
        BY <4>4, <4>5
    <3> QED
      BY <3>1, <3>2
  <2> QED
    BY <1>c, <2>1, <2>3, <2>4 DEF ConnInv, Open
<1> QED
  BY <1>1, <1>2, <1>3, <1>5, <1>6, <1>c, PlainClient

\* No upload is disturbed by a word of this line.
LEMMA SendUploads ==
    ASSUME Plain, Uploaded, NEW c \in Clients, NEW w, SendsWord(c, w)
    PROVE  UploadsStay(c) /\ \A k \in Conns : k[1] = c => PutLeft(k)'
<1>a. sv' = sv /\ repo' = repo /\ alive' = alive /\ cut \subseteq cut'
  BY DEF SendsWord, ClientStep
<1>1. \A m : Kept(m)' => Kept(m)
  BY <1>a DEF Kept
<1>2. ASSUME NEW k \in Conns, NEW m \in Md5s, Uploads(k, m) PROVE Uploads(k, m)'
  <2>1. up[k] # <<>> => up'[k] # <<>> /\ up'[k][1] = up[k][1]
    BY SentIs
  <2> QED
    BY <1>a, <1>2, <2>1 DEF Uploads
<1>3. UploadsStay(c)
  BY <1>a, <1>2 DEF UploadsStay
<1>4. ASSUME NEW k \in Conns, k[1] = c PROVE PutLeft(k)'
  <2> SUFFICES ASSUME ~Current(k)', NEW m \in Md5s, Kept(m)', Uploads(k, m)'
               PROVE  Upload(k, m, 2 + Size(m))'
    BY DEF PutLeft
  <2>1. ~Current(k)
    BY SentIs
  <2>2. up'[k] = up[k]
    <3>1. ~(\E i \in Nth(c) : k = K(c, i))
      <4> SUFFICES ASSUME NEW i \in Nth(c), k = K(c, i) PROVE FALSE
        OBVIOUS
      <4>1. k[2] = cl[c].n /\ k[3] = i
        BY <1>4, KIs, ConnIs
      <4>2. Wired(c)
        BY SentIs
      <4> QED
        BY <1>4, <2>1, <4>1, <4>2 DEF Current
    <3> QED
      BY <3>1, SentIs
  <2>3. Uploads(k, m)
    BY <1>a, <2>2 DEF Uploads
  <2>4. Upload(k, m, 2 + Size(m))
    BY <1>1, <2>1, <2>3 DEF Uploaded, PutLeft
  <2> QED
    BY <1>a, <2>2, <2>4 DEF Upload, Holds
<1> QED
  BY <1>3, <1>4

LEMMA SendTrainStep == ASSUME IInv, NEW c \in Clients, SendTrain(c) PROVE IInv'
<1>a. Plain /\ Types /\ LineInv(c) /\ WireInv(c) /\ ShapeInv(c) /\ Uploaded /\ Downloading /\ PartsWhole
  BY DEF IInv, Plain
<1>b. PICK e, w : e = [k |-> "cmd", v |-> Line(c)] /\ w = <<e, e>>
  OBVIOUS
<1>c. PICK at : at = IF Line(c)[1] = "gets" THEN "open" ELSE "size"
  OBVIOUS
<1>d. /\ cl[c].at = "train" /\ Send(c, w) /\ Goto(c, at)
      /\ UNCHANGED <<rows, serverVars, down, held, disk, kills, route, history>>
  BY <1>b, <1>c DEF SendTrain
<1>e. /\ Busy1(c) /\ Line(c) \in Lines /\ Line(c)[1] \in {"gets", "puts"} /\ cl[c].row.md5 \in Md5s
      /\ Line(c) = <<Line(c)[1], cl[c].row.md5>> /\ cl[c].row.part \in Pair
      /\ \A i \in {1, 2} : K(c, i) \in Conns /\ K(c, i)[1] = c
  <2>1. Busy1(c)
    BY <1>d DEF Busy1, Resting
  <2> QED
    BY <1>a, <2>1, LineIs
<1>f. /\ repo' = repo /\ alive' = alive /\ sv' = sv /\ que' = que /\ down' = down /\ held' = held
      /\ rows' = rows /\ disk' = disk /\ kills' = kills /\ early' = early /\ cut' = cut /\ mixed' = mixed
  BY <1>d DEF serverVars, history
<1>1. /\ cl'[c].at = at /\ cl'[c].n = cl[c].n /\ cl'[c].op = cl[c].op /\ cl'[c].row = cl[c].row
      /\ cl'[c].off = cl[c].off /\ cl'[c].pos = cl[c].pos /\ at \in {"open", "size"}
      /\ (\A d \in Clients \ {c} : cl'[d] = cl[d]) /\ ClientTypes'
      /\ Line(c)' = Line(c) /\ Nth(c)' = Nth(c)
  <2>1. at \in Stages /\ at \in {"open", "size"}
    BY <1>c DEF Stages, Getting, Putting
  <2> QED
    BY <1>a, <1>d, <2>1, GotoIs
<1>2. ClientStep(c)
  <2>1. \A k \in Conns : k[1] # c => up'[k] = up[k]
    <3>1. NetTypes
      BY <1>a DEF Types
    <3>2. \A k \in Conns : k[1] # c => ~(\E i \in Nth(c) : k = K(c, i))
      BY <1>e, NthIs
    <3> QED
      BY <1>d, <3>1, <3>2, SendEffect
  <2> QED
    BY <1>1, <1>f, <2>1 DEF ClientStep
<1>3. SendsWord(c, w)
  <2>1. e \in Words /\ w[1] = e /\ w[2] = e
    BY <1>b, <1>e DEF Words
  <2>2. LineInv(c)'
    BY <1>a, <1>c, <1>d, <1>e, <1>1 DEF LineInv, Busy1, Resting, Getting, Putting
  <2>3. ShapeInv(c)'
    BY <1>a, <1>f, <1>1 DEF ShapeInv
  <2>4. DiskTypes' /\ HistoryTypes'
    BY <1>a, <1>f DEF Types, DiskTypes, HistoryTypes
  <2>5. \A i \in {1, 2} : w[i] = [k |-> "cmd", v |-> Line(c)]
    BY <1>b, <2>1
  <2> QED
    BY <1>d, <1>f, <1>1, <1>2, <2>1, <2>2, <2>3, <2>4, <2>5 DEF SendsWord
<1>4. Plain' /\ Types' /\ UploadsStay(c) /\ \A k \in Conns : k[1] = c => PutLeft(k)'
  BY <1>a, <1>3, SendPlain, SendUploads
<1>5. /\ \A i : K(c, i)' = K(c, i)
      /\ Wired(c) /\ Wired(c)'
  BY <1>a, <1>3, SentIs
<1>6. ASSUME NEW i \in Nth(c)
      PROVE  /\ K(c, i) \in Conns /\ i \in {1, 2} /\ Wire(c, K(c, i))
             /\ up[K(c, i)] = <<>>
             /\ sv[K(c, i)].at # "closed" => sv[K(c, i)].at \in {"queued", "cmd"} /\ up'[K(c, i)] = <<e>>
  <2>1. PICK k : k = K(c, i) /\ k \in Conns
    BY <1>6, <1>a, <1>3, SentIs
  <2>2. Wire(c, k)
    BY <1>a, <1>5, <1>6, <2>1 DEF WireInv
  <2>3. up[k] = <<>> /\ sv[k].at \in {"queued", "cmd", "closed"}
    BY <1>d, <2>2 DEF Wire
  <2>4. i \in {1, 2}
    BY <1>6, NthIs
  <2>5. sv[k].at # "closed" => up'[k] = Append(up[k], w[i])
    <3>1. sv[k].at # "closed" => Open(k)
      BY <2>3 DEF Open
    <3>2. Open(K(c, i)) => up'[K(c, i)] = Append(up[K(c, i)], w[i])
      BY <1>6, <1>a, <1>3, SentIs
    <3> QED
      BY <2>1, <3>1, <3>2
  <2>6. w[i] = e
    BY <1>b, <2>4
  <2>7. sv[k].at # "closed" => up'[k] = <<e>>
    BY <2>3, <2>5, <2>6
  <2> QED
    BY <2>1, <2>2, <2>3, <2>4, <2>7
<1>7. OweStays(c)
  BY <1>c, <1>e, <1>1 DEF OweStays, Owing
<1>8. NewRow(c)
  BY <1>f DEF NewRow
<1>9. Line(c)[1] = "puts" => e = CmdWord("puts", cl[c].row.md5)
  BY <1>b, <1>e DEF CmdWord
<1>10. Line(c)[1] = "gets" => e = CmdWord("gets", cl[c].row.md5)
  BY <1>b, <1>e DEF CmdWord
<1>11. PutClient(c)'
  <2>0. PICK m : m = cl[c].row.md5
    OBVIOUS
  <2> SUFFICES ASSUME Owing(c)', Kept(m)
               PROVE  /\ Parted(cl[c].row)
                      /\ \A i \in Nth(c) : PutConn(c, i, K(c, i), m)'
    BY <1>f, <1>1, <1>5, <2>0 DEF PutClient, Parted, Kept
  <2>1. at = "size" /\ Line(c)[1] = "puts" /\ Owing(c)
    BY <1>c, <1>d, <1>e, <1>1 DEF Owing
  <2>3. Parted(cl[c].row) /\ \A i \in Nth(c) : PutConn(c, i, K(c, i), m)
    BY <1>a, <1>5, <2>1, <2>0 DEF Uploaded, PutClient
  <2>4. ASSUME NEW i \in Nth(c) PROVE PutConn(c, i, K(c, i), m)'
    <3>1. PICK k : k = K(c, i) /\ k = K(c, i)'
      BY <1>5
    <3>2. sv[k].at # "closed" => sv[k].at \in {"queued", "cmd"} /\ up'[k] = <<CmdWord("puts", m)>>
      BY <1>6, <1>9, <2>1, <2>0, <2>4, <3>1
    <3>3. PutConn(c, i, k, m)
      BY <2>3, <2>4, <3>1
    <3>4. Sent(c, i)' = 1
      BY <1>1, <2>1 DEF Sent
    <3>5. CASE sv[k].at = "closed"
      <4>1. HasContent(cl[c].row.s[i], m)
        BY <3>3, <3>5 DEF PutConn, Upload
      <4>2. repo'[cl'[c].row.s[i]][m] = Content[m]
        BY <1>f, <1>1, <4>1 DEF HasContent
      <4> QED
        BY <1>f, <3>1, <3>5, <4>2 DEF PutConn, HasContent
    <3>6. CASE sv[k].at # "closed"
      <4>1. sv'[k].s = cl'[c].row.s[i]
        BY <1>f, <1>1, <3>3, <3>6 DEF PutConn
      <4>2. sv'[k].at \in {"queued", "cmd"} /\ up'[k] = <<CmdWord("puts", m)>>
        BY <1>f, <3>2, <3>6
      <4>3. Upload(k, m, 1)'
        BY <4>2 DEF Upload
      <4> QED
        BY <3>1, <3>4, <4>1, <4>3 DEF PutConn
    <3> QED
      BY <3>5, <3>6
  <2> QED
    BY <2>0, <2>3, <2>4
<1>12. ASSUME Good PROVE GetClient(c)' /\ \A k \in Conns : k[1] = c => GetThread(k)'
  <2>1. PICK m : m = cl[c].row.md5
    OBVIOUS
  <2>2. Line(c)[1] = "gets" => /\ Parted(cl[c].row)
                               /\ \A i \in Nth(c) : HasContent(cl[c].row.s[i], m) /\ GetConn(c, i, K(c, i), m)
    BY <1>a, <1>d, <1>5, <1>12, <2>1 DEF Downloading, GetClient
  <2>3. ASSUME NEW k \in Conns, k[1] = c PROVE GetThread(k)'
    <3>1. GetThread(k)
      BY <1>a, <1>12 DEF Downloading
    <3>2. ASSUME sv[k].at \in {"queued", "cmd"}, up'[k] # <<>>, NEW x \in Md5s, up'[k][1] = CmdWord("gets", x)
          PROVE  HasContent(sv[k].s, x)
      <4>1. CASE up[k] # <<>>
        <5>1. up'[k][1] = up[k][1]
          BY <1>a, <1>3, <4>1, SentIs
        <5> QED
          BY <3>1, <3>2, <4>1, <5>1 DEF GetThread
      <4>2. CASE up[k] = <<>>
        <5>1. PICK i \in Nth(c) : k = K(c, i)
          BY <1>a, <1>3, <3>2, <4>2, SentIs
        <5>2. up'[k] = <<e>>
          BY <1>6, <3>2, <5>1
        <5>3. e = CmdWord("gets", x)
          BY <3>2, <5>2
        <5>4. Line(c) = <<"gets", x>>
          BY <1>b, <5>3 DEF CmdWord
        <5>5. Line(c)[1] = "gets" /\ x = m
          BY <1>e, <2>1, <5>4
        <5>6. sv[k].s = cl[c].row.s[i]
          BY <2>2, <3>2, <5>1, <5>5 DEF GetConn
        <5> QED
          BY <2>2, <5>5, <5>6
      <4> QED
        BY <4>1, <4>2
    <3>3. sv[k].at \in {"gets", "offs", "send"} => sv[k].m \in Md5s /\ HasContent(sv[k].s, sv[k].m)
      BY <3>1 DEF GetThread
    <3> QED
      BY <1>f, <3>2, <3>3 DEF GetThread, HasContent
  <2>4. GetClient(c)'
    <3>1. CASE Line(c)[1] # "gets"
      BY <1>1, <3>1 DEF GetClient
    <3>2. CASE Line(c)[1] = "gets"
      <4>1. at = "open"
        BY <1>c, <3>2
      <4>2. ASSUME NEW i \in Nth(c) PROVE GetConn(c, i, K(c, i), m)'
        <5>1. PICK k : k = K(c, i) /\ k = K(c, i)'
          BY <1>5
        <5>2. GetConn(c, i, k, m)
          BY <2>2, <3>2, <4>2, <5>1
        <5>3. sv[k].at \in {"queued", "cmd"} /\ down[k] = <<>> /\ sv[k].s = cl[c].row.s[i]
          BY <1>d, <5>2 DEF GetConn
        <5>4. up'[k] = <<CmdWord("gets", m)>>
          BY <1>6, <1>10, <2>1, <3>2, <4>2, <5>1, <5>3
        <5> QED
          BY <1>f, <1>1, <4>1, <5>1, <5>3, <5>4 DEF GetConn
      <4> QED
        BY <1>f, <1>1, <1>5, <2>1, <2>2, <3>2, <4>2 DEF GetClient, Parted, HasContent
    <3> QED
      BY <3>1, <3>2
  <2> QED
    BY <2>3, <2>4
<1>13. Good' => Good
  BY <1>f DEF Good
<1>14. Good' /\ ~mixed' => PartsInv(c)' /\ StageInv(c)'
  <2>1. PartsInv(c) => PartsInv(c)'
    BY <1>f, PartsStay
  <2>2. StageInv(c)'
    <3>1. cl'[c].at \notin Getting \cup {"done"} \/ cl'[c].at = "open"
      BY <1>1 DEF Getting
    <3> QED
      BY <3>1, StageFree
  <2> QED
    BY <1>a, <1>f, <1>13, <2>1, <2>2 DEF PartsWhole
<1> QED
  BY <1>2, <1>4, <1>7, <1>8, <1>11, <1>12, <1>13, <1>14, ClientInv

LEMMA TwoWords ==
    ASSUME NEW a, NEW b
    PROVE  Append(<<a>>, b) = <<a, b>>
<1>1. PICK S : S = {a, b}
  OBVIOUS
<1>2. <<a>> \in Seq(S) /\ b \in S
  BY <1>1
<1> QED
  BY <1>2, OneMore

\* The thread has its command already.
LEMMA SendThreads ==
    ASSUME Plain, Downloading, Good, NEW c \in Clients, NEW w, SendsWord(c, w), cl[c].at # "train",
           NEW k \in Conns, k[1] = c
    PROVE  GetThread(k)'
<1>1. GetThread(k) /\ sv' = sv /\ repo' = repo
  BY DEF Downloading, SendsWord, ClientStep
<1>2. ASSUME sv[k].at \in {"queued", "cmd"}, up'[k] # <<>> PROVE up[k] # <<>> /\ up'[k][1] = up[k][1]
  <2>1. CASE up[k] # <<>>
    BY <2>1, SentIs
  <2>2. CASE up[k] = <<>>
    <3>1. PICK i \in Nth(c) : k = K(c, i)
      BY <1>2, <2>2, SentIs
    <3>2. Wire(c, k) /\ Begun(c)
      <4>1. Wired(c)
        BY SentIs
      <4> QED
        BY <3>1, <4>1 DEF Plain, WireInv, Begun
    <3> QED
      BY <1>2, <2>2, <3>2 DEF Wire
  <2> QED
    BY <2>1, <2>2
<1> QED
  BY <1>1, <1>2 DEF GetThread, HasContent

LEMMA SendSizeStep == ASSUME IInv, NEW c \in Clients, SendSize(c) PROVE IInv'
<1>a. Plain /\ Types /\ LineInv(c) /\ WireInv(c) /\ ShapeInv(c) /\ Uploaded /\ Downloading /\ PartsWhole
  BY DEF IInv, Plain
<1>b. PICK e, w : e = [k |-> "size", v |-> Size(Line(c)[2])] /\ w = <<e, e>>
  OBVIOUS
<1>d. /\ cl[c].at = "size" /\ Send(c, w)
      /\ UNCHANGED <<rows, serverVars, down, held, disk, kills, route, history>>
  BY <1>b DEF SendSize
<1>e. /\ Busy1(c) /\ Line(c) \in Lines /\ Line(c)[1] = "puts" /\ cl[c].row.md5 \in Md5s
      /\ Line(c)[2] = cl[c].row.md5
      /\ \A i \in {1, 2} : K(c, i) \in Conns /\ K(c, i)[1] = c
  <2>1. Busy1(c)
    BY <1>d DEF Busy1, Resting
  <2>2. Line(c)[1] = "puts"
    BY <1>a, <1>d, <2>1 DEF LineInv, Putting
  <2> QED
    BY <1>a, <2>1, <2>2, LineIs
<1>f. /\ repo' = repo /\ alive' = alive /\ sv' = sv /\ que' = que /\ down' = down /\ held' = held
      /\ rows' = rows /\ disk' = disk /\ kills' = kills /\ early' = early /\ cut' = cut /\ mixed' = mixed
  BY <1>d DEF serverVars, history
<1>1. /\ cl'[c].at = "send1" /\ cl'[c].n = cl[c].n /\ cl'[c].op = cl[c].op /\ cl'[c].row = cl[c].row
      /\ cl'[c].pos = <<0, 0>>
      /\ (\A d \in Clients \ {c} : cl'[d] = cl[d]) /\ ClientTypes'
      /\ Line(c)' = Line(c) /\ Nth(c)' = Nth(c)
  <2>0. cl' = [cl EXCEPT ![c].at = "send1", ![c].pos = <<0, 0>>]
    BY DEF SendSize
  <2>1. "send1" \in Stages /\ <<0, 0>> \in Pair
    BY PairIs DEF Stages, Putting, Pair
  <2>2. cl \in [Clients -> ClientState] /\ cl[c] \in ClientState
    BY <1>a DEF Types, ClientTypes
  <2>3. /\ cl'[c].at = "send1" /\ cl'[c].n = cl[c].n /\ cl'[c].op = cl[c].op /\ cl'[c].row = cl[c].row
        /\ cl'[c].pos = <<0, 0>> /\ (\A d \in Clients \ {c} : cl'[d] = cl[d])
    BY <2>0, <2>2 DEF ClientState
  <2>4. ClientTypes'
    BY <2>0, <2>1, <2>2 DEF ClientTypes, ClientState
  <2> QED
    BY <2>3, <2>4 DEF Line, Nth
<1>2. ClientStep(c)
  <2>1. \A k \in Conns : k[1] # c => up'[k] = up[k]
    <3>1. NetTypes
      BY <1>a DEF Types
    <3>2. \A k \in Conns : k[1] # c => ~(\E i \in Nth(c) : k = K(c, i))
      BY <1>e, NthIs
    <3> QED
      BY <1>d, <3>1, <3>2, SendEffect
  <2> QED
    BY <1>1, <1>f, <2>1 DEF ClientStep
<1>3. SendsWord(c, w)
  <2>1. e \in Words /\ w[1] = e /\ w[2] = e
    BY <1>b, <1>e, ContentIs DEF Words
  <2>2. LineInv(c)'
    BY <1>a, <1>d, <1>e, <1>1 DEF LineInv, Busy1, Resting, Getting, Putting
  <2>3. ShapeInv(c)'
    BY <1>a, <1>f, <1>1 DEF ShapeInv
  <2>4. DiskTypes' /\ HistoryTypes'
    BY <1>a, <1>f DEF Types, DiskTypes, HistoryTypes
  <2> QED
    BY <1>d, <1>f, <1>1, <1>2, <2>1, <2>2, <2>3, <2>4 DEF SendsWord
<1>4. Plain' /\ Types' /\ UploadsStay(c) /\ \A k \in Conns : k[1] = c => PutLeft(k)'
  BY <1>a, <1>3, SendPlain, SendUploads
<1>5. /\ \A i : K(c, i)' = K(c, i)
      /\ Wired(c) /\ Wired(c)' /\ Owing(c) /\ Owing(c)'
  BY <1>a, <1>d, <1>e, <1>1, <1>3, SentIs DEF Owing
<1>7. OweStays(c)
  BY <1>1, <1>5 DEF OweStays
<1>8. NewRow(c)
  BY <1>f DEF NewRow
<1>9. PICK m : m = cl[c].row.md5 /\ m \in Md5s
  BY <1>e
<1>10. e = SizeWord(m)
  BY <1>b, <1>e, <1>9 DEF SizeWord
<1>11. ASSUME Kept(m), NEW i \in Nth(c) PROVE PutConn(c, i, K(c, i), m)'
  <2>1. PICK k : k = K(c, i) /\ k = K(c, i)' /\ k \in Conns /\ i \in {1, 2}
    BY <1>e, <1>5, <1>11, NthIs
  <2>2. PutConn(c, i, k, m) /\ Sent(c, i) = 1
    BY <1>a, <1>d, <1>5, <1>9, <1>11, <2>1 DEF Uploaded, PutClient, Sent
  <2>3. Sent(c, i)' = 2
    <3>1. cl'[c].pos[i] = 0
      BY <1>1, <2>1
    <3> QED
      BY <1>1, <3>1 DEF Sent
  <2>4. Open(k) => up'[k] = Append(up[k], SizeWord(m))
    <3>1. Open(K(c, i)) => up'[K(c, i)] = Append(up[K(c, i)], w[i])
      BY <1>a, <1>3, <1>11, SentIs
    <3> QED
      BY <1>b, <1>10, <2>1, <3>1
  <2>5. CASE sv[k].at = "closed" /\ HasContent(cl[c].row.s[i], m)
    <3>1. repo'[cl'[c].row.s[i]][m] = Content[m]
      BY <1>f, <1>1, <2>5 DEF HasContent
    <3> QED
      BY <1>f, <2>1, <2>5, <3>1 DEF PutConn, HasContent
  <2>6. CASE sv[k].s = cl[c].row.s[i] /\ Upload(k, m, 1)
    <3>1. \/ sv[k].at \in {"queued", "cmd"} /\ up[k] = <<CmdWord("puts", m)>>
          \/ sv[k].at \in {"puts", "size"} /\ sv[k].m = m /\ sv[k].pos = 0 /\ up[k] = <<>>
      <4>1. sv[k].pos \in Nat
        BY <1>a, <2>1 DEF Types, ServerTypes, SvTypes, Thread
      <4> QED
        BY <2>6, <4>1 DEF Upload
    <3>2. up'[k] = Append(up[k], SizeWord(m))
      BY <2>4, <3>1 DEF Open
    <3>3. Upload(k, m, 2)'
      <4>1. CASE sv[k].at \in {"queued", "cmd"} /\ up[k] = <<CmdWord("puts", m)>>
        <5>1. up'[k] = <<CmdWord("puts", m), SizeWord(m)>>
          BY <3>2, <4>1, TwoWords
        <5> QED
          BY <1>f, <4>1, <5>1 DEF Upload
      <4>2. CASE sv[k].at \in {"puts", "size"} /\ sv[k].m = m /\ sv[k].pos = 0 /\ up[k] = <<>>
        <5>1. up'[k] = <<SizeWord(m)>>
          BY <3>2, <4>2
        <5> QED
          BY <1>f, <4>2, <5>1 DEF Upload
      <4> QED
        BY <3>1, <4>1, <4>2
    <3>4. sv'[k].s = cl'[c].row.s[i]
      BY <1>f, <1>1, <2>6
    <3> QED
      BY <2>1, <2>3, <3>3, <3>4 DEF PutConn
  <2> QED
    BY <2>2, <2>5, <2>6 DEF PutConn
<1>12. PutClient(c)'
  <2>1. Kept(m) => Parted(cl[c].row)
    BY <1>a, <1>5, <1>9 DEF Uploaded, PutClient
  <2>2. \A i \in Nth(c) : cl'[c].pos[i] <= Size(m)
    <3>1. \A i \in Nth(c) : cl'[c].pos[i] = 0
      BY <1>1, NthIs
    <3> QED
      BY <1>9, <3>1, ContentIs
  <2> QED
    BY <1>f, <1>1, <1>5, <1>9, <1>11, <2>1, <2>2 DEF PutClient, Parted, Kept
<1>13. Good' => Good
  BY <1>f DEF Good
<1>14. ASSUME Good PROVE GetClient(c)' /\ \A k \in Conns : k[1] = c => GetThread(k)'
  <2>1. \A k \in Conns : k[1] = c => GetThread(k)'
    BY <1>a, <1>d, <1>3, <1>14, SendThreads
  <2>2. GetClient(c)'
    BY <1>e, <1>1 DEF GetClient
  <2> QED
    BY <2>1, <2>2
<1>15. Good' /\ ~mixed' => PartsInv(c)' /\ StageInv(c)'
  <2>1. PartsInv(c) => PartsInv(c)'
    BY <1>f, PartsStay
  <2>2. StageInv(c)'
    <3>1. cl'[c].at \notin Getting \cup {"done"} \/ cl'[c].at = "open"
      BY <1>1 DEF Getting
    <3> QED
      BY <3>1, StageFree
  <2> QED
    BY <1>a, <1>f, <1>13, <2>1, <2>2 DEF PartsWhole
<1> QED
  BY <1>2, <1>4, <1>7, <1>8, <1>12, <1>13, <1>14, <1>15, ClientInv

\* The server will send what is missing of the part.
LEMMA OffsSent ==
    ASSUME Plain, NEW c \in Clients, NEW w, SendsWord(c, w), cl[c].at = "open", NEW i \in Nth(c),
           NEW m, GetConn(c, i, K(c, i), m), NEW o, cl'[c].at = "recv", cl'[c].pos[i] = 0,
           cl'[c].off[i] + Base(cl[c].row, i) = o, w[i] = OffsWord(o, cl[c].row.part[i])
    PROVE  GetConn(c, i, K(c, i), m)'
<1>1. PICK k, l : k = K(c, i) /\ k = K(c, i)' /\ l = cl[c].row.part[i]
  BY SentIs
<1>2. sv' = sv /\ down' = down /\ cl'[c].row = cl[c].row
  BY DEF SendsWord
<1>3. /\ sv[k].at # "closed" => sv[k].s = cl[c].row.s[i]
      /\ down[k] = <<>>
      /\ \/ sv[k].at \in {"queued", "cmd"} /\ up[k] = <<CmdWord("gets", m)>>
         \/ sv[k].at \in {"gets", "offs"} /\ sv[k].m = m /\ sv[k].pos = 0 /\ up[k] = <<>>
  BY <1>1 DEF GetConn
<1>4. up'[k] = Append(up[k], OffsWord(o, l))
  <2>1. Open(k)
    BY <1>3 DEF Open
  <2>2. Open(K(c, i)) => up'[K(c, i)] = Append(up[K(c, i)], w[i])
    BY SentIs
  <2> QED
    BY <1>1, <2>1, <2>2
<1>5. Download(k, m, o, l, 0)'
  <2>1. CASE sv[k].at \in {"queued", "cmd"} /\ up[k] = <<CmdWord("gets", m)>>
    <3>1. up'[k] = <<CmdWord("gets", m), OffsWord(o, l)>>
      BY <1>4, <2>1, TwoWords
    <3> QED
      BY <1>2, <1>3, <2>1, <3>1 DEF Download
  <2>2. CASE sv[k].at \in {"gets", "offs"} /\ sv[k].m = m /\ sv[k].pos = 0 /\ up[k] = <<>>
    <3>1. up'[k] = <<OffsWord(o, l)>>
      BY <1>4, <2>2
    <3> QED
      BY <1>2, <1>3, <2>2, <3>1 DEF Download
  <2> QED
    BY <1>3, <2>1, <2>2
<1>6. \A x : PageComing(k, m, x)'
  BY <1>2, <1>3 DEF PageComing
<1> QED
  BY <1>1, <1>2, <1>3, <1>5, <1>6 DEF GetConn

\* What is the same for a small file and a big one.
LEMMA OpensStep ==
    ASSUME IInv, NEW c \in Clients, NEW w, SendsWord(c, w), cl[c].at = "open", cl'[c].at = "recv",
           \A i \in Nth(c) : /\ cl'[c].pos[i] = 0
                             /\ w[i] = OffsWord(cl'[c].off[i] + Base(cl[c].row, i), cl[c].row.part[i]),
           early' = early, cut' = cut,
           Good /\ ~mixed' /\ ~mixed /\ PartsInv(c) => PartsInv(c)' /\ StageInv(c)'
    PROVE  IInv'
<1>a. Plain /\ Types /\ LineInv(c) /\ Uploaded /\ Downloading /\ PartsWhole
  BY DEF IInv, Plain
<1>b. /\ ClientStep(c) /\ rows' = rows /\ repo' = repo /\ cl'[c].op = cl[c].op /\ cl'[c].row = cl[c].row
      /\ (mixed => mixed') /\ Line(c)[1] = "gets"
  <2>1. Line(c)[1] = "gets"
    BY <1>a DEF LineInv, Busy1, Resting, Getting
  <2> QED
    BY <2>1 DEF SendsWord, ClientStep
<1>1. Plain' /\ Types' /\ UploadsStay(c) /\ \A k \in Conns : k[1] = c => PutLeft(k)'
  BY <1>a, SendPlain, SendUploads
<1>2. OweStays(c)
  BY DEF OweStays, Owing
<1>3. NewRow(c) /\ PutClient(c)'
  BY <1>b, NoPut DEF Owing
<1>4. Good' => Good
  BY DEF Good
<1>5. ASSUME Good PROVE GetClient(c)' /\ \A k \in Conns : k[1] = c => GetThread(k)'
  <2>1. \A k \in Conns : k[1] = c => GetThread(k)'
    BY <1>a, <1>5, SendThreads
  <2>2. PICK m : m = cl[c].row.md5
    OBVIOUS
  <2>3. /\ Parted(cl[c].row)
        /\ \A i \in Nth(c) : HasContent(cl[c].row.s[i], m) /\ GetConn(c, i, K(c, i), m)
    BY <1>a, <1>b, <1>5, <2>2 DEF Downloading, GetClient, Getting, Wired
  <2>4. \A i \in Nth(c) : GetConn(c, i, K(c, i), m)'
    BY <1>a, <2>3, OffsSent
  <2>5. Nth(c)' = Nth(c) /\ Line(c)' = Line(c)
    BY <1>a, SentIs
  <2>6. GetClient(c)'
    BY <1>b, <2>2, <2>3, <2>4, <2>5 DEF GetClient, Parted, HasContent
  <2> QED
    BY <2>1, <2>6
<1>6. Good' /\ ~mixed' => PartsInv(c)' /\ StageInv(c)'
  BY <1>a, <1>b, <1>4 DEF PartsWhole
<1> QED
  BY <1>b, <1>1, <1>2, <1>3, <1>4, <1>5, <1>6, ClientInv

\* The pages on the disk are the first ones, and all but the last are right.
LEMMA PagesAre ==
    ASSUME NEW m \in Md5s, NEW base \in Nat, NEW n, NEW f, f # NULL, PartFile(f, m, base, n),
           Pages(f) # 0
    PROVE  /\ Pages(f) \in 1..Len(f) /\ Right(f, m, base, Pages(f) - 1) /\ EmptyBehind(f, Pages(f))
<1> DEFINE S == {j \in DOMAIN f : f[j] # Hole}
<1>1. PICK l \in Nat : l = Len(f)
  BY DEF PartFile
<1>2. /\ base + l <= Size(m) /\ f \in [1..l -> Page \cup {Hole, Partial}] /\ DOMAIN f = 1..l
      /\ \A j \in 1..l : f[j] # Hole => Right(f, m, base, j - 1)
  BY <1>1 DEF PartFile
<1>3. Size(m) \in Nat /\ Content[m] \in [1..Size(m) -> Page]
  BY ContentIs
<1>4. Pages(f) = Cardinality(S)
  BY DEF Pages
<1>5. \A x \in Nat : IsFiniteSet(1..x) /\ Cardinality(1..x) = x
  BY FS_Interval
<1>6. IsFiniteSet(S) /\ Cardinality(S) \in Nat /\ Cardinality(S) <= l
  <2>1. S \subseteq 1..l
    BY <1>2
  <2>2. IsFiniteSet(1..l) /\ Cardinality(1..l) = l
    BY <1>5
  <2>3. IsFiniteSet(S) /\ Cardinality(S) <= l
    BY <2>1, <2>2, FS_Subset
  <2> QED
    BY <2>3, FS_CardinalityType
<1>7. PICK q \in Nat : q = Cardinality(S) /\ q = Pages(f) /\ q # 0 /\ q <= l
  BY <1>4, <1>6
<1>8. \A x \in S : \A j \in 1..x : j \in S
  <2> SUFFICES ASSUME NEW x \in S, NEW j \in 1..x PROVE j \in S
    OBVIOUS
  <2>1. x \in 1..l /\ j \in 1..l /\ f[x] # Hole
    BY <1>2
  <2>2. CASE j = x
    BY <2>2
  <2>3. CASE j # x
    <3>1. j \in 1..(x - 1)
      BY <2>1, <2>3
    <3>2. f[j] = Content[m][base + j]
      BY <1>2, <2>1, <3>1 DEF Right
    <3>3. base + j \in 1..Size(m)
      BY <1>2, <1>3, <2>1
    <3>4. f[j] # Hole
      BY <1>3, <3>2, <3>3, MarksApart
    <3> QED
      BY <1>2, <2>1, <3>4
  <2> QED
    BY <2>2, <2>3
<1>9. S \subseteq 1..q
  <2> SUFFICES ASSUME NEW x \in S PROVE x \in 1..q
    OBVIOUS
  <2>1. x \in 1..l
    BY <1>2
  <2>2. 1..x \subseteq S
    BY <1>8
  <2>3. Cardinality(1..x) = x
    BY <1>5, <2>1
  <2>4. Cardinality(1..x) <= Cardinality(S)
    BY <1>6, <2>2, FS_Subset
  <2> QED
    BY <1>7, <2>1, <2>3, <2>4
<1>10. S = 1..q
  <2>1. IsFiniteSet(1..q) /\ Cardinality(1..q) = Cardinality(S)
    BY <1>5, <1>7
  <2> QED
    BY <1>9, <2>1, FS_Subset
<1>11. Right(f, m, base, q - 1)
  <2>1. q \in 1..l /\ f[q] # Hole
    <3>1. q >= 1 /\ q <= l /\ q \in 1..l /\ q \in 1..q
      BY <1>1, <1>7
    <3>2. q \in S
      BY <1>10, <3>1
    <3> QED
      BY <3>1, <3>2
  <2> QED
    BY <1>2, <2>1
<1>12. EmptyBehind(f, q)
  <2> SUFFICES ASSUME NEW j \in DOMAIN f, j > q PROVE f[j] = Hole
    BY DEF EmptyBehind
  <2>1. j \notin S
    BY <1>10
  <2> QED
    BY <2>1
<1> QED
  BY <1>1, <1>7, <1>11, <1>12

LEMMA OpenSmallStep == ASSUME IInv, NEW c \in Clients, OpenSmall(c) PROVE IInv'
<1>a. Plain /\ Types /\ LineInv(c) /\ ShapeInv(c)
  BY DEF IInv, Plain
<1>b. PICK e, w : e = OffsWord(0, cl[c].row.part[1]) /\ w = <<e, e>>
  OBVIOUS
<1>c. PICK f : f = IF disk[c].file = NULL THEN <<>> ELSE disk[c].file
  OBVIOUS
<1>d. /\ cl[c].at = "open" /\ Nth(c) = {1} /\ Send(c, w) /\ SetFile(c, f)
      /\ UNCHANGED <<rows, serverVars, down, held, kills, route, history>>
  BY <1>b, <1>c DEF OpenSmall, OffsWord, SetFile
<1>e. /\ Busy1(c) /\ Line(c)[1] = "gets" /\ cl[c].row.md5 \in Md5s /\ cl[c].row.part \in Pair
      /\ \A i \in {1, 2} : K(c, i) \in Conns /\ K(c, i)[1] = c
  <2>1. Busy1(c)
    BY <1>d DEF Busy1, Resting
  <2>2. Line(c)[1] = "gets"
    BY <1>a, <1>d, <2>1 DEF LineInv, Getting
  <2> QED
    BY <1>a, <2>1, <2>2, LineIs
<1>f. /\ repo' = repo /\ alive' = alive /\ sv' = sv /\ que' = que /\ down' = down /\ held' = held
      /\ rows' = rows /\ kills' = kills /\ early' = early /\ cut' = cut /\ mixed' = mixed
  BY <1>d DEF serverVars, history
<1>1. /\ cl'[c].at = "recv" /\ cl'[c].n = cl[c].n /\ cl'[c].op = cl[c].op /\ cl'[c].row = cl[c].row
      /\ cl'[c].pos = <<0, 0>> /\ cl'[c].off = <<0, 0>> /\ cl'[c].over = {}
      /\ (\A d \in Clients \ {c} : cl'[d] = cl[d]) /\ ClientTypes'
      /\ Line(c)' = Line(c) /\ Nth(c)' = Nth(c)
  <2>0. cl' = [cl EXCEPT ![c].at = "recv", ![c].off = <<0, 0>>, ![c].pos = <<0, 0>>, ![c].over = {}]
    BY DEF OpenSmall
  <2>1. "recv" \in Stages /\ <<0, 0>> \in Pair /\ {} \in SUBSET {1, 2}
    BY PairIs DEF Stages, Getting, Pair
  <2>2. cl \in [Clients -> ClientState] /\ cl[c] \in ClientState
    BY <1>a DEF Types, ClientTypes
  <2>3. /\ cl'[c].at = "recv" /\ cl'[c].n = cl[c].n /\ cl'[c].op = cl[c].op /\ cl'[c].row = cl[c].row
        /\ cl'[c].pos = <<0, 0>> /\ cl'[c].off = <<0, 0>> /\ cl'[c].over = {}
        /\ (\A d \in Clients \ {c} : cl'[d] = cl[d])
    BY <2>0, <2>2 DEF ClientState
  <2>4. ClientTypes'
    BY <2>0, <2>1, <2>2 DEF ClientTypes, ClientState
  <2> QED
    BY <2>3, <2>4 DEF Line, Nth
<1>2. PICK t, of : t = disk[c].t /\ of = disk[c].of
  OBVIOUS
<1>3. /\ disk'[c].file = f /\ disk'[c].t = t /\ disk'[c].of = of
      /\ (\A d \in Clients \ {c} : disk'[d] = disk[d]) /\ DiskTypes'
  BY <1>a, <1>d, <1>2, DiskFile DEF Types
<1>4. Row1n(f)
  <2>1. disk[c].file = NULL \/ Row1n(disk[c].file)
    BY <1>a DEF ShapeInv
  <2>2. Row1n(<<>>)
    BY DEF Row1n
  <2> QED
    BY <1>c, <2>1, <2>2
<1>5. SendsWord(c, w)
  <2>1. e \in Words /\ w[1] = e /\ w[2] = e
    BY <1>b, <1>e DEF Words, OffsWord, Pair
  <2>2. LineInv(c)'
    BY <1>a, <1>e, <1>1 DEF LineInv, Resting, Getting, Putting
  <2>3. ShapeInv(c)'
    <3>1. Nth(c)' # {1, 2} /\ \A i \in {1, 2} : t[i] = NULL \/ Row1n(t[i])
      BY <1>a, <1>d, <1>1, <1>2 DEF ShapeInv
    <3> QED
      BY <1>1, <1>3, <1>4, <3>1 DEF ShapeInv
  <2>4. HistoryTypes'
    BY <1>a, <1>f DEF Types, HistoryTypes
  <2>5. ClientStep(c)
    <3>1. \A k \in Conns : k[1] # c => up'[k] = up[k]
      <4>1. NetTypes
        BY <1>a DEF Types
      <4>2. \A k \in Conns : k[1] # c => ~(\E i \in Nth(c) : k = K(c, i))
        BY <1>e, NthIs
      <4> QED
        BY <1>d, <4>1, <4>2, SendEffect
    <3> QED
      BY <1>1, <1>3, <1>f, <3>1 DEF ClientStep
  <2> QED
    BY <1>d, <1>f, <1>1, <1>3, <2>1, <2>2, <2>3, <2>4, <2>5 DEF SendsWord
<1>6. \A i \in Nth(c) : /\ cl'[c].pos[i] = 0
                        /\ w[i] = OffsWord(cl'[c].off[i] + Base(cl[c].row, i), cl[c].row.part[i])
  <2>1. cl'[c].pos[1] = 0 /\ cl'[c].off[1] = 0 /\ w[1] = e /\ Base(cl[c].row, 1) = 0
    BY <1>b, <1>1 DEF Base
  <2> QED
    BY <1>b, <1>d, <2>1
<1>7. ASSUME PartsInv(c) PROVE PartsInv(c)' /\ StageInv(c)'
  <2>1. PartsInv(c)'
    BY <1>7, <1>2, <1>3 DEF PartsInv
  <2>2. cl'[c].pos[1] = 0 /\ cl'[c].off[1] = 0 /\ 0 <= Len(f) /\ \A m : Right(f, m, 0, 0)
    BY <1>1, <1>4 DEF Right, Row1n
  <2>3. Nth(c)' # {1, 2}
    BY <1>d, <1>1
  <2>4. StageInv(c)'
    BY <1>1, <1>3, <2>2, <2>3 DEF StageInv, Finished
  <2> QED
    BY <2>1, <2>4
<1> QED
  BY <1>d, <1>f, <1>1, <1>5, <1>6, <1>7, OpensStep

LEMMA ResumeIs ==
    ASSUME NEW f, f = NULL \/ Row1n(f)
    PROVE  Pages(f) \in Nat /\ Resume(f) \in Nat
<1>1. CASE f = NULL
  BY <1>1 DEF Pages, Resume
<1>2. CASE f # NULL
  <2> DEFINE S == {j \in DOMAIN f : f[j] # Hole}
  <2>1. DOMAIN f = 1..Len(f) /\ Len(f) \in Nat
    BY <1>2 DEF Row1n
  <2>2. S \subseteq 1..Len(f)
    BY <2>1
  <2>3. IsFiniteSet(1..Len(f))
    BY <2>1, FS_Interval
  <2>4. Cardinality(S) \in Nat
    BY <2>2, <2>3, FS_Subset, FS_CardinalityType
  <2>5. Pages(f) = Cardinality(S)
    BY <1>2 DEF Pages
  <2> HIDE DEF S
  <2> QED
    BY <2>4, <2>5 DEF Resume
<1> QED
  BY <1>1, <1>2

\* A part file that is opened can be filled from where it is resumed.
LEMMA OpenedIs ==
    ASSUME NEW m \in Md5s, NEW base \in Nat, NEW n \in Nat, base + n <= Size(m), NEW f,
           PartFile(f, m, base, n), NEW g, g = IF Pages(f) = 0 THEN Blank(n) ELSE f
    PROVE  /\ PartFile(g, m, base, n) /\ g # NULL /\ Resume(f) <= Len(g)
           /\ Right(g, m, base, Resume(f)) /\ EmptyBehind(g, Resume(f) + 1)
<1>0. Size(m) \in Nat
  BY ContentIs
<1>1. CASE Pages(f) = 0
  <2>1. g = [i \in 1..n |-> Hole] /\ Resume(f) = 0
    BY <1>1 DEF Blank, Resume
  <2>2. g \in [1..n -> Page \cup {Hole, Partial}] /\ Len(g) = n /\ \A j \in 1..n : g[j] = Hole
    BY <2>1
  <2>3. n \in 0..Size(m)
    BY <1>0
  <2>4. g # NULL
    BY <2>2, <2>3, NotAFile
  <2>5. PartFile(g, m, base, n)
    BY <2>2 DEF PartFile
  <2>6. EmptyBehind(g, 1)
    BY <2>2 DEF EmptyBehind
  <2> QED
    BY <2>1, <2>2, <2>4, <2>5, <2>6 DEF Right
<1>2. CASE Pages(f) # 0
  <2>1. f # NULL /\ g = f
    BY <1>2 DEF Pages
  <2>2. Pages(f) \in 1..Len(f) /\ Right(f, m, base, Pages(f) - 1) /\ EmptyBehind(f, Pages(f))
    BY <1>2, <2>1, PagesAre
  <2>3. Len(f) \in Nat
    BY <2>1 DEF PartFile
  <2>4. Resume(f) = Pages(f) - 1 /\ Resume(f) + 1 = Pages(f) /\ Resume(f) <= Len(f)
    BY <1>2, <2>2, <2>3 DEF Resume
  <2> QED
    BY <2>1, <2>2, <2>4
<1> QED
  BY <1>1, <1>2

\* The client with its part files open.
Opened(c, o) == cl' = [cl EXCEPT ![c].at = "recv", ![c].off = o, ![c].pos = <<0, 0>>, ![c].over = {}]

LEMMA OpenIs ==
    ASSUME Types, NEW c \in Clients, NEW o \in Pair, Opened(c, o)
    PROVE  /\ cl'[c].at = "recv" /\ cl'[c].n = cl[c].n /\ cl'[c].op = cl[c].op /\ cl'[c].row = cl[c].row
           /\ cl'[c].pos = <<0, 0>> /\ cl'[c].off = o /\ cl'[c].over = {}
           /\ (\A d \in Clients \ {c} : cl'[d] = cl[d]) /\ ClientTypes'
           /\ Line(c)' = Line(c) /\ Nth(c)' = Nth(c)
<1>1. "recv" \in Stages /\ <<0, 0>> \in Pair /\ {} \in SUBSET {1, 2}
  BY PairIs DEF Stages, Getting, Pair
<1>2. cl \in [Clients -> ClientState] /\ cl[c] \in ClientState
  BY DEF Types, ClientTypes
<1>3. /\ cl'[c].at = "recv" /\ cl'[c].n = cl[c].n /\ cl'[c].op = cl[c].op /\ cl'[c].row = cl[c].row
      /\ cl'[c].pos = <<0, 0>> /\ cl'[c].off = o /\ cl'[c].over = {}
      /\ (\A d \in Clients \ {c} : cl'[d] = cl[d])
  BY <1>2 DEF ClientState, Opened
<1>4. ClientTypes'
  BY <1>1, <1>2 DEF ClientTypes, ClientState, Opened
<1> QED
  BY <1>3, <1>4 DEF Line, Nth

LEMMA OpenPartsStep == ASSUME IInv, NEW c \in Clients, OpenParts(c) PROVE IInv'
<1>a. Plain /\ Types /\ LineInv(c) /\ ShapeInv(c) /\ Downloading
  BY DEF IInv, Plain
<1>b. PICK t, of, r : t = disk[c].t /\ of = disk[c].of /\ r = cl[c].row
  OBVIOUS
<1>c. PICK off, u : /\ off = [i \in {1, 2} |-> Resume(t[i])]
                    /\ u = [i \in {1, 2} |-> IF Pages(t[i]) = 0 THEN Blank(r.part[i]) ELSE t[i]]
  OBVIOUS
<1>d. PICK w : w = <<OffsWord(off[1], r.part[1]), OffsWord(off[2] + r.part[1], r.part[2])>>
  OBVIOUS
<1>e. cl[c].at = "open" /\ Nth(c) = {1, 2} /\ UNCHANGED <<rows, serverVars, down, held, kills, route, early, cut>>
  BY DEF OpenParts
<1>f. Opened(c, off) /\ SetPartsOf(c, u, r.md5) /\ (mixed' = (mixed \/ of \notin {NULL, r.md5}))
  BY <1>b, <1>c DEF OpenParts, Opened, SetPartsOf
<1>g. Send(c, w)
  <2>1. \A i : Asked(c, off, i) = r.part[i]
    BY <1>b DEF Asked
  <2>2. Send(c, <<[k |-> "offs", off |-> off[1], len |-> Asked(c, off, 1)],
                  [k |-> "offs", off |-> off[2] + r.part[1], len |-> Asked(c, off, 2)]>>)
    BY <1>b, <1>c DEF OpenParts
  <2> QED
    BY <1>d, <2>1, <2>2 DEF OffsWord
<1>h. /\ Busy1(c) /\ Line(c)[1] = "gets" /\ r.md5 \in Md5s /\ r.part \in Pair
      /\ \A i \in {1, 2} : K(c, i) \in Conns /\ K(c, i)[1] = c
  <2>1. Busy1(c)
    BY <1>e DEF Busy1, Resting
  <2>2. Line(c)[1] = "gets"
    BY <1>a, <1>e, <2>1 DEF LineInv, Getting
  <2> QED
    BY <1>a, <1>b, <2>1, <2>2, LineIs
<1>i. /\ repo' = repo /\ alive' = alive /\ sv' = sv /\ que' = que /\ down' = down /\ held' = held
      /\ rows' = rows /\ kills' = kills /\ early' = early /\ cut' = cut
  BY <1>e DEF serverVars
<1>1. r.part[1] \in Nat /\ r.part[2] \in Nat
  BY <1>h DEF Pair
<1>2. \A i \in {1, 2} : (t[i] = NULL \/ Row1n(t[i])) /\ Pages(t[i]) \in Nat /\ Resume(t[i]) \in Nat
  <2>1. \A i \in {1, 2} : t[i] = NULL \/ Row1n(t[i])
    BY <1>a, <1>b DEF ShapeInv
  <2> QED
    BY <2>1, ResumeIs
<1>3. off \in Pair /\ off[1] = Resume(t[1]) /\ off[2] = Resume(t[2]) /\ off[1] \in Nat /\ off[2] \in Nat
  BY <1>2, <1>c DEF Pair
<1>4. /\ cl'[c].at = "recv" /\ cl'[c].n = cl[c].n /\ cl'[c].op = cl[c].op /\ cl'[c].row = r
      /\ cl'[c].pos = <<0, 0>> /\ cl'[c].off = off /\ cl'[c].over = {}
      /\ (\A d \in Clients \ {c} : cl'[d] = cl[d]) /\ ClientTypes'
      /\ Line(c)' = Line(c) /\ Nth(c)' = Nth(c)
  BY <1>a, <1>b, <1>3, <1>f, OpenIs
<1>5. /\ u = [i \in {1, 2} |-> u[i]]
      /\ \A i \in {1, 2} : u[i] = IF Pages(t[i]) = 0 THEN Blank(r.part[i]) ELSE t[i]
  BY <1>c
<1>6. /\ disk'[c].file = disk[c].file /\ disk'[c].t = u /\ disk'[c].of = r.md5
      /\ (\A d \in Clients \ {c} : disk'[d] = disk[d]) /\ DiskTypes'
  BY <1>a, <1>5, <1>f, DiskPartsOf DEF Types
<1>7. \A i \in {1, 2} : Row1n(u[i])
  <2> SUFFICES ASSUME NEW i \in {1, 2} PROVE Row1n(u[i])
    OBVIOUS
  <2>1. CASE Pages(t[i]) = 0
    <3>1. PICK n \in Nat : n = r.part[i]
      BY <1>1
    <3>2. u[i] = [j \in 1..n |-> Hole]
      BY <1>5, <2>1, <3>1 DEF Blank
    <3>3. Len(u[i]) = n
      BY <3>2
    <3> QED
      BY <3>1, <3>2, <3>3 DEF Row1n
  <2>2. CASE Pages(t[i]) # 0
    <3>1. t[i] # NULL /\ u[i] = t[i]
      BY <1>5, <2>2 DEF Pages
    <3> QED
      BY <1>2, <3>1
  <2> QED
    BY <2>1, <2>2
<1>8. SendsWord(c, w)
  <2>1. w[1] \in Words /\ w[2] \in Words
    <3>1. w[1] = OffsWord(off[1], r.part[1]) /\ w[2] = OffsWord(off[2] + r.part[1], r.part[2])
      BY <1>d
    <3>2. off[2] + r.part[1] \in Nat
      BY <1>1, <1>3
    <3>3. \A x, y \in Nat : OffsWord(x, y) \in Words
      BY DEF Words, OffsWord
    <3> QED
      BY <1>1, <1>3, <3>1, <3>2, <3>3
  <2>2. LineInv(c)'
    BY <1>a, <1>b, <1>e, <1>h, <1>4 DEF LineInv, Resting, Getting, Putting
  <2>3. ShapeInv(c)'
    <3>1. Nth(c)' # {1}
      BY <1>e, <1>4
    <3>2. disk[c].file = NULL \/ Row1n(disk[c].file)
      BY <1>a DEF ShapeInv
    <3> QED
      BY <1>4, <1>6, <1>7, <3>1, <3>2 DEF ShapeInv
  <2>4. HistoryTypes'
    <3>1. mixed' \in BOOLEAN
      BY <1>a, <1>f DEF Types, HistoryTypes
    <3> QED
      BY <1>a, <1>i, <3>1 DEF Types, HistoryTypes
  <2>5. ClientStep(c)
    <3>1. \A k \in Conns : k[1] # c => up'[k] = up[k]
      <4>1. NetTypes
        BY <1>a DEF Types
      <4>2. \A k \in Conns : k[1] # c => ~(\E i \in Nth(c) : k = K(c, i))
        BY <1>h, NthIs
      <4> QED
        BY <1>g, <4>1, <4>2, SendEffect
    <3>2. mixed => mixed'
      BY <1>f
    <3> QED
      BY <1>4, <1>6, <1>i, <3>1, <3>2 DEF ClientStep
  <2> QED
    BY <1>b, <1>e, <1>g, <1>i, <1>4, <1>6, <2>1, <2>2, <2>3, <2>4, <2>5 DEF SendsWord
<1>9. \A i \in Nth(c) : /\ cl'[c].pos[i] = 0
                        /\ w[i] = OffsWord(cl'[c].off[i] + Base(cl[c].row, i), cl[c].row.part[i])
  <2>1. cl'[c].pos[1] = 0 /\ cl'[c].pos[2] = 0
    BY <1>4
  <2>2. Base(cl[c].row, 1) = 0 /\ Base(cl[c].row, 2) = r.part[1]
    BY <1>b DEF Base
  <2>3. off[1] + 0 = off[1]
    BY <1>3
  <2> QED
    BY <1>b, <1>d, <1>e, <1>4, <2>1, <2>2, <2>3
<1>10. ASSUME Good, ~mixed', PartsInv(c) PROVE PartsInv(c)' /\ StageInv(c)'
  <2>1. PICK m \in Md5s : m = r.md5
    BY <1>h
  <2>2. Parted(r)
    BY <1>10, <1>a, <1>b, <1>e, <1>h DEF Downloading, GetClient, Getting
  <2>3. /\ Big(m) /\ r.part[1] = Part1(m) /\ r.part[2] = Part2(m) /\ Part1(m) + Part2(m) = Size(m)
        /\ Part1(m) \in Nat /\ Part2(m) \in Nat /\ Size(m) \in Nat
    <3>1. r.part[1] = Part1(m) /\ r.part[2] = Part2(m)
      BY <2>1, <2>2 DEF Parted
    <3>2. r.part[2] # 0
      BY <1>b, <1>e, NthIs
    <3> QED
      BY <3>1, <3>2, PartsAre, ContentIs
  <2>4. PartFile(t[1], m, 0, Part1(m)) /\ PartFile(t[2], m, Part1(m), Part2(m))
    <3>1. of \in {NULL, m}
      BY <1>10, <1>f, <2>1
    <3>2. NULL # m
      BY MarksApart
    <3>3. \A b, n : PartFile(NULL, m, b, n)
      BY DEF PartFile
    <3>4. \/ of = NULL /\ t[1] = NULL /\ t[2] = NULL
          \/ /\ of \in Md5s /\ PartFile(t[1], of, 0, Part1(of))
             /\ PartFile(t[2], of, Part1(of), Part2(of))
      BY <1>10, <1>b DEF PartsInv
    <3>5. CASE of = NULL
      BY <3>3, <3>4, <3>5, MarksApart
    <3>6. CASE of = m
      BY <3>2, <3>4, <3>6
    <3> QED
      BY <3>1, <3>5, <3>6
  <2>5. /\ PartFile(u[1], m, 0, Part1(m)) /\ u[1] # NULL /\ off[1] <= Len(u[1])
        /\ Right(u[1], m, 0, off[1]) /\ EmptyBehind(u[1], off[1] + 1)
    <3>1. 0 + Part1(m) <= Size(m) /\ u[1] = IF Pages(t[1]) = 0 THEN Blank(Part1(m)) ELSE t[1]
      BY <1>5, <2>3
    <3> QED
      BY <1>3, <2>3, <2>4, <3>1, OpenedIs
  <2>6. /\ PartFile(u[2], m, Part1(m), Part2(m)) /\ u[2] # NULL /\ off[2] <= Len(u[2])
        /\ Right(u[2], m, Part1(m), off[2]) /\ EmptyBehind(u[2], off[2] + 1)
    <3>1. Part1(m) + Part2(m) <= Size(m) /\ u[2] = IF Pages(t[2]) = 0 THEN Blank(Part2(m)) ELSE t[2]
      BY <1>5, <2>3
    <3> QED
      BY <1>3, <2>3, <2>4, <3>1, OpenedIs, SMTT(30)
  <2>7. PartsInv(c)'
    BY <1>6, <2>1, <2>3, <2>5, <2>6 DEF PartsInv
  <2>8. /\ Nth(c)' = {1, 2} /\ \A i \in {1, 2} : Filled(c, i)' = off[i]
        /\ cl'[c].row.md5 = m /\ Base(cl'[c].row, 1) = 0 /\ Base(cl'[c].row, 2) = Part1(m)
    BY <1>3, <1>4, <1>e, <2>1, <2>3 DEF Filled, Base
  <2>9. \A i \in {1, 2} :
           /\ disk'[c].t[i] # NULL
           /\ Filled(c, i)' <= Len(disk'[c].t[i])
           /\ Right(disk'[c].t[i], m, Base(cl'[c].row, i), Filled(c, i)')
           /\ EmptyBehind(disk'[c].t[i], Filled(c, i)' + 1)
    BY <1>6, <2>5, <2>6, <2>8
  <2>10. StageInv(c)'
    <3>1. disk'[c].of = m /\ cl'[c].over = {} /\ cl'[c].at = "recv" /\ Nth(c)' # {1}
      BY <1>4, <1>6, <2>1, <2>8
    <3>2. \A i \in {1, 2} : i \notin cl'[c].over
      BY <3>1
    <3> QED
      BY <2>8, <2>9, <3>1, <3>2 DEF StageInv, Finished
  <2> QED
    BY <2>7, <2>10
<1> QED
  BY <1>e, <1>i, <1>4, <1>8, <1>9, <1>10, OpensStep

-----------------------------------------------------------------------------
(* The connections to the file servers *)

Queued(n) == [NoThread EXCEPT !.at = "queued", !.s = n]

LEMMA QueuedIs ==
    ASSUME NEW n, NEW r, r = Queued(n)
    PROVE  Thread(r) /\ r.at = "queued" /\ r.s = n /\ r.pos = 0
<1>1. r = [at |-> "queued", s |-> n, m |-> NULL, off |-> 0, len |-> 0, pos |-> 0]
  BY DEF Queued, NoThread
<1>2. r.at = "queued" /\ r.s = n /\ r.m = NULL /\ r.off = 0 /\ r.len = 0 /\ r.pos = 0
  BY <1>1
<1> QED
  BY <1>1, <1>2 DEF Thread, Serving

\* A descriptor that is given to the pool waits in one queue, once.
LEMMA AcceptedIs ==
    ASSUME Types, QueueInv, PoolInv, NEW ks \in SUBSET Conns,
           \A k \in ks : sv[k].at = "none" /\ ServerOf(k) \in Servers, Accepted(ks)
    PROVE  /\ \A k \in ks : sv'[k].at = "queued" /\ sv'[k].s = ServerOf(k) /\ sv'[k].pos = 0
           /\ \A k \in Conns \ ks : sv'[k] = sv[k]
           /\ SvTypes' /\ que' \in [Servers -> Seq(Conns)] /\ QueueInv' /\ PoolInv'
<1>1. que \in [Servers -> Seq(Conns)] /\ SvTypes
  BY DEF Types, ServerTypes
<1>2. \A k \in ks : k \in Conns /\ sv'[k] = Queued(ServerOf(k))
  BY DEF Accepted, Queued
<1>3. \A k \in ks : sv'[k].at = "queued" /\ sv'[k].s = ServerOf(k) /\ sv'[k].pos = 0 /\ Thread(sv'[k])
  BY <1>2, QueuedIs
<1>4. \A k \in Conns \ ks : sv'[k] = sv[k]
  BY DEF Accepted
<1>5. SvTypes'
  <2>1. DOMAIN sv' = Conns
    BY DEF Accepted
  <2>2. \A k \in Conns : Thread(sv'[k])
    BY <1>1, <1>3, <1>4 DEF SvTypes
  <2> QED
    BY <2>1, <2>2 DEF SvTypes, Thread
<1>6. \A s \in Servers : \/ que'[s] = que[s]
                         \/ \E x \in ks : ServerOf(x) = s /\ que'[s] = Append(que[s], x)
  <2> SUFFICES ASSUME NEW s \in Servers
               PROVE  \/ que'[s] = que[s]
                      \/ \E x \in ks : ServerOf(x) = s /\ que'[s] = Append(que[s], x)
    OBVIOUS
  <2>1. CASE \E k \in ks : ServerOf(k) = s
    <3>1. PICK x : x = CHOOSE k \in ks : ServerOf(k) = s
      OBVIOUS
    <3>2. x \in ks /\ ServerOf(x) = s
      BY <2>1, <3>1
    <3>3. que'[s] = que[s] \o <<x>>
      BY <2>1, <3>1 DEF Accepted
    <3>4. que[s] \in Seq(Conns) /\ x \in Conns
      BY <1>1, <3>2
    <3>5. que[s] \o <<x>> = Append(que[s], x)
      BY <3>4
    <3> QED
      BY <3>2, <3>3, <3>5
  <2>2. CASE ~(\E k \in ks : ServerOf(k) = s)
    <3>1. que'[s] = que[s] \o <<>>
      BY <2>2 DEF Accepted
    <3>2. que[s] \in Seq(Conns)
      BY <1>1
    <3> QED
      BY <3>1, <3>2
  <2> QED
    BY <2>1, <2>2
<1>7. que' \in [Servers -> Seq(Conns)]
  <2>1. ASSUME NEW s \in Servers PROVE que'[s] \in Seq(Conns)
    <3>1. PICK q \in Seq(Conns) : q = que[s]
      BY <1>1
    <3>2. \A x \in Conns : Append(q, x) \in Seq(Conns)
      OBVIOUS
    <3> QED
      BY <1>6, <3>1, <3>2
  <2>2. que' = [s \in Servers |-> que'[s]]
    BY DEF Accepted
  <2> QED
    BY <2>1, <2>2
<1>8. QueueInv'
  <2> SUFFICES ASSUME NEW s \in Servers
               PROVE  /\ \A i \in 1..Len(que'[s]) : sv'[que'[s][i]].at = "queued" /\ sv'[que'[s][i]].s = s
                      /\ \A i, j \in 1..Len(que'[s]) : que'[s][i] = que'[s][j] => i = j
    BY DEF QueueInv
  <2>1. PICK q \in Seq(Conns) : q = que[s]
    BY <1>1
  <2>2. /\ \A i \in 1..Len(q) : q[i] \in Conns /\ sv[q[i]].at = "queued" /\ sv[q[i]].s = s
        /\ \A i, j \in 1..Len(q) : q[i] = q[j] => i = j
    BY <2>1 DEF QueueInv
  <2>3. \A i \in 1..Len(q) : q[i] \notin ks /\ sv'[q[i]].at = "queued" /\ sv'[q[i]].s = s
    <3>1. \A i \in 1..Len(q) : q[i] \notin ks
      BY <2>2
    <3> QED
      BY <1>4, <2>2, <3>1
  <2>4. CASE que'[s] = q
    BY <2>2, <2>3, <2>4
  <2>5. ASSUME NEW x \in ks, ServerOf(x) = s, que'[s] = Append(q, x)
        PROVE  /\ \A i \in 1..Len(que'[s]) : sv'[que'[s][i]].at = "queued" /\ sv'[que'[s][i]].s = s
               /\ \A i, j \in 1..Len(que'[s]) : que'[s][i] = que'[s][j] => i = j
    <3>1. PICK n \in Nat : n = Len(q)
      OBVIOUS
    <3>2. PICK p : p = que'[s]
      OBVIOUS
    <3>3. Len(p) = n + 1 /\ p[n + 1] = x /\ \A i \in 1..n : p[i] = q[i]
      BY <2>5, <3>1, <3>2
    <3>4. \A i \in 1..(n + 1) : i \in 1..n \/ i = n + 1
      OBVIOUS
    <3>5. \A i \in 1..(n + 1) : sv'[p[i]].at = "queued" /\ sv'[p[i]].s = s
      BY <1>3, <2>3, <2>5, <3>1, <3>3, <3>4
    <3>6. \A i, j \in 1..(n + 1) : p[i] = p[j] => i = j
      BY <2>2, <2>3, <2>5, <3>1, <3>3, <3>4
    <3> QED
      BY <3>2, <3>3, <3>5, <3>6
  <2> QED
    BY <1>6, <2>1, <2>4, <2>5
<1>9. PoolInv'
  <2>1. \A s \in Servers : Busy(s)' \subseteq Busy(s)
    <3> SUFFICES ASSUME NEW s \in Servers, NEW k \in Busy(s)' PROVE k \in Busy(s)
      OBVIOUS
    <3>1. k \in Conns /\ sv'[k].at # "queued"
      BY DEF Busy
    <3>2. sv'[k] = sv[k]
      BY <1>3, <1>4, <3>1
    <3> QED
      BY <3>1, <3>2 DEF Busy, Open
  <2> QED
    BY <2>1, PoolShrinks
<1> QED
  BY <1>3, <1>4, <1>5, <1>7, <1>8, <1>9

LEMMA ConnectStep == ASSUME IInv, NEW c \in Clients, Connect(c) PROVE IInv'
<1>a. /\ Plain /\ Types /\ LineInv(c) /\ ShapeInv(c) /\ QueueInv /\ PoolInv /\ (\A k \in Conns : ConnInv(k))
      /\ Uploaded /\ Downloading /\ PartsWhole
  BY DEF IInv, Plain
<1>b. PICK ks : ks = {K(c, i) : i \in Nth(c)}
  OBVIOUS
<1>c. /\ cl[c].at = "connect" /\ Accepted(ks) /\ held' = held \cup ks /\ Goto(c, "train")
      /\ UNCHANGED <<rows, repo, alive, up, down, disk, kills, route, history>>
  BY <1>b DEF Connect
<1>d. /\ Busy1(c) /\ cl[c].row \in Rows /\ cl[c].row.md5 \in Md5s
      /\ \A i \in {1, 2} : K(c, i) \in Conns /\ K(c, i)[1] = c /\ K(c, i)[2] = cl[c].n /\ K(c, i)[3] = i
  <2>1. Busy1(c)
    BY <1>c DEF Busy1, Resting
  <2> QED
    BY <1>a, <2>1, LineIs
<1>e. /\ repo' = repo /\ alive' = alive /\ up' = up /\ down' = down
      /\ rows' = rows /\ disk' = disk /\ kills' = kills /\ early' = early /\ cut' = cut /\ mixed' = mixed
  BY <1>c DEF history
<1>f. PICK m : m = cl[c].row.md5
  OBVIOUS
<1>1. /\ cl'[c].at = "train" /\ cl'[c].n = cl[c].n /\ cl'[c].op = cl[c].op /\ cl'[c].row = cl[c].row
      /\ cl'[c].off = cl[c].off /\ cl'[c].pos = cl[c].pos
      /\ (\A d \in Clients \ {c} : cl'[d] = cl[d]) /\ ClientTypes'
      /\ Line(c)' = Line(c) /\ Nth(c)' = Nth(c) /\ \A i : K(c, i)' = K(c, i)
  BY <1>a, <1>c, GotoIs DEF Stages
<1>2. \A k \in ks : /\ k \in Conns /\ k[1] = c /\ k[2] = cl[c].n /\ k[3] \in Nth(c) /\ k = K(c, k[3])
                    /\ Fresh(k) /\ sv[k].at = "none" /\ ServerOf(k) = cl[c].row.s[k[3]] /\ ServerOf(k) \in Servers
  <2> SUFFICES ASSUME NEW i \in Nth(c), NEW k, k = K(c, i)
               PROVE  /\ k \in Conns /\ k[1] = c /\ k[2] = cl[c].n /\ k[3] \in Nth(c) /\ k = K(c, k[3])
                      /\ Fresh(k) /\ sv[k].at = "none" /\ ServerOf(k) = cl[c].row.s[k[3]] /\ ServerOf(k) \in Servers
    BY <1>b
  <2>1. i \in {1, 2} /\ k \in Conns /\ k[1] = c /\ k[2] = cl[c].n /\ k[3] = i
    BY <1>d, NthIs
  <2>2. Unused(k)
    BY <1>c, <2>1 DEF Unused
  <2>3. Fresh(k)
    BY <1>a, <2>1, <2>2 DEF ConnInv
  <2>4. cl[c].row.s \in Pairs
    BY <1>d DEF Rows
  <2>5. cl[c].row.s[i] \in Servers
    BY <2>1, <2>4 DEF Pairs, Servers
  <2> QED
    BY <2>1, <2>3, <2>5 DEF ServerOf, Fresh
<1>3. \A i \in Nth(c) : K(c, i) \in ks /\ K(c, i)[3] = i /\ i \in {1, 2}
  BY <1>b, <1>d, NthIs
<1>4. ks \in SUBSET Conns
  BY <1>2
<1>5. /\ \A k \in ks : sv'[k].at = "queued" /\ sv'[k].s = ServerOf(k) /\ sv'[k].pos = 0
      /\ \A k \in Conns \ ks : sv'[k] = sv[k]
      /\ SvTypes' /\ que' \in [Servers -> Seq(Conns)] /\ QueueInv' /\ PoolInv'
  BY <1>a, <1>c, <1>2, <1>4, AcceptedIs
<1>6. ClientStep(c)
  <2>1. \A k \in Conns : k[1] # c => sv'[k] = sv[k] /\ (k \in held' <=> k \in held)
    BY <1>2, <1>5, <1>c
  <2> QED
    BY <1>1, <1>e, <2>1 DEF ClientStep
<1>7. Types'
  <2>1. ServerTypes'
    BY <1>a, <1>e, <1>5 DEF Types, ServerTypes
  <2>2. NetTypes'
    BY <1>a, <1>c, <1>e, <1>4 DEF Types, NetTypes
  <2>3. DiskTypes' /\ HistoryTypes'
    BY <1>a, <1>e DEF Types, DiskTypes, HistoryTypes
  <2> QED
    BY <1>1, <2>1, <2>2, <2>3 DEF Types
<1>8. Plain'
  <2>1. LineInv(c)'
    BY <1>a, <1>d, <1>1 DEF LineInv, Getting, Putting
  <2>2. WireInv(c)'
    <3> SUFFICES ASSUME NEW i \in Nth(c) PROVE Wire(c, K(c, i))'
      BY <1>1 DEF WireInv
    <3>1. PICK k \in ks : k = K(c, i) /\ k = K(c, i)'
      BY <1>1, <1>3
    <3>2. k \in held' /\ up'[k] = <<>> /\ sv'[k].at = "queued"
      BY <1>2, <1>5, <1>c, <1>e DEF Fresh
    <3> QED
      BY <1>1, <3>1, <3>2 DEF Wire, Begun, Running
  <2>3. ShapeInv(c)'
    BY <1>a, <1>e, <1>1 DEF ShapeInv
  <2>4. ASSUME NEW k \in Conns, k[1] = c PROVE ConnInv(k)'
    <3>1. CASE k \in ks
      <4>1. ~Unused(k)'
        BY <1>1, <1>2, <1>a, <2>4, <3>1 DEF Unused, Types, ClientTypes, ClientState
      <4>2. up'[k] = <<>> /\ sv'[k].pos = 0 /\ sv'[k].s \in Servers
        BY <1>2, <1>5, <1>e, <3>1 DEF Fresh
      <4> QED
        BY <4>1, <4>2 DEF ConnInv, FirstWord
    <3>2. CASE k \notin ks
      <4>1. ConnInv(k) /\ sv'[k] = sv[k] /\ (k \in held' <=> k \in held)
        BY <1>a, <1>c, <1>5, <3>2
      <4>2. Unused(k)' => Unused(k)
        BY <1>1, <2>4 DEF Unused
      <4> QED
        BY <1>e, <4>1, <4>2 DEF ConnInv, FirstWord, Fresh, Open
    <3> QED
      BY <3>1, <3>2
  <2> QED
    BY <1>a, <1>5, <1>6, <1>7, <2>1, <2>2, <2>3, <2>4, PlainClient
<1>9. \A k \in ks : \A x : ~Uploads(k, x) /\ ~Uploads(k, x)'
  <2>1. \A k \in ks : up'[k] = <<>> /\ sv'[k].at = "queued" /\ sv[k].at = "none"
    BY <1>2, <1>5, <1>e DEF Fresh
  <2> QED
    BY <2>1 DEF Uploads
<1>10. UploadsStay(c)
  <2> SUFFICES ASSUME NEW k \in Conns, NEW x \in Md5s, Uploads(k, x)
               PROVE  Uploads(k, x)' /\ sv'[k].s = sv[k].s
    BY DEF UploadsStay
  <2>1. sv'[k] = sv[k]
    BY <1>5, <1>9
  <2> QED
    BY <1>e, <2>1 DEF Uploads
<1>11. OweStays(c)
  BY <1>1 DEF OweStays, Owing
<1>12. NewRow(c)
  BY <1>e DEF NewRow
<1>13. PutClient(c)'
  <2> SUFFICES ASSUME Owing(c)', Kept(m)
               PROVE  /\ Parted(cl[c].row)
                      /\ \A i \in Nth(c) : PutConn(c, i, K(c, i), m)'
    BY <1>e, <1>f, <1>1 DEF PutClient, Parted, Kept
  <2>1. Owing(c)
    BY <1>c, <1>1 DEF Owing
  <2>2. Parted(cl[c].row)
    BY <1>a, <1>f, <2>1 DEF Uploaded, PutClient
  <2>3. ASSUME NEW i \in Nth(c) PROVE PutConn(c, i, K(c, i), m)'
    <3>1. PICK k \in ks : k = K(c, i) /\ k = K(c, i)' /\ k[3] = i
      BY <1>1, <1>3
    <3>2. sv'[k].at = "queued" /\ sv'[k].s = cl'[c].row.s[i] /\ up'[k] = <<>>
      BY <1>1, <1>2, <1>5, <1>e, <3>1 DEF Fresh
    <3>3. Upload(k, m, 0)' /\ Sent(c, i)' = 0
      BY <1>1, <3>2 DEF Upload, Sent
    <3> QED
      BY <3>1, <3>2, <3>3 DEF PutConn
  <2> QED
    BY <2>2, <2>3
<1>14. ASSUME NEW k \in Conns, k[1] = c PROVE PutLeft(k)'
  <2> SUFFICES ASSUME NEW x \in Md5s, Kept(x)', Uploads(k, x)'
               PROVE  Upload(k, x, 2 + Size(x))'
    BY DEF PutLeft
  <2>1. sv'[k] = sv[k]
    BY <1>5, <1>9
  <2>2. Kept(x) /\ Uploads(k, x) /\ ~Current(k)
    BY <1>14, <1>c, <1>e, <2>1 DEF Kept, Uploads, Current, Wired
  <2>3. Upload(k, x, 2 + Size(x))
    BY <1>a, <2>2 DEF Uploaded, PutLeft
  <2> QED
    BY <1>e, <2>1, <2>3 DEF Upload, Holds
<1>15. ASSUME Good PROVE (\A k \in Conns : k[1] = c => GetThread(k)') /\ GetClient(c)'
  <2>1. ASSUME NEW k \in Conns PROVE GetThread(k)'
    <3>1. CASE k \in ks
      <4>1. sv'[k].at = "queued" /\ up'[k] = <<>>
        BY <1>2, <1>5, <1>e, <3>1 DEF Fresh
      <4> QED
        BY <4>1 DEF GetThread
    <3>2. CASE k \notin ks
      <4>1. GetThread(k) /\ sv'[k] = sv[k]
        BY <1>5, <1>15, <1>a, <3>2 DEF Downloading
      <4> QED
        BY <1>e, <4>1 DEF GetThread, HasContent
    <3> QED
      BY <3>1, <3>2
  <2>2. GetClient(c)'
    <3> SUFFICES ASSUME Line(c)[1] = "gets"
                 PROVE  /\ Parted(cl[c].row) /\ \A i \in Nth(c) : HasContent(cl[c].row.s[i], m)
                        /\ \A i \in Nth(c) : GetConn(c, i, K(c, i), m)'
      BY <1>e, <1>f, <1>1 DEF GetClient, Parted, HasContent
    <3>1. Parted(cl[c].row) /\ \A i \in Nth(c) : HasContent(cl[c].row.s[i], m)
      BY <1>15, <1>a, <1>c, <1>f DEF Downloading, GetClient
    <3>2. ASSUME NEW i \in Nth(c) PROVE GetConn(c, i, K(c, i), m)'
      <4>1. PICK k \in ks : k = K(c, i) /\ k = K(c, i)' /\ k[3] = i
        BY <1>1, <1>3
      <4>2. sv'[k].at = "queued" /\ sv'[k].s = cl'[c].row.s[i] /\ down'[k] = <<>>
        BY <1>1, <1>2, <1>5, <1>e, <4>1 DEF Fresh
      <4> QED
        BY <1>1, <4>1, <4>2 DEF GetConn
    <3> QED
      BY <3>1, <3>2
  <2> QED
    BY <2>1, <2>2
<1>16. ASSUME Good, ~mixed PROVE PartsInv(c)' /\ StageInv(c)'
  BY <1>16, <1>a, <1>e, <1>1, PartsStay, StageFree DEF PartsWhole, Getting
<1>17. (Good' => Good) /\ (mixed' <=> mixed)
  BY <1>e DEF Good
<1> QED
  BY <1>6, <1>8, <1>10, <1>11, <1>12, <1>13, <1>14, <1>15, <1>16, <1>17, ClientInv

-----------------------------------------------------------------------------
(* The pages of an upload *)

\* What is known of a client that sends a content.
Sending(c, i) == cl[c].at = (IF i = 1 THEN "send1" ELSE "send2") /\ i \in {1, 2}

LEMMA SendingIs2 ==
    ASSUME IInv, NEW c \in Clients, NEW i, Sending(c, i)
    PROVE  /\ i \in Nth(c) /\ i \in {1, 2} /\ (i = 2 => Nth(c) = {1, 2})
           /\ Busy1(c) /\ Wired(c) /\ Begun(c) /\ Line(c)[1] = "puts" /\ Owing(c)
           /\ cl[c].at \in {"send1", "send2"}
           /\ Line(c)[2] = cl[c].row.md5 /\ cl[c].row.md5 \in Md5s /\ cl[c].pos \in Pair
           /\ \A j \in Nth(c) : /\ K(c, j) \in Conns /\ K(c, j)[1] = c /\ K(c, j)[2] = cl[c].n
                                /\ K(c, j)[3] = j /\ Wire(c, K(c, j)) /\ cl[c].pos[j] \in Nat
           /\ Kept(cl[c].row.md5) =>
                 /\ Parted(cl[c].row)
                 /\ \A j \in Nth(c) : /\ cl[c].pos[j] <= Size(cl[c].row.md5)
                                      /\ PutConn(c, j, K(c, j), cl[c].row.md5)
                 /\ cl[c].at = "send2" => cl[c].pos[1] = Size(cl[c].row.md5)
<1>a. Plain /\ Types /\ LineInv(c) /\ WireInv(c) /\ Uploaded
  BY DEF IInv, Plain
<1>1. cl[c].at \in {"send1", "send2"} /\ i \in {1, 2} /\ (i = 2 => cl[c].at = "send2")
  BY DEF Sending
<1>2. Busy1(c) /\ Wired(c) /\ Begun(c)
  BY <1>1 DEF Busy1, Resting, Wired, Begun
<1>3. /\ Line(c)[1] = "puts" /\ (i = 2 => Nth(c) = {1, 2})
      /\ Line(c)[2] = cl[c].row.md5 /\ cl[c].row.md5 \in Md5s
  BY <1>a, <1>1, <1>2, LineIs DEF LineInv, Putting
<1>4. i \in Nth(c)
  BY <1>1, <1>3, NthIs
<1>5. Owing(c)
  BY <1>1, <1>3 DEF Owing
<1>6. cl[c].pos \in Pair
  BY <1>a DEF Types, ClientTypes, ClientState
<1>7. \A j \in Nth(c) : /\ K(c, j) \in Conns /\ K(c, j)[1] = c /\ K(c, j)[2] = cl[c].n
                        /\ K(c, j)[3] = j /\ Wire(c, K(c, j)) /\ cl[c].pos[j] \in Nat
  <2>1. \A j \in Nth(c) : j \in {1, 2}
    BY NthIs
  <2>2. \A j \in {1, 2} : K(c, j) \in Conns /\ K(c, j)[1] = c /\ K(c, j)[2] = cl[c].n /\ K(c, j)[3] = j
    BY <1>a, <1>2, LineIs
  <2>3. \A j \in Nth(c) : Wire(c, K(c, j))
    BY <1>a, <1>2 DEF WireInv
  <2>4. \A j \in {1, 2} : cl[c].pos[j] \in Nat
    BY <1>6 DEF Pair
  <2> QED
    BY <2>1, <2>2, <2>3, <2>4
<1>8. Kept(cl[c].row.md5) =>
         /\ Parted(cl[c].row)
         /\ \A j \in Nth(c) : /\ cl[c].pos[j] <= Size(cl[c].row.md5)
                              /\ PutConn(c, j, K(c, j), cl[c].row.md5)
         /\ cl[c].at = "send2" => cl[c].pos[1] = Size(cl[c].row.md5)
  BY <1>a, <1>1, <1>2, <1>5 DEF Uploaded, PutClient
<1> QED
  BY <1>1, <1>2, <1>3, <1>4, <1>5, <1>6, <1>7, <1>8

\* A page goes to a connection that has nothing under way, or that is closed.
LEMMA SendPageStep ==
    ASSUME IInv, NEW c \in Clients, NEW i, Sending(c, i), NEW p, p = cl[c].pos[i] + 1,
           p <= Size(Line(c)[2]), up[K(c, i)] = <<>> \/ ~Open(K(c, i)),
           up' = IF Open(K(c, i)) THEN [up EXCEPT ![K(c, i)] = <<PageWord(Line(c)[2], p)>>] ELSE up,
           SetPos(c, i, p),
           UNCHANGED <<rows, serverVars, down, held, disk, kills, route, history>>
    PROVE  IInv'
<1>a. /\ Plain /\ Types /\ LineInv(c) /\ ShapeInv(c) /\ QueueInv /\ PoolInv /\ (\A j \in Conns : ConnInv(j))
      /\ Uploaded /\ Downloading /\ PartsWhole
  BY DEF IInv, Plain
<1>b. PICK m \in Md5s : m = cl[c].row.md5 /\ m = Line(c)[2]
  BY SendingIs2
<1>c. /\ i \in Nth(c) /\ i \in {1, 2} /\ Busy1(c) /\ Wired(c) /\ Begun(c)
      /\ Line(c)[1] = "puts" /\ cl[c].at \in {"send1", "send2"} /\ Owing(c)
      /\ \A j \in Nth(c) : /\ K(c, j) \in Conns /\ K(c, j)[1] = c /\ K(c, j)[2] = cl[c].n
                           /\ K(c, j)[3] = j /\ Wire(c, K(c, j)) /\ cl[c].pos[j] \in Nat
  BY SendingIs2
<1>d. PICK k \in Conns : k = K(c, i) /\ k[1] = c /\ Wire(c, k)
  BY <1>c
<1>e. /\ repo' = repo /\ alive' = alive /\ sv' = sv /\ que' = que /\ down' = down /\ held' = held
      /\ rows' = rows /\ disk' = disk /\ kills' = kills /\ early' = early /\ cut' = cut /\ mixed' = mixed
  BY DEF serverVars, history
<1>f. p \in Nat /\ p \in 1..Size(m) /\ p <= Size(m) /\ cl[c].pos[i] = p - 1 /\ Size(m) \in Nat
  BY <1>b, <1>c, ContentIs
<1>1. /\ cl'[c].at = cl[c].at /\ cl'[c].n = cl[c].n /\ cl'[c].op = cl[c].op /\ cl'[c].row = cl[c].row
      /\ cl'[c].off = cl[c].off /\ cl'[c].over = cl[c].over
      /\ cl'[c].pos[i] = p /\ (\A j \in {1, 2} : j # i => cl'[c].pos[j] = cl[c].pos[j])
      /\ (\A d \in Clients \ {c} : cl'[d] = cl[d]) /\ ClientTypes'
      /\ Line(c)' = Line(c) /\ Nth(c)' = Nth(c) /\ \A j : K(c, j)' = K(c, j)
  BY <1>a, <1>c, <1>f, PosIs
<1>2. PICK w \in Words : w = PageWord(m, p)
  <2>1. Content[m][p] \in Page
    BY <1>f, ContentIs
  <2> QED
    BY <2>1 DEF Words, PageWord
<1>3. /\ up \in [Conns -> Seq(Words)] /\ up' \in [Conns -> Seq(Words)]
      /\ (\A j \in Conns \ {k} : up'[j] = up[j])
      /\ (Open(k) => up[k] = <<>> /\ up'[k] = <<w>>) /\ (~Open(k) => up'[k] = up[k])
  <2>1. up \in [Conns -> Seq(Words)]
    BY <1>a DEF Types, NetTypes
  <2>2. <<w>> \in Seq(Words)
    OBVIOUS
  <2>3. CASE Open(k)
    <3>1. up' = [up EXCEPT ![k] = <<w>>]
      BY <1>b, <1>d, <1>2, <2>3
    <3> QED
      BY <1>d, <2>1, <2>2, <2>3, <3>1
  <2>4. CASE ~Open(k)
    BY <1>d, <2>1, <2>4
  <2> QED
    BY <2>1, <2>3, <2>4
<1>4. Open(k) => sv[k].at \notin {"queued", "cmd"}
  BY <1>c, <1>d, <1>3 DEF Wire
<1>5. ClientStep(c)
  BY <1>1, <1>3, <1>d, <1>e DEF ClientStep
<1>6. Types'
  <2>1. ServerTypes' /\ DiskTypes' /\ HistoryTypes'
    BY <1>a, <1>e DEF Types, ServerTypes, SvTypes, DiskTypes, HistoryTypes
  <2>2. NetTypes'
    BY <1>a, <1>e, <1>3 DEF Types, NetTypes
  <2> QED
    BY <1>1, <2>1, <2>2 DEF Types
<1>7. \A j \in Conns : sv[j].at \in {"queued", "cmd"} => up'[j] = up[j]
  BY <1>3, <1>4
<1>8. Plain'
  <2>1. LineInv(c)'
    BY <1>a, <1>c, <1>1 DEF LineInv
  <2>2. WireInv(c)'
    <3> SUFFICES ASSUME NEW j \in Nth(c) PROVE Wire(c, K(c, j))'
      BY <1>1 DEF WireInv
    <3>1. PICK x \in Conns : x = K(c, j) /\ x = K(c, j)' /\ Wire(c, x)
      BY <1>c, <1>1
    <3>2. sv[x].at \in {"queued", "cmd"} => up'[x] = up[x]
      BY <1>7
    <3>3. Begun(c)' /\ cl'[c].at # "train"
      BY <1>1, <1>c DEF Begun, Wired
    <3> QED
      BY <1>1, <1>c, <1>e, <3>1, <3>2, <3>3 DEF Wire
  <2>3. ShapeInv(c)'
    BY <1>a, <1>c, <1>e, <1>1 DEF ShapeInv
  <2>4. ASSUME NEW j \in Conns, j[1] = c PROVE ConnInv(j)'
    <3>1. ConnInv(j) /\ sv'[j] = sv[j] /\ down'[j] = down[j] /\ held' = held
      BY <1>a, <1>e
    <3>2. Unused(j)' <=> Unused(j)
      BY <1>1, <2>4 DEF Unused
    <3>3. CASE j = k
      <4>1. k[2] = cl[c].n
        BY <1>c, <1>d
      <4>2. ~Unused(j)
        BY <1>c, <1>d, <3>3, <4>1, <1>a DEF Unused, Types, ClientTypes, ClientState
      <4> QED
        BY <1>7, <3>1, <3>2, <4>2 DEF ConnInv, FirstWord, Open
    <3>4. CASE j # k
      BY <1>3, <3>1, <3>2, <3>4 DEF ConnInv, FirstWord, Open, Fresh
    <3> QED
      BY <3>3, <3>4
  <2>5. QueueInv'
    BY <1>a, <1>e DEF QueueInv
  <2>6. PoolInv'
    BY <1>a, <1>e, PoolShrinks DEF Busy, Open
  <2> QED
    BY <1>a, <1>5, <1>6, <2>1, <2>2, <2>3, <2>4, <2>5, <2>6, PlainClient
<1>9. \A j \in Conns : \A x : Uploads(j, x)' <=> Uploads(j, x)
  BY <1>7, <1>e DEF Uploads
<1>10. UploadsStay(c)
  BY <1>9, <1>e DEF UploadsStay
<1>11. OweStays(c)
  BY <1>1, <1>c DEF OweStays, Owing
<1>12. NewRow(c)
  BY <1>e DEF NewRow
<1>13. PutClient(c)'
  <2>a. /\ cl'[c].row = cl[c].row /\ cl'[c].at = cl[c].at /\ cl[c].row.md5 = m
        /\ alive' = alive /\ cut' = cut /\ Nth(c)' = Nth(c)
    BY <1>b, <1>e, <1>1
  <2> SUFFICES ASSUME Kept(m)
               PROVE  /\ Parted(cl[c].row)
                      /\ \A j \in Nth(c) : cl'[c].pos[j] <= Size(m) /\ PutConn(c, j, K(c, j), m)'
                      /\ cl[c].at = "send2" => cl'[c].pos[1] = Size(m)
    BY <2>a DEF PutClient, Parted, Kept
  <2>1. /\ Parted(cl[c].row)
        /\ \A j \in Nth(c) : cl[c].pos[j] <= Size(m) /\ PutConn(c, j, K(c, j), m)
        /\ cl[c].at = "send2" => cl[c].pos[1] = Size(m)
    BY <1>b, SendingIs2
  <2>2. ASSUME NEW j \in Nth(c) PROVE cl'[c].pos[j] <= Size(m)
    <3>1. j \in {1, 2}
      BY <2>2, NthIs
    <3>2. CASE j = i
      <4>1. cl'[c].pos[j] = p
        BY <1>1, <3>2
      <4> QED
        BY <1>f, <4>1, Zenon
    <3>3. CASE j # i
      BY <1>1, <2>1, <2>2, <3>1, <3>3
    <3> QED
      BY <3>2, <3>3
  <2>3. cl[c].at = "send2" => cl'[c].pos[1] = Size(m)
    <3>1. cl[c].at = "send2" => i # 1
      BY DEF Sending
    <3> QED
      BY <1>1, <2>1, <3>1
  <2>4. ASSUME NEW j \in Nth(c), j # i PROVE PutConn(c, j, K(c, j), m)'
    <3>1. PICK x \in Conns : x = K(c, j) /\ x = K(c, j)' /\ x[3] = j
      BY <1>c, <1>1, <2>4
    <3>2. x # k
      BY <1>c, <1>d, <2>4, <3>1
    <3>3. sv'[x] = sv[x] /\ up'[x] = up[x] /\ PutConn(c, j, x, m)
      BY <1>3, <1>e, <2>1, <2>4, <3>1, <3>2
    <3>4. Sent(c, j)' = Sent(c, j)
      BY <1>1, <2>4, NthIs DEF Sent
    <3> QED
      BY <1>1, <1>e, <3>1, <3>3, <3>4, ZenonT(40) DEF PutConn, HasContent, Upload, Holds
  <2>5. PutConn(c, i, K(c, i), m)'
    <3>1. PutConn(c, i, k, m) /\ K(c, i)' = k
      BY <1>c, <1>d, <1>1, <2>1
    <3>2. Sent(c, i) = 2 + (p - 1) /\ Sent(c, i)' = 2 + p
      BY <1>c, <1>f, <1>1 DEF Sent
    <3>3. CASE sv[k].at = "closed"
      <4>1. HasContent(cl[c].row.s[i], m)
        BY <3>1, <3>3 DEF PutConn, Upload
      <4> QED
        BY <1>1, <1>e, <3>1, <3>3, <4>1 DEF PutConn, HasContent
    <3>4. CASE sv[k].at # "closed"
      <4>1. sv[k].s = cl[c].row.s[i] /\ Upload(k, m, 2 + (p - 1))
        BY <3>1, <3>2, <3>4 DEF PutConn
      <4>2. Open(k)
        BY <4>1 DEF Upload, Open
      <4>3. up[k] = <<>> /\ up'[k] = <<PageWord(m, p)>>
        BY <1>2, <1>3, <4>2
      <4>4. /\ sv[k].at = "recv" /\ sv[k].m = m /\ sv[k].len = Size(m)
            /\ Holds(sv[k].s, m, sv[k].pos) /\ 2 + (p - 1) = 2 + sv[k].pos
        BY <1>f, <4>1, <4>3 DEF Upload
      <4>5. sv[k].pos = p - 1
        <5>1. sv[k].pos \in Nat
          BY <1>a, ThreadIs DEF Thread
        <5> QED
          BY <1>f, <4>4, <5>1
      <4>6. Upload(k, m, 2 + p)'
        <5>1. sv[k].pos + 1 = p /\ 3 + sv[k].pos = 2 + p
          BY <1>f, <4>5
        <5>2. Holds(sv[k].s, m, sv[k].pos)'
          BY <1>e, <4>4 DEF Holds
        <5> QED
          BY <1>e, <4>3, <4>4, <5>1, <5>2 DEF Upload
      <4>7. sv'[k].s = cl'[c].row.s[i]
        BY <1>1, <1>e, <4>1
      <4> QED
        BY <3>1, <3>2, <4>6, <4>7 DEF PutConn
    <3> QED
      BY <3>3, <3>4
  <2> QED
    BY <2>1, <2>2, <2>3, <2>4, <2>5
<1>14. ASSUME NEW j \in Conns, j[1] = c PROVE PutLeft(j)'
  <2>1. Current(j)' <=> Current(j)
    BY <1>1, <1>14 DEF Current, Wired
  <2> SUFFICES ASSUME NEW x \in Md5s, Kept(x), Uploads(j, x), ~Current(j)
               PROVE  Upload(j, x, 2 + Size(x))'
    BY <1>9, <1>e, <2>1 DEF PutLeft, Kept
  <2>2. Current(k)
    BY <1>c, <1>d DEF Current
  <2>3. up'[j] = up[j]
    BY <1>3, <2>2
  <2>4. Upload(j, x, 2 + Size(x))
    BY <1>a DEF Uploaded, PutLeft
  <2> QED
    BY <1>e, <2>3, <2>4 DEF Upload, Holds
<1>15. ASSUME Good PROVE (\A j \in Conns : j[1] = c => GetThread(j)') /\ GetClient(c)'
  <2>1. ASSUME NEW j \in Conns PROVE GetThread(j)'
    <3>1. GetThread(j)
      BY <1>15, <1>a DEF Downloading
    <3> QED
      BY <1>7, <1>e, <3>1 DEF GetThread, HasContent
  <2>2. GetClient(c)'
    BY <1>1, <1>c DEF GetClient, Getting
  <2> QED
    BY <2>1, <2>2
<1>16. ASSUME Good, ~mixed PROVE PartsInv(c)' /\ StageInv(c)'
  <2>1. cl'[c].at \notin Getting \cup {"done"}
    BY <1>1, <1>c DEF Getting
  <2> QED
    BY <1>16, <1>a, <1>e, <2>1, PartsStay, StageFree DEF PartsWhole
<1>17. (Good' => Good) /\ (mixed' <=> mixed)
  BY <1>e DEF Good
<1> QED
  BY <1>5, <1>8, <1>10, <1>11, <1>12, <1>13, <1>14, <1>15, <1>16, <1>17, ClientInv

\* All pages are sent: to the next server, or done.
LEMMA SentAllStep ==
    ASSUME IInv, NEW c \in Clients, NEW i, Sending(c, i), cl[c].pos[i] + 1 > Size(Line(c)[2]),
           Goto(c, IF i = 1 /\ Nth(c) = {1, 2} THEN "send2" ELSE "done"), up' = up,
           UNCHANGED <<rows, serverVars, down, held, disk, kills, route, history>>
    PROVE  IInv'
<1>a. /\ Plain /\ Types /\ LineInv(c) /\ ShapeInv(c) /\ Uploaded /\ Downloading /\ PartsWhole
  BY DEF IInv, Plain
<1>b. PICK m \in Md5s : m = cl[c].row.md5 /\ m = Line(c)[2]
  BY SendingIs2
<1>c. /\ i \in Nth(c) /\ i \in {1, 2} /\ (i = 2 => Nth(c) = {1, 2}) /\ Busy1(c) /\ Wired(c) /\ Begun(c)
      /\ Line(c)[1] = "puts" /\ cl[c].at \in {"send1", "send2"} /\ Owing(c)
      /\ \A j \in Nth(c) : /\ K(c, j) \in Conns /\ K(c, j)[1] = c /\ K(c, j)[2] = cl[c].n
                           /\ K(c, j)[3] = j /\ Wire(c, K(c, j)) /\ cl[c].pos[j] \in Nat
  BY SendingIs2
<1>d. PICK at : at = IF i = 1 /\ Nth(c) = {1, 2} THEN "send2" ELSE "done"
  OBVIOUS
<1>e. /\ repo' = repo /\ alive' = alive /\ sv' = sv /\ que' = que /\ down' = down /\ held' = held
      /\ rows' = rows /\ disk' = disk /\ kills' = kills /\ early' = early /\ cut' = cut /\ mixed' = mixed
  BY DEF serverVars, history
<1>1. /\ cl'[c].at = at /\ cl'[c].n = cl[c].n /\ cl'[c].op = cl[c].op /\ cl'[c].row = cl[c].row
      /\ cl'[c].off = cl[c].off /\ cl'[c].pos = cl[c].pos
      /\ (\A d \in Clients \ {c} : cl'[d] = cl[d]) /\ ClientTypes'
      /\ Line(c)' = Line(c) /\ Nth(c)' = Nth(c) /\ (\A j : K(c, j)' = K(c, j))
      /\ at \in {"send2", "done"} /\ (at = "send2" <=> i = 1 /\ Nth(c) = {1, 2})
  <2>1. at \in {"send2", "done"} /\ at \in Stages /\ (at = "send2" <=> i = 1 /\ Nth(c) = {1, 2})
    BY <1>d DEF Stages, Putting
  <2>2. Goto(c, at)
    BY <1>d
  <2> QED
    BY <1>a, <2>1, <2>2, GotoIs
<1>2. ClientStep(c)
  BY <1>1, <1>e DEF ClientStep
<1>3. Plain' /\ Types'
  <2>1. LineInv(c)'
    BY <1>a, <1>c, <1>1 DEF LineInv, Getting, Putting
  <2>2. WireInv(c)'
    <3> SUFFICES ASSUME at = "send2", NEW j \in Nth(c) PROVE Wire(c, K(c, j))'
      BY <1>1 DEF WireInv, Wired
    <3>1. Wire(c, K(c, j)) /\ K(c, j)' = K(c, j)
      BY <1>c, <1>1
    <3> QED
      BY <1>c, <1>e, <1>1, <3>1 DEF Wire, Begun, Wired
  <2>3. ShapeInv(c)'
    BY <1>a, <1>e, <1>1 DEF ShapeInv
  <2>4. DiskTypes' /\ HistoryTypes' /\ rows' \subseteq Rows
    BY <1>a, <1>e DEF Types, DiskTypes, HistoryTypes, ServerTypes
  <2>5. /\ DOMAIN down' = Conns /\ held' \subseteq Conns
        /\ \A k \in Conns : down'[k] = <<>> \/ down'[k] = <<down'[k][1]>>
    BY <1>a, <1>e DEF Types, NetTypes
  <2>6. \A k \in Conns : k[1] = c /\ Unused(k)' => Unused(k)
    BY <1>1 DEF Unused
  <2>7. \A k \in Conns : Fresh(k) => Fresh(k)'
    BY <1>e DEF Fresh
  <2> QED
    BY <1>a, <1>e, <1>1, <1>2, <2>1, <2>2, <2>3, <2>4, <2>5, <2>6, <2>7, PlainQuiet
<1>4. UploadsStay(c)
  BY <1>e DEF UploadsStay, Uploads
<1>5. Kept(m) => /\ Parted(cl[c].row)
                 /\ \A j \in Nth(c) : cl[c].pos[j] <= Size(m) /\ PutConn(c, j, K(c, j), m)
                 /\ cl[c].at = "send2" => cl[c].pos[1] = Size(m)
                 /\ cl[c].pos[i] = Size(m)
  <2> SUFFICES ASSUME Kept(m)
               PROVE  /\ Parted(cl[c].row)
                      /\ \A j \in Nth(c) : cl[c].pos[j] <= Size(m) /\ PutConn(c, j, K(c, j), m)
                      /\ cl[c].at = "send2" => cl[c].pos[1] = Size(m)
                      /\ cl[c].pos[i] = Size(m)
    OBVIOUS
  <2>1. /\ Parted(cl[c].row)
        /\ \A j \in Nth(c) : cl[c].pos[j] <= Size(m) /\ PutConn(c, j, K(c, j), m)
        /\ cl[c].at = "send2" => cl[c].pos[1] = Size(m)
    BY <1>b, SendingIs2
  <2>2. PICK q \in Nat : q = cl[c].pos[i]
    BY <1>c
  <2>3. q <= Size(m) /\ q + 1 > Size(m) /\ Size(m) \in Nat
    BY <1>b, <1>c, <2>1, <2>2, ContentIs
  <2> QED
    BY <2>1, <2>2, <2>3
<1>6. OweStays(c)
  <2> SUFFICES ASSUME Kept(m), NEW j \in Nth(c), at = "done"
               PROVE  \/ HasContent(cl[c].row.s[j], m)
                      \/ \E k \in Conns : sv'[k].s = cl[c].row.s[j] /\ Uploads(k, m)'
    <3>1. Kept(m)' => Kept(m)
      BY <1>e DEF Kept
    <3>2. at = "send2" => Owing(c)'
      BY <1>1, <1>c DEF Owing
    <3> QED
      BY <1>1, <1>b, <3>1, <3>2 DEF OweStays
  <2>1. PICK k \in Conns : k = K(c, j) /\ PutConn(c, j, k, m)
    BY <1>5, <1>c
  <2>2. PICK n \in Nat : n = cl[c].pos[j]
    BY <1>c
  <2>3. Sent(c, j) = 2 + n
    BY <1>c, <2>2 DEF Sent
  <2>4. CASE sv[k].s = cl[c].row.s[j] /\ Upload(k, m, 2 + n)
    <3>1. Uploads(k, m)
      BY <1>a, <2>4, UploadsSent
    <3> QED
      BY <1>e, <2>4, <3>1 DEF Uploads
  <2> QED
    BY <2>1, <2>3, <2>4 DEF PutConn
<1>7. NewRow(c)
  BY <1>e DEF NewRow
<1>8. PutClient(c)'
  <2> SUFFICES ASSUME Kept(m), at = "send2"
               PROVE  /\ Parted(cl[c].row)
                      /\ \A j \in Nth(c) : cl'[c].pos[j] <= Size(m) /\ PutConn(c, j, K(c, j), m)'
                      /\ cl'[c].pos[1] = Size(m)
    BY <1>b, <1>c, <1>e, <1>1 DEF PutClient, Parted, Kept, Owing
  <2>1. ASSUME NEW j \in Nth(c) PROVE PutConn(c, j, K(c, j), m)'
    <3>1. PICK k : k = K(c, j) /\ k = K(c, j)' /\ PutConn(c, j, k, m)
      BY <1>1, <1>5
    <3>2. Sent(c, j)' = Sent(c, j)
      BY <1>1, <1>c DEF Sent
    <3> QED
      BY <1>1, <1>e, <3>1, <3>2 DEF PutConn, HasContent, Upload, Holds
  <2> QED
    BY <1>1, <1>5, <2>1
<1>9. ASSUME NEW k \in Conns, k[1] = c PROVE PutLeft(k)'
  <2> SUFFICES ASSUME NEW x \in Md5s, Kept(x), Uploads(k, x), ~Current(k)'
               PROVE  Upload(k, x, 2 + Size(x))
    BY <1>e DEF PutLeft, Kept, Uploads, Upload, Holds
  <2>1. CASE ~Current(k)
    BY <1>a, <2>1 DEF Uploaded, PutLeft
  <2>2. CASE Current(k)
    <3>1. x = m
      BY <1>9, <1>a, <1>b, <2>2, CurrentUploads
    <3>2. PICK j \in Nth(c) : k = K(c, j) /\ j = k[3]
      BY <1>9, <2>2, CurrentIs
    <3>3. at = "done"
      BY <1>1, <1>9, <2>2 DEF Current, Wired
    <3>4. cl[c].pos[j] = Size(m)
      <4>1. CASE i = 1
        <5>1. Nth(c) = {1}
          BY <1>1, <3>3, <4>1, NthIs
        <5> QED
          BY <1>5, <3>1, <3>2, <4>1, <5>1
      <4>2. CASE i = 2
        <5>1. cl[c].at = "send2"
          BY <4>2 DEF Sending
        <5>2. j \in {1, 2}
          BY <3>2, NthIs
        <5> QED
          BY <1>5, <3>1, <4>2, <5>1, <5>2
      <4> QED
        BY <1>c, <4>1, <4>2
    <3>5. PutConn(c, j, k, m) /\ Sent(c, j) = 2 + Size(m)
      BY <1>5, <1>c, <3>1, <3>2, <3>4 DEF Sent
    <3> QED
      BY <3>1, <3>5 DEF PutConn, Uploads
  <2> QED
    BY <2>1, <2>2
<1>10. ASSUME Good PROVE (\A k \in Conns : k[1] = c => GetThread(k)') /\ GetClient(c)'
  <2>1. ASSUME NEW k \in Conns PROVE GetThread(k)'
    <3>1. GetThread(k)
      BY <1>10, <1>a DEF Downloading
    <3> QED
      BY <1>e, <3>1 DEF GetThread, HasContent
  <2>2. GetClient(c)'
    BY <1>1, <1>c DEF GetClient
  <2> QED
    BY <2>1, <2>2
<1>11. ASSUME Good, ~mixed PROVE PartsInv(c)' /\ StageInv(c)'
  <2>1. StageInv(c)'
    BY <1>1, <1>c DEF StageInv, Getting, Finished
  <2> QED
    BY <1>11, <1>a, <1>e, <2>1, PartsStay DEF PartsWhole
<1>12. (Good' => Good) /\ (mixed' <=> mixed)
  BY <1>e DEF Good
<1> QED
  BY <1>2, <1>3, <1>4, <1>6, <1>7, <1>8, <1>9, <1>10, <1>11, <1>12, ClientInv

LEMMA SendContentStep == ASSUME IInv, NEW c \in Clients, NEW i \in {1, 2}, SendContent(c, i) PROVE IInv'
<1>1. Sending(c, i)
  BY DEF SendContent, Sending
<1>2. UNCHANGED <<rows, serverVars, down, held, disk, kills, route, history>>
  BY DEF SendContent
<1>3. PICK k, m, p : k = K(c, i) /\ m = Line(c)[2] /\ p = cl[c].pos[i] + 1
  OBVIOUS
<1>4. CASE /\ p <= Size(m) /\ (up[k] = <<>> \/ ~Open(k))
           /\ up' = IF Open(k) THEN [up EXCEPT ![k] = <<PageWord(m, p)>>] ELSE up
           /\ SetPos(c, i, p)
  BY <1>1, <1>2, <1>3, <1>4, SendPageStep
<1>5. CASE /\ p > Size(m) /\ up' = up
           /\ Goto(c, IF i = 1 /\ Nth(c) = {1, 2} THEN "send2" ELSE "done")
  BY <1>1, <1>2, <1>3, <1>5, SentAllStep
<1> QED
  BY <1>3, <1>4, <1>5 DEF SendContent, PageWord, SetPos

-----------------------------------------------------------------------------
(* The process ends *)

\* The page half written lies behind the last right one.
LEMMA HalfPage ==
    ASSUME IInv, Good, ~mixed, NEW c \in Clients, cl[c].at = "recv", Nth(c) = {1, 2},
           NEW i \in {1, 2}, Wanted(c, i), NEW f, f = disk[c].t[i], NEW g, g = Arrived(c, i, f, Partial)
    PROVE  PartFile(g, disk[c].of, Base(cl[c].row, i),
                    IF i = 1 THEN Part1(disk[c].of) ELSE Part2(disk[c].of))
<1>a. Plain /\ Types /\ LineInv(c) /\ Downloading /\ PartsInv(c) /\ StageInv(c)
  BY DEF IInv, Plain, PartsWhole
<1>b. Busy1(c) /\ Line(c)[1] = "gets"
  BY <1>a DEF Busy1, Resting, LineInv, Getting
<1>c. PICK m \in Md5s : m = cl[c].row.md5
  BY <1>a, <1>b, LineIs
<1>1. cl[c].off[i] \in Nat /\ cl[c].pos[i] \in Nat
  BY <1>a DEF Types, ClientTypes, ClientState, Pair
<1>2. PICK n \in Nat : n = Filled(c, i) /\ n = cl[c].off[i] + cl[c].pos[i]
  BY <1>1 DEF Filled
<1>3. Parted(cl[c].row)
  BY <1>a, <1>b DEF Downloading, GetClient, Getting
<1>4. /\ cl[c].row.part[1] = Part1(m) /\ cl[c].row.part[2] = Part2(m)
      /\ Part1(m) \in Nat /\ Part2(m) \in Nat
  BY <1>3, <1>c, PartsAre DEF Parted
<1>5. /\ disk[c].of = m /\ f # NULL
      /\ n <= Len(f) /\ Right(f, m, Base(cl[c].row, i), n) /\ EmptyBehind(f, n + 1)
  BY <1>a, <1>c, <1>2 DEF StageInv, Getting
<1>6. PICK base \in Nat, q \in Nat : /\ base = Base(cl[c].row, i)
                                     /\ q = IF i = 1 THEN Part1(m) ELSE Part2(m)
  BY <1>4 DEF Base
<1>7. PartFile(f, m, base, q)
  <2>1. m # NULL
    BY MarksApart
  <2>2. base = IF i = 1 THEN 0 ELSE Part1(m)
    BY <1>4, <1>6 DEF Base
  <2> QED
    BY <1>a, <1>5, <1>6, <2>1, <2>2 DEF PartsInv
<1>8. n + 1 \in 1..Len(f)
  <2>1. cl[c].row.part[i] = q
    BY <1>4, <1>6
  <2>2. cl[c].pos[i] < q - cl[c].off[i]
    BY <2>1 DEF Wanted
  <2>3. n + 1 <= q
    BY <1>1, <1>2, <2>2
  <2>4. Len(f) \in Nat /\ q <= Len(f)
    BY <1>5, <1>7 DEF PartFile
  <2> QED
    BY <2>3, <2>4
<1>9. PICK p : p = n + 1 /\ p - 1 = n
  OBVIOUS
<1>10. g = WriteAt(f, p, Partial)
  BY <1>2, <1>9 DEF Arrived
<1>11. PartFile(g, m, base, q)
  BY <1>5, <1>6, <1>7, <1>8, <1>9, <1>10, PartialPut
<1> QED
  BY <1>5, <1>6, <1>11

\* The thread of a process that has ended.
Rested(n, at, op) == [Thread0 EXCEPT !.at = at, !.op = op, !.n = n]

LEMMA RestedIs ==
    ASSUME NEW at \in Resting, NEW n \in 0..MaxTries, NEW op \in Seq(Lines), NEW r, r = Rested(n, at, op)
    PROVE  r \in ClientState /\ r.at = at /\ r.n = n /\ r.op = op
<1>1. r = [at |-> at, n |-> n, op |-> op, row |-> NULL, off |-> <<0, 0>>, pos |-> <<0, 0>>, over |-> {}]
  BY DEF Rested, Thread0
<1>2. <<0, 0>> \in Pair /\ at \in Stages
  BY PairIs DEF Stages, Pair
<1>3. r.at = at /\ r.n = n /\ r.op = op
  BY <1>1
<1> QED
  BY <1>1, <1>2, <1>3 DEF ClientState

\* Whether an upload is cut short, and the row that is then left.
CutsShort(c) == cl[c].at \notin {"idle", "done"} /\ Line(c)[1] = "puts"
BadRow(r)    == [r EXCEPT !.part = <<0, 0>>]

LEMMA BadRowIs ==
    ASSUME NEW r \in Rows
    PROVE  BadRow(r) \in Rows /\ BadRow(r).md5 = r.md5
<1>1. <<0, 0>> \in Pair
  BY PairIs DEF Pair
<1> QED
  BY <1>1 DEF BadRow, Rows

\* The pages that the files are left with.
Leaves(c, a) ==
    /\ a = [i \in {1, 2} |-> a[i]]
    /\ \A i \in {1, 2} : \/ a[i] = disk[c].t[i]
                         \/ /\ cl[c].at = "recv" /\ Nth(c) = {1, 2} /\ Wanted(c, i)
                            /\ a[i] = Arrived(c, i, disk[c].t[i], Partial)

LEMMA DiesStep ==
    ASSUME IInv, NEW c \in Clients, NEW at \in Resting, NEW op \in Seq(Lines), Dies(c, at, op),
           cl[c].at # "gone", kills' \in [Clients -> Nat]
    PROVE  IInv'
<1>a. /\ Plain /\ Types /\ LineInv(c) /\ ShapeInv(c) /\ Uploaded /\ Downloading /\ PartsWhole
  BY DEF IInv, Plain
<1>b. /\ repo' = repo /\ alive' = alive /\ sv' = sv /\ que' = que /\ up' = up
      /\ early' = early /\ mixed' = mixed
  BY DEF Dies, serverVars
<1>c. /\ held' = {k \in held : k[1] # c}
      /\ down' = [k \in Conns |-> IF k[1] = c THEN <<>> ELSE down[k]]
      /\ cut' = IF CutsShort(c) THEN cut \cup {Line(c)[2]} ELSE cut
      /\ rows' = IF CutsShort(c) /\ cl[c].at = "sizes" THEN rows \cup {BadRow(cl[c].row)} ELSE rows
  BY DEF Dies, CutsShort, BadRow
<1>d. PICK a : Leaves(c, a) /\ SetParts(c, a)
  <2>1. PICK hs \in SUBSET {1, 2} :
           /\ \A i \in hs : cl[c].at = "recv" /\ Nth(c) = {1, 2} /\ Wanted(c, i)
           /\ SetParts(c, [i \in {1, 2} |-> IF i \in hs THEN Arrived(c, i, disk[c].t[i], Partial)
                                             ELSE disk[c].t[i]])
    BY DEF Dies, SetParts
  <2>2. PICK a : a = [i \in {1, 2} |-> IF i \in hs THEN Arrived(c, i, disk[c].t[i], Partial)
                                       ELSE disk[c].t[i]]
    OBVIOUS
  <2>3. Leaves(c, a)
    BY <2>1, <2>2 DEF Leaves
  <2> QED
    BY <2>1, <2>2, <2>3
<1>1. /\ cl'[c].at = at /\ cl'[c].n = cl[c].n
      /\ (\A d \in Clients \ {c} : cl'[d] = cl[d]) /\ ClientTypes'
  <2>1. cl \in [Clients -> ClientState] /\ cl[c] \in ClientState
    BY <1>a DEF Types, ClientTypes
  <2>2. PICK r : r = Rested(cl[c].n, at, op)
    OBVIOUS
  <2>3. cl' = [cl EXCEPT ![c] = r]
    BY <2>2 DEF Dies, Rested
  <2>4. r \in ClientState /\ r.at = at /\ r.n = cl[c].n
    BY <2>1, <2>2, RestedIs DEF ClientState
  <2> QED
    BY <2>1, <2>3, <2>4 DEF ClientTypes
<1>2. a = [i \in {1, 2} |-> a[i]]
  BY <1>d DEF Leaves
<1>3. /\ disk'[c].file = disk[c].file /\ disk'[c].t = a /\ disk'[c].of = disk[c].of
      /\ (\A d \in Clients \ {c} : disk'[d] = disk[d]) /\ DiskTypes'
  BY <1>a, <1>d, <1>2, DiskParts DEF Types
<1>4. CutsShort(c) => Busy1(c) /\ Line(c)[2] = cl[c].row.md5 /\ cl[c].row \in Rows /\ cl[c].row.md5 \in Md5s
  BY <1>a, LineIs DEF CutsShort, Busy1, Resting
<1>5. cut \subseteq cut' /\ cut' \subseteq Md5s /\ (CutsShort(c) => cl[c].row.md5 \in cut')
  BY <1>a, <1>c, <1>4 DEF Types, HistoryTypes
<1>6. /\ rows \subseteq rows' /\ rows' \subseteq Rows
      /\ \A r \in rows' \ rows : r.md5 \in cut'
  BY <1>a, <1>c, <1>4, <1>5, BadRowIs DEF Types, ServerTypes
<1>7. ClientStep(c)
  BY <1>1, <1>3, <1>b, <1>c, <1>5, <1>6 DEF ClientStep
<1>8. Plain'
  <2>1. LineInv(c)' /\ WireInv(c)'
    BY <1>1 DEF LineInv, Busy1, WireInv, Wired, Resting
  <2>2. ShapeInv(c)'
    <3>1. ASSUME NEW i \in {1, 2} PROVE a[i] = NULL \/ Row1n(a[i])
      <4>1. CASE a[i] = disk[c].t[i]
        BY <1>a, <4>1 DEF ShapeInv
      <4>2. CASE /\ cl[c].at = "recv" /\ Nth(c) = {1, 2}
                 /\ a[i] = Arrived(c, i, disk[c].t[i], Partial)
        <5>1. Row1n(disk[c].t[i])
          BY <1>a, <4>2 DEF ShapeInv
        <5>2. cl[c].off[i] + cl[c].pos[i] + 1 \in Nat
          BY <1>a DEF Types, ClientTypes, ClientState, Pair
        <5> QED
          BY <4>2, <5>1, <5>2, RowWritten DEF Arrived
      <4> QED
        BY <1>d, <4>1, <4>2 DEF Leaves
    <3>2. disk[c].file = NULL \/ Row1n(disk[c].file)
      BY <1>a DEF ShapeInv
    <3> QED
      BY <1>1, <1>3, <3>1, <3>2 DEF ShapeInv, Resting
  <2>3. HistoryTypes'
    BY <1>a, <1>b, <1>5 DEF Types, HistoryTypes
  <2>4. /\ DOMAIN down' = Conns /\ held' \subseteq Conns
        /\ \A k \in Conns : down'[k] = <<>> \/ down'[k] = <<down'[k][1]>>
    BY <1>a, <1>c DEF Types, NetTypes
  <2>5. \A k \in Conns : k[1] = c /\ Unused(k)' => Unused(k)
    BY <1>1 DEF Unused, Resting
  <2>6. \A k \in Conns : Fresh(k) => Fresh(k)'
    BY <1>b, <1>c DEF Fresh
  <2> QED
    BY <1>a, <1>b, <1>1, <1>3, <1>6, <1>7, <2>1, <2>2, <2>3, <2>4, <2>5, <2>6, PlainQuiet
<1>9. UploadsStay(c)
  BY <1>b DEF UploadsStay, Uploads
<1>10. OweStays(c)
  <2>1. Owing(c) => CutsShort(c)
    BY DEF Owing, CutsShort
  <2> QED
    BY <1>5, <2>1 DEF OweStays, Kept
<1>11. NewRow(c)
  BY <1>6 DEF NewRow, Kept
<1>12. PutClient(c)'
  BY <1>1 DEF PutClient, Owing, Resting
<1>13. ASSUME NEW k \in Conns, k[1] = c PROVE PutLeft(k)'
  <2> SUFFICES ASSUME NEW x \in Md5s, Kept(x)', Uploads(k, x)
               PROVE  Upload(k, x, 2 + Size(x))
    BY <1>b DEF PutLeft, Uploads, Upload, Holds
  <2>1. Kept(x) /\ x \notin cut'
    BY <1>b, <1>5 DEF Kept
  <2>2. CASE ~Current(k)
    BY <1>a, <2>1, <2>2 DEF Uploaded, PutLeft
  <2>3. CASE Current(k)
    <3>1. Line(c)[1] = "puts" /\ cl[c].row.md5 = x /\ Begun(c)
      BY <1>13, <1>a, <2>3, CurrentUploads
    <3>2. CutsShort(c)
      BY <3>1 DEF CutsShort, Begun, Wired
    <3> QED
      BY <1>5, <2>1, <3>1, <3>2
  <2> QED
    BY <2>2, <2>3
<1>14. Good' => Good
  BY <1>b, <1>5 DEF Good
<1>15. ASSUME Good PROVE (\A k \in Conns : k[1] = c => GetThread(k)') /\ GetClient(c)'
  <2>1. ASSUME NEW k \in Conns PROVE GetThread(k)'
    <3>1. GetThread(k)
      BY <1>15, <1>a DEF Downloading
    <3> QED
      BY <1>b, <3>1 DEF GetThread, HasContent
  <2>2. GetClient(c)'
    BY <1>1 DEF GetClient, Getting, Resting
  <2> QED
    BY <2>1, <2>2
<1>16. ASSUME Good, ~mixed PROVE PartsInv(c)' /\ StageInv(c)'
  <2>1. StageInv(c)'
    BY <1>1, StageFree DEF Getting, Resting
  <2>2. PartsInv(c) /\ StageInv(c)
    BY <1>16, <1>a DEF PartsWhole
  <2>3. ASSUME a[1] = disk[c].t[1], a[2] = disk[c].t[2] PROVE PartsInv(c)'
    BY <1>3, <2>2, <2>3 DEF PartsInv
  <2>4. ASSUME ~(a[1] = disk[c].t[1] /\ a[2] = disk[c].t[2]) PROVE PartsInv(c)'
    <3>1. /\ cl[c].at = "recv" /\ Nth(c) = {1, 2}
          /\ \A i \in {1, 2} : \/ a[i] = disk[c].t[i]
                               \/ Wanted(c, i) /\ a[i] = Arrived(c, i, disk[c].t[i], Partial)
      BY <1>d, <2>4 DEF Leaves
    <3>2. disk[c].t[1] # NULL /\ disk[c].t[2] # NULL /\ disk[c].of = cl[c].row.md5
      BY <2>2, <3>1 DEF StageInv, Getting
    <3>3. PICK m : m = disk[c].of
      OBVIOUS
    <3>4. /\ m \in Md5s /\ Big(m)
          /\ PartFile(disk[c].t[1], m, 0, Part1(m)) /\ PartFile(disk[c].t[2], m, Part1(m), Part2(m))
      BY <2>2, <3>2, <3>3 DEF PartsInv
    <3>5. Base(cl[c].row, 1) = 0 /\ Base(cl[c].row, 2) = Part1(m)
      <4>1. LineInv(c) /\ Busy1(c) /\ Line(c)[1] = "gets"
        BY <1>a, <3>1 DEF Busy1, Resting, LineInv, Getting
      <4>2. Parted(cl[c].row)
        BY <1>16, <1>a, <3>1, <4>1 DEF Downloading, GetClient, Getting
      <4> QED
        BY <3>2, <3>3, <4>2 DEF Base, Parted
    <3>6. PartFile(a[1], m, 0, Part1(m))
      <4>1. CASE a[1] = disk[c].t[1]
        BY <3>4, <4>1
      <4>2. CASE Wanted(c, 1) /\ a[1] = Arrived(c, 1, disk[c].t[1], Partial)
        BY <1>16, <3>1, <3>3, <3>5, <4>2, HalfPage
      <4> QED
        BY <3>1, <4>1, <4>2
    <3>7. PartFile(a[2], m, Part1(m), Part2(m))
      <4>1. CASE a[2] = disk[c].t[2]
        BY <3>4, <4>1
      <4>2. CASE Wanted(c, 2) /\ a[2] = Arrived(c, 2, disk[c].t[2], Partial)
        BY <1>16, <3>1, <3>3, <3>5, <4>2, HalfPage
      <4> QED
        BY <3>1, <4>1, <4>2
    <3> QED
      BY <1>3, <3>3, <3>4, <3>6, <3>7 DEF PartsInv
  <2> QED
    BY <2>1, <2>3, <2>4
<1> QED
  BY <1>b, <1>7, <1>8, <1>9, <1>10, <1>11, <1>12, <1>13, <1>14, <1>15, <1>16, ClientInv

LEMMA KilledStep == ASSUME IInv, NEW c \in Clients, Killed(c) PROVE IInv'
<1>a. Types /\ LineInv(c)
  BY DEF IInv, Plain
<1>1. cl[c].at \notin {"idle", "gone"} /\ kills[c] > 0 /\ kills' = [kills EXCEPT ![c] = kills[c] - 1]
  BY DEF Killed
<1>2. PICK op \in {cl[c].op, Tail(cl[c].op)} : Dies(c, "idle", op)
  BY DEF Killed
<1>3. Busy1(c)
  BY <1>1 DEF Busy1, Resting
<1>4. op \in Seq(Lines)
  BY <1>a, <1>3, LineIs
<1>5. kills' \in [Clients -> Nat]
  <2>1. kills \in [Clients -> Nat]
    BY <1>a DEF Types, HistoryTypes
  <2>2. kills[c] - 1 \in Nat
    BY <1>1, <2>1
  <2> QED
    BY <1>1, <2>1, <2>2
<1>6. "idle" \in Resting
  BY DEF Resting
<1> QED
  BY <1>1, <1>2, <1>4, <1>5, <1>6, DiesStep

LEMMA GoneStep ==
    ASSUME IInv, NEW c \in Clients, cl[c].at # "gone", Dies(c, "gone", cl[c].op), kills' = kills
    PROVE  IInv'
<1>1. Types
  BY DEF IInv, Plain
<1>2. cl[c].op \in Seq(Lines) /\ kills' \in [Clients -> Nat] /\ "gone" \in Resting
  BY <1>1 DEF Types, ClientTypes, ClientState, HistoryTypes, Resting
<1> QED
  BY <1>2, DiesStep

\* What the invariant is about does not change.
LEMMA SameStep ==
    ASSUME IInv, rows' = rows, repo' = repo, alive' = alive, que' = que, sv' = sv, up' = up, down' = down,
           held' = held, cl' = cl, disk' = disk, kills' = kills, early' = early, cut' = cut, mixed' = mixed
    PROVE  IInv'
<1>a. /\ Types /\ QueueInv /\ PoolInv /\ (\A c \in Clients : LineInv(c) /\ WireInv(c) /\ ShapeInv(c))
      /\ \A k \in Conns : ConnInv(k)
  BY DEF IInv, Plain
<1>1. \A c : /\ Line(c)' = Line(c) /\ Nth(c)' = Nth(c) /\ (Wired(c)' <=> Wired(c)) /\ (Begun(c)' <=> Begun(c))
            /\ (Busy1(c)' <=> Busy1(c)) /\ (\A i : K(c, i)' = K(c, i))
  BY DEF Line, Nth, Wired, Begun, Busy1, K
<1>2. \A c : (Owing(c)' <=> Owing(c)) /\ \A i : Sent(c, i)' = Sent(c, i)
  BY <1>1 DEF Owing, Sent
<1>3. \A c : (Finished(c)' <=> Finished(c)) /\ \A i : Filled(c, i)' = Filled(c, i) /\ (Wanted(c, i)' <=> Wanted(c, i))
  BY <1>1 DEF Finished, Filled, Wanted
<1>4. \A k : (Open(k)' <=> Open(k)) /\ (Unused(k)' <=> Unused(k)) /\ \A m : (Uploads(k, m)' <=> Uploads(k, m))
  BY DEF Open, Unused, Uploads
<1>5. \A k : Current(k)' <=> Current(k)
  BY <1>1 DEF Current
<1>6. /\ (\A m : Kept(m)' <=> Kept(m)) /\ (Good' <=> Good)
      /\ \A s, m : HasContent(s, m)' <=> HasContent(s, m)
  BY DEF Kept, Good, HasContent
<1>7. \A k, m, n : Upload(k, m, n)' <=> Upload(k, m, n)
  BY DEF Upload, Holds
<1>8. Types'
  BY <1>a DEF Types, ClientTypes, ServerTypes, SvTypes, NetTypes, DiskTypes, HistoryTypes
<1>9. QueueInv'
  BY <1>a DEF QueueInv
<1>10. PoolInv'
  <2>1. \A s : Busy(s)' = Busy(s)
    BY <1>4 DEF Busy
  <2> QED
    BY <1>a, <2>1 DEF PoolInv
<1>11. ASSUME NEW c \in Clients PROVE LineInv(c)' /\ WireInv(c)' /\ ShapeInv(c)'
  <2>1. LineInv(c) /\ WireInv(c) /\ ShapeInv(c)
    BY <1>a
  <2>2. LineInv(c)'
    BY <1>1, <2>1 DEF LineInv
  <2>3. \A k : Wire(c, k)' <=> Wire(c, k)
    BY <1>1 DEF Wire
  <2>4. ShapeInv(c)'
    BY <1>1, <2>1 DEF ShapeInv
  <2> QED
    BY <1>1, <2>1, <2>2, <2>3, <2>4 DEF WireInv
<1>12. ASSUME NEW k \in Conns PROVE ConnInv(k)'
  <2>1. ConnInv(k) /\ (Fresh(k)' <=> Fresh(k)) /\ (FirstWord(k)' <=> FirstWord(k))
    BY <1>a DEF Fresh, FirstWord
  <2> QED
    BY <1>4, <2>1 DEF ConnInv
<1>13. Plain'
  BY <1>8, <1>9, <1>10, <1>11, <1>12 DEF Plain
<1>14. Uploaded'
  <2>a. RepoInv /\ RowInv /\ (\A c \in Clients : PutClient(c)) /\ \A k \in Conns : PutLeft(k)
    BY DEF IInv, Uploaded
  <2>1. RepoInv'
    BY <1>6, <2>a DEF RepoInv
  <2>2. \A s, m : OnItsWay(s, m)' <=> OnItsWay(s, m)
    BY <1>1, <1>2, <1>4 DEF OnItsWay
  <2>3. RowInv'
    BY <1>6, <2>2, <2>a DEF RowInv
  <2>4. ASSUME NEW c \in Clients PROVE PutClient(c)'
    <3>1. PutClient(c)
      BY <2>a
    <3>2. \A i, k, m : PutConn(c, i, k, m)' <=> PutConn(c, i, k, m)
      BY <1>2, <1>6, <1>7 DEF PutConn
    <3>3. Parted(cl[c].row)' <=> Parted(cl[c].row)
      BY DEF Parted
    <3> QED
      BY <1>1, <1>2, <1>6, <3>1, <3>2, <3>3 DEF PutClient
  <2>5. ASSUME NEW k \in Conns PROVE PutLeft(k)'
    <3>1. PutLeft(k)
      BY <2>a
    <3> QED
      BY <1>4, <1>5, <1>6, <1>7, <3>1 DEF PutLeft
  <2> QED
    BY <2>1, <2>3, <2>4, <2>5 DEF Uploaded
<1>15. Downloading'
  <2>a. Good => alive = Servers /\ (\A k \in Conns : GetThread(k)) /\ (\A c \in Clients : GetClient(c))
    BY DEF IInv, Downloading
  <2>1. \A k : GetThread(k)' <=> GetThread(k)
    BY DEF GetThread, HasContent
  <2>2. \A c \in Clients : GetClient(c)' <=> GetClient(c)
    <3> SUFFICES ASSUME NEW c \in Clients PROVE GetClient(c)' <=> GetClient(c)
      OBVIOUS
    <3>1. \A k, m, x, y, z : Download(k, m, x, y, z)' <=> Download(k, m, x, y, z)
      BY DEF Download
    <3>2. \A k, m, x : PageComing(k, m, x)' <=> PageComing(k, m, x)
      BY DEF PageComing
    <3>3. \A i, k, m : GetConn(c, i, k, m)' <=> GetConn(c, i, k, m)
      <4> SUFFICES ASSUME NEW i, NEW k, NEW m PROVE GetConn(c, i, k, m)' <=> GetConn(c, i, k, m)
        OBVIOUS
      <4>1. PICK o : o = cl[c].off[i] + Base(cl[c].row, i) /\ (cl[c].off[i] + Base(cl[c].row, i))' = o
        BY DEF Base
      <4>2. PICK g : g = cl[c].pos[i] /\ cl'[c].pos[i] = g
        OBVIOUS
      <4>3. PageComing(k, m, o + g + 1)' <=> PageComing(k, m, o + g + 1)
        BY <3>2
      <4>4. Download(k, m, o, cl[c].row.part[i], g)' <=> Download(k, m, o, cl[c].row.part[i], g)
        BY DEF Download
      <4> QED
        BY <1>3, <4>1, <4>2, <4>3, <4>4 DEF GetConn
    <3>4. Parted(cl[c].row)' <=> Parted(cl[c].row)
      BY DEF Parted
    <3> QED
      BY <1>1, <1>6, <3>3, <3>4 DEF GetClient
  <2> QED
    BY <1>6, <2>a, <2>1, <2>2 DEF Downloading
<1>16. PartsWhole'
  <2>a. Good /\ ~mixed => \A c \in Clients : PartsInv(c) /\ StageInv(c)
    BY DEF IInv, PartsWhole
  <2>1. \A c : PartsInv(c)' <=> PartsInv(c)
    BY DEF PartsInv
  <2>2. ASSUME NEW c \in Clients, StageInv(c) PROVE StageInv(c)'
    <3>1. Parted(cl[c].row)' <=> Parted(cl[c].row)
      BY DEF Parted
    <3> QED
      BY <1>1, <1>3, <2>2, <3>1 DEF StageInv
  <2> QED
    BY <1>6, <2>a, <2>1, <2>2 DEF PartsWhole
<1> QED
  BY <1>13, <1>14, <1>15, <1>16 DEF IInv

LEMMA ClientsStep == ASSUME IInv, NEW c \in Clients, Client(c) PROVE IInv'
<1>1. CASE GetsAsk(c)
  BY <1>1, GetsAskStep
<1>2. CASE PutsAsk(c)
  BY <1>2, PutsAskStep
<1>3. CASE PutsSizes(c)
  BY <1>3, PutsSizesStep
<1>4. CASE Connect(c)
  BY <1>4, ConnectStep
<1>5. CASE ConnectFails(c)
  BY <1>5, GoneStep DEF ConnectFails
<1>6. CASE SendTrain(c)
  BY <1>6, SendTrainStep
<1>7. CASE OpenParts(c)
  BY <1>7, OpenPartsStep
<1>8. CASE OpenSmall(c)
  BY <1>8, OpenSmallStep
<1>9. CASE RecvPart(c, 1) \/ RecvPart(c, 2)
  BY <1>9, RecvPartStep
<1>10. CASE Join(c)
  BY <1>10, JoinStep
<1>11. CASE Merge(c)
  BY <1>11, MergeStep
<1>12. CASE Rename(c)
  BY <1>12, RenameStep
<1>13. CASE Unlink(c)
  BY <1>13, UnlinkStep
<1>14. CASE Finish(c)
  BY <1>14, FinishStep
<1>15. CASE SendSize(c)
  BY <1>15, SendSizeStep
<1>16. CASE SendContent(c, 1) \/ SendContent(c, 2)
  BY <1>16, SendContentStep
<1> QED
  BY <1>1, <1>2, <1>3, <1>4, <1>5, <1>6, <1>7, <1>8, <1>9, <1>10, <1>11, <1>12, <1>13, <1>14, <1>15, <1>16
  DEF Client

LEMMA NextStep == ASSUME IInv, [Next]_vars PROVE IInv'
<1>1. ASSUME NEW c \in Clients, Client(c) PROVE IInv'
  BY <1>1, ClientsStep
<1>2. ASSUME NEW c \in Clients, BrokenPipe(c) PROVE IInv'
  <2>1. cl[c].at # "gone" /\ Dies(c, "gone", cl[c].op) /\ kills' = kills
    BY <1>2 DEF BrokenPipe
  <2> QED
    BY <2>1, GoneStep
<1>3. ASSUME NEW c \in Clients, Killed(c) PROVE IInv'
  BY <1>3, KilledStep
<1>4. ASSUME NEW c \in Clients, ExitOnClose(c) PROVE IInv'
  <2>1. cl[c].at # "gone" /\ Dies(c, "gone", cl[c].op) /\ kills' = kills
    BY <1>4 DEF ExitOnClose
  <2> QED
    BY <2>1, GoneStep
<1>5. CASE RouteCloses
  BY <1>5, SameStep DEF RouteCloses, serverVars, netVars, history
<1>6. CASE FileServers
  BY <1>6, ServersStep
<1>7. CASE UNCHANGED vars
  BY <1>7, SameStep DEF vars
<1> QED
  BY <1>1, <1>2, <1>3, <1>4, <1>5, <1>6, <1>7 DEF Next

-----------------------------------------------------------------------------
(* The beginning *)

LEMMA InitStep == ASSUME Init PROVE IInv
<1>a. PICK sc \in Scenarios :
         /\ rows = {Row(m, <<1, 2>>, Part1(m), Part2(m)) : m \in sc.stored}
         /\ repo = [s \in Servers |-> [m \in Md5s |->
                      IF m \in sc.stored /\ s \in {1, 2} THEN Content[m] ELSE NULL]]
         /\ cl = [c \in Clients |-> [Thread0 EXCEPT !.op = sc.todo[c]]]
         /\ kills = sc.kills
  BY DEF Init
<1>b. /\ alive = Servers /\ que = [s \in Servers |-> <<>>]
      /\ sv = [k \in Conns |-> NoThread]
      /\ up = [k \in Conns |-> <<>>] /\ down = [k \in Conns |-> <<>>]
      /\ disk = [c \in Clients |-> [file |-> NULL, t |-> <<NULL, NULL>>, of |-> NULL]]
      /\ held = {} /\ early = FALSE /\ cut = {} /\ mixed = FALSE
  BY DEF Init
<1>c. /\ sc.todo \in [Clients -> Seq(Lines)] /\ sc.stored \subseteq Md5s /\ sc.kills \in [Clients -> Nat]
  BY ScenarioAssumption DEF Lines
<1>d. \A k \in Conns : /\ sv[k].at = "none" /\ sv[k].pos = 0 /\ Thread(sv[k])
                       /\ up[k] = <<>> /\ down[k] = <<>> /\ k \notin held
  BY <1>b DEF NoThread, Thread, Serving
<1>e. \A c \in Clients : cl[c] \in ClientState /\ cl[c].at = "idle"
  <2> SUFFICES ASSUME NEW c \in Clients PROVE cl[c] \in ClientState /\ cl[c].at = "idle"
    OBVIOUS
  <2>1. sc.todo[c] \in Seq(Lines)
    BY <1>c
  <2>2. cl[c] = [at |-> "idle", n |-> 0, op |-> sc.todo[c], row |-> NULL, off |-> <<0, 0>>,
                 pos |-> <<0, 0>>, over |-> {}]
    BY <1>a DEF Thread0
  <2>3. <<0, 0>> \in Pair /\ "idle" \in Stages /\ 0 \in 0..MaxTries
    BY PairIs, TransferAssumption DEF Pair, Stages, Resting
  <2>4. cl[c].at = "idle"
    BY <2>2
  <2> QED
    BY <2>1, <2>2, <2>3, <2>4 DEF ClientState
<1>f. \A c \in Clients : /\ disk[c].file = NULL /\ disk[c].of = NULL
                         /\ disk[c].t[1] = NULL /\ disk[c].t[2] = NULL
                         /\ disk[c] = [file |-> disk[c].file, t |-> disk[c].t, of |-> disk[c].of]
                         /\ disk[c].t = [i \in {1, 2} |-> disk[c].t[i]]
  <2> SUFFICES ASSUME NEW c \in Clients
               PROVE  /\ disk[c].file = NULL /\ disk[c].of = NULL
                      /\ disk[c].t[1] = NULL /\ disk[c].t[2] = NULL
                      /\ disk[c] = [file |-> disk[c].file, t |-> disk[c].t, of |-> disk[c].of]
                      /\ disk[c].t = [i \in {1, 2} |-> disk[c].t[i]]
    OBVIOUS
  <2>1. PICK t : t = <<NULL, NULL>>
    OBVIOUS
  <2>2. t[1] = NULL /\ t[2] = NULL /\ t = [i \in {1, 2} |-> t[i]]
    <3>1. t \in [{1, 2} -> {NULL}] /\ t[1] = NULL /\ t[2] = NULL
      BY <2>1, PairIs
    <3> QED
      BY <3>1
  <2>3. disk[c] = [file |-> NULL, t |-> t, of |-> NULL]
    BY <1>b, <2>1
  <2>4. disk[c].file = NULL /\ disk[c].t = t /\ disk[c].of = NULL
    BY <2>3
  <2> QED
    BY <2>2, <2>3, <2>4
<1>g. \A r \in rows : /\ r \in Rows /\ r.md5 \in sc.stored /\ r.s = <<1, 2>> /\ Parted(r)
  <2>1. <<1, 2>> \in Pairs
    BY DEF Pairs
  <2> QED
    BY <1>a, <1>c, <2>1, RowIs
<1>h. \A s \in Servers, m \in Md5s : repo[s][m] = IF m \in sc.stored /\ s \in {1, 2} THEN Content[m] ELSE NULL
  BY <1>a
<1>1. Types
  <2>1. ClientTypes
    BY <1>a, <1>e DEF ClientTypes
  <2>2. ServerTypes
    <3>1. DOMAIN sv = Conns
      BY <1>b
    <3>2. que \in [Servers -> Seq(Conns)]
      BY <1>b
    <3>3. DOMAIN repo = Servers /\ \A s \in Servers : DOMAIN repo[s] = Md5s
      BY <1>a
    <3>4. rows \subseteq Rows
      BY <1>g
    <3> QED
      BY <1>b, <1>d, <3>1, <3>2, <3>3, <3>4 DEF ServerTypes, SvTypes
  <2>3. NetTypes
    BY <1>b DEF NetTypes
  <2>4. DiskTypes
    BY <1>b, <1>f DEF DiskTypes
  <2>5. HistoryTypes
    BY <1>a, <1>b, <1>c DEF HistoryTypes
  <2> QED
    BY <2>1, <2>2, <2>3, <2>4, <2>5 DEF Types
<1>2. QueueInv
  <2>1. \A s \in Servers : Len(que[s]) = 0
    BY <1>b
  <2> QED
    BY <2>1 DEF QueueInv
<1>3. PoolInv
  <2>1. \A s : Busy(s) = {}
    BY <1>d DEF Busy, Open
  <2> QED
    BY <2>1, FS_EmptySet, TransferAssumption DEF PoolInv
<1>4. Plain
  <2>1. \A c \in Clients : LineInv(c) /\ WireInv(c)
    BY <1>e DEF LineInv, Busy1, Resting, WireInv, Wired
  <2>2. ASSUME NEW c \in Clients PROVE ShapeInv(c)
    <3>1. cl[c].at \notin {"recv", "merge"}
      BY <1>e
    <3> QED
      BY <1>f, <3>1 DEF ShapeInv
  <2>3. \A k \in Conns : ConnInv(k)
    BY <1>d DEF ConnInv, Fresh, FirstWord, Open
  <2> QED
    BY <1>1, <1>2, <1>3, <2>1, <2>2, <2>3 DEF Plain
<1>5. Uploaded
  <2>1. RepoInv
    <3> SUFFICES ASSUME NEW s \in Servers, NEW m \in Md5s PROVE RepoFile(repo[s][m], m)
      BY DEF RepoInv
    <3>1. repo[s][m] = NULL \/ repo[s][m] = Content[m]
      BY <1>h
    <3>2. Content[m] \in [1..Size(m) -> Page \cup {Hole}]
      BY ContentIs
    <3> QED
      BY <3>1, <3>2 DEF RepoFile
  <2>2. RowInv
    <3>1. ASSUME NEW r \in rows, NEW i \in {1, 2} PROVE HasContent(r.s[i], r.md5)
      <4>1. r.s[i] = i /\ i \in Servers /\ r.md5 \in sc.stored /\ r.md5 \in Md5s
        BY <1>c, <1>g, <3>1 DEF Servers
      <4> QED
        BY <1>h, <4>1 DEF HasContent
    <3> QED
      BY <1>g, <3>1 DEF RowInv
  <2>3. \A c \in Clients : PutClient(c)
    BY <1>e DEF PutClient, Owing
  <2>4. \A k \in Conns : PutLeft(k)
    BY <1>d DEF PutLeft, Uploads
  <2> QED
    BY <2>1, <2>2, <2>3, <2>4 DEF Uploaded
<1>6. Downloading
  <2>1. \A k \in Conns : GetThread(k)
    BY <1>d DEF GetThread
  <2>2. \A c \in Clients : GetClient(c)
    BY <1>e DEF GetClient, Getting
  <2> QED
    BY <1>b, <2>1, <2>2 DEF Downloading
<1>7. PartsWhole
  <2>1. \A c \in Clients : PartsInv(c)
    BY <1>f DEF PartsInv
  <2>2. \A c \in Clients : StageInv(c)
    BY <1>e DEF StageInv, Getting, Finished
  <2> QED
    BY <2>1, <2>2 DEF PartsWhole
<1> QED
  BY <1>4, <1>5, <1>6, <1>7 DEF IInv

-----------------------------------------------------------------------------
(* What follows from the invariant *)

LEMMA TypesHold == ASSUME IInv PROVE TypeOK
<1>a. Types /\ PoolInv
  BY DEF IInv, Plain
<1>1. alive \subseteq Servers /\ held \subseteq Conns
  BY <1>a DEF Types, ServerTypes, NetTypes
<1>2. \A r \in rows : r.md5 \in Md5s /\ r.s \in Pairs
  BY <1>a DEF Types, ServerTypes, Rows
<1>3. \A k \in Conns : Len(down[k]) <= 1
  <2> SUFFICES ASSUME NEW k \in Conns PROVE Len(down[k]) <= 1
    OBVIOUS
  <2>1. PICK x : x = down[k][1]
    OBVIOUS
  <2>2. CASE down[k] = <<>>
    BY <2>2
  <2>3. CASE down[k] = <<x>>
    BY <2>3
  <2> QED
    BY <1>a, <2>1, <2>2, <2>3 DEF Types, NetTypes
<1>4. \A c \in Clients : \A i \in {1, 2} : cl[c].off[i] \in Nat /\ cl[c].pos[i] \in Nat
  BY <1>a DEF Types, ClientTypes, ClientState, Pair
<1> QED
  BY <1>a, <1>1, <1>2, <1>3, <1>4 DEF TypeOK, PoolInv

LEMMA DownloadsWhole == ASSUME IInv PROVE DownloadWhole
<1> SUFFICES ASSUME Good, ~mixed, NEW c \in Clients, Finished(c), NEW m, m = Line(c)[2]
             PROVE  /\ Big(m) => disk[c].file = Content[m] /\ disk[c].t = <<NULL, NULL>>
                    /\ ~Big(m) => SubSeq(disk[c].file, 1, Size(m)) = Content[m]
  BY DEF DownloadWhole, Good
<1>a. Types /\ LineInv(c) /\ StageInv(c)
  BY DEF IInv, Plain, PartsWhole
<1>b. Busy1(c)
  BY DEF Finished, Busy1, Resting
<1>c. m = cl[c].row.md5 /\ m \in Md5s
  BY <1>a, <1>b, LineIs
<1>1. Parted(cl[c].row)
  BY <1>a DEF StageInv
<1>2. cl[c].row.part[2] = Part2(m)
  BY <1>1, <1>c DEF Parted
<1>3. Big(m) <=> Nth(c) = {1, 2}
  BY <1>2, <1>c, NthIs, PartsAre
<1>4. CASE Big(m)
  <2>1. disk[c].file = Content[m] /\ disk[c].t[1] = NULL /\ disk[c].t[2] = NULL
    BY <1>3, <1>4, <1>a, <1>c DEF StageInv
  <2>2. disk[c].t = [i \in {1, 2} |-> disk[c].t[i]]
    BY <1>a DEF Types, DiskTypes
  <2>3. PICK t : t = <<NULL, NULL>>
    OBVIOUS
  <2>4. t \in [{1, 2} -> {NULL}]
    BY <2>3, PairIs
  <2>5. disk[c].t = t
    BY <2>1, <2>2, <2>4
  <2> QED
    BY <1>4, <2>1, <2>3, <2>5
<1>5. CASE ~Big(m)
  <2>1. PICK f : f = disk[c].file
    OBVIOUS
  <2>2. Row1n(f) /\ Size(m) <= Len(f) /\ Right(f, m, 0, Size(m))
    BY <1>3, <1>5, <1>a, <1>c, <2>1 DEF StageInv
  <2>3. Size(m) \in Nat /\ Content[m] \in [1..Size(m) -> Page]
    BY <1>c, ContentIs
  <2>4. PICK n \in Nat, l \in Nat : n = Size(m) /\ l = Len(f) /\ n <= l
    BY <2>2, <2>3 DEF Row1n
  <2>5. PICK S : S = {f[j] : j \in 1..l}
    OBVIOUS
  <2>6. f \in Seq(S)
    <3>1. f = [j \in 1..l |-> f[j]]
      BY <2>2, <2>4 DEF Row1n
    <3>2. \A j \in 1..l : f[j] \in S
      BY <2>5
    <3> QED
      BY <3>1, <3>2
  <2>7. \A j \in 1..n : f[j] = Content[m][j]
    BY <2>2, <2>3, <2>4 DEF Right
  <2>8. PICK g : g = SubSeq(f, 1, n)
    OBVIOUS
  <2>9. g \in Seq(S) /\ Len(g) = n /\ \A j \in 1..n : g[j] = f[j]
    BY <2>4, <2>6, <2>8, SubSeqProperties
  <2>10. g = [j \in 1..n |-> g[j]] /\ Content[m] = [j \in 1..n |-> Content[m][j]]
    BY <2>3, <2>4, <2>9, SMTT(30)
  <2>11. g = Content[m]
    BY <2>7, <2>9, <2>10
  <2> QED
    BY <1>5, <2>1, <2>4, <2>8, <2>11
<1> QED
  BY <1>4, <1>5

LEMMA RowsHaveContent == ASSUME IInv PROVE RowHasContent
<1> SUFFICES ASSUME alive = Servers, \A k \in Conns : ~Uploading(k),
                    \A c \in Clients : cl[c].at \in {"idle", "gone"} \/ Line(c)[1] = "gets",
                    NEW r \in rows, r.md5 \notin cut
             PROVE  Complete(r)
  BY DEF RowHasContent
<1>1. Kept(r.md5)
  BY DEF Kept
<1>2. \A c \in Clients : ~Owing(c)
  BY DEF Owing
<1>3. \A k \in Conns : ~Uploads(k, r.md5)
  BY DEF Uploading, Uploads
<1>4. \A s : ~OnItsWay(s, r.md5)
  BY <1>2, <1>3 DEF OnItsWay
<1>5. /\ Parted(r)
      /\ \A i \in {1, 2} : i = 1 \/ r.part[2] # 0 => HasContent(r.s[i], r.md5)
  BY <1>1, <1>4 DEF IInv, Uploaded, RowInv
<1>6. HasContent(r.s[1], r.md5) /\ (r.part[2] # 0 => HasContent(r.s[2], r.md5))
  BY <1>5
<1> QED
  BY <1>5, <1>6 DEF Complete, Parted, HasContent

\* The invariant is inductive: no step of a client, of the file servers or of the route
\* server leaves it.
THEOREM Inductive == Spec => []IInv
<1>1. Init => IInv
  BY InitStep
<1>2. IInv /\ [Next]_vars => IInv'
  BY NextStep
<1> QED
  BY <1>1, <1>2, PTL DEF Spec

\* The types, and a download that comes to its end has the content, however often the
\* client was killed and had its download resumed, if the content was there and no part
\* file was another content's (do_gets.c, multi_point_download).
THEOREM TransferHolds == Spec => []TransferInv
<1>1. IInv => TransferInv
  BY TypesHold, DownloadsWhole DEF TransferInv
<1> QED
  BY <1>1, Inductive, PTL

\* A row that a puts leaves comes true on the servers it names, unless an upload was cut
\* short; and no file server ends before that (do_puts.c, task_analyse.c).
THEOREM ContentHolds == Spec => []ContentInv
<1>1. IInv => ServerSurvives
  BY DEF IInv, Downloading, Good, ServerSurvives
<1>2. IInv => ContentInv
  BY <1>1, RowsHaveContent DEF ContentInv
<1> QED
  BY <1>2, Inductive, PTL
=============================================================================
