---------------------------- MODULE AccountProofs ----------------------------
(***************************************************************************)
(* What Account promises, for any number of clients and threads, any table *)
(* to start from and anything the users type.                              *)
(***************************************************************************)
EXTENDS Account, WellFoundedInduction, TLAPS

(* Least and greatest numbers *)

LEMMA LeastNat ==
    ASSUME NEW T, T \subseteq Nat, T # {} PROVE \E x \in T : \A y \in T : x <= y
<1> DEFINE R == OpToRel(<, Nat)
<1>1. IsWellFoundedOn(R, Nat)
  BY NatLessThanWellFounded DEF OpToRel
<1>2. \A x, y \in Nat : x < y => <<x, y>> \in R
  BY DEF OpToRel
<1> HIDE DEF R
<1>3. PICK x \in T : \A y \in T : ~ (<<y, x>> \in R)
  BY <1>1, WFMin, Zenon
<1>4. \A y \in T : ~(y < x)
  BY <1>2, <1>3
<1> QED
  BY <1>4

LEMMA MinOf ==
    ASSUME NEW T, T \subseteq Nat, T # {} PROVE Min(T) \in T /\ \A y \in T : Min(T) <= y
<1>1. \E x \in T : \A y \in T : x <= y
  BY LeastNat, Zenon
<1> QED
  BY <1>1, Zenon DEF Min

LEMMA MaxOf ==
    ASSUME NEW n \in Nat, NEW T, T \subseteq 1..n, T # {} PROVE Max(T) \in T
<1> DEFINE D == {n - x : x \in T}
<1>1. D \subseteq Nat /\ D # {}
  <2>1. \A x \in T : x \in 1..n /\ n - x \in Nat
    OBVIOUS
  <2>2. PICK x \in T : TRUE
    OBVIOUS
  <2>3. n - x \in D
    OBVIOUS
  <2> QED
    BY <2>1, <2>3
<1>2. PICK d \in D : \A e \in D : d <= e
  BY <1>1, LeastNat, Zenon
<1>3. PICK x \in T : d = n - x
  BY <1>2
<1>4. \A y \in T : x >= y
  <2> TAKE y \in T
  <2>1. n - y \in D
    OBVIOUS
  <2>2. n - x <= n - y
    BY <1>2, <1>3, <2>1
  <2> QED
    BY <2>2
<1>5. \E z \in T : \A y \in T : z >= y
  BY <1>4
<1> QED
  BY <1>5, Zenon DEF Max

-----------------------------------------------------------------------------
(* The types, the threads, and the names of the table *)

Versions    == {"v1", "v2", "v3"}
Strings     == STRING \cup {""}
RegStates   == {"register", "checked", "offer", "password", "insert"}
LogStates   == {"login", "found", "verify"}
WkAts       == RegStates \cup LogStates \cup {"idle"}
ClientAts   == {"menu", "asked", "sent", "in", "dead"}
RowType     == [name : Strings, salt : Salts, pass : Crypted \cup {<<>>}, known : Int]
ClType      == [at : ClientAts, todo : Seq(Typed), name : Strings, pw : Strings, rows : Nat,
                refused : BOOLEAN, blind : BOOLEAN]
WkType      == [at : WkAts, c : Clients \cup {NULL}, name : Strings,
                row : Int \cup {NULL}, known : Int, salt : Salts \cup {NULL}, pass : Crypted \cup {<<>>}]
Msgs        == ({"salt"} \X (Salts \cup {NULL})) \cup {<<"refused">>, <<"done">>}

TableTypes  == /\ version \in Versions /\ userExist \in {0, 1} /\ (userExist = 0 => version = "v2")
               /\ users \in Seq(RowType)
               /\ res \in Workers \cup {Other, NULL} /\ others \in 0..MaxOther
ClientTypes == /\ cl \in [Clients -> ClType]
               /\ \A c \in Clients : cl[c].rows <= Len(users)
NetTypes    == /\ request \in [Clients -> (Kinds \X STRING) \cup {NULL}]
               /\ passwd \in [Clients -> Crypted \cup {NULL}]
               /\ reply \in [Clients -> Seq(Msgs)]
ServerTypes == /\ wk \in [Workers -> WkType] /\ sess \in [Clients -> Int]
               /\ \A c \in Clients : sess[c] \in -1..Len(users)
Types       == TableTypes /\ ClientTypes /\ NetTypes /\ ServerTypes

NoneNamed(name, n) == \A i \in 1..n : users[i].name # name
Named(row, name)   == row \in DOMAIN users /\ users[row].name = name

\* What a thread knows of the table.
Knows(w) ==
    LET x == wk[w] IN
    /\ x.at \in {"checked", "found"} =>
          x.known \in 0..Len(users) /\ (x.row = NULL => NoneNamed(x.name, x.known))
    /\ x.at \in {"offer", "password", "insert"} =>
          x.known = -1 \/ (x.known \in 0..Len(users) /\ NoneNamed(x.name, x.known))
    /\ x.at \in {"password", "insert"} => x.salt \in Salts
    /\ x.at = "found" => x.row = NULL \/ Named(x.row, x.name)
    /\ x.at = "verify" => x.row = 0 \/ Named(x.row, x.name)
    /\ version = "v1" /\ x.at \in {"checked", "offer", "password", "insert"} => x.known \in {-1, Len(users)}

\* A thread that is not idle has a client, alone, and is one of those that serve.
Works(w) ==
    /\ wk[w].at = "idle" => wk[w] = Idle
    /\ wk[w].at # "idle" => wk[w].c \in Clients /\ w \in Threads

OneEach == \A v, w \in Workers : wk[v].c = wk[w].c /\ wk[v].c # NULL => v = w

RowsInv == (\A j \in DOMAIN users : users[j].known \in -1..(j - 1)) /\ NamesUnique

PoolInv == OneEach /\ \A w \in Workers : Works(w) /\ Knows(w)
AccInv  == Types /\ PoolInv /\ RowsInv

LEMMA Nulls ==
    /\ NULL \notin Workers /\ NULL # Other /\ NULL \notin Clients /\ NULL \notin Salts /\ NULL \notin Int
    /\ NULL \notin Crypted /\ NULL \notin Kinds \X STRING /\ Other \notin Workers
BY AccountAssumption

LEMMA ThreadsIn == Threads \subseteq Workers /\ (version # "v3" => \A v, w \in Threads : v = w)
BY AccountAssumption DEF Threads

LEMMA InitAcc == Init => AccInv
<1> SUFFICES ASSUME Init PROVE AccInv
  OBVIOUS
<1>1. PICK s \in Scenarios : /\ version = s.version /\ users = s.users
                             /\ cl = [c \in Clients |-> [at |-> "menu", todo |-> s.todo[c], name |-> "", pw |-> "",
                                                         rows |-> 0, refused |-> FALSE, blind |-> FALSE]]
  BY DEF Init
<1>2. res = NULL /\ others = 0 /\ userExist = 1 /\ request = [c \in Clients |-> NULL] /\ passwd = [c \in Clients |-> NULL]
      /\ reply = [c \in Clients |-> <<>>] /\ wk = [w \in Workers |-> Idle] /\ sess = [c \in Clients |-> NotIn]
  BY DEF Init
<1>3. s.version \in Versions /\ s.users \in Seq(OldRows) /\ s.todo \in [Clients -> Seq(Typed)]
  BY AccountAssumption DEF Versions
<1>4. users \in Seq(RowType) /\ \A i \in DOMAIN users : users[i].known = -1
  <2>1. \A x \in OldRows : x \in RowType /\ x.known = -1
    <3> TAKE x \in OldRows
    <3>1. x = [name |-> x.name, salt |-> x.salt, pass |-> x.pass, known |-> x.known]
      BY DEF OldRows
    <3>2. x.name \in STRING /\ x.salt \in Salts /\ x.pass \in Crypted \cup {<<>>} /\ x.known \in {-1}
      BY DEF OldRows
    <3>3. x.known = -1 /\ x.known \in Int
      BY <3>2
    <3>4. x.name \in Strings
      BY <3>2 DEF Strings
    <3> QED
      BY <3>1, <3>2, <3>3, <3>4 DEF RowType
  <2>2. users \in Seq(OldRows)
    BY <1>1, <1>3
  <2>3. \A i \in 1..Len(users) : users[i] \in OldRows
    BY <2>2
  <2>4. Len(users) \in Nat /\ DOMAIN users = 1..Len(users) /\ users = [i \in 1..Len(users) |-> users[i]]
    BY <2>2
  <2>5. users \in Seq(RowType)
    BY <2>1, <2>3, <2>4
  <2> QED
    BY <2>1, <2>3, <2>4, <2>5
<1>5. TableTypes
  <2>1. version \in Versions /\ MaxOther \in Nat
    BY <1>1, <1>3, AccountAssumption
  <2>2. res = NULL /\ others \in 0..MaxOther /\ userExist = 1
    BY <1>2, <2>1
  <2> QED
    BY <2>1, <2>2, <1>4 DEF TableTypes
<1>6. ClientTypes
  <2>0. \A c \in Clients : s.todo[c] \in Seq(Typed)
    BY <1>3
  <2>1. \A c \in Clients : [at |-> "menu", todo |-> s.todo[c], name |-> "", pw |-> "",
                            rows |-> 0, refused |-> FALSE, blind |-> FALSE] \in ClType
    BY <2>0 DEF ClType, ClientAts, Strings
  <2>2. cl \in [Clients -> ClType] /\ \A c \in Clients : cl[c].rows = 0
    BY <1>1, <2>1
  <2> QED
    BY <1>4, <2>2 DEF ClientTypes
<1>7. NetTypes
  <2>1. request \in [Clients -> {NULL}] /\ passwd \in [Clients -> {NULL}] /\ reply \in [Clients -> {<<>>}]
    BY <1>2
  <2>2. <<>> \in Seq(Msgs)
    OBVIOUS
  <2> QED
    BY <2>1, <2>2 DEF NetTypes
<1>8. ServerTypes
  <2>1. Idle \in WkType
    BY DEF Idle, WkType, Strings, WkAts
  <2>2. Len(users) \in Nat
    BY <1>4
  <2>3. \A c \in Clients : sess[c] = -1 /\ sess[c] \in -1..Len(users)
    BY <1>2, <2>2 DEF NotIn
  <2> QED
    BY <1>2, <2>1, <2>3 DEF ServerTypes, NotIn
<1>9. PoolInv
  <2>1. \A w \in Workers : wk[w] = Idle /\ wk[w].at = "idle" /\ wk[w].c = NULL
    BY <1>2 DEF Idle
  <2> QED
    BY <2>1 DEF PoolInv, OneEach, Works, Knows
<1>10. RowsInv
  <2>1. \A j \in DOMAIN users : j \in Nat /\ j > 0
    BY <1>4
  <2> QED
    BY <1>4, <2>1 DEF RowsInv, NamesUnique
<1> QED
  BY <1>5, <1>6, <1>7, <1>8, <1>9, <1>10 DEF AccInv, Types

\* A row of the name, or none.
LEMMA RowIs ==
    ASSUME users \in Seq(RowType), NEW name
    PROVE  /\ Row(name) \in Int \cup {NULL}
           /\ Row(name) = NULL => NoneNamed(name, Len(users))
           /\ Row(name) # NULL => Named(Row(name), name)
<1>1. RowsOf(name) \subseteq 1..Len(users) /\ Len(users) \in Nat /\ RowsOf(name) \subseteq Nat
  BY DEF RowsOf
<1>2. CASE RowsOf(name) = {}
  BY <1>1, <1>2 DEF Row, RowsOf, NoneNamed
<1>3. CASE RowsOf(name) # {}
  <2>1. Max(RowsOf(name)) \in RowsOf(name)
    BY <1>1, <1>3, MaxOf
  <2>2. Min(RowsOf(name)) \in RowsOf(name)
    BY <1>1, <1>3, MinOf
  <2>3. Row(name) \in RowsOf(name)
    BY <1>3, <2>1, <2>2 DEF Row
  <2>4. Row(name) \in Int /\ Row(name) # NULL
    BY <1>1, <2>3, Nulls
  <2> QED
    BY <2>3, <2>4 DEF RowsOf, Named
<1> QED
  BY <1>2, <1>3

-----------------------------------------------------------------------------
(* One step of a thread *)

\* The table has only grown.
Grown == /\ users' \in Seq(RowType) /\ Len(users) <= Len(users')
         /\ \A i \in 1..Len(users) : users'[i] = users[i]

LEMMA Fields ==
    ASSUME ServerTypes, NEW w \in Workers
    PROVE  /\ wk[w] \in WkType
           /\ wk[w].at \in WkAts /\ wk[w].c \in Clients \cup {NULL}
           /\ wk[w].name \in Strings /\ wk[w].row \in Int \cup {NULL} /\ wk[w].known \in Int
           /\ wk[w].salt \in Salts \cup {NULL} /\ wk[w].pass \in Crypted \cup {<<>>}
<1>1. wk[w] \in WkType
  BY DEF ServerTypes
<1> QED
  BY <1>1 DEF WkType

LEMMA IdleIs == Idle \in WkType /\ Idle.at = "idle" /\ Idle.c = NULL
<1>1. Idle \in WkType
  BY DEF Idle, WkType, Strings, WkAts
<1> QED
  BY <1>1 DEF Idle

\* A thread that does not take the step stays right.
LEMMA OthersStay ==
    ASSUME AccInv, NEW w \in Threads, NEW new \in WkType, wk' = [wk EXCEPT ![w] = new],
           version' = version, Grown,
           new.at = "idle" => new = Idle,
           new.at # "idle" => new.c \in Clients,
           new.c = NULL \/ new.c = wk[w].c \/ ~Served(new.c),
           Knows(w)'
    PROVE  PoolInv'
<1> USE ThreadsIn DEF AccInv, Types, TableTypes, ServerTypes
<1>1. w \in Workers /\ wk \in [Workers -> WkType] /\ wk' \in [Workers -> WkType] /\ wk'[w] = new
      /\ (\A v \in Workers : v # w => wk'[v] = wk[v]) /\ Threads' = Threads
  BY DEF Threads
<1>2. \A v \in Workers : wk[v].c # NULL => v \in Threads
  BY IdleIs, Fields DEF PoolInv, Works
<1>3. ASSUME NEW u \in Workers, NEW v \in Workers, wk'[u].c = wk'[v].c, wk'[u].c # NULL, u # v PROVE FALSE
  <2>1. CASE u # w /\ v # w
    BY <1>1, <1>3, <2>1 DEF PoolInv, OneEach
  <2>2. ASSUME NEW x \in Workers, x # w, wk[x].c = new.c, new.c # NULL PROVE FALSE
    <3>1. Served(new.c)
      BY <1>2, <2>2 DEF Served
    <3>2. wk[x].c = wk[w].c
      BY <3>1, <2>2
    <3> QED
      BY <3>2, <2>2, <1>1 DEF PoolInv, OneEach
  <2> QED
    BY <1>1, <1>3, <2>1, <2>2
<1>4. \A v \in Workers : Works(v)'
  <2> TAKE v \in Workers
  <2>1. CASE v = w
    BY <2>1, <1>1 DEF Works, Idle
  <2>2. CASE v # w
    BY <2>2, <1>1 DEF PoolInv, Works, Idle
  <2> QED
    BY <2>1, <2>2
<1>5. ASSUME NEW v \in Workers, v # w PROVE Knows(v)'
  <2>1. wk'[v] = wk[v] /\ Knows(v) /\ wk[v] \in WkType
    BY <1>1, <1>5 DEF PoolInv
  <2>2. version = "v1" => wk[v].at \notin {"checked", "offer", "password", "insert"}
    BY <1>1, <1>5 DEF PoolInv, Works
  <2>3. Len(users) \in Nat /\ Len(users') \in Nat /\ DOMAIN users = 1..Len(users) /\ DOMAIN users' = 1..Len(users')
        /\ Len(users) <= Len(users') /\ \A i \in 1..Len(users) : users'[i] = users[i]
    BY DEF Grown
  <2>4. ASSUME NEW n \in 0..Len(users), NEW name, NoneNamed(name, n) PROVE NoneNamed(name, n)' /\ n \in 0..Len(users')
    BY <2>3, <2>4 DEF NoneNamed
  <2>5. ASSUME NEW row, NEW name, Named(row, name) PROVE Named(row, name)'
    BY <2>3, <2>5 DEF Named
  <2> PICK x : x = wk[v]
    OBVIOUS
  <2>6. x.at \in {"checked", "found"} =>
          x.known \in 0..Len(users') /\ (x.row = NULL => NoneNamed(x.name, x.known)')
    <3>1. x.at \in {"checked", "found"} =>
            x.known \in 0..Len(users) /\ (x.row = NULL => NoneNamed(x.name, x.known))
      BY <2>1 DEF Knows
    <3>2. x.known \in 0..Len(users) => x.known \in 0..Len(users')
      BY <2>3
    <3> QED
      BY <3>1, <3>2, <2>4, Zenon
  <2>7. x.at \in {"offer", "password", "insert"} =>
          x.known = -1 \/ (x.known \in 0..Len(users') /\ NoneNamed(x.name, x.known)')
    BY <2>1, <2>4 DEF Knows
  <2>8. x.at \in {"password", "insert"} => x.salt \in Salts
    BY <2>1 DEF Knows
  <2>9. (x.at = "found" => x.row = NULL \/ Named(x.row, x.name)') /\ (x.at = "verify" => x.row = 0 \/ Named(x.row, x.name)')
    BY <2>1, <2>5 DEF Knows
  <2> QED
    BY <2>1, <2>2, <2>6, <2>7, <2>8, <2>9 DEF Knows, NoneNamed, Named
<1>6. \A v \in Workers : Knows(v)'
  BY <1>5
<1> QED
  BY <1>3, <1>4, <1>6 DEF PoolInv, OneEach

LEMMA SameTable ==
    ASSUME TableTypes, users' = users PROVE Grown
BY DEF TableTypes, Grown

\* What is sent goes to one client.
LEMMA SendIs ==
    ASSUME reply \in [Clients -> Seq(Msgs)], NEW w, wk[w].c \in Clients, NEW msg \in Msgs, Send(w, msg)
    PROVE  /\ reply' \in [Clients -> Seq(Msgs)]
           /\ reply'[wk[w].c] = Append(reply[wk[w].c], msg)
           /\ \A c \in Clients : c # wk[w].c => reply'[c] = reply[c]
BY DEF Send

\* The records a thread goes through.
LEMMA Taken ==
    ASSUME NEW kind \in WkAts, NEW name \in Strings, NEW c \in Clients
    PROVE  [Idle EXCEPT !.at = kind, !.c = c, !.name = name] \in WkType
BY IdleIs DEF WkType

LEMMA Queried ==
    ASSUME NEW x \in WkType, NEW at \in WkAts, NEW row \in Int \cup {NULL}, NEW known \in Int
    PROVE  [x EXCEPT !.at = at, !.row = row, !.known = known] \in WkType
BY DEF WkType

LEMMA Unqueried ==
    ASSUME NEW x \in WkType, NEW at \in WkAts, NEW known \in Int
    PROVE  [x EXCEPT !.at = at, !.known = known] \in WkType
BY DEF WkType

LEMMA Rowed ==
    ASSUME NEW x \in WkType, NEW at \in WkAts, NEW row \in Int \cup {NULL}
    PROVE  [x EXCEPT !.at = at, !.row = row] \in WkType
BY DEF WkType

LEMMA Gone ==
    ASSUME NEW x \in WkType, NEW at \in WkAts
    PROVE  [x EXCEPT !.at = at] \in WkType
BY DEF WkType

LEMMA Offered ==
    ASSUME NEW x \in WkType, NEW at \in WkAts, NEW salt \in Salts
    PROVE  [x EXCEPT !.at = at, !.salt = salt] \in WkType
BY DEF WkType

LEMMA Passed ==
    ASSUME NEW x \in WkType, NEW at \in WkAts, NEW pass \in Crypted \cup {<<>>}
    PROVE  [x EXCEPT !.at = at, !.pass = pass] \in WkType
BY DEF WkType

LEMMA TakeAcc == ASSUME AccInv, NEW w \in Threads, NEW c \in Clients, Take(w, c) PROVE AccInv'
<1> USE DEF AccInv, Types
<1>1. w \in Workers /\ request[c] # NULL /\ ~Served(c)
  BY ThreadsIn DEF Take
<1>2. request[c] \in Kinds \X STRING
  BY <1>1 DEF NetTypes
<1> DEFINE new == [Idle EXCEPT !.at = request[c][1], !.c = c, !.name = request[c][2]]
<1>3. request[c][1] \in {"register", "login"} /\ request[c][2] \in Strings
  BY <1>2 DEF Kinds, Strings
<1>4. new \in WkType /\ new.at \in {"register", "login"} /\ new.c = c
  <2>1. request[c][1] \in WkAts
    BY <1>3 DEF WkAts, RegStates, LogStates
  <2>2. new \in WkType
    BY <1>3, <2>1, Taken
  <2>3. new.at = request[c][1] /\ new.c = c
    BY DEF Idle
  <2> QED
    BY <1>3, <2>2, <2>3
<1>5. wk' = [wk EXCEPT ![w] = new] /\ request' = [request EXCEPT ![c] = NULL]
  BY DEF Take, Step
<1> HIDE DEF new
<1>6. UNCHANGED <<version, users, res, others, userExist, cl, passwd, reply, sess>>
  BY DEF Take
<1>7. Types'
  <2>1. wk' \in [Workers -> WkType]
    BY <1>4, <1>5 DEF ServerTypes
  <2>2. request' \in [Clients -> (Kinds \X STRING) \cup {NULL}]
    BY <1>5 DEF NetTypes
  <2> QED
    BY <1>6, <2>1, <2>2 DEF TableTypes, ClientTypes, NetTypes, ServerTypes
<1>8. Knows(w)'
  <2>1. wk'[w] = new
    BY <1>1, <1>5 DEF ServerTypes
  <2> QED
    BY <1>4, <2>1 DEF Knows
<1>9. PoolInv'
  <2>1. Grown /\ version' = version
    BY <1>6, SameTable
  <2> QED
    BY <1>1, <1>4, <1>5, <1>8, <2>1, OthersStay
<1>10. RowsInv'
  BY <1>6 DEF RowsInv, NamesUnique
<1> QED
  BY <1>7, <1>9, <1>10

\* A thread that goes on with the client it has, or becomes idle, and leaves the table.
LEMMA GoesOn ==
    ASSUME AccInv, NEW w \in Threads, NEW new \in WkType, wk' = [wk EXCEPT ![w] = new],
           UNCHANGED <<version, users, others, request>>,
           res' \in Workers \cup {Other, NULL}, userExist' \in {0, 1}, userExist' = 0 => version = "v2",
           ClientTypes', passwd' \in [Clients -> Crypted \cup {NULL}], reply' \in [Clients -> Seq(Msgs)],
           sess' = sess \/ (wk[w].row \in 0..Len(users) /\ sess' = [sess EXCEPT ![wk[w].c] = wk[w].row]),
           wk[w].at # "idle",
           new = Idle \/ (new.at # "idle" /\ new.c = wk[w].c),
           Knows(w)'
    PROVE  AccInv'
<1> USE DEF AccInv, Types
<1>1. w \in Workers /\ wk[w].c \in Clients
  BY ThreadsIn DEF PoolInv, Works
<1>2. Types'
  <2>1. wk' \in [Workers -> WkType]
    BY DEF ServerTypes
  <2>2. sess' \in [Clients -> Int] /\ \A c \in Clients : sess'[c] \in -1..Len(users)
    <3>1. Len(users) \in Nat
      BY DEF TableTypes
    <3>2. CASE sess' = sess
      BY <3>2 DEF ServerTypes
    <3>3. CASE wk[w].row \in 0..Len(users) /\ sess' = [sess EXCEPT ![wk[w].c] = wk[w].row]
      <4>1. \A c \in Clients : sess'[c] = sess[c] \/ sess'[c] = wk[w].row
        BY <3>3 DEF ServerTypes
      <4>2. wk[w].row \in -1..Len(users) /\ wk[w].row \in Int
        BY <3>1, <3>3
      <4> QED
        BY <3>3, <4>1, <4>2 DEF ServerTypes
    <3> QED
      BY <3>2, <3>3
  <2> QED
    BY <2>1, <2>2 DEF TableTypes, NetTypes, ServerTypes
<1>3. PoolInv'
  <2>1. Grown
    BY SameTable
  <2>2. /\ new.at = "idle" => new = Idle
        /\ new.at # "idle" => new.c \in Clients
        /\ new.c = NULL \/ new.c = wk[w].c \/ ~Served(new.c)
    BY <1>1, IdleIs
  <2> QED
    BY <1>1, <2>1, <2>2, OthersStay
<1>4. RowsInv'
  BY DEF RowsInv, NamesUnique
<1> QED
  BY <1>2, <1>3, <1>4

LEMMA IdleKnows == ASSUME AccInv, NEW w \in Threads, wk' = [wk EXCEPT ![w] = Idle] PROVE Knows(w)'
<1>1. wk'[w] = Idle
  BY ThreadsIn DEF AccInv, Types, ServerTypes
<1> QED
  BY <1>1, IdleIs DEF Knows

\* A query leaves the first or last row of the name, or none.
LEMMA QueryIs ==
    ASSUME AccInv, NEW w \in Threads, NEW at \in {"checked", "found"}, wk[w].at # "idle", Query(w, at),
           users' = users, version' = version
    PROVE  \E new \in WkType : /\ wk' = [wk EXCEPT ![w] = new] /\ wk'[w] = new
                               /\ new.at = at /\ new.c = wk[w].c /\ new.name = wk[w].name
                               /\ new.row = Row(wk[w].name) /\ new.known = Len(users)
                               /\ Knows(w)'
<1> USE DEF AccInv, Types
<1>1. w \in Workers /\ wk \in [Workers -> WkType] /\ users \in Seq(RowType) /\ Len(users) \in Nat
  BY ThreadsIn DEF ServerTypes, TableTypes
<1> DEFINE row == Row(wk[w].name)
           new == [wk[w] EXCEPT !.at = at, !.row = row, !.known = Len(users)]
<1>2. row \in Int \cup {NULL} /\ (row = NULL => NoneNamed(wk[w].name, Len(users))) /\ (row # NULL => Named(row, wk[w].name))
  BY <1>1, RowIs, Zenon
<1> HIDE DEF row
<1>3. wk[w] \in WkType
  BY <1>1
<1>4. new \in WkType /\ new.at = at /\ new.c = wk[w].c /\ new.name = wk[w].name /\ new.row = row /\ new.known = Len(users)
  <2>1. at \in WkAts /\ Len(users) \in Int
    BY <1>1 DEF WkAts, RegStates, LogStates
  <2>2. new \in WkType
    BY <1>2, <1>3, <2>1, Queried
  <2>3. new.at = at /\ new.c = wk[w].c /\ new.name = wk[w].name /\ new.row = row /\ new.known = Len(users)
    BY <1>3 DEF WkType
  <2> QED
    BY <2>2, <2>3
<1>5. wk' = [wk EXCEPT ![w] = new]
  BY DEF Query, Step, row
<1> HIDE DEF new
<1>6. wk'[w] = new
  BY <1>1, <1>5
<1>7. Knows(w)'
  <2> PICK x : x = new
    OBVIOUS
  <2>1. wk'[w] = x /\ x.at = at /\ x.known = Len(users) /\ x.row = row
    BY <1>4, <1>6
  <2>2. x.known \in 0..Len(users')
    BY <1>1, <2>1
  <2>3. (x.row = NULL => NoneNamed(x.name, Len(users))') /\ (x.row # NULL => Named(x.row, x.name)')
    BY <1>2, <1>4, <2>1 DEF NoneNamed, Named
  <2> QED
    BY <2>1, <2>2, <2>3 DEF Knows, NoneNamed
<1> QED
  BY <1>4, <1>5, <1>6, <1>7 DEF row

\* What a thread at work has.
LEMMA AtWork ==
    ASSUME AccInv, NEW w \in Threads, wk[w].at # "idle"
    PROVE  /\ w \in Workers /\ wk \in [Workers -> WkType] /\ wk[w] \in WkType
           /\ wk[w].c \in Clients /\ Knows(w)
           /\ reply \in [Clients -> Seq(Msgs)] /\ passwd \in [Clients -> Crypted \cup {NULL}]
           /\ sess \in [Clients -> Int] /\ cl \in [Clients -> ClType]
           /\ res \in Workers \cup {Other, NULL} /\ userExist \in {0, 1} /\ (userExist = 0 => version = "v2")
           /\ users \in Seq(RowType) /\ Len(users) \in Nat /\ DOMAIN users = 1..Len(users)
<1>1. w \in Workers
  BY ThreadsIn
<1>2. wk \in [Workers -> WkType] /\ wk[w] \in WkType
  BY <1>1 DEF AccInv, Types, ServerTypes
<1>3. wk[w].c \in Clients /\ Knows(w)
  BY <1>1 DEF AccInv, PoolInv, Works
<1>4. users \in Seq(RowType) /\ Len(users) \in Nat /\ DOMAIN users = 1..Len(users)
  BY DEF AccInv, Types, TableTypes
<1> QED
  BY <1>1, <1>2, <1>3, <1>4 DEF AccInv, Types, TableTypes, ClientTypes, NetTypes, ServerTypes

LEMMA SameClients ==
    ASSUME AccInv, UNCHANGED <<cl, users>> PROVE ClientTypes'
BY DEF AccInv, Types, ClientTypes

LEMMA CheckQueryAcc == ASSUME AccInv, NEW w \in Threads, CheckQuery(w) PROVE AccInv'
<1>1. wk[w].at = "register" /\ wk[w].at # "idle"
  BY DEF CheckQuery
<1>2. UNCHANGED <<version, others, request, users, userExist, cl, passwd, reply, sess>>
  BY DEF CheckQuery, FromClient
<1>3. /\ users' = users /\ version' = version /\ others' = others /\ request' = request /\ userExist' = userExist
      /\ cl' = cl /\ passwd' = passwd /\ reply' = reply /\ sess' = sess
  BY <1>2
<1>4. ClientTypes'
  BY <1>3, SameClients
<1>5. CASE Query(w, "checked")
  <2>1. PICK new \in WkType : /\ wk' = [wk EXCEPT ![w] = new] /\ new.at = "checked" /\ new.c = wk[w].c
                              /\ Knows(w)'
    BY <1>1, <1>3, <1>5, QueryIs
  <2>2. res' \in Workers
    BY <1>1, <1>5, AtWork DEF Query
  <2> QED
    BY <1>1, <1>3, <1>4, <2>1, <2>2, AtWork, GoesOn
<1>6. CASE res' = res /\ Step(w, [wk[w] EXCEPT !.at = "offer", !.known = -1])
  <2> DEFINE new == [wk[w] EXCEPT !.at = "offer", !.known = -1]
  <2>1. new \in WkType
    <3>1. "offer" \in WkAts /\ -1 \in Int
      BY DEF WkAts, RegStates
    <3> QED
      BY <1>1, <3>1, AtWork, Unqueried
  <2>2. new.at = "offer" /\ new.c = wk[w].c /\ new.known = -1
    BY <1>1, AtWork DEF WkType
  <2>3. wk' = [wk EXCEPT ![w] = new]
    BY <1>6 DEF Step
  <2> HIDE DEF new
  <2>4. wk'[w] = new
    BY <1>1, <2>1, <2>3, AtWork
  <2>5. Knows(w)'
    BY <2>2, <2>4 DEF Knows
  <2> QED
    BY <1>1, <1>3, <1>4, <1>6, <2>1, <2>2, <2>3, <2>5, AtWork, GoesOn
<1> QED
  BY <1>5, <1>6 DEF CheckQuery

\* A thread that only goes on to another point.
LEMMA GotoIs ==
    ASSUME AccInv, NEW w \in Threads, wk[w].at # "idle", NEW at \in WkAts, Goto(w, at)
    PROVE  \E new \in WkType : /\ wk' = [wk EXCEPT ![w] = new] /\ wk'[w] = new /\ new.at = at
                               /\ new.c = wk[w].c /\ new.name = wk[w].name /\ new.row = wk[w].row
                               /\ new.known = wk[w].known /\ new.salt = wk[w].salt /\ new.pass = wk[w].pass
<1> DEFINE new == [wk[w] EXCEPT !.at = at]
<1>1. new \in WkType
  BY AtWork, Gone
<1>2. /\ new.at = at /\ new.c = wk[w].c /\ new.name = wk[w].name /\ new.row = wk[w].row
      /\ new.known = wk[w].known /\ new.salt = wk[w].salt /\ new.pass = wk[w].pass
  BY AtWork DEF WkType
<1>3. wk' = [wk EXCEPT ![w] = new]
  BY DEF Goto, Step
<1> HIDE DEF new
<1>4. wk'[w] = new
  BY <1>3, AtWork
<1> QED
  BY <1>1, <1>2, <1>3, <1>4

LEMMA CheckResultAcc == ASSUME AccInv, NEW w \in Threads, CheckResult(w) PROVE AccInv'
<1>1. wk[w].at = "checked" /\ wk[w].at # "idle" /\ res' = NULL
  BY DEF CheckResult
<1>2. /\ users' = users /\ version' = version /\ others' = others /\ request' = request /\ userExist' = userExist
      /\ cl' = cl /\ passwd' = passwd /\ sess' = sess
  BY DEF CheckResult, FromClient
<1>3. ClientTypes'
  BY <1>2, SameClients
<1>4. CASE wk[w].row # NULL
  <2>1. wk' = [wk EXCEPT ![w] = Idle] /\ Send(w, <<"refused">>)
    BY <1>4 DEF CheckResult, Step
  <2>2. reply' \in [Clients -> Seq(Msgs)]
    <3>1. <<"refused">> \in Msgs
      BY DEF Msgs
    <3> QED
      BY <1>1, <2>1, <3>1, AtWork, SendIs
  <2>3. Knows(w)'
    BY <2>1, IdleKnows
  <2> QED
    BY <1>1, <1>2, <1>3, <2>1, <2>2, <2>3, AtWork, IdleIs, GoesOn
<1>5. CASE wk[w].row = NULL
  <2>1. Goto(w, "offer") /\ reply' = reply
    BY <1>5 DEF CheckResult
  <2>2. "offer" \in WkAts
    BY DEF WkAts, RegStates
  <2>3. PICK new \in WkType : /\ wk' = [wk EXCEPT ![w] = new] /\ wk'[w] = new /\ new.at = "offer"
                               /\ new.c = wk[w].c /\ new.name = wk[w].name /\ new.known = wk[w].known
    BY <1>1, <2>1, <2>2, GotoIs
  <2>4. wk[w].known \in 0..Len(users) /\ NoneNamed(wk[w].name, wk[w].known)
        /\ (version = "v1" => wk[w].known \in {-1, Len(users)})
    BY <1>1, <1>5, AtWork DEF Knows
  <2>5. Knows(w)'
    BY <1>2, <2>3, <2>4 DEF Knows, NoneNamed
  <2> QED
    BY <1>1, <1>2, <1>3, <2>1, <2>3, <2>5, AtWork, GoesOn
<1> QED
  BY <1>4, <1>5

LEMMA OfferAcc == ASSUME AccInv, NEW w \in Threads, Offer(w) PROVE AccInv'
<1>1. wk[w].at = "offer" /\ wk[w].at # "idle"
  BY DEF Offer
<1>2. /\ users' = users /\ version' = version /\ others' = others /\ request' = request /\ userExist' = userExist
      /\ cl' = cl /\ passwd' = passwd /\ sess' = sess /\ res' = res
  BY DEF Offer, FromClient
<1>3. ClientTypes'
  BY <1>2, SameClients
<1>4. PICK s \in Salts : Send(w, <<"salt", s>>) /\ Step(w, [wk[w] EXCEPT !.at = "password", !.salt = s])
  BY DEF Offer
<1> DEFINE new == [wk[w] EXCEPT !.at = "password", !.salt = s]
<1>5. new \in WkType
  <2>1. "password" \in WkAts
    BY DEF WkAts, RegStates
  <2> QED
    BY <1>1, <2>1, AtWork, Offered
<1>6. new.at = "password" /\ new.c = wk[w].c /\ new.known = wk[w].known /\ new.name = wk[w].name /\ new.salt = s
  BY <1>1, AtWork DEF WkType
<1>7. wk' = [wk EXCEPT ![w] = new]
  BY <1>4 DEF Step
<1> HIDE DEF new
<1>8. wk'[w] = new
  BY <1>1, <1>7, AtWork
<1>9. wk[w].known = -1 \/ (wk[w].known \in 0..Len(users) /\ NoneNamed(wk[w].name, wk[w].known))
  BY <1>1, AtWork DEF Knows
<1>10. version = "v1" => wk[w].known \in {-1, Len(users)}
  BY <1>1, AtWork DEF Knows
<1>11. Knows(w)'
  BY <1>2, <1>6, <1>8, <1>9, <1>10 DEF Knows, NoneNamed
<1>12. reply' \in [Clients -> Seq(Msgs)]
  <2>1. <<"salt", s>> \in Msgs
    BY DEF Msgs
  <2> QED
    BY <1>1, <1>4, <2>1, AtWork, SendIs
<1> QED
  BY <1>1, <1>2, <1>3, <1>5, <1>6, <1>7, <1>11, <1>12, AtWork, GoesOn

LEMMA RecvPasswdAcc == ASSUME AccInv, NEW w \in Threads, RecvPasswd(w) PROVE AccInv'
<1>1. wk[w].at = "password" /\ wk[w].at # "idle"
  BY DEF RecvPasswd
<1>2. /\ users' = users /\ version' = version /\ others' = others /\ request' = request /\ userExist' = userExist
      /\ cl' = cl /\ reply' = reply /\ sess' = sess /\ res' = res
  BY DEF RecvPasswd, FromClient
<1>3. ClientTypes'
  BY <1>2, SameClients
<1> DEFINE c == wk[w].c
           pass == IF passwd[c] = NULL THEN <<>> ELSE passwd[c]
           new == [wk[w] EXCEPT !.at = "insert", !.pass = pass]
<1>4. wk' = [wk EXCEPT ![w] = new] /\ passwd' = [passwd EXCEPT ![c] = NULL]
  BY DEF RecvPasswd, Receive, Step
<1>5. passwd' \in [Clients -> Crypted \cup {NULL}] /\ pass \in Crypted \cup {<<>>}
  BY <1>1, <1>4, AtWork
<1> HIDE DEF pass
<1>6. new \in WkType
  <2>1. "insert" \in WkAts
    BY DEF WkAts, RegStates
  <2> QED
    BY <1>1, <1>5, <2>1, AtWork, Passed
<1>7. new.at = "insert" /\ new.c = wk[w].c /\ new.known = wk[w].known /\ new.name = wk[w].name /\ new.salt = wk[w].salt
  BY <1>1, AtWork DEF WkType
<1> HIDE DEF new
<1>8. wk'[w] = new
  BY <1>1, <1>4, AtWork
<1>9. wk[w].known = -1 \/ (wk[w].known \in 0..Len(users) /\ NoneNamed(wk[w].name, wk[w].known))
  BY <1>1, AtWork DEF Knows
<1>10. (version = "v1" => wk[w].known \in {-1, Len(users)}) /\ wk[w].salt \in Salts
  BY <1>1, AtWork DEF Knows
<1>11. Knows(w)'
  BY <1>2, <1>7, <1>8, <1>9, <1>10 DEF Knows, NoneNamed
<1> QED
  BY <1>1, <1>2, <1>3, <1>4, <1>5, <1>6, <1>7, <1>11, AtWork, GoesOn

LEMMA SqlDoRegisterAcc == ASSUME AccInv, NEW w \in Threads, SqlDoRegister(w) PROVE AccInv'
<1>1. wk[w].at = "insert" /\ wk[w].at # "idle"
  BY DEF SqlDoRegister
<1>2. /\ version' = version /\ others' = others /\ request' = request /\ userExist' = userExist
      /\ cl' = cl /\ passwd' = passwd /\ sess' = sess /\ res' = res
  BY DEF SqlDoRegister, FromClient
<1>3. wk' = [wk EXCEPT ![w] = Idle] /\ Send(w, <<"done">>)
  BY DEF SqlDoRegister, Step
<1>4. reply' \in [Clients -> Seq(Msgs)]
  <2>1. <<"done">> \in Msgs
    BY DEF Msgs
  <2> QED
    BY <1>1, <1>3, <2>1, AtWork, SendIs
<1>5. Knows(w)'
  BY <1>3, IdleKnows
<1>6. CASE res # NULL
  <2>1. users' = users
    BY <1>6 DEF SqlDoRegister
  <2>2. ClientTypes'
    BY <1>2, <2>1, SameClients
  <2> QED
    BY <1>1, <1>2, <1>3, <1>4, <1>5, <2>1, <2>2, AtWork, IdleIs, GoesOn
<1>7. CASE res = NULL
  <2> PICK r : r = [name |-> wk[w].name, salt |-> wk[w].salt, pass |-> wk[w].pass, known |-> wk[w].known]
    OBVIOUS
  <2>1. users' = Append(users, r)
    BY <1>7 DEF SqlDoRegister
  <2>2. wk[w].salt \in Salts
    BY <1>1, AtWork DEF Knows
  <2>3. r \in RowType
    BY <1>1, <2>2, AtWork, Fields DEF RowType, AccInv, Types
  <2>4. users' \in Seq(RowType) /\ Len(users') = Len(users) + 1 /\ users'[Len(users) + 1] = r
        /\ \A i \in 1..Len(users) : users'[i] = users[i]
    BY <1>1, <2>1, <2>3, AtWork
  <2>5. Grown
    BY <1>1, <2>4, AtWork DEF Grown
  <2>6. PoolInv'
    BY <1>2, <1>3, <1>5, <2>5, IdleIs, OthersStay
  <2>7. ClientTypes'
    BY <1>1, <1>2, <2>4, AtWork DEF AccInv, Types, ClientTypes, ClType
  <2>8. Types'
    <3>1. wk' \in [Workers -> WkType]
      BY <1>1, <1>3, IdleIs, AtWork
    <3>2. \A c \in Clients : sess[c] \in -1..Len(users)
      BY DEF AccInv, Types, ServerTypes
    <3>3. \A c \in Clients : sess'[c] \in -1..Len(users')
      BY <1>1, <1>2, <2>4, <3>2, AtWork
    <3> QED
      BY <1>2, <1>4, <2>4, <2>7, <3>1, <3>3 DEF AccInv, Types, TableTypes, NetTypes, ServerTypes
  <2>9. RowsInv'
    <3> PICK n \in Nat : n = Len(users) /\ DOMAIN users = 1..n /\ DOMAIN users' = 1..(n + 1)
      BY <1>1, <2>4, AtWork
    <3>1. r.known = wk[w].known /\ r.name = wk[w].name
      OBVIOUS
    <3>2. r.known = -1 \/ (r.known \in 0..n /\ \A i \in 1..r.known : users[i].name # r.name)
      BY <1>1, <3>1, AtWork DEF Knows, NoneNamed
    <3>3. version = "v1" => r.known \in {-1, n}
      BY <1>1, <3>1, AtWork DEF Knows
    <3>4. \A i \in 1..n : users'[i] = users[i]
      BY <2>4
    <3>5. users'[n + 1] = r
      BY <2>4
    <3>6. \A j \in 1..(n + 1) : users'[j].known \in -1..(j - 1)
      <4> TAKE j \in 1..(n + 1)
      <4>1. CASE j \in 1..n
        BY <4>1, <3>4 DEF AccInv, RowsInv
      <4>2. CASE j = n + 1
        BY <4>2, <3>2, <3>5
      <4> QED
        BY <4>1, <4>2
    <3>7. ASSUME NEW i \in 1..(n + 1), NEW j \in 1..(n + 1), i < j, users'[i].name = users'[j].name
          PROVE  users'[j].known < i /\ (version = "v1" => users'[j].known = -1)
      <4>1. i \in 1..n /\ users'[i] = users[i]
        BY <3>4, <3>7
      <4>2. CASE j \in 1..n
        BY <4>1, <4>2, <3>4, <3>7 DEF AccInv, RowsInv, NamesUnique
      <4>3. CASE j = n + 1
        <5>1. users[i].name = r.name /\ users'[j] = r
          BY <3>5, <3>7, <4>1, <4>3
        <5>2. r.known < i
          BY <3>2, <4>1, <5>1
        <5>3. version = "v1" => r.known = -1
          BY <3>3, <4>1, <5>2
        <5> QED
          BY <5>1, <5>2, <5>3
      <4> QED
        BY <4>2, <4>3
    <3> QED
      BY <3>6, <3>7, <1>2 DEF RowsInv, NamesUnique
  <2> QED
    BY <2>6, <2>8, <2>9 DEF AccInv
<1> QED
  BY <1>6, <1>7

LEMMA LoginQueryAcc == ASSUME AccInv, NEW w \in Threads, LoginQuery(w) PROVE AccInv'
<1>1. wk[w].at = "login" /\ wk[w].at # "idle"
  BY DEF LoginQuery
<1>2. /\ users' = users /\ version' = version /\ others' = others /\ request' = request /\ userExist' = userExist
      /\ passwd' = passwd /\ sess' = sess
  BY DEF LoginQuery, FromClient
<1>3. CASE Query(w, "found") /\ UNCHANGED <<cl, reply>>
  <2>1. PICK new \in WkType : /\ wk' = [wk EXCEPT ![w] = new] /\ new.at = "found" /\ new.c = wk[w].c
                              /\ Knows(w)'
    BY <1>1, <1>2, <1>3, QueryIs
  <2>2. res' \in Workers
    BY <1>1, <1>3, AtWork DEF Query
  <2>3. ClientTypes'
    BY <1>2, <1>3, SameClients
  <2> QED
    BY <1>1, <1>2, <1>3, <2>1, <2>2, <2>3, AtWork, GoesOn
<1>4. CASE ~(Query(w, "found") /\ UNCHANGED <<cl, reply>>)
  <2>1. /\ res' = res /\ cl' = [cl EXCEPT ![wk[w].c].blind = TRUE]
        /\ IF version = "v2"
           THEN Step(w, Idle) /\ Send(w, <<"refused">>)
           ELSE /\ Step(w, [wk[w] EXCEPT !.at = "verify", !.row = 0])
                /\ Send(w, <<"salt", NULL>>)
    BY <1>4 DEF LoginQuery
  <2>2. ClientTypes'
    <3>1. cl' \in [Clients -> ClType]
      BY <1>1, <2>1, AtWork DEF ClType
    <3>2. \A c \in Clients : cl'[c].rows = cl[c].rows
      BY <1>1, <2>1, AtWork DEF ClType
    <3> QED
      BY <1>2, <3>1, <3>2 DEF AccInv, Types, ClientTypes
  <2>3. reply' \in [Clients -> Seq(Msgs)]
    <3>1. <<"refused">> \in Msgs /\ <<"salt", NULL>> \in Msgs
      BY DEF Msgs
    <3> QED
      BY <1>1, <2>1, <3>1, AtWork, SendIs
  <2>4. CASE version = "v2"
    <3>1. wk' = [wk EXCEPT ![w] = Idle]
      BY <2>1, <2>4 DEF Step
    <3>2. Knows(w)'
      BY <3>1, IdleKnows
    <3> QED
      BY <1>1, <1>2, <2>1, <2>2, <2>3, <3>1, <3>2, AtWork, IdleIs, GoesOn
  <2>5. CASE version # "v2"
    <3> DEFINE new == [wk[w] EXCEPT !.at = "verify", !.row = 0]
    <3>1. wk' = [wk EXCEPT ![w] = new]
      BY <2>1, <2>5 DEF Step
    <3>2. new \in WkType
      <4>1. "verify" \in WkAts /\ 0 \in Int \cup {NULL}
        BY DEF WkAts, LogStates
      <4> QED
        BY <1>1, <4>1, AtWork, Rowed
    <3>3. new.at = "verify" /\ new.row = 0 /\ new.c = wk[w].c
      BY <1>1, AtWork DEF WkType
    <3> HIDE DEF new
    <3>4. wk'[w] = new
      BY <1>1, <3>1, AtWork
    <3>5. Knows(w)'
      BY <3>3, <3>4 DEF Knows
    <3> QED
      BY <1>1, <1>2, <2>1, <2>2, <2>3, <3>1, <3>2, <3>3, <3>5, AtWork, GoesOn
  <2> QED
    BY <2>4, <2>5
<1> QED
  BY <1>3, <1>4

LEMMA LoginResultAcc == ASSUME AccInv, NEW w \in Threads, LoginResult(w) PROVE AccInv'
<1>1. wk[w].at = "found" /\ wk[w].at # "idle" /\ res' = NULL
  BY DEF LoginResult
<1>2. /\ users' = users /\ version' = version /\ others' = others /\ request' = request
      /\ cl' = cl /\ passwd' = passwd /\ sess' = sess
  BY DEF LoginResult, FromClient
<1>3. ClientTypes'
  BY <1>2, SameClients
<1>4. CASE wk[w].row = NULL
  <2>1. /\ wk' = [wk EXCEPT ![w] = Idle] /\ Send(w, <<"refused">>)
        /\ userExist' = IF version = "v2" THEN 0 ELSE userExist
    BY <1>4 DEF LoginResult, Step
  <2>2. reply' \in [Clients -> Seq(Msgs)]
    <3>1. <<"refused">> \in Msgs
      BY DEF Msgs
    <3> QED
      BY <1>1, <2>1, <3>1, AtWork, SendIs
  <2>3. Knows(w)'
    BY <2>1, IdleKnows
  <2>4. userExist' \in {0, 1} /\ (userExist' = 0 => version = "v2")
    BY <1>1, <2>1, AtWork
  <2> QED
    BY <1>1, <1>2, <1>3, <2>1, <2>2, <2>3, <2>4, AtWork, IdleIs, GoesOn
<1>5. CASE wk[w].row # NULL
  <2>1. Goto(w, "verify") /\ Send(w, <<"salt", users[wk[w].row].salt>>) /\ userExist' = userExist
    BY <1>5 DEF LoginResult
  <2>2. "verify" \in WkAts
    BY DEF WkAts, LogStates
  <2>3. PICK new \in WkType : /\ wk' = [wk EXCEPT ![w] = new] /\ wk'[w] = new /\ new.at = "verify"
                               /\ new.c = wk[w].c /\ new.name = wk[w].name /\ new.row = wk[w].row
    BY <1>1, <2>1, <2>2, GotoIs
  <2>4. Named(wk[w].row, wk[w].name)
    BY <1>1, <1>5, AtWork DEF Knows
  <2>5. Knows(w)'
    BY <1>2, <2>3, <2>4 DEF Knows, Named
  <2>6. reply' \in [Clients -> Seq(Msgs)]
    <3>1. users[wk[w].row] \in RowType
      BY <1>1, <2>4, AtWork DEF Named
    <3>2. <<"salt", users[wk[w].row].salt>> \in Msgs
      BY <3>1 DEF Msgs, RowType
    <3> QED
      BY <1>1, <2>1, <3>2, AtWork, SendIs
  <2> QED
    BY <1>1, <1>2, <1>3, <2>1, <2>3, <2>5, <2>6, AtWork, GoesOn
<1> QED
  BY <1>4, <1>5

LEMMA VerifyAcc == ASSUME AccInv, NEW w \in Threads, Verify(w) PROVE AccInv'
<1>1. wk[w].at = "verify" /\ wk[w].at # "idle"
  BY DEF Verify
<1>2. /\ users' = users /\ version' = version /\ others' = others /\ request' = request /\ userExist' = userExist
      /\ cl' = cl /\ res' = res
  BY DEF Verify, FromClient
<1>3. ClientTypes'
  BY <1>2, SameClients
<1>4. wk' = [wk EXCEPT ![w] = Idle] /\ passwd' = [passwd EXCEPT ![wk[w].c] = NULL]
  BY DEF Verify, Step
<1>5. Knows(w)'
  BY <1>4, IdleKnows
<1>6. passwd' \in [Clients -> Crypted \cup {NULL}]
  BY <1>1, <1>4, AtWork
<1>7. reply' \in [Clients -> Seq(Msgs)]
  <2>1. PICK msg \in {<<"done">>, <<"refused">>} : Send(w, msg)
    BY DEF Verify
  <2>2. msg \in Msgs
    BY DEF Msgs
  <2> QED
    BY <1>1, <2>1, <2>2, AtWork, SendIs
<1>8. sess' = sess \/ (wk[w].row \in 0..Len(users) /\ sess' = [sess EXCEPT ![wk[w].c] = wk[w].row])
  <2>1. sess' = sess \/ sess' = [sess EXCEPT ![wk[w].c] = wk[w].row]
    BY DEF Verify
  <2>2. wk[w].row \in 0..Len(users)
    BY <1>1, AtWork DEF Knows, Named
  <2> QED
    BY <2>1, <2>2
<1> QED
  BY <1>1, <1>2, <1>3, <1>4, <1>5, <1>6, <1>7, <1>8, AtWork, IdleIs, GoesOn

-----------------------------------------------------------------------------
(* The dialogue of one client *)

Busy(c)   == \E w \in Workers : wk[w].c = c
Kind(c)   == Head(cl[c].todo)[1]
\* The salt that a thread which waits for a password has sent.
SaltOf(w) == IF wk[w].at = "password" THEN wk[w].salt
             ELSE IF wk[w].row = 0 THEN NULL ELSE users[wk[w].row].salt
Net(c, req, pass, rep) == request[c] = req /\ passwd[c] = pass /\ reply[c] = rep

\* Why a login may be turned away, and why one may be let in.
Reason(c) ==
    \A i \in 1..cl[c].rows :
        (users[i].name = cl[c].name /\ users[i].pass = Crypt(cl[c].pw, users[i].salt))
            => \/ \E j \in DOMAIN users : j # i /\ users[j].name = cl[c].name
               \/ version = "v2" /\ (cl[c].blind \/ userExist = 0)
Proven(c) == /\ sess[c] \in DOMAIN users
             /\ users[sess[c]].name = cl[c].name
             /\ users[sess[c]].pass = Crypt(cl[c].pw, users[sess[c]].salt)

Quiet(c)    == Net(c, NULL, NULL, <<>>) /\ ~Busy(c)
Asked(c)    == Net(c, <<Kind(c), cl[c].name>>, NULL, <<>>) /\ ~Busy(c) /\ sess[c] = NotIn
Begun(c, w) == /\ Net(c, NULL, NULL, <<>>) /\ sess[c] = NotIn
               /\ wk[w].at \in IF Kind(c) = "register" THEN {"register", "checked", "offer"} ELSE {"login", "found"}
               /\ wk[w].at = "found" => cl[c].rows <= wk[w].known
Waits(c, w) == /\ sess[c] = NotIn
               /\ wk[w].at = IF Kind(c) = "register" THEN "password" ELSE "verify"
Salted(c, w) == Waits(c, w) /\ Net(c, NULL, NULL, <<<<"salt", SaltOf(w)>>>>)
Sent(c, w)   == Waits(c, w) /\ Net(c, NULL, Crypt(cl[c].pw, SaltOf(w)), <<>>) /\ SaltOf(w) # NULL
Got(c, w)   == /\ Net(c, NULL, NULL, <<>>) /\ sess[c] = NotIn
               /\ wk[w].at = "insert" /\ Kind(c) = "register"
Serves(c, w) == wk[w].c = c /\ wk[w].name = cl[c].name
Answered(c) == /\ ~Busy(c)
               /\ \E m \in {<<"done">>, <<"refused">>} :
                     Net(c, NULL, NULL, <<m>>) /\ (m = <<"refused">> /\ Kind(c) = "login" => Reason(c))
               /\ Kind(c) = "register" => sess[c] = NotIn

DialogInv(c) ==
    /\ cl[c].refused => ~Alive(c) /\ Reason(c)
    /\ cl[c].at \in {"menu", "in"} => Quiet(c)
    /\ cl[c].at = "menu" => sess[c] = NotIn
    /\ cl[c].at \in {"asked", "sent"} => cl[c].todo # <<>> /\ cl[c].pw \in STRING
    /\ cl[c].at = "asked" =>
          Asked(c) \/ Answered(c) \/ \E w \in Workers : Serves(c, w) /\ (Begun(c, w) \/ Salted(c, w))
    /\ cl[c].at = "sent" =>
          Answered(c) \/ \E w \in Workers : Serves(c, w) /\ (Sent(c, w) \/ Got(c, w))
    /\ Alive(c) /\ sess[c] # NotIn => Proven(c)

AccountInv == AccInv /\ \A c \in Clients : DialogInv(c)

LEMMA KindIs ==
    ASSUME AccInv, NEW c \in Clients, cl[c].todo # <<>> PROVE Kind(c) \in Kinds
<1>1. cl[c].todo \in Seq(Typed)
  BY DEF AccInv, Types, ClientTypes, ClType
<1>2. Head(cl[c].todo) \in Typed
  BY <1>1
<1> QED
  BY <1>2 DEF Kind, Typed

\* What made a refusal right, or a session, stays so while the table grows.
LEMMA ReasonKept ==
    ASSUME AccInv, NEW c \in Clients, Reason(c), Grown, version' = version, userExist' \in {0, userExist},
           cl'[c].name = cl[c].name, cl'[c].pw = cl[c].pw, cl'[c].rows = cl[c].rows,
           cl[c].blind => cl'[c].blind
    PROVE  Reason(c)'
<1>1. Len(users) \in Nat /\ Len(users') \in Nat /\ DOMAIN users = 1..Len(users) /\ DOMAIN users' = 1..Len(users')
      /\ Len(users) <= Len(users') /\ \A i \in 1..Len(users) : users'[i] = users[i]
  BY DEF Grown, AccInv, Types, TableTypes
<1>2. cl[c].rows \in Nat /\ cl[c].rows <= Len(users)
  BY DEF AccInv, Types, ClientTypes, ClType
<1>3. SUFFICES ASSUME NEW i \in 1..cl[c].rows, users'[i].name = cl[c].name,
                      users'[i].pass = Crypt(cl[c].pw, users'[i].salt)
               PROVE  \/ \E j \in DOMAIN users' : j # i /\ users'[j].name = cl[c].name
                      \/ version = "v2" /\ (cl'[c].blind \/ userExist' = 0)
  BY DEF Reason, Crypt
<1>4. users'[i] = users[i]
  BY <1>1, <1>2
<1>5. \/ \E j \in DOMAIN users : j # i /\ users[j].name = cl[c].name
      \/ version = "v2" /\ (cl[c].blind \/ userExist = 0)
  BY <1>3, <1>4 DEF Reason
<1>6. ASSUME NEW j \in DOMAIN users PROVE j \in DOMAIN users' /\ users'[j] = users[j]
  BY <1>1
<1> QED
  BY <1>5, <1>6

LEMMA ProvenKept ==
    ASSUME AccInv, NEW c \in Clients, Proven(c), Grown, sess'[c] = sess[c],
           cl'[c].name = cl[c].name, cl'[c].pw = cl[c].pw
    PROVE  Proven(c)'
<1>1. Len(users) \in Nat /\ Len(users') \in Nat /\ DOMAIN users = 1..Len(users) /\ DOMAIN users' = 1..Len(users')
      /\ Len(users) <= Len(users') /\ \A i \in 1..Len(users) : users'[i] = users[i]
  BY DEF Grown, AccInv, Types, TableTypes
<1>2. sess[c] \in DOMAIN users' /\ users'[sess[c]] = users[sess[c]]
  BY <1>1 DEF Proven
<1> QED
  BY <1>2 DEF Proven, Crypt

LEMMA SaltKept ==
    ASSUME AccInv, NEW w \in Workers, wk[w].at \in {"password", "verify"}, wk'[w] = wk[w], Grown
    PROVE  SaltOf(w)' = SaltOf(w)
<1>1. CASE wk[w].at = "password"
  BY <1>1 DEF SaltOf
<1>2. CASE wk[w].at = "verify"
  <2>1. wk[w].row = 0 \/ wk[w].row \in DOMAIN users
    BY <1>2 DEF AccInv, PoolInv, Knows, Named
  <2>2. \A i \in DOMAIN users : users'[i] = users[i]
    BY DEF Grown, AccInv, Types, TableTypes
  <2> QED
    BY <1>2, <2>1, <2>2 DEF SaltOf
<1> QED
  BY <1>1, <1>2

LEMMA SaltIs ==
    ASSUME AccInv, NEW w \in Workers, wk[w].at \in {"password", "verify"} PROVE SaltOf(w) \in Salts \cup {NULL}
<1>1. CASE wk[w].at = "password"
  BY <1>1, Fields DEF SaltOf, AccInv, Types
<1>2. CASE wk[w].at = "verify"
  <2>1. wk[w].row = 0 \/ wk[w].row \in DOMAIN users
    BY <1>2 DEF AccInv, PoolInv, Knows, Named
  <2>2. \A i \in DOMAIN users : users[i] \in RowType
    BY DEF AccInv, Types, TableTypes
  <2>3. \A i \in DOMAIN users : users[i].salt \in Salts
    BY <2>2 DEF RowType
  <2> QED
    BY <1>2, <2>1, <2>3 DEF SaltOf
<1> QED
  BY <1>1, <1>2

\* A client that has no part in a step.
LEMMA DialogKept ==
    ASSUME AccInv, NEW c \in Clients, DialogInv(c), Grown, version' = version, userExist' \in {0, userExist},
           cl'[c] = cl[c], request'[c] = request[c], passwd'[c] = passwd[c], reply'[c] = reply[c],
           sess'[c] = sess[c],
           \A w \in Workers : wk'[w] = wk[w] \/ (wk[w].c # c /\ wk'[w].c # c)
    PROVE  DialogInv(c)'
<1>1. (Reason(c) => Reason(c)') /\ (Proven(c) => Proven(c)')
  BY ReasonKept, ProvenKept
<1>2. Kind(c)' = Kind(c) /\ Busy(c)' = Busy(c) /\ Alive(c)' = Alive(c)
  BY DEF Kind, Busy, Alive
<1>3. Quiet(c) => Quiet(c)'
  BY <1>2 DEF Quiet, Net
<1>4. Asked(c) => Asked(c)'
  BY <1>2 DEF Asked, Net
<1>5. Answered(c) => Answered(c)'
  BY <1>1, <1>2 DEF Answered, Net
<1>6. ASSUME NEW w \in Workers, Serves(c, w)
      PROVE  /\ Serves(c, w)' /\ (Begun(c, w) => Begun(c, w)') /\ (Salted(c, w) => Salted(c, w)')
             /\ (Sent(c, w) => Sent(c, w)') /\ (Got(c, w) => Got(c, w)')
  <2>1. wk'[w] = wk[w]
    BY <1>6 DEF Serves
  <2>2. Serves(c, w)'
    BY <1>6, <2>1 DEF Serves
  <2>3. Begun(c, w) => Begun(c, w)'
    BY <1>2, <2>1 DEF Begun, Net
  <2>4. Got(c, w) => Got(c, w)'
    BY <1>2, <2>1 DEF Got, Net
  <2>5. ASSUME Waits(c, w) PROVE Waits(c, w)' /\ SaltOf(w)' = SaltOf(w)
    <3>1. wk[w].at \in {"password", "verify"}
      BY <2>5 DEF Waits
    <3>2. SaltOf(w)' = SaltOf(w)
      BY <2>1, <3>1, SaltKept
    <3> QED
      BY <1>2, <2>1, <2>5, <3>2 DEF Waits
  <2>6. Salted(c, w) => Salted(c, w)'
    BY <2>5 DEF Salted, Net
  <2>7. Sent(c, w) => Sent(c, w)'
    BY <2>5 DEF Sent, Net, Crypt
  <2> QED
    BY <2>2, <2>3, <2>4, <2>6, <2>7
<1>7. cl[c].at = "asked" =>
          Asked(c)' \/ Answered(c)' \/ \E w \in Workers : Serves(c, w)' /\ (Begun(c, w)' \/ Salted(c, w)')
  BY <1>4, <1>5, <1>6 DEF DialogInv
<1>8. cl[c].at = "sent" =>
          Answered(c)' \/ \E w \in Workers : Serves(c, w)' /\ (Sent(c, w)' \/ Got(c, w)')
  BY <1>5, <1>6 DEF DialogInv
<1> QED
  BY <1>1, <1>2, <1>3, <1>7, <1>8 DEF DialogInv

-----------------------------------------------------------------------------
(* One step of a client *)

\* A client that reads has asked, and reads the one answer there is.
LEMMA Reading ==
    ASSUME AccInv, NEW c \in Clients, DialogInv(c), Alive(c), reply[c] # <<>>
    PROVE  /\ cl[c].at \in {"asked", "sent"} /\ cl[c].todo # <<>> /\ ~cl[c].refused /\ cl[c].pw \in STRING
           /\ \/ Answered(c)
              \/ cl[c].at = "asked" /\ \E w \in Workers : Serves(c, w) /\ Salted(c, w)
<1>1. cl[c].at \in ClientAts
  BY DEF AccInv, Types, ClientTypes, ClType
<1>2. cl[c].at \in {"asked", "sent"}
  BY <1>1 DEF ClientAts, DialogInv, Quiet, Net, Alive
<1>3. ~Asked(c) /\ \A w \in Workers : ~Begun(c, w) /\ ~Sent(c, w) /\ ~Got(c, w)
  BY DEF Asked, Begun, Sent, Got, Net
<1> QED
  BY <1>2, <1>3 DEF DialogInv

\* The records a client goes through.
LEMMA ClAsked ==
    ASSUME NEW x \in ClType, NEW name \in Strings, NEW pw \in Strings, NEW n \in Nat
    PROVE  [x EXCEPT !.at = "asked", !.name = name, !.pw = pw, !.rows = n] \in ClType
<1>1. "asked" \in ClientAts
  BY DEF ClientAts
<1> QED
  BY <1>1 DEF ClType

LEMMA ClAt ==
    ASSUME NEW x \in ClType, NEW at \in ClientAts PROVE [x EXCEPT !.at = at] \in ClType
BY DEF ClType

LEMMA ClRefused ==
    ASSUME NEW x \in ClType, NEW at \in ClientAts, NEW b \in BOOLEAN
    PROVE  [x EXCEPT !.at = at, !.refused = b] \in ClType
BY DEF ClType

LEMMA ClDone ==
    ASSUME NEW x \in ClType, NEW at \in ClientAts, NEW todo \in Seq(Typed)
    PROVE  [x EXCEPT !.at = at, !.todo = todo] \in ClType
BY DEF ClType

\* What a step of a client leaves alone.
ClientOnly(c, new) ==
    /\ new \in ClType /\ cl' = [cl EXCEPT ![c] = new] /\ new.rows \in {cl[c].rows, Len(users)}
    /\ version' = version /\ users' = users /\ res' = res /\ others' = others /\ userExist' = userExist
    /\ wk' = wk /\ sess' = sess
    /\ request' \in [Clients -> (Kinds \X STRING) \cup {NULL}]
    /\ passwd' \in [Clients -> Crypted \cup {NULL}]
    /\ reply' \in [Clients -> Seq(Msgs)]
    /\ \A d \in Clients : d # c => request'[d] = request[d] /\ passwd'[d] = passwd[d] /\ reply'[d] = reply[d]

LEMMA ClientFacts ==
    ASSUME AccInv, NEW c \in Clients
    PROVE  /\ cl[c] \in ClType /\ cl \in [Clients -> ClType] /\ Len(users) \in Nat /\ cl[c].rows \in Nat
           /\ cl[c].rows <= Len(users) /\ cl[c].name \in Strings /\ cl[c].pw \in Strings
           /\ cl[c].todo \in Seq(Typed) /\ cl[c].at \in ClientAts
           /\ request \in [Clients -> (Kinds \X STRING) \cup {NULL}] /\ passwd \in [Clients -> Crypted \cup {NULL}]
           /\ reply \in [Clients -> Seq(Msgs)]
<1>1. cl[c] \in ClType /\ cl \in [Clients -> ClType] /\ cl[c].rows <= Len(users)
  BY DEF AccInv, Types, ClientTypes
<1>2. Len(users) \in Nat
  BY DEF AccInv, Types, TableTypes
<1>3. /\ cl[c].rows \in Nat /\ cl[c].name \in Strings /\ cl[c].pw \in Strings
      /\ cl[c].todo \in Seq(Typed) /\ cl[c].at \in ClientAts
  BY <1>1 DEF ClType
<1> QED
  BY <1>1, <1>2, <1>3 DEF AccInv, Types, NetTypes

LEMMA ClientOnlyAcc ==
    ASSUME AccInv, NEW c \in Clients, NEW new, ClientOnly(c, new) PROVE AccInv'
<1>1. cl' \in [Clients -> ClType] /\ \A d \in Clients : cl'[d].rows <= Len(users')
  <2>1. cl' \in [Clients -> ClType]
    BY ClientFacts DEF ClientOnly
  <2>2. \A d \in Clients : d # c => cl'[d] = cl[d]
    BY DEF ClientOnly
  <2>3. cl'[c] = new
    BY ClientFacts DEF ClientOnly
  <2>4. new.rows <= Len(users)
    BY ClientFacts DEF ClientOnly
  <2>5. users' = users
    BY DEF ClientOnly
  <2>6. \A d \in Clients : cl[d].rows <= Len(users)
    BY ClientFacts
  <2> QED
    BY <2>1, <2>2, <2>3, <2>4, <2>5, <2>6
<1>2. Types'
  BY <1>1 DEF AccInv, Types, TableTypes, ClientTypes, NetTypes, ServerTypes, ClientOnly
<1>3. PoolInv'
  BY DEF AccInv, PoolInv, OneEach, Works, Knows, NoneNamed, Named, Threads, ClientOnly
<1>4. RowsInv'
  BY DEF AccInv, RowsInv, NamesUnique, ClientOnly
<1> QED
  BY <1>2, <1>3, <1>4 DEF AccInv

LEMMA ClientOnlyOthers ==
    ASSUME AccountInv, NEW c \in Clients, NEW new, ClientOnly(c, new), NEW d \in Clients, d # c PROVE DialogInv(d)'
<1>1. AccInv /\ DialogInv(d)
  BY DEF AccountInv
<1>2. Grown
  BY <1>1 DEF ClientOnly, AccInv, Types, TableTypes, Grown
<1>3. cl'[d] = cl[d]
  BY <1>1, ClientFacts DEF ClientOnly
<1>4. /\ version' = version /\ userExist' \in {0, userExist} /\ sess'[d] = sess[d]
      /\ request'[d] = request[d] /\ passwd'[d] = passwd[d] /\ reply'[d] = reply[d]
      /\ \A w \in Workers : wk'[w] = wk[w]
  BY DEF ClientOnly
<1> QED
  BY <1>1, <1>2, <1>3, <1>4, DialogKept

\* With the fields of the client and its connection as they now are.
LEMMA TypeNext ==
    ASSUME AccountInv, NEW c \in Clients, Type(c) PROVE (\E new : ClientOnly(c, new)) /\ DialogInv(c)'
<1>0. AccInv /\ DialogInv(c)
  BY DEF AccountInv
<1>1. cl[c].at = "menu" /\ cl[c].todo # <<>>
  BY DEF Type
<1> PICK line : line = Head(cl[c].todo)
  OBVIOUS
<1>2. line \in Typed
  BY <1>0, <1>1, ClientFacts
<1>3. line[1] \in Kinds /\ line[2] \in STRING /\ line[3] \in STRING
  BY <1>2 DEF Typed
<1>4. line[2] \in Strings /\ line[3] \in Strings
  BY <1>3 DEF Strings
<1> DEFINE new == [cl[c] EXCEPT !.at = "asked", !.name = line[2], !.pw = line[3], !.rows = Len(users)]
<1>5. cl' = [cl EXCEPT ![c] = new] /\ request' = [request EXCEPT ![c] = <<line[1], line[2]>>]
      /\ UNCHANGED <<version, users, res, others, userExist, passwd, reply, wk, sess>>
  <2>1. cl' = [cl EXCEPT ![c] = new]
    BY <1>0, ClientFacts DEF Type
  <2>2. request' = [request EXCEPT ![c] = <<line[1], line[2]>>]
    BY DEF Type
  <2> QED
    BY <2>1, <2>2 DEF Type
<1>6. new \in ClType
  BY <1>0, <1>4, ClientFacts, ClAsked
<1>7. new.at = "asked" /\ new.name = line[2] /\ new.pw = line[3] /\ new.rows = Len(users) /\ new.todo = cl[c].todo /\ new.refused = cl[c].refused
  BY <1>0, ClientFacts DEF ClType
<1> HIDE DEF new
<1>8. cl'[c] = new
  BY <1>0, <1>5, ClientFacts
<1>9. <<line[1], line[2]>> \in Kinds \X STRING
  BY <1>3
<1>10. ClientOnly(c, new)
  BY <1>0, <1>5, <1>6, <1>7, <1>9, ClientFacts DEF ClientOnly
<1>11. Quiet(c) /\ sess[c] = NotIn /\ ~cl[c].refused
  BY <1>0, <1>1 DEF DialogInv, Alive
<1>12. Asked(c)'
  <2>1. Kind(c)' = line[1]
    BY <1>7, <1>8 DEF Kind
  <2>2. request'[c] = <<line[1], line[2]>>
    BY <1>0, <1>5, ClientFacts
  <2>3. Net(c, <<line[1], line[2]>>, NULL, <<>>)'
    BY <1>5, <1>11, <2>2 DEF Quiet, Net
  <2>4. ~Busy(c)' /\ sess'[c] = NotIn
    BY <1>5, <1>11 DEF Quiet, Busy, NotIn
  <2> QED
    BY <1>7, <1>8, <2>1, <2>3, <2>4 DEF Asked, Net, NotIn
<1>13. DialogInv(c)'
  <2>1. cl'[c].at = "asked" /\ cl'[c].todo # <<>> /\ ~cl'[c].refused /\ sess'[c] = NotIn /\ cl'[c].pw \in STRING
    BY <1>1, <1>3, <1>5, <1>7, <1>8, <1>11
  <2> QED
    BY <1>12, <2>1 DEF DialogInv, NotIn
<1> QED
  BY <1>10, <1>13

\* A step of the client that takes one message.
LEMMA MovesIs ==
    ASSUME AccInv, NEW c \in Clients, NEW new \in ClType, ClientMoves(c, new), new.rows = cl[c].rows,
           reply[c] # <<>>,
           passwd' \in [Clients -> Crypted \cup {NULL}], \A d \in Clients : d # c => passwd'[d] = passwd[d]
    PROVE  ClientOnly(c, new) /\ cl'[c] = new /\ reply'[c] = Tail(reply[c]) /\ request'[c] = request[c]
<1>1. reply[c] \in Seq(Msgs)
  BY ClientFacts
<1>2. Tail(reply[c]) \in Seq(Msgs)
  BY <1>1
<1>3. reply' = [reply EXCEPT ![c] = Tail(reply[c])] /\ cl' = [cl EXCEPT ![c] = new]
      /\ UNCHANGED <<version, users, res, others, userExist, request, wk, sess>>
  BY ClientFacts DEF ClientMoves
<1>4. reply' \in [Clients -> Seq(Msgs)] /\ reply'[c] = Tail(reply[c]) /\ \A d \in Clients : d # c => reply'[d] = reply[d]
  BY <1>2, <1>3, ClientFacts
<1>5. cl'[c] = new
  BY <1>3, ClientFacts
<1> QED
  BY <1>3, <1>4, <1>5, ClientFacts DEF ClientOnly

\* What is never so of one that has gone.
LEMMA DeadDialog ==
    ASSUME NEW c, cl'[c].at = "dead", cl'[c].refused => Reason(c)' PROVE DialogInv(c)'
BY DEF DialogInv, Alive

LEMMA RecvSaltNext ==
    ASSUME AccountInv, NEW c \in Clients, RecvSalt(c) PROVE (\E new : ClientOnly(c, new)) /\ DialogInv(c)'
<1>0. AccInv /\ DialogInv(c)
  BY DEF AccountInv
<1>1. Alive(c) /\ reply[c] # <<>> /\ Head(reply[c])[1] = "salt"
  BY DEF RecvSalt
<1>2. cl[c].todo # <<>> /\ ~cl[c].refused /\ cl[c].pw \in STRING /\ ~Answered(c)
  <2>1. cl[c].todo # <<>> /\ ~cl[c].refused /\ cl[c].pw \in STRING
    BY <1>0, <1>1, Reading
  <2>2. ~Answered(c)
    <3>1. ASSUME NEW m \in {<<"done">>, <<"refused">>}, reply[c] = <<m>> PROVE FALSE
      <4>1. Head(reply[c]) = m
        BY <3>1
      <4>2. m[1] \in {"done", "refused"}
        OBVIOUS
      <4> QED
        BY <1>1, <4>1, <4>2
    <3> QED
      BY <3>1 DEF Answered, Net
  <2> QED
    BY <2>1, <2>2
<1>3. PICK w \in Workers : Serves(c, w) /\ Salted(c, w)
  BY <1>0, <1>1, <1>2, Reading
<1>4. reply[c] = <<<<"salt", SaltOf(w)>>>> /\ request[c] = NULL /\ passwd[c] = NULL
  BY <1>3 DEF Salted, Net
<1> PICK salt : salt = SaltOf(w)
  OBVIOUS
<1>5. Head(reply[c])[2] = salt /\ Tail(reply[c]) = <<>>
  BY <1>4
<1>6. CASE salt = NULL
  <2> DEFINE new == [cl[c] EXCEPT !.at = "dead"]
  <2>1. ClientMoves(c, new) /\ passwd' = passwd
    BY <1>5, <1>6 DEF RecvSalt
  <2>2. new \in ClType
    <3>1. "dead" \in ClientAts
      BY DEF ClientAts
    <3> QED
      BY <1>0, <3>1, ClientFacts, ClAt
  <2>3. new.at = "dead" /\ new.refused = cl[c].refused /\ new.rows = cl[c].rows
    BY <1>0, ClientFacts DEF ClType
  <2> HIDE DEF new
  <2>4. ClientOnly(c, new) /\ cl'[c] = new
    BY <1>0, <1>1, <2>1, <2>2, <2>3, ClientFacts, MovesIs
  <2> QED
    BY <1>2, <2>3, <2>4, DeadDialog
<1>7. CASE salt # NULL
  <2> DEFINE new == [cl[c] EXCEPT !.at = "sent"]
  <2>1. ClientMoves(c, new) /\ passwd' = [passwd EXCEPT ![c] = Crypt(cl[c].pw, salt)]
    BY <1>5, <1>7 DEF RecvSalt
  <2>2. new \in ClType
    <3>1. "sent" \in ClientAts
      BY DEF ClientAts
    <3> QED
      BY <1>0, <3>1, ClientFacts, ClAt
  <2>3. new.at = "sent" /\ new.refused = cl[c].refused /\ new.rows = cl[c].rows /\ new.todo = cl[c].todo
        /\ new.name = cl[c].name /\ new.pw = cl[c].pw
    BY <1>0, ClientFacts DEF ClType
  <2> HIDE DEF new
  <2>4. Crypt(cl[c].pw, salt) \in Crypted
    <3>1. salt \in Salts
      BY <1>0, <1>3, <1>7, SaltIs DEF Salted, Waits
    <3> QED
      BY <1>2, <3>1 DEF Crypted, Crypt
  <2>5. passwd' \in [Clients -> Crypted \cup {NULL}] /\ \A d \in Clients : d # c => passwd'[d] = passwd[d]
    BY <1>0, <2>1, <2>4, ClientFacts
  <2>6. ClientOnly(c, new) /\ cl'[c] = new /\ reply'[c] = <<>> /\ request'[c] = NULL
    BY <1>0, <1>1, <1>4, <1>5, <2>1, <2>2, <2>3, <2>5, ClientFacts, MovesIs
  <2>7. passwd'[c] = Crypt(cl[c].pw, salt)
    BY <1>0, <2>1, ClientFacts
  <2>8. wk' = wk /\ sess' = sess /\ users' = users
    BY <2>6 DEF ClientOnly
  <2>9. Waits(c, w)' /\ Serves(c, w)' /\ sess'[c] = NotIn
    BY <1>3, <2>3, <2>6, <2>8 DEF Salted, Waits, Serves, Kind, NotIn
  <2>10. SaltOf(w)' = salt
    BY <2>8 DEF SaltOf
  <2>11. Sent(c, w)'
    BY <1>7, <2>3, <2>6, <2>7, <2>9, <2>10 DEF Sent, Net, Crypt
  <2> QED
    BY <1>2, <2>3, <2>6, <2>9, <2>11 DEF DialogInv, NotIn
<1> QED
  BY <1>6, <1>7

\* One that reads a refusal or the end has been answered.
LEMMA AnsweredIs ==
    ASSUME AccInv, NEW c \in Clients, DialogInv(c), Alive(c), reply[c] # <<>>, Head(reply[c])[1] # "salt"
    PROVE  Answered(c) /\ reply[c] = <<Head(reply[c])>> /\ Tail(reply[c]) = <<>>
<1>1. \A w \in Workers : ~Salted(c, w)
  <2>1. ASSUME NEW s, reply[c] = <<<<"salt", s>>>> PROVE FALSE
    <3>1. Head(reply[c]) = <<"salt", s>>
      BY <2>1
    <3> QED
      BY <3>1
  <2> QED
    BY <2>1 DEF Salted, Net
<1>2. Answered(c)
  BY <1>1, Reading
<1>3. PICK m : reply[c] = <<m>>
  BY <1>2 DEF Answered, Net
<1>4. Head(<<m>>) = m /\ Tail(<<m>>) = <<>>
  OBVIOUS
<1> QED
  BY <1>2, <1>3, <1>4

LEMMA RecvRefusedNext ==
    ASSUME AccountInv, NEW c \in Clients, RecvRefused(c) PROVE (\E new : ClientOnly(c, new)) /\ DialogInv(c)'
<1>0. AccInv /\ DialogInv(c)
  BY DEF AccountInv
<1>1. Alive(c) /\ reply[c] # <<>> /\ Head(reply[c])[1] = "refused"
  BY DEF RecvRefused
<1>2. Answered(c) /\ reply[c] = <<Head(reply[c])>>
  BY <1>0, <1>1, AnsweredIs
<1>3. Kind(c) = "login" => Reason(c)
  <2>1. PICK m \in {<<"done">>, <<"refused">>} : reply[c] = <<m>> /\ (m = <<"refused">> /\ Kind(c) = "login" => Reason(c))
    BY <1>2 DEF Answered, Net
  <2>2. Head(reply[c]) = m
    BY <2>1
  <2>3. m # <<"done">>
    <3>1. m[1] = "refused"
      BY <1>1, <2>2
    <3> QED
      BY <3>1
  <2> QED
    BY <2>1, <2>3
<1> PICK b \in BOOLEAN : b = (Kind(c) = "login")
  OBVIOUS
<1> DEFINE new == [cl[c] EXCEPT !.at = "dead", !.refused = b]
<1>4. ClientMoves(c, new) /\ passwd' = passwd
  BY DEF RecvRefused, Kind
<1>5. new \in ClType
  <2>1. "dead" \in ClientAts
    BY DEF ClientAts
  <2> QED
    BY <1>0, <2>1, ClientFacts, ClRefused
<1>6. new.at = "dead" /\ new.refused = b /\ new.rows = cl[c].rows /\ new.name = cl[c].name /\ new.pw = cl[c].pw
      /\ new.blind = cl[c].blind
  BY <1>0, ClientFacts DEF ClType
<1> HIDE DEF new
<1>7. ClientOnly(c, new) /\ cl'[c] = new
  BY <1>0, <1>1, <1>4, <1>5, <1>6, ClientFacts, MovesIs
<1>8. Reason(c) => Reason(c)'
  <2>1. Grown
    BY <1>0, <1>7, SameTable DEF AccInv, Types, ClientOnly
  <2>2. version' = version /\ userExist' \in {0, userExist}
    BY <1>7 DEF ClientOnly
  <2> QED
    BY <1>0, <1>6, <1>7, <2>1, <2>2, ReasonKept
<1> QED
  BY <1>3, <1>6, <1>7, <1>8, DeadDialog

LEMMA RecvDoneNext ==
    ASSUME AccountInv, NEW c \in Clients, RecvDone(c) PROVE (\E new : ClientOnly(c, new)) /\ DialogInv(c)'
<1>0. AccInv /\ DialogInv(c)
  BY DEF AccountInv
<1>1. Alive(c) /\ reply[c] # <<>> /\ Head(reply[c])[1] = "done"
  BY DEF RecvDone
<1>2. Answered(c) /\ Tail(reply[c]) = <<>>
  BY <1>0, <1>1, AnsweredIs
<1>3. cl[c].todo # <<>> /\ ~cl[c].refused
  BY <1>0, <1>1, Reading
<1>4. Kind(c) \in {"register", "login"}
  BY <1>0, <1>3, KindIs DEF Kinds
<1> PICK at : at = IF Kind(c) = "login" THEN "in" ELSE "menu"
  OBVIOUS
<1> PICK todo : todo = Tail(cl[c].todo)
  OBVIOUS
<1> DEFINE new == [cl[c] EXCEPT !.at = at, !.todo = todo]
<1>5. ClientMoves(c, new) /\ passwd' = passwd
  BY <1>0, ClientFacts DEF RecvDone, Kind, ClType
<1>6. new \in ClType
  <2>1. at \in ClientAts
    BY DEF ClientAts
  <2>2. todo \in Seq(Typed)
    BY <1>0, <1>3, ClientFacts
  <2> QED
    BY <1>0, <2>1, <2>2, ClientFacts, ClDone
<1>7. new.at = at /\ new.refused = cl[c].refused /\ new.rows = cl[c].rows /\ new.name = cl[c].name /\ new.pw = cl[c].pw
  BY <1>0, ClientFacts DEF ClType
<1> HIDE DEF new
<1>8. ClientOnly(c, new) /\ cl'[c] = new /\ reply'[c] = <<>> /\ request'[c] = request[c]
  BY <1>0, <1>1, <1>2, <1>5, <1>6, <1>7, ClientFacts, MovesIs
<1>9. sess' = sess /\ wk' = wk /\ users' = users /\ passwd' = passwd
  BY <1>5, <1>8 DEF ClientOnly
<1>10. Quiet(c)'
  BY <1>2, <1>8, <1>9 DEF Answered, Quiet, Net, Busy
<1>11. at = "menu" => sess'[c] = NotIn
  BY <1>2, <1>4, <1>9 DEF Answered
<1>12. sess'[c] # NotIn => Proven(c)'
  <2>1. sess[c] # NotIn => Proven(c)
    BY <1>0, <1>1 DEF DialogInv
  <2> QED
    BY <1>7, <1>8, <1>9, <2>1 DEF Proven, Crypt
<1> QED
  BY <1>3, <1>7, <1>8, <1>10, <1>11, <1>12 DEF DialogInv, NotIn

LEMMA VanishNext ==
    ASSUME AccountInv, NEW c \in Clients, Vanish(c) PROVE (\E new : ClientOnly(c, new)) /\ DialogInv(c)'
<1>0. AccInv /\ DialogInv(c)
  BY DEF AccountInv
<1>1. cl[c].at \in {"asked", "sent"} /\ UNCHANGED <<version, users, res, others, userExist, request, passwd, reply, wk, sess>>
  BY DEF Vanish
<1> DEFINE new == [cl[c] EXCEPT !.at = "dead"]
<1>2. new \in ClType
  <2>1. "dead" \in ClientAts
    BY DEF ClientAts
  <2> QED
    BY <1>0, <2>1, ClientFacts, ClAt
<1>3. new.at = "dead" /\ new.refused = cl[c].refused /\ new.rows = cl[c].rows
  BY <1>0, ClientFacts DEF ClType
<1>4. cl' = [cl EXCEPT ![c] = new]
  BY <1>0, ClientFacts DEF Vanish
<1> HIDE DEF new
<1>5. cl'[c] = new
  BY <1>0, <1>4, ClientFacts
<1>6. ClientOnly(c, new)
  BY <1>0, <1>1, <1>2, <1>3, <1>4, ClientFacts DEF ClientOnly
<1>7. ~cl[c].refused
  BY <1>0, <1>1 DEF DialogInv, Alive
<1> QED
  BY <1>3, <1>5, <1>6, <1>7, DeadDialog

-----------------------------------------------------------------------------
(* One step of a thread, and the dialogue of the client it serves *)

\* How far the dialogue of a client that has a thread can be.
LEMMA Stage ==
    ASSUME AccountInv, NEW w \in Workers, NEW c \in Clients, wk[w].c = c, Alive(c)
    PROVE  /\ Serves(c, w) /\ cl[c].todo # <<>> /\ cl[c].pw \in STRING /\ ~cl[c].refused /\ Kind(c) \in Kinds
           /\ \/ cl[c].at = "asked" /\ (Begun(c, w) \/ Salted(c, w))
              \/ cl[c].at = "sent" /\ (Sent(c, w) \/ Got(c, w))
<1>1. AccInv /\ DialogInv(c) /\ cl[c].at \in ClientAts
  BY ClientFacts DEF AccountInv
<1>2. Busy(c) /\ c # NULL
  BY Nulls DEF Busy
<1>3. cl[c].at \in {"asked", "sent"}
  BY <1>1, <1>2 DEF DialogInv, Quiet, ClientAts, Alive
<1>4. ASSUME NEW v \in Workers, Serves(c, v) PROVE v = w
  BY <1>1, <1>2, <1>4 DEF Serves, AccInv, PoolInv, OneEach
<1>5. ~Asked(c) /\ ~Answered(c)
  BY <1>2 DEF Asked, Answered
<1>6. cl[c].todo # <<>> /\ cl[c].pw \in STRING /\ ~cl[c].refused
  BY <1>1, <1>3 DEF DialogInv
<1>7. Kind(c) \in Kinds
  BY <1>1, <1>6, KindIs
<1>8. CASE cl[c].at = "asked"
  BY <1>1, <1>4, <1>5, <1>6, <1>7, <1>8 DEF DialogInv
<1>9. CASE cl[c].at = "sent"
  BY <1>1, <1>4, <1>5, <1>6, <1>7, <1>9 DEF DialogInv
<1> QED
  BY <1>3, <1>8, <1>9

\* What a step of w for the client c may touch.
ServerOnly(w, c, new) ==
    /\ wk' = [wk EXCEPT ![w] = new] /\ wk'[w] = new /\ new.c \in {c, NULL} /\ wk[w].c \in {c, NULL}
    /\ version' = version /\ Grown /\ userExist' \in {0, userExist}
    /\ \A d \in Clients : d # c => /\ cl'[d] = cl[d] /\ request'[d] = request[d] /\ passwd'[d] = passwd[d]
                                   /\ reply'[d] = reply[d] /\ sess'[d] = sess[d]
    /\ /\ cl'[c].at = cl[c].at /\ cl'[c].todo = cl[c].todo /\ cl'[c].name = cl[c].name /\ cl'[c].pw = cl[c].pw
       /\ cl'[c].rows = cl[c].rows /\ cl'[c].refused = cl[c].refused /\ cl'[c].blind \in {cl[c].blind, TRUE}

LEMMA ServerOnlyOthers ==
    ASSUME AccountInv, NEW w \in Threads, NEW c \in Clients, NEW new, ServerOnly(w, c, new),
           NEW d \in Clients, d # c
    PROVE  DialogInv(d)'
<1>1. AccInv /\ DialogInv(d) /\ w \in Workers /\ wk \in [Workers -> WkType]
  BY ThreadsIn DEF AccountInv, AccInv, Types, ServerTypes
<1>2. \A v \in Workers : wk'[v] = wk[v] \/ (wk[v].c # d /\ wk'[v].c # d)
  BY <1>1, Nulls DEF ServerOnly
<1>3. /\ Grown /\ version' = version /\ userExist' \in {0, userExist}
      /\ cl'[d] = cl[d] /\ request'[d] = request[d] /\ passwd'[d] = passwd[d]
      /\ reply'[d] = reply[d] /\ sess'[d] = sess[d]
  BY DEF ServerOnly
<1> QED
  BY <1>1, <1>2, <1>3, DialogKept

LEMMA ServerOnlyDead ==
    ASSUME AccountInv, NEW w \in Threads, NEW c \in Clients, NEW new, ServerOnly(w, c, new), ~Alive(c)
    PROVE  DialogInv(c)'
<1>1. AccInv /\ DialogInv(c)
  BY DEF AccountInv
<1>2. Reason(c) => Reason(c)'
  <2>1. /\ Grown /\ version' = version /\ userExist' \in {0, userExist}
        /\ cl'[c].name = cl[c].name /\ cl'[c].pw = cl[c].pw /\ cl'[c].rows = cl[c].rows
        /\ (cl[c].blind => cl'[c].blind)
    BY DEF ServerOnly
  <2> QED
    BY <1>1, <2>1, ReasonKept
<1>3. cl'[c].at = "dead" /\ cl'[c].refused = cl[c].refused
  BY DEF ServerOnly, Alive
<1> QED
  BY <1>1, <1>2, <1>3, DeadDialog DEF DialogInv

\* The thread that served c, and no other, is idle again.
LEMMA Released ==
    ASSUME AccInv, NEW w \in Threads, NEW c \in Clients, wk[w].c = c, wk' = [wk EXCEPT ![w] = Idle]
    PROVE  ~Busy(c)'
<1>1. w \in Workers /\ wk \in [Workers -> WkType] /\ c # NULL
  BY ThreadsIn, Nulls DEF AccInv, Types, ServerTypes
<1>2. \A v \in Workers : v # w => wk[v].c # c
  BY <1>1 DEF AccInv, PoolInv, OneEach
<1>3. \A v \in Workers : wk'[v].c # c
  BY <1>1, <1>2, IdleIs
<1> QED
  BY <1>3 DEF Busy

\* An answer ends the dialogue.
LEMMA AnsweredNext ==
    ASSUME AccountInv, NEW w \in Threads, NEW c \in Clients, wk[w].c = c, ServerOnly(w, c, Idle), Alive(c),
           NEW m \in {<<"done">>, <<"refused">>}, reply'[c] = <<m>>,
           request'[c] = NULL, passwd'[c] = NULL,
           m = <<"refused">> /\ Kind(c) = "login" => Reason(c)',
           Kind(c) = "register" => sess'[c] = NotIn,
           sess'[c] # NotIn => Proven(c)'
    PROVE  DialogInv(c)'
<1>1. w \in Workers
  BY ThreadsIn
<1>2. cl[c].at \in {"asked", "sent"} /\ cl[c].todo # <<>> /\ cl[c].pw \in STRING /\ ~cl[c].refused
  BY <1>1, Stage
<1>3. Kind(c)' = Kind(c)
  BY DEF Kind, ServerOnly
<1>4. ~Busy(c)'
  BY Released DEF ServerOnly, AccountInv
<1>5. Answered(c)'
  BY <1>3, <1>4 DEF Answered, Net, NotIn
<1> QED
  BY <1>2, <1>5 DEF DialogInv, ServerOnly, NotIn

OthersSame(c) == \A d \in Clients : d # c => /\ request'[d] = request[d] /\ passwd'[d] = passwd[d]
                                             /\ reply'[d] = reply[d] /\ sess'[d] = sess[d]

\* A step that leaves the table, the session flag of v2 and the clients alone.
LEMMA ServerOnlyIs ==
    ASSUME AccInv, NEW w \in Threads, NEW c \in Clients, NEW new, wk[w].c = c \/ wk[w].c = NULL,
           new.c = c \/ new.c = NULL, wk' = [wk EXCEPT ![w] = new], version' = version, users' = users,
           userExist' = userExist, cl' = cl, OthersSame(c)
    PROVE  ServerOnly(w, c, new)
<1>1. Grown
  BY SameTable DEF AccInv, Types
<1>2. wk'[w] = new
  BY ThreadsIn DEF AccInv, Types, ServerTypes
<1> QED
  BY <1>1, <1>2 DEF ServerOnly, OthersSame

LEMMA TakeNext ==
    ASSUME AccountInv, NEW w \in Threads, NEW c \in Clients, Take(w, c)
    PROVE  (\E new : ServerOnly(w, c, new)) /\ (Alive(c) => DialogInv(c)')
<1>0. AccInv /\ DialogInv(c) /\ w \in Workers
  BY ThreadsIn DEF AccountInv
<1>1. wk[w] = Idle /\ request[c] # NULL /\ ~Served(c)
  BY DEF Take
<1>2. request[c] \in Kinds \X STRING
  BY <1>0, <1>1, ClientFacts
<1> PICK kind, name : kind \in Kinds /\ name \in STRING /\ request[c] = <<kind, name>>
  BY <1>2
<1> DEFINE new == [Idle EXCEPT !.at = kind, !.c = c, !.name = name]
<1>3. wk' = [wk EXCEPT ![w] = new] /\ request' = [request EXCEPT ![c] = NULL]
      /\ UNCHANGED <<version, users, userExist, cl, passwd, reply, sess>>
  BY DEF Take, Step
<1>4. new.at = kind /\ new.c = c /\ new.name = name
  BY DEF Idle
<1> HIDE DEF new
<1>5. request'[c] = NULL /\ \A d \in Clients : d # c => request'[d] = request[d]
  BY <1>0, <1>3, ClientFacts
<1>6. ServerOnly(w, c, new)
  <2>1. wk[w].c = NULL /\ new.c = c
    BY <1>1, <1>4, IdleIs
  <2>2. OthersSame(c)
    BY <1>3, <1>5 DEF OthersSame
  <2>3. version' = version /\ users' = users /\ cl' = cl /\ userExist' = userExist
    BY <1>3
  <2> QED
    BY <1>0, <1>3, <2>1, <2>2, <2>3, ServerOnlyIs
<1>7. ASSUME Alive(c) PROVE DialogInv(c)'
  <2>1. cl[c].at \in ClientAts
    BY <1>0, ClientFacts
  <2>2. cl[c].at = "asked" /\ Asked(c)
    <3>1. ~Quiet(c) /\ ~Answered(c) /\ \A v \in Workers : ~Begun(c, v) /\ ~Salted(c, v) /\ ~Sent(c, v) /\ ~Got(c, v)
      BY <1>1 DEF Quiet, Answered, Begun, Salted, Sent, Got, Net
    <3> QED
      BY <1>0, <1>7, <2>1, <3>1 DEF DialogInv, ClientAts, Alive
  <2>3. cl[c].todo # <<>> /\ cl[c].pw \in STRING /\ ~cl[c].refused /\ sess[c] = NotIn
    BY <1>0, <2>2 DEF DialogInv, Alive, Asked
  <2>4. kind = Kind(c) /\ name = cl[c].name /\ passwd[c] = NULL /\ reply[c] = <<>>
    BY <2>2 DEF Asked, Net
  <2>5. wk'[w] = new /\ Kind(c)' = Kind(c)
    BY <1>3, <1>6 DEF ServerOnly, Kind
  <2>6. kind \in {"register", "login"}
    BY DEF Kinds
  <2>7. Serves(c, w)' /\ Begun(c, w)'
    BY <1>3, <1>4, <1>5, <2>3, <2>4, <2>5, <2>6 DEF Serves, Begun, Net, NotIn
  <2> QED
    BY <1>0, <1>3, <2>2, <2>3, <2>7 DEF DialogInv, Alive, NotIn
<1> QED
  BY <1>6, <1>7

\* At the points before a salt is sent, the dialogue has begun and nothing has come of it.
LEMMA BeforeSalt ==
    ASSUME AccountInv, NEW w \in Workers, NEW c \in Clients, wk[w].c = c, Alive(c),
           wk[w].at \in {"register", "checked", "offer", "login", "found"}
    PROVE  /\ cl[c].at = "asked" /\ Begun(c, w) /\ Serves(c, w)
           /\ cl[c].todo # <<>> /\ cl[c].pw \in STRING /\ ~cl[c].refused
           /\ Kind(c) = IF wk[w].at \in {"login", "found"} THEN "login" ELSE "register"
<1>1. ~Salted(c, w) /\ ~Sent(c, w) /\ ~Got(c, w)
  BY DEF Salted, Sent, Got, Waits
<1>2. /\ cl[c].at = "asked" /\ Begun(c, w) /\ Serves(c, w)
      /\ cl[c].todo # <<>> /\ cl[c].pw \in STRING /\ ~cl[c].refused
  BY <1>1, Stage
<1>3. Kind(c) \in {"register", "login"}
  BY Stage DEF Kinds
<1> QED
  BY <1>2, <1>3 DEF Begun

\* A step of the thread within those points, or one that sends the salt.
LEMMA GoesOnNext ==
    ASSUME AccountInv, NEW w \in Threads, NEW c \in Clients, wk[w].c = c, NEW new, ServerOnly(w, c, new),
           Alive(c), wk[w].at \in {"register", "checked", "offer", "login", "found"},
           new.c = c, new.name = wk[w].name,
           request'[c] = request[c], passwd'[c] = passwd[c], sess'[c] = sess[c],
           \/ /\ reply'[c] = reply[c]
              /\ new.at \in IF Kind(c) = "register" THEN {"register", "checked", "offer"} ELSE {"login", "found"}
              /\ new.at = "found" => cl[c].rows <= new.known
           \/ /\ reply'[c] = Append(reply[c], <<"salt", SaltOf(w)'>>)
              /\ new.at = IF Kind(c) = "register" THEN "password" ELSE "verify"
    PROVE  DialogInv(c)'
<1>0. w \in Workers
  BY ThreadsIn
<1>1. /\ cl[c].at = "asked" /\ Begun(c, w) /\ Serves(c, w)
      /\ cl[c].todo # <<>> /\ cl[c].pw \in STRING /\ ~cl[c].refused
  BY <1>0, BeforeSalt
<1>2. wk'[w] = new /\ Kind(c)' = Kind(c) /\ cl'[c].at = cl[c].at /\ cl'[c].todo = cl[c].todo
      /\ cl'[c].name = cl[c].name /\ cl'[c].pw = cl[c].pw /\ cl'[c].rows = cl[c].rows
      /\ cl'[c].refused = cl[c].refused
  BY DEF ServerOnly, Kind
<1>3. request'[c] = NULL /\ passwd'[c] = NULL /\ sess'[c] = NotIn /\ reply[c] = <<>>
  BY <1>1 DEF Begun, Net
<1>4. Serves(c, w)'
  BY <1>1, <1>2 DEF Serves
<1>5. CASE /\ reply'[c] = reply[c]
           /\ new.at \in IF Kind(c) = "register" THEN {"register", "checked", "offer"} ELSE {"login", "found"}
           /\ new.at = "found" => cl[c].rows <= new.known
  <2>1. Begun(c, w)'
    BY <1>2, <1>3, <1>5 DEF Begun, Net, NotIn
  <2> QED
    BY <1>0, <1>1, <1>2, <1>3, <1>4, <2>1 DEF DialogInv, NotIn
<1>6. CASE /\ reply'[c] = Append(reply[c], <<"salt", SaltOf(w)'>>)
           /\ new.at = IF Kind(c) = "register" THEN "password" ELSE "verify"
  <2>1. reply'[c] = <<<<"salt", SaltOf(w)'>>>>
    <3>1. \A m : Append(<<>>, m) = <<m>>
      OBVIOUS
    <3> QED
      BY <1>3, <1>6, <3>1
  <2>2. Salted(c, w)'
    BY <1>2, <1>3, <1>6, <2>1 DEF Salted, Waits, Net, NotIn
  <2> QED
    BY <1>0, <1>1, <1>2, <1>3, <1>4, <2>2 DEF DialogInv, NotIn
<1> QED
  BY <1>5, <1>6

\* The step of a thread on behalf of its client.
ForClient(w) == \E c \in Clients : (\E new : ServerOnly(w, c, new)) /\ (Alive(c) => DialogInv(c)')

LEMMA CheckQueryNext == ASSUME AccountInv, NEW w \in Threads, CheckQuery(w) PROVE ForClient(w)
<1>0. AccInv /\ wk[w].at = "register" /\ wk[w].at # "idle"
  BY DEF AccountInv, CheckQuery
<1> PICK c \in Clients : c = wk[w].c
  BY <1>0, AtWork
<1>1. UNCHANGED <<version, users, request, userExist, cl, passwd, reply, sess>>
  BY DEF CheckQuery, FromClient
<1>2. PICK new : wk' = [wk EXCEPT ![w] = new] /\ new.c = c /\ new.name = wk[w].name /\ new.at \in {"checked", "offer"}
  <2>1. CASE Query(w, "checked")
    <3>1. users' = users /\ version' = version
      BY <1>1
    <3>2. \E x \in WkType : /\ wk' = [wk EXCEPT ![w] = x] /\ x.at = "checked" /\ x.c = wk[w].c /\ x.name = wk[w].name
      BY <1>0, <2>1, <3>1, QueryIs
    <3> QED
      BY <3>2
  <2>2. CASE Step(w, [wk[w] EXCEPT !.at = "offer", !.known = -1])
    <3> DEFINE x == [wk[w] EXCEPT !.at = "offer", !.known = -1]
    <3>1. x.c = wk[w].c /\ x.name = wk[w].name /\ x.at = "offer"
      BY <1>0, AtWork DEF WkType
    <3>2. wk' = [wk EXCEPT ![w] = x]
      BY <2>2 DEF Step
    <3> QED
      BY <3>1, <3>2
  <2> QED
    BY <2>1, <2>2 DEF CheckQuery
<1>3. ServerOnly(w, c, new)
  <2>1. OthersSame(c)
    BY <1>1 DEF OthersSame
  <2> QED
    BY <1>0, <1>1, <1>2, <2>1, ServerOnlyIs
<1>4. ASSUME Alive(c) PROVE DialogInv(c)'
  <2>1. Kind(c) = "register"
    BY <1>0, <1>4, AtWork, BeforeSalt
  <2>2. /\ reply'[c] = reply[c] /\ request'[c] = request[c] /\ passwd'[c] = passwd[c] /\ sess'[c] = sess[c] /\ cl' = cl
        /\ new.at \in {"register", "checked", "offer"} /\ new.at # "found"
        /\ wk[w].at \in {"register", "checked", "offer", "login", "found"}
    BY <1>0, <1>1, <1>2
  <2> QED
    BY <1>2, <1>3, <1>4, <2>1, <2>2, GoesOnNext
<1> QED
  BY <1>3, <1>4 DEF ForClient

LEMMA CheckResultNext == ASSUME AccountInv, NEW w \in Threads, CheckResult(w) PROVE ForClient(w)
<1>0. AccInv /\ wk[w].at = "checked" /\ wk[w].at # "idle"
  BY DEF AccountInv, CheckResult
<1> PICK c \in Clients : c = wk[w].c
  BY <1>0, AtWork
<1>1. UNCHANGED <<version, users, request, userExist, cl, passwd, sess>>
  BY DEF CheckResult, FromClient
<1>2. CASE wk[w].row # NULL
  <2>1. wk' = [wk EXCEPT ![w] = Idle] /\ Send(w, <<"refused">>)
    BY <1>2 DEF CheckResult, Step
  <2>2. <<"refused">> \in Msgs
    BY DEF Msgs
  <2>3. reply'[c] = Append(reply[c], <<"refused">>) /\ \A d \in Clients : d # c => reply'[d] = reply[d]
    BY <1>0, <2>1, <2>2, AtWork, SendIs
  <2>4. ServerOnly(w, c, Idle)
    <3>1. OthersSame(c)
      BY <1>1, <2>3 DEF OthersSame
    <3> QED
      BY <1>0, <1>1, <2>1, <3>1, IdleIs, ServerOnlyIs
  <2>5. ASSUME Alive(c) PROVE DialogInv(c)'
    <3>1. Begun(c, w) /\ Kind(c) = "register"
      BY <1>0, <2>5, AtWork, BeforeSalt
    <3>2. request'[c] = NULL /\ passwd'[c] = NULL /\ sess'[c] = NotIn /\ reply[c] = <<>>
      BY <1>1, <3>1 DEF Begun, Net
    <3>3. reply'[c] = <<<<"refused">>>>
      BY <2>3, <3>2
    <3> PICK m : m = <<"refused">>
      OBVIOUS
    <3> QED
      BY <2>4, <2>5, <3>1, <3>2, <3>3, AnsweredNext
  <2> QED
    BY <2>4, <2>5 DEF ForClient
<1>3. CASE wk[w].row = NULL
  <2>1. Goto(w, "offer") /\ reply' = reply
    BY <1>3 DEF CheckResult
  <2>2. "offer" \in WkAts
    BY DEF WkAts, RegStates
  <2>3. PICK new \in WkType : wk' = [wk EXCEPT ![w] = new] /\ new.at = "offer" /\ new.c = c /\ new.name = wk[w].name
    BY <1>0, <2>1, <2>2, GotoIs
  <2>4. ServerOnly(w, c, new)
    <3>1. OthersSame(c)
      BY <1>1, <2>1 DEF OthersSame
    <3> QED
      BY <1>0, <1>1, <2>3, <3>1, ServerOnlyIs
  <2>5. ASSUME Alive(c) PROVE DialogInv(c)'
    <3>1. Kind(c) = "register"
      BY <1>0, <2>5, AtWork, BeforeSalt
    <3>2. /\ reply'[c] = reply[c] /\ request'[c] = request[c] /\ passwd'[c] = passwd[c] /\ sess'[c] = sess[c] /\ cl' = cl
          /\ new.at \in {"register", "checked", "offer"} /\ new.at # "found"
          /\ wk[w].at \in {"register", "checked", "offer", "login", "found"}
      BY <1>0, <1>1, <2>1, <2>3
    <3> QED
      BY <2>3, <2>4, <2>5, <3>1, <3>2, GoesOnNext
  <2> QED
    BY <2>4, <2>5 DEF ForClient
<1> QED
  BY <1>2, <1>3

LEMMA OfferNext == ASSUME AccountInv, NEW w \in Threads, Offer(w) PROVE ForClient(w)
<1>0. AccInv /\ wk[w].at = "offer" /\ wk[w].at # "idle"
  BY DEF AccountInv, Offer
<1> PICK c \in Clients : c = wk[w].c
  BY <1>0, AtWork
<1>1. UNCHANGED <<version, users, request, userExist, cl, passwd, sess>>
  BY DEF Offer, FromClient
<1>2. PICK s \in Salts : Send(w, <<"salt", s>>) /\ Step(w, [wk[w] EXCEPT !.at = "password", !.salt = s])
  BY DEF Offer
<1> DEFINE new == [wk[w] EXCEPT !.at = "password", !.salt = s]
<1>3. new.at = "password" /\ new.c = c /\ new.name = wk[w].name /\ new.salt = s
  BY <1>0, AtWork DEF WkType
<1>4. wk' = [wk EXCEPT ![w] = new]
  BY <1>2 DEF Step
<1> HIDE DEF new
<1>5. reply'[c] = Append(reply[c], <<"salt", s>>) /\ \A d \in Clients : d # c => reply'[d] = reply[d]
  <2>1. <<"salt", s>> \in Msgs
    BY DEF Msgs
  <2> QED
    BY <1>0, <1>2, <2>1, AtWork, SendIs
<1>6. ServerOnly(w, c, new)
  <2>1. OthersSame(c)
    BY <1>1, <1>5 DEF OthersSame
  <2> QED
    BY <1>0, <1>1, <1>3, <1>4, <2>1, ServerOnlyIs
<1>7. ASSUME Alive(c) PROVE DialogInv(c)'
  <2>1. Kind(c) = "register"
    BY <1>0, <1>7, AtWork, BeforeSalt
  <2>2. SaltOf(w)' = s
    BY <1>3, <1>6 DEF SaltOf, ServerOnly
  <2>3. /\ request'[c] = request[c] /\ passwd'[c] = passwd[c] /\ sess'[c] = sess[c] /\ cl' = cl
        /\ wk[w].at \in {"register", "checked", "offer", "login", "found"}
    BY <1>0, <1>1
  <2> QED
    BY <1>3, <1>5, <1>6, <1>7, <2>1, <2>2, <2>3, GoesOnNext
<1> QED
  BY <1>6, <1>7 DEF ForClient

\* A thread that waits for a password, and a client that is still there.
LEMMA AfterSalt ==
    ASSUME AccountInv, NEW w \in Workers, NEW c \in Clients, wk[w].c = c, Alive(c),
           wk[w].at \in {"password", "verify"}, Received(c)
    PROVE  /\ cl[c].at = "sent" /\ Sent(c, w) /\ Serves(c, w)
           /\ cl[c].todo # <<>> /\ cl[c].pw \in STRING /\ ~cl[c].refused
           /\ Kind(c) = IF wk[w].at = "password" THEN "register" ELSE "login"
<1>1. ~Salted(c, w) /\ ~Begun(c, w) /\ ~Got(c, w)
  BY DEF Salted, Begun, Got, Waits, Net, Received
<1>2. /\ cl[c].at = "sent" /\ Sent(c, w) /\ Serves(c, w)
      /\ cl[c].todo # <<>> /\ cl[c].pw \in STRING /\ ~cl[c].refused
  BY <1>1, Stage
<1>3. Kind(c) \in {"register", "login"}
  BY Stage DEF Kinds
<1> QED
  BY <1>2, <1>3 DEF Sent, Waits

LEMMA RecvPasswdNext == ASSUME AccountInv, NEW w \in Threads, RecvPasswd(w) PROVE ForClient(w)
<1>0. AccInv /\ wk[w].at = "password" /\ wk[w].at # "idle"
  BY DEF AccountInv, RecvPasswd
<1> PICK c \in Clients : c = wk[w].c
  BY <1>0, AtWork
<1>1. UNCHANGED <<version, users, request, userExist, cl, reply, sess>>
  BY DEF RecvPasswd, FromClient
<1> PICK pass : pass = IF passwd[c] = NULL THEN <<>> ELSE passwd[c]
  OBVIOUS
<1> DEFINE new == [wk[w] EXCEPT !.at = "insert", !.pass = pass]
<1>2. wk' = [wk EXCEPT ![w] = new] /\ passwd' = [passwd EXCEPT ![c] = NULL] /\ Received(c)
  BY DEF RecvPasswd, Receive, Step
<1>3. new.at = "insert" /\ new.c = c /\ new.name = wk[w].name
  BY <1>0, AtWork DEF WkType
<1> HIDE DEF new
<1>4. passwd'[c] = NULL /\ \A d \in Clients : d # c => passwd'[d] = passwd[d]
  BY <1>0, <1>2, AtWork
<1>5. ServerOnly(w, c, new)
  <2>1. OthersSame(c)
    BY <1>1, <1>4 DEF OthersSame
  <2> QED
    BY <1>0, <1>1, <1>2, <1>3, <2>1, ServerOnlyIs
<1>6. ASSUME Alive(c) PROVE DialogInv(c)'
  <2>1. /\ cl[c].at = "sent" /\ Sent(c, w) /\ Serves(c, w) /\ Kind(c) = "register"
        /\ cl[c].todo # <<>> /\ cl[c].pw \in STRING /\ ~cl[c].refused
    BY <1>0, <1>2, <1>6, AtWork, AfterSalt
  <2>2. wk'[w] = new /\ Kind(c)' = Kind(c)
    BY <1>1, <1>5 DEF ServerOnly, Kind
  <2>3. Got(c, w)' /\ Serves(c, w)' /\ sess'[c] = NotIn
    BY <1>1, <1>3, <1>4, <2>1, <2>2 DEF Sent, Waits, Got, Serves, Net, NotIn
  <2> QED
    BY <1>0, <1>1, <2>1, <2>3, AtWork DEF DialogInv, NotIn
<1> QED
  BY <1>5, <1>6 DEF ForClient

LEMMA SqlDoRegisterNext == ASSUME AccountInv, NEW w \in Threads, SqlDoRegister(w) PROVE ForClient(w)
<1>0. AccInv /\ wk[w].at = "insert" /\ wk[w].at # "idle"
  BY DEF AccountInv, SqlDoRegister
<1> PICK c \in Clients : c = wk[w].c
  BY <1>0, AtWork
<1>1. UNCHANGED <<version, request, userExist, cl, passwd, sess>>
  BY DEF SqlDoRegister, FromClient
<1>2. wk' = [wk EXCEPT ![w] = Idle] /\ Send(w, <<"done">>)
  BY DEF SqlDoRegister, Step
<1>3. Grown
  <2>1. users' \in Seq(RowType)
    BY <1>0, SqlDoRegisterAcc DEF AccInv, Types, TableTypes
  <2>2. users' = users \/ \E r : users' = Append(users, r)
    BY DEF SqlDoRegister
  <2>3. users \in Seq(RowType)
    BY <1>0, AtWork
  <2>4. ASSUME NEW r, users' = Append(users, r)
        PROVE  Len(users) <= Len(users') /\ \A i \in 1..Len(users) : users'[i] = users[i]
    BY <2>3, <2>4
  <2>5. users' = users => Len(users) <= Len(users') /\ \A i \in 1..Len(users) : users'[i] = users[i]
    BY <2>3
  <2> QED
    BY <2>1, <2>2, <2>4, <2>5 DEF Grown
<1>4. reply'[c] = Append(reply[c], <<"done">>) /\ \A d \in Clients : d # c => reply'[d] = reply[d]
  <2>1. <<"done">> \in Msgs
    BY DEF Msgs
  <2> QED
    BY <1>0, <1>2, <2>1, AtWork, SendIs
<1>5. ServerOnly(w, c, Idle)
  <2>1. wk'[w] = Idle
    BY <1>0, <1>2, AtWork
  <2> QED
    BY <1>1, <1>2, <1>3, <1>4, <2>1, IdleIs DEF ServerOnly
<1>6. ASSUME Alive(c) PROVE DialogInv(c)'
  <2>1. Got(c, w)
    <3>1. ~Salted(c, w) /\ ~Begun(c, w) /\ ~Sent(c, w)
      BY <1>0 DEF Salted, Begun, Sent, Waits
    <3> QED
      BY <1>0, <1>6, <3>1, AtWork, Stage
  <2>2. request'[c] = NULL /\ passwd'[c] = NULL /\ sess'[c] = NotIn /\ reply[c] = <<>> /\ Kind(c) = "register"
    BY <1>1, <2>1 DEF Got, Net
  <2>3. reply'[c] = <<<<"done">>>>
    BY <1>4, <2>2
  <2> PICK m : m = <<"done">>
    OBVIOUS
  <2> QED
    BY <1>5, <1>6, <2>2, <2>3, AnsweredNext
<1> QED
  BY <1>5, <1>6 DEF ForClient

LEMMA LoginQueryNext == ASSUME AccountInv, NEW w \in Threads, LoginQuery(w) PROVE ForClient(w)
<1>0. AccInv /\ wk[w].at = "login" /\ wk[w].at # "idle"
  BY DEF AccountInv, LoginQuery
<1> PICK c \in Clients : c = wk[w].c
  BY <1>0, AtWork
<1>1. UNCHANGED <<version, users, request, userExist, passwd, sess>>
  BY DEF LoginQuery, FromClient
<1>2. ASSUME Alive(c) PROVE Begun(c, w) /\ Kind(c) = "login"
  BY <1>0, <1>2, AtWork, BeforeSalt
<1>3. CASE Query(w, "found") /\ UNCHANGED <<cl, reply>>
  <2>1. PICK new \in WkType : /\ wk' = [wk EXCEPT ![w] = new] /\ new.at = "found" /\ new.c = wk[w].c
                              /\ new.name = wk[w].name /\ new.known = Len(users)
    <3>1. users' = users /\ version' = version
      BY <1>1
    <3> QED
      BY <1>0, <1>3, <3>1, QueryIs
  <2>2. ServerOnly(w, c, new)
    <3>1. OthersSame(c)
      BY <1>1, <1>3 DEF OthersSame
    <3> QED
      BY <1>0, <1>1, <1>3, <2>1, <3>1, ServerOnlyIs
  <2>3. ASSUME Alive(c) PROVE DialogInv(c)'
    <3>1. cl[c].rows <= new.known
      BY <1>0, <2>1, ClientFacts
    <3>2. /\ reply'[c] = reply[c] /\ request'[c] = request[c] /\ passwd'[c] = passwd[c] /\ sess'[c] = sess[c]
          /\ new.at \in {"login", "found"} /\ Kind(c) # "register"
          /\ wk[w].at \in {"register", "checked", "offer", "login", "found"}
      BY <1>0, <1>1, <1>2, <1>3, <2>1, <2>3
    <3> QED
      BY <2>1, <2>2, <2>3, <3>1, <3>2, GoesOnNext
  <2> QED
    BY <2>2, <2>3 DEF ForClient
<1>4. CASE ~(Query(w, "found") /\ UNCHANGED <<cl, reply>>)
  <2>1. /\ cl' = [cl EXCEPT ![c].blind = TRUE]
        /\ IF version = "v2"
           THEN Step(w, Idle) /\ Send(w, <<"refused">>)
           ELSE /\ Step(w, [wk[w] EXCEPT !.at = "verify", !.row = 0])
                /\ Send(w, <<"salt", NULL>>)
    BY <1>4 DEF LoginQuery
  <2>2. /\ cl'[c].at = cl[c].at /\ cl'[c].todo = cl[c].todo /\ cl'[c].name = cl[c].name /\ cl'[c].pw = cl[c].pw
        /\ cl'[c].rows = cl[c].rows /\ cl'[c].refused = cl[c].refused /\ cl'[c].blind = TRUE
        /\ \A d \in Clients : d # c => cl'[d] = cl[d]
    BY <1>0, <2>1, ClientFacts DEF ClType
  <2>3. Grown
    BY <1>1, SameTable, <1>0 DEF AccInv, Types
  <2>4. ASSUME NEW new, NEW msg \in Msgs, wk' = [wk EXCEPT ![w] = new], Send(w, msg), new.c = c \/ new.c = NULL
        PROVE  ServerOnly(w, c, new) /\ reply'[c] = Append(reply[c], msg)
    <3>1. reply'[c] = Append(reply[c], msg) /\ \A d \in Clients : d # c => reply'[d] = reply[d]
      BY <1>0, <2>4, AtWork, SendIs
    <3>2. wk'[w] = new
      BY <1>0, <2>4, AtWork
    <3> QED
      BY <1>1, <2>2, <2>3, <2>4, <3>1, <3>2 DEF ServerOnly
  <2>5. CASE version = "v2"
    <3> PICK m : m = <<"refused">>
      OBVIOUS
    <3>1. m \in Msgs /\ wk' = [wk EXCEPT ![w] = Idle] /\ Send(w, m)
      BY <2>1, <2>5 DEF Step, Msgs
    <3>2. ServerOnly(w, c, Idle) /\ reply'[c] = Append(reply[c], m)
      BY <2>4, <3>1, IdleIs
    <3>3. ASSUME Alive(c) PROVE DialogInv(c)'
      <4>1. request'[c] = NULL /\ passwd'[c] = NULL /\ sess'[c] = NotIn /\ reply[c] = <<>>
        BY <1>1, <1>2, <3>3 DEF Begun, Net
      <4>2. reply'[c] = <<m>>
        BY <3>2, <4>1
      <4>3. Reason(c)'
        BY <1>1, <2>2, <2>5 DEF Reason
      <4> QED
        BY <3>2, <3>3, <4>1, <4>2, <4>3, AnsweredNext
    <3> QED
      BY <3>2, <3>3 DEF ForClient
  <2>6. CASE version # "v2"
    <3> DEFINE new == [wk[w] EXCEPT !.at = "verify", !.row = 0]
    <3>1. wk' = [wk EXCEPT ![w] = new] /\ Send(w, <<"salt", NULL>>) /\ <<"salt", NULL>> \in Msgs
      BY <2>1, <2>6 DEF Step, Msgs
    <3>2. new.at = "verify" /\ new.row = 0 /\ new.c = c /\ new.name = wk[w].name
      BY <1>0, AtWork DEF WkType
    <3> HIDE DEF new
    <3>3. ServerOnly(w, c, new) /\ reply'[c] = Append(reply[c], <<"salt", NULL>>)
      BY <2>4, <3>1, <3>2
    <3>4. ASSUME Alive(c) PROVE DialogInv(c)'
      <4>1. SaltOf(w)' = NULL
        BY <3>2, <3>3 DEF SaltOf, ServerOnly
      <4>2. /\ request'[c] = request[c] /\ passwd'[c] = passwd[c] /\ sess'[c] = sess[c] /\ Kind(c) # "register"
            /\ wk[w].at \in {"register", "checked", "offer", "login", "found"}
        BY <1>0, <1>1, <1>2, <3>4
      <4> QED
        BY <3>2, <3>3, <3>4, <4>1, <4>2, GoesOnNext
    <3> QED
      BY <3>3, <3>4 DEF ForClient
  <2> QED
    BY <2>5, <2>6
<1> QED
  BY <1>3, <1>4

LEMMA LoginResultNext == ASSUME AccountInv, NEW w \in Threads, LoginResult(w) PROVE ForClient(w)
<1>0. AccInv /\ wk[w].at = "found" /\ wk[w].at # "idle"
  BY DEF AccountInv, LoginResult
<1> PICK c \in Clients : c = wk[w].c
  BY <1>0, AtWork
<1>1. UNCHANGED <<version, users, request, cl, passwd, sess>>
  BY DEF LoginResult, FromClient
<1>2. ASSUME Alive(c) PROVE Begun(c, w) /\ Kind(c) = "login" /\ Serves(c, w)
  BY <1>0, <1>2, AtWork, BeforeSalt
<1>3. Grown
  BY <1>0, <1>1, SameTable DEF AccInv, Types
<1>4. CASE wk[w].row = NULL
  <2>1. /\ wk' = [wk EXCEPT ![w] = Idle] /\ Send(w, <<"refused">>)
        /\ userExist' = IF version = "v2" THEN 0 ELSE userExist
    BY <1>4 DEF LoginResult, Step
  <2>2. <<"refused">> \in Msgs
    BY DEF Msgs
  <2>3. reply'[c] = Append(reply[c], <<"refused">>) /\ \A d \in Clients : d # c => reply'[d] = reply[d]
    BY <1>0, <2>1, <2>2, AtWork, SendIs
  <2>4. ServerOnly(w, c, Idle)
    <3>1. wk'[w] = Idle
      BY <1>0, <2>1, AtWork
    <3>2. userExist' \in {0, userExist}
      BY <2>1
    <3> QED
      BY <1>1, <1>3, <2>1, <2>3, <3>1, <3>2, IdleIs DEF ServerOnly
  <2>5. ASSUME Alive(c) PROVE DialogInv(c)'
    <3>1. request'[c] = NULL /\ passwd'[c] = NULL /\ sess'[c] = NotIn /\ reply[c] = <<>>
      BY <1>1, <1>2, <2>5 DEF Begun, Net
    <3>2. reply'[c] = <<<<"refused">>>>
      BY <2>3, <3>1
    <3>3. Reason(c)'
      <4>1. cl[c].rows <= wk[w].known /\ wk[w].name = cl[c].name
        BY <1>0, <1>2, <2>5 DEF Begun, Serves
      <4>2. wk[w].known \in 0..Len(users) /\ \A i \in 1..wk[w].known : users[i].name # cl[c].name
        BY <1>0, <1>4, <4>1, AtWork DEF Knows, NoneNamed
      <4>3. \A i \in 1..cl[c].rows : users[i].name # cl[c].name
        <5>1. cl[c].rows \in Nat /\ wk[w].known \in Nat
          BY <1>0, <4>2, ClientFacts, AtWork
        <5>2. \A i \in 1..cl[c].rows : i \in 1..wk[w].known
          BY <4>1, <5>1
        <5> QED
          BY <4>2, <5>2
      <4> QED
        BY <1>1, <4>3 DEF Reason
    <3> PICK m : m = <<"refused">>
      OBVIOUS
    <3> QED
      BY <2>4, <2>5, <3>1, <3>2, <3>3, AnsweredNext
  <2> QED
    BY <2>4, <2>5 DEF ForClient
<1>5. CASE wk[w].row # NULL
  <2> PICK s : s = users[wk[w].row].salt
    OBVIOUS
  <2>1. Goto(w, "verify") /\ Send(w, <<"salt", s>>) /\ userExist' = userExist
    BY <1>5 DEF LoginResult
  <2>2. wk[w].row \in 1..Len(users)
    BY <1>0, <1>5, AtWork DEF Knows, Named
  <2>3. <<"salt", s>> \in Msgs
    <3>1. users[wk[w].row] \in RowType
      BY <1>0, <2>2, AtWork
    <3> QED
      BY <3>1 DEF Msgs, RowType
  <2>4. "verify" \in WkAts
    BY DEF WkAts, LogStates
  <2>5. PICK new \in WkType : /\ wk' = [wk EXCEPT ![w] = new] /\ new.at = "verify" /\ new.c = c
                              /\ new.name = wk[w].name /\ new.row = wk[w].row
    BY <1>0, <2>1, <2>4, GotoIs
  <2>6. reply'[c] = Append(reply[c], <<"salt", s>>) /\ \A d \in Clients : d # c => reply'[d] = reply[d]
    BY <1>0, <2>1, <2>3, AtWork, SendIs
  <2>7. ServerOnly(w, c, new)
    <3>1. OthersSame(c)
      BY <1>1, <2>6 DEF OthersSame
    <3> QED
      BY <1>0, <1>1, <2>1, <2>5, <3>1, ServerOnlyIs
  <2>8. ASSUME Alive(c) PROVE DialogInv(c)'
    <3>1. SaltOf(w)' = s
      BY <1>1, <2>2, <2>5, <2>7 DEF SaltOf, ServerOnly
    <3>2. /\ request'[c] = request[c] /\ passwd'[c] = passwd[c] /\ sess'[c] = sess[c] /\ Kind(c) # "register"
          /\ wk[w].at \in {"register", "checked", "offer", "login", "found"}
      BY <1>0, <1>1, <1>2, <2>8
    <3> QED
      BY <2>5, <2>6, <2>7, <2>8, <3>1, <3>2, GoesOnNext
  <2> QED
    BY <2>7, <2>8 DEF ForClient
<1> QED
  BY <1>4, <1>5

LEMMA VerifyNext == ASSUME AccountInv, NEW w \in Threads, Verify(w) PROVE ForClient(w)
<1>0. AccInv /\ wk[w].at = "verify" /\ wk[w].at # "idle"
  BY DEF AccountInv, Verify
<1> PICK c \in Clients : c = wk[w].c
  BY <1>0, AtWork
<1>1. UNCHANGED <<version, users, request, userExist, cl>> /\ Received(c)
  BY DEF Verify, FromClient
<1> PICK pass : pass = IF passwd[c] = NULL THEN <<>> ELSE passwd[c]
  OBVIOUS
<1> PICK ok \in BOOLEAN : ok = (Matches(w, pass) /\ (version = "v2" => pass # <<>>))
  OBVIOUS
<1> PICK m : m = IF ok /\ userExist = 1 THEN <<"done">> ELSE <<"refused">>
  OBVIOUS
<1>2. /\ wk' = [wk EXCEPT ![w] = Idle] /\ passwd' = [passwd EXCEPT ![c] = NULL]
      /\ sess' = IF ok THEN [sess EXCEPT ![c] = wk[w].row] ELSE sess
      /\ Send(w, m)
  BY DEF Verify, Step
<1>3. m \in {<<"done">>, <<"refused">>} /\ m \in Msgs
  BY DEF Msgs
<1>4. reply'[c] = Append(reply[c], m) /\ \A d \in Clients : d # c => reply'[d] = reply[d]
  BY <1>0, <1>2, <1>3, AtWork, SendIs
<1>5. /\ passwd'[c] = NULL /\ \A d \in Clients : d # c => passwd'[d] = passwd[d]
      /\ sess'[c] = (IF ok THEN wk[w].row ELSE sess[c]) /\ \A d \in Clients : d # c => sess'[d] = sess[d]
  BY <1>0, <1>2, AtWork
<1>6. ServerOnly(w, c, Idle)
  <2>1. OthersSame(c)
    BY <1>1, <1>4, <1>5 DEF OthersSame
  <2> QED
    BY <1>0, <1>1, <1>2, <2>1, IdleIs, ServerOnlyIs
<1>7. ASSUME Alive(c) PROVE DialogInv(c)'
  <2>1. Sent(c, w) /\ Serves(c, w) /\ Kind(c) = "login" /\ cl[c].pw \in STRING
    BY <1>0, <1>1, <1>7, AtWork, AfterSalt
  <2>2. request[c] = NULL /\ reply[c] = <<>> /\ passwd[c] = Crypt(cl[c].pw, SaltOf(w)) /\ SaltOf(w) # NULL
        /\ sess[c] = NotIn /\ wk[w].name = cl[c].name
    BY <2>1 DEF Sent, Waits, Net, Serves
  <2> PICK row : row = wk[w].row
    OBVIOUS
  <2>3. row # 0 /\ SaltOf(w) = users[row].salt
    BY <1>0, <2>2 DEF SaltOf
  <2>4. row \in DOMAIN users /\ users[row].name = cl[c].name
    BY <1>0, <2>2, <2>3, AtWork DEF Knows, Named
  <2>5. passwd[c] # NULL /\ pass = Crypt(cl[c].pw, users[row].salt)
    <3>1. passwd[c] # NULL
      BY <1>1, <1>7 DEF Received
    <3> QED
      BY <2>2, <2>3, <3>1
  <2>6. pass # <<>>
    BY <2>5 DEF Crypt
  <2>7. ok <=> users[row].pass = Crypt(cl[c].pw, users[row].salt)
    BY <2>3, <2>5, <2>6 DEF Matches, Stored
  <2>8. reply'[c] = <<m>> /\ request'[c] = NULL
    BY <1>1, <1>4, <2>2
  <2>9. sess'[c] # NotIn => Proven(c)'
    <3>1. sess'[c] # NotIn => ok /\ sess'[c] = row
      BY <1>5, <2>2
    <3> QED
      BY <1>1, <2>4, <2>7, <3>1 DEF Proven, Crypt
  <2>10. ASSUME m = <<"refused">> PROVE Reason(c)'
    <3>1. ~ok \/ userExist # 1
      BY <2>10
    <3>2. CASE userExist # 1
      <4>1. version = "v2" /\ userExist = 0
        BY <1>0, <3>2, AtWork
      <4> QED
        BY <1>1, <4>1 DEF Reason
    <3>3. CASE ~ok
      <4>1. users[row].pass # Crypt(cl[c].pw, users[row].salt)
        BY <2>7, <3>3
      <4>2. ASSUME NEW i \in 1..cl[c].rows, users[i].pass = Crypt(cl[c].pw, users[i].salt) PROVE row # i
        BY <4>1, <4>2
      <4> QED
        BY <1>1, <2>4, <4>2 DEF Reason, Crypt
    <3> QED
      BY <3>1, <3>2, <3>3
  <2> QED
    BY <1>3, <1>5, <1>6, <1>7, <2>1, <2>8, <2>9, <2>10, AnsweredNext
<1> QED
  BY <1>6, <1>7 DEF ForClient

-----------------------------------------------------------------------------
(* The whole *)

LEMMA InitAccount == Init => AccountInv
<1> SUFFICES ASSUME Init PROVE AccountInv
  OBVIOUS
<1>1. AccInv
  BY InitAcc
<1>2. /\ request = [c \in Clients |-> NULL] /\ passwd = [c \in Clients |-> NULL]
      /\ reply = [c \in Clients |-> <<>>] /\ wk = [w \in Workers |-> Idle] /\ sess = [c \in Clients |-> NotIn]
      /\ \A c \in Clients : cl[c].at = "menu" /\ ~cl[c].refused
  <2>1. PICK s \in Scenarios :
             cl = [c \in Clients |-> [at |-> "menu", todo |-> s.todo[c], name |-> "", pw |-> "",
                                      rows |-> 0, refused |-> FALSE, blind |-> FALSE]]
    BY DEF Init
  <2>2. \A c \in Clients : cl[c].at = "menu" /\ ~cl[c].refused
    BY <2>1
  <2> QED
    BY <2>2 DEF Init
<1>3. ASSUME NEW c \in Clients PROVE DialogInv(c)
  <2>1. c # NULL
    BY Nulls
  <2>2. ~Busy(c)
    BY <1>2, <2>1, IdleIs DEF Busy
  <2>3. Quiet(c) /\ sess[c] = NotIn
    BY <1>2, <2>2 DEF Quiet, Net
  <2> QED
    BY <1>2, <2>3 DEF DialogInv
<1> QED
  BY <1>1, <1>3 DEF AccountInv

LEMMA ClientStepAccount ==
    ASSUME AccountInv, NEW c \in Clients, Type(c) \/ Recv(c) \/ Vanish(c) PROVE AccountInv'
<1>1. (\E new : ClientOnly(c, new)) /\ DialogInv(c)'
  BY TypeNext, RecvSaltNext, RecvRefusedNext, RecvDoneNext, VanishNext, Zenon DEF Recv
<1>2. PICK new : ClientOnly(c, new)
  BY <1>1
<1>3. AccInv'
  BY <1>2, ClientOnlyAcc DEF AccountInv
<1>4. \A d \in Clients : DialogInv(d)'
  BY <1>1, <1>2, ClientOnlyOthers
<1> QED
  BY <1>3, <1>4 DEF AccountInv

LEMMA ServerDialogs ==
    ASSUME AccountInv, NEW w \in Threads, NEW c \in Clients, NEW new, ServerOnly(w, c, new),
           Alive(c) => DialogInv(c)'
    PROVE  \A d \in Clients : DialogInv(d)'
BY ServerOnlyOthers, ServerOnlyDead

LEMMA ServerStepAccount == ASSUME AccountInv, NEW w \in Threads, Server(w) PROVE AccountInv'
<1>0. AccInv
  BY DEF AccountInv
<1>1. CASE \E c \in Clients : Take(w, c)
  <2>1. PICK c \in Clients : Take(w, c)
    BY <1>1
  <2>2. PICK new : ServerOnly(w, c, new) /\ (Alive(c) => DialogInv(c)')
    BY <2>1, TakeNext
  <2>3. AccInv'
    BY <1>0, <2>1, TakeAcc
  <2>4. \A d \in Clients : DialogInv(d)'
    BY <2>2, ServerDialogs
  <2> QED
    BY <2>3, <2>4 DEF AccountInv
<1>2. ASSUME CheckQuery(w) \/ CheckResult(w) \/ Offer(w) \/ RecvPasswd(w) \/ SqlDoRegister(w)
             \/ LoginQuery(w) \/ LoginResult(w) \/ Verify(w)
      PROVE  AccountInv'
  <2>1. AccInv'
    BY <1>0, <1>2, CheckQueryAcc, CheckResultAcc, OfferAcc, RecvPasswdAcc, SqlDoRegisterAcc,
       LoginQueryAcc, LoginResultAcc, VerifyAcc, Zenon
  <2>2. ForClient(w)
    BY <1>2, CheckQueryNext, CheckResultNext, OfferNext, RecvPasswdNext, SqlDoRegisterNext,
       LoginQueryNext, LoginResultNext, VerifyNext, Zenon
  <2>3. PICK c \in Clients : (\E new : ServerOnly(w, c, new)) /\ (Alive(c) => DialogInv(c)')
    BY <2>2 DEF ForClient
  <2>4. PICK new : ServerOnly(w, c, new)
    BY <2>3
  <2>5. \A d \in Clients : DialogInv(d)'
    BY <2>3, <2>4, ServerDialogs
  <2> QED
    BY <2>1, <2>5 DEF AccountInv
<1> QED
  BY <1>1, <1>2, Zenon DEF Server

\* A step that leaves the dialogues alone.
LEMMA SameAccount ==
    ASSUME AccountInv, UNCHANGED <<version, users, userExist, cl, request, passwd, reply, wk, sess>>,
           res' \in Workers \cup {Other, NULL}, others' \in 0..MaxOther
    PROVE  AccountInv'
<1>1. AccInv
  BY DEF AccountInv
<1>2. Types'
  BY <1>1 DEF AccInv, Types, TableTypes, ClientTypes, NetTypes, ServerTypes
<1>3. PoolInv'
  BY <1>1 DEF AccInv, PoolInv, OneEach, Works, Knows, NoneNamed, Named, Threads
<1>4. RowsInv'
  BY <1>1 DEF AccInv, RowsInv, NamesUnique
<1>5. \A c \in Clients : DialogInv(c)'
  <2>1. Grown
    BY <1>1, SameTable DEF AccInv, Types
  <2> TAKE c \in Clients
  <2>2. DialogInv(c)
    BY DEF AccountInv
  <2> QED
    BY <1>1, <2>1, <2>2, DialogKept
<1> QED
  BY <1>2, <1>3, <1>4, <1>5 DEF AccountInv, AccInv

LEMMA NextAccount == AccountInv /\ [Next]_vars => AccountInv'
<1> SUFFICES ASSUME AccountInv, [Next]_vars PROVE AccountInv'
  OBVIOUS
<1>0. res \in Workers \cup {Other, NULL} /\ others \in 0..MaxOther /\ MaxOther \in Nat
  BY AccountAssumption DEF AccountInv, AccInv, Types, TableTypes
<1>1. CASE ReadConfig
  BY <1>0, <1>1, SameAccount DEF ReadConfig, accountVars
<1>2. CASE \E c \in Clients : Type(c) \/ Recv(c) \/ Vanish(c)
  BY <1>2, ClientStepAccount
<1>3. CASE \E w \in Threads : Server(w)
  BY <1>3, ServerStepAccount
<1>4. CASE OtherQuery
  <2>1. res' = Other /\ others' = others + 1 /\ others < MaxOther
        /\ UNCHANGED <<version, users, userExist, cl, request, passwd, reply, wk, sess>>
    BY <1>4 DEF OtherQuery
  <2>2. others' \in 0..MaxOther
    BY <1>0, <2>1
  <2> QED
    BY <2>1, <2>2, SameAccount
<1>5. CASE OtherFree
  BY <1>0, <1>5, SameAccount DEF OtherFree
<1>6. CASE UNCHANGED vars
  BY <1>0, <1>6, SameAccount DEF vars, accountVars
<1> QED
  BY <1>1, <1>2, <1>3, <1>4, <1>5, <1>6 DEF Next

LEMMA AccountAlways == Spec => []AccountInv
<1>1. Init => AccountInv
  BY InitAccount
<1>2. AccountInv /\ [Next]_vars => AccountInv'
  BY NextAccount
<1> QED
  BY <1>1, <1>2, PTL DEF Spec

\* Two rows of one name come only from a registration whose check was made before the
\* first row was there, or failed; in v1, where one thread checks and inserts, only from
\* a check that failed (sql_check_dup_user_name).  For any number of clients and threads.
THEOREM NamesStayUnique == Spec => []NamesUnique
<1>1. AccountInv => NamesUnique
  BY DEF AccountInv, AccInv, RowsInv
<1> QED
  BY <1>1, AccountAlways, PTL

\* Login lets in those it should and only those (do_login.c): a session belongs to a
\* client with that user's name and password, also when the query of the login failed or
\* the row holds the password of a registration that broke off; who had them when it
\* asked is turned away only for the reasons RefusedRightly names.
THEOREM LoginCorrect == Spec => []LoginInv
<1>1. AccountInv => LoginInv
  <2> SUFFICES ASSUME AccountInv PROVE LoginInv
    OBVIOUS
  <2>0. AccInv /\ \A c \in Clients : DialogInv(c)
    BY DEF AccountInv
  <2>1. TypeOK
    <3>1. res \in Workers \cup {Other, NULL} /\ userExist \in {0, 1} /\ others \in 0..MaxOther
      BY <2>0 DEF AccInv, Types, TableTypes
    <3>2. \A i \in DOMAIN users : users[i].salt \in Salts /\ users[i].known \in -1..(i - 1)
      <4>1. \A i \in DOMAIN users : users[i] \in RowType
        BY <2>0 DEF AccInv, Types, TableTypes
      <4> QED
        BY <2>0, <4>1 DEF RowType, AccInv, RowsInv
    <3>3. \A w \in Workers : wk[w].at = "verify" => wk[w].row \in 0..Len(users)
      BY <2>0 DEF AccInv, Types, TableTypes, PoolInv, Knows, Named
    <3>4. \A c \in Clients : cl[c].at \in {"menu", "asked", "sent", "in", "dead"}
      BY <2>0, ClientFacts DEF ClientAts
    <3>5. \A c \in Clients : sess[c] \in -1..Len(users)
      BY <2>0 DEF AccInv, Types, ServerTypes
    <3> QED
      BY <3>1, <3>2, <3>3, <3>4, <3>5 DEF TypeOK
  <2>2. LoginSound
    BY <2>0 DEF LoginSound, DialogInv, Alive, Proven
  <2>3. RefusedRightly
    BY <2>0 DEF RefusedRightly, DialogInv, Reason
  <2> QED
    BY <2>1, <2>2, <2>3 DEF LoginInv
<1> QED
  BY <1>1, AccountAlways, PTL

-----------------------------------------------------------------------------
(* The configuration table (ConfigTable, config.c) *)

LEMMA Division ==
    ASSUME NEW h \in Nat, NEW t \in Nat \ {0} PROVE h = t * (h \div t) + (h % t)
OBVIOUS

\* A whole turn of the table ends where it began.
LEMMA WholeTurn ==
    ASSUME NEW h \in Nat, NEW t \in Nat \ {0} PROVE (h + t) % t = h % t
<1> DEFINE q == h \div t
           r == h % t
           p == (h + t) \div t
           s == (h + t) % t
<1>1. h = t * q + r /\ h + t = t * p + s
  BY Division
<1>2. q \in Int /\ p \in Int
  OBVIOUS
<1>3. r \in 0..(t - 1) /\ s \in 0..(t - 1)
  OBVIOUS
<1> HIDE DEF q, r, p, s
<1>4. PICK k \in Int : k = p - q - 1
  BY <1>2
<1>5. t * p - t * q = t * (p - q)
  BY <1>2
<1>6. t * (p - q) = t * k + t
  BY <1>2, <1>4
<1>7. r - s = t * k
  BY <1>1, <1>2, <1>3, <1>4, <1>5, <1>6
<1>8. k = 0
  <2> PICK x : x = t * k
    OBVIOUS
  <2>1. x \in Int /\ (k >= 1 => x >= t) /\ (k <= -1 => x <= -t)
    BY <1>4
  <2>2. r - s = x
    BY <1>7
  <2>3. r - s < t /\ r - s > -t
    BY <1>3
  <2>4. ~(k >= 1) /\ ~(k <= -1)
    BY <1>3, <2>1, <2>2, <2>3
  <2> QED
    BY <2>4
<1>9. r = s
  BY <1>3, <1>7, <1>8
<1> QED
  BY <1>9 DEF r, s

Slots    == 0..(TableSize - 1)
Entry    == [key : (DOMAIN Hash) \cup {""}, value : Seq(STRING)]
LEMMA SlotsAre == TableSize \in Nat \ {0} /\ (\A d \in Slots : d \in Nat /\ d < TableSize) /\ 0 \in Slots
BY TableAssumption DEF Slots

\* The slot of a key that Find ends at: no free one comes before it.
Reached(t, key) == \E d \in Slots : /\ t[Probe(key, d)].key = key
                                    /\ \A e \in 0..(d - 1) : t[Probe(key, e)].key # ""
Once(i)  == \A j \in DOMAIN seen : seen[j][1] = seen[i][1] => j = i

ConfigInv ==
    /\ table \in [Slots -> Entry] /\ file \in Seq(ConfigLines) /\ seen \in Seq(ConfigLines)
    /\ \A p \in Slots : table[p].key = "" <=> table[p].value = <<>>
    /\ \A p \in Slots : table[p].key # "" => \E i \in DOMAIN seen : seen[i][1] = table[p].key
    /\ \A i \in DOMAIN seen : Reached(table, seen[i][1])
    /\ \A i \in DOMAIN seen, p \in Slots : Once(i) /\ table[p].key = seen[i][1] => table[p].value = seen[i][2]

LEMMA LineIs ==
    ASSUME NEW line \in ConfigLines
    PROVE  line[1] \in DOMAIN Hash /\ line[2] \in Seq(STRING) /\ line[1] # "" /\ line[2] # <<>>
BY DEF ConfigLines

LEMMA ProbeIs ==
    ASSUME NEW key \in DOMAIN Hash
    PROVE  /\ \A d \in Nat : Probe(key, d) \in Slots
           /\ Probe(key, TableSize) = Probe(key, 0)
<1>1. Hash[key] \in Nat /\ TableSize \in Nat \ {0}
  BY TableAssumption
<1>2. \A d \in Nat : (Hash[key] + d) % TableSize \in 0..(TableSize - 1)
  BY <1>1
<1>3. (Hash[key] + TableSize) % TableSize = Hash[key] % TableSize
  BY <1>1, WholeTurn
<1>4. Hash[key] + 0 = Hash[key]
  BY <1>1
<1> QED
  BY <1>2, <1>3, <1>4 DEF Probe, Slots

LEMMA OverlayIs ==
    ASSUME NEW new \in Seq(STRING), NEW old \in Seq(STRING), new # <<>>
    PROVE  /\ Overlay(new, old) \in Seq(STRING) /\ Overlay(new, old) # <<>>
           /\ old = <<>> => Overlay(new, old) = new
<1> DEFINE end == SubSeq(old, Len(new) + 1, Len(old))
<1>1. Len(new) \in Nat /\ Len(old) \in Nat /\ Len(new) # 0
  OBVIOUS
<1>2. end \in Seq(STRING)
  BY <1>1
<1>3. old = <<>> => end = <<>>
  BY <1>1
<1> HIDE DEF end
<1>4. new \o end \in Seq(STRING) /\ Len(new \o end) = Len(new) + Len(end) /\ Len(end) \in Nat
  BY <1>2
<1>5. new \o end # <<>>
  BY <1>1, <1>4
<1>6. new \o <<>> = new
  OBVIOUS
<1> QED
  BY <1>3, <1>4, <1>5, <1>6 DEF Overlay, end

LEMMA ConfigFoundIs == ConfigInv => ConfigFound
<1> SUFFICES ASSUME ConfigInv, NEW i \in DOMAIN seen
             PROVE  /\ Find(table, seen[i][1]) # NULL
                    /\ Once(i) => Find(table, seen[i][1]) = seen[i][2]
  BY DEF ConfigFound, Once
<1> PICK key : key = seen[i][1]
  OBVIOUS
<1>1. key \in DOMAIN Hash /\ key # ""
  <2>1. seen \in Seq(ConfigLines)
    BY DEF ConfigInv
  <2>2. seen[i] \in ConfigLines
    BY <2>1
  <2> QED
    BY <2>2, LineIs
<1> DEFINE ds == {d \in 0..(TableSize - 1) : table[Probe(key, d)].key \in {"", key}}
<1>2. PICK d \in Slots : table[Probe(key, d)].key = key /\ \A e \in 0..(d - 1) : table[Probe(key, e)].key # ""
  BY DEF ConfigInv, Reached
<1>3. ds \subseteq Nat /\ d \in ds
  <2>1. TableSize \in Nat \ {0} /\ d \in 0..(TableSize - 1)
    BY SlotsAre DEF Slots
  <2>2. ds \subseteq 0..(TableSize - 1)
    OBVIOUS
  <2>3. 0..(TableSize - 1) \subseteq Nat
    BY <2>1
  <2> QED
    BY <1>2, <2>1, <2>2, <2>3
<1>4. Min(ds) \in ds /\ Min(ds) <= d
  BY <1>3, MinOf
<1> PICK m : m = Min(ds)
  OBVIOUS
<1>5. m \in Slots /\ table[Probe(key, m)].key \in {"", key}
  BY <1>4 DEF Slots
<1>6. m <= d
  BY <1>4
<1> HIDE DEF ds
<1>7. table[Probe(key, m)].key = key
  <2>1. m = d \/ m \in 0..(d - 1)
    <3>1. m \in Nat /\ d \in Nat
      BY <1>5, SlotsAre
    <3> QED
      BY <1>6, <3>1
  <2> QED
    BY <1>2, <1>5, <2>1
<1>8. Find(table, key) = table[Probe(key, m)].value
  BY <1>1, <1>3, <1>7 DEF Find, ds
<1>9. Probe(key, m) \in Slots
  BY <1>1, <1>5, ProbeIs, SlotsAre
<1>10. table[Probe(key, m)].value \in Seq(STRING)
  BY <1>9 DEF ConfigInv, Entry
<1>11. Find(table, key) # NULL
  BY <1>8, <1>10, TableAssumption
<1>12. Once(i) => Find(table, key) = seen[i][2]
  BY <1>7, <1>8, <1>9 DEF ConfigInv
<1> QED
  BY <1>11, <1>12

\* Where a line goes: to a free slot, before which there is none, or over the same key.
LEMMA InsertIs ==
    ASSUME ConfigInv, NEW line \in ConfigLines, Insert(line[1], line[2])
    PROVE  \E p \in Slots, new \in Entry :
              /\ table' = [table EXCEPT ![p] = new]
              /\ new.key = line[1] /\ new.key # "" /\ new.value # <<>>
              /\ \/ /\ table[p].key = "" /\ new.value = line[2]
                    /\ \E d \in Slots : p = Probe(line[1], d) /\ \A e \in 0..(d - 1) : table[Probe(line[1], e)].key # ""
                 \/ table[p].key = line[1]
<1> PICK key, value : key = line[1] /\ value = line[2]
  OBVIOUS
<1>1. key \in DOMAIN Hash /\ value \in Seq(STRING) /\ key # "" /\ value # <<>>
  BY LineIs
<1> DEFINE S == Stops(table, key)
<1>2. S # {} /\ S \subseteq 0..TableSize /\ S \subseteq Nat
  <2>1. S # {} /\ S \subseteq 0..TableSize
    BY DEF Insert, Stops
  <2>2. 0..TableSize \subseteq Nat
    BY SlotsAre
  <2> QED
    BY <2>1, <2>2
<1> PICK d : d = Min(S)
  OBVIOUS
<1>3. d \in S /\ \A e \in S : d <= e
  BY <1>2, MinOf
<1>4. d \in 0..TableSize /\ d \in Nat
  BY <1>2, <1>3
<1>5. table[Probe(key, d)].value = <<>> \/ (d > 0 /\ table[Probe(key, d)].key = key)
  BY <1>3 DEF Stops
<1>6. \A e \in 0..(d - 1) : table[Probe(key, e)].value # <<>>
  <2> TAKE e \in 0..(d - 1)
  <2>1. e \in 0..TableSize /\ ~(d <= e)
    BY <1>4, SlotsAre
  <2>2. e \notin S
    BY <1>3, <2>1
  <2> QED
    BY <2>1, <2>2 DEF Stops
<1> HIDE DEF S
<1> PICK p : p = Probe(key, d)
  OBVIOUS
<1>7. p \in Slots
  BY <1>1, <1>4, ProbeIs
<1>8. table \in [Slots -> Entry] /\ table[p] \in Entry /\ table[p].value \in Seq(STRING)
  BY <1>7 DEF ConfigInv, Entry
<1> DEFINE v == Overlay(value, table[p].value)
<1>9. v \in Seq(STRING) /\ v # <<>> /\ (table[p].value = <<>> => v = value)
  BY <1>1, <1>8, OverlayIs
<1>10. table' = [table EXCEPT ![p] = [key |-> key, value |-> v]]
  BY <1>7, <1>8 DEF Insert, S
<1> HIDE DEF v
<1> PICK new : new = [key |-> key, value |-> v]
  OBVIOUS
<1>11. new \in Entry /\ new.key = key /\ new.value = v
  BY <1>1, <1>9 DEF Entry
<1>12. CASE table[p].value = <<>>
  <2>1. table[p].key = ""
    BY <1>7, <1>12 DEF ConfigInv
  <2>2. d # TableSize
    <3>1. ASSUME d = TableSize PROVE FALSE
      <4>1. Probe(key, d) = Probe(key, 0)
        BY <1>1, <3>1, ProbeIs
      <4>2. 0 \in 0..(d - 1)
        BY <3>1, SlotsAre
      <4> QED
        BY <1>6, <1>12, <4>1, <4>2
    <3> QED
      BY <3>1
  <2>3. d \in Slots
    BY <1>4, <2>2, SlotsAre DEF Slots
  <2>4. \A e \in 0..(d - 1) : table[Probe(key, e)].key # ""
    <3> TAKE e \in 0..(d - 1)
    <3>1. e \in Nat
      BY <1>4
    <3>2. Probe(key, e) \in Slots
      BY <1>1, <3>1, ProbeIs
    <3>3. table[Probe(key, e)].value # <<>>
      BY <1>6
    <3> QED
      BY <3>2, <3>3 DEF ConfigInv
  <2> QED
    BY <1>1, <1>7, <1>9, <1>10, <1>11, <1>12, <2>1, <2>3, <2>4
<1>13. CASE table[p].value # <<>>
  <2>1. table[p].key = key
    BY <1>5, <1>13
  <2> QED
    BY <1>1, <1>7, <1>9, <1>10, <1>11, <2>1
<1> QED
  BY <1>12, <1>13

LEMMA ReadLineNext == ASSUME ConfigInv, ReadLine PROVE ConfigInv'
<1>1. file # <<>> /\ file \in Seq(ConfigLines) /\ seen \in Seq(ConfigLines) /\ table \in [Slots -> Entry]
  BY DEF ReadLine, ConfigInv
<1> PICK line : line = file[1]
  OBVIOUS
<1>2. line \in ConfigLines /\ Insert(line[1], line[2]) /\ file' = Tail(file) /\ seen' = Append(seen, line)
  BY <1>1 DEF ReadLine
<1>3. PICK p \in Slots, new \in Entry :
              /\ table' = [table EXCEPT ![p] = new]
              /\ new.key = line[1] /\ new.key # "" /\ new.value # <<>>
              /\ \/ /\ table[p].key = "" /\ new.value = line[2]
                    /\ \E d \in Slots : p = Probe(line[1], d) /\ \A e \in 0..(d - 1) : table[Probe(line[1], e)].key # ""
                 \/ table[p].key = line[1]
  BY <1>2, InsertIs
<1>4. table' \in [Slots -> Entry] /\ table'[p] = new /\ \A q \in Slots : q # p => table'[q] = table[q]
  BY <1>1, <1>3
<1>5. file' \in Seq(ConfigLines) /\ seen' \in Seq(ConfigLines)
  BY <1>1, <1>2
<1> PICK n \in Nat : n = Len(seen)
  BY <1>1
<1>6. DOMAIN seen = 1..n /\ DOMAIN seen' = 1..(n + 1) /\ seen'[n + 1] = line /\ \A i \in 1..n : seen'[i] = seen[i]
  BY <1>1, <1>2
<1>7. \A q \in Slots : table'[q].key = "" <=> table'[q].value = <<>>
  BY <1>3, <1>4 DEF ConfigInv
<1>8. \A q \in Slots : table'[q].key # "" => \E i \in DOMAIN seen' : seen'[i][1] = table'[q].key
  <2> TAKE q \in Slots
  <2>1. CASE q = p
    <3>1. n + 1 \in DOMAIN seen'
      BY <1>6
    <3>2. seen'[n + 1] = line
      BY <1>6
    <3>3. table'[q].key = line[1]
      BY <1>3, <1>4, <2>1
    <3> QED
      BY <3>1, <3>2, <3>3
  <2>2. CASE q # p /\ table[q].key # ""
    <3>1. PICK i \in 1..n : seen[i][1] = table[q].key
      BY <1>6, <2>2 DEF ConfigInv
    <3>2. i \in DOMAIN seen' /\ seen'[i] = seen[i]
      BY <1>6
    <3> QED
      BY <1>4, <2>2, <3>1, <3>2
  <2> QED
    BY <1>4, <2>1, <2>2
\* A slot that was taken still is, and one that held a key holds it.
<1>9. \A q \in Slots : table[q].key # "" => table'[q].key = table[q].key
  BY <1>3, <1>4
<1>10. \A i \in DOMAIN seen' : Reached(table', seen'[i][1])
  <2> TAKE i \in DOMAIN seen'
  <2> PICK key : key = seen'[i][1]
    OBVIOUS
  <2>0. seen'[i] \in ConfigLines
    BY <1>5
  <2>1. key \in DOMAIN Hash /\ key # ""
    BY <2>0, LineIs
  <2>2. ASSUME Reached(table, key) PROVE Reached(table', key)
    <3>1. PICK d \in Slots : /\ table[Probe(key, d)].key = key
                             /\ \A e \in 0..(d - 1) : table[Probe(key, e)].key # ""
      BY <2>2 DEF Reached
    <3>2. d \in Nat /\ \A e \in Nat : Probe(key, e) \in Slots
      BY <2>1, ProbeIs, SlotsAre
    <3>3. table'[Probe(key, d)].key = key
      BY <1>9, <2>1, <3>1, <3>2
    <3>4. \A e \in 0..(d - 1) : table'[Probe(key, e)].key # ""
      <4> TAKE e \in 0..(d - 1)
      <4>1. e \in Nat
        BY <3>2
      <4>2. Probe(key, e) \in Slots
        BY <3>2, <4>1
      <4>3. table[Probe(key, e)].key # ""
        BY <3>1
      <4> QED
        BY <1>9, <4>2, <4>3
    <3> QED
      BY <3>3, <3>4 DEF Reached
  <2>3. CASE i \in 1..n
    <3>1. Reached(table, key)
      BY <1>6, <2>3 DEF ConfigInv
    <3> QED
      BY <2>2, <3>1
  <2>4. CASE i = n + 1
    <3>1. key = line[1]
      BY <1>6, <2>4
    <3>2. CASE table[p].key = line[1]
      <4>0. table[p].key # "" /\ table[p].key = key
        BY <2>1, <3>1, <3>2
      <4>1. \E j \in 1..n : seen[j][1] = key
        <5>1. \E j \in DOMAIN seen : seen[j][1] = table[p].key
          BY <4>0 DEF ConfigInv
        <5> QED
          BY <1>6, <4>0, <5>1
      <4>2. Reached(table, key)
        BY <1>6, <4>1 DEF ConfigInv
      <4> QED
        BY <2>2, <4>2
    <3>3. CASE \E d \in Slots : p = Probe(line[1], d) /\ \A e \in 0..(d - 1) : table[Probe(line[1], e)].key # ""
      <4>1. PICK d \in Slots : p = Probe(key, d) /\ \A e \in 0..(d - 1) : table[Probe(key, e)].key # ""
        BY <3>1, <3>3
      <4>2. d \in Nat /\ \A e \in Nat : Probe(key, e) \in Slots
        BY <2>1, ProbeIs, SlotsAre
      <4>3. table'[Probe(key, d)].key = key
        BY <1>3, <1>4, <3>1, <4>1
      <4>4. \A e \in 0..(d - 1) : table'[Probe(key, e)].key # ""
        <5> TAKE e \in 0..(d - 1)
        <5>1. e \in Nat
          BY <4>2
        <5>2. Probe(key, e) \in Slots
          BY <4>2, <5>1
        <5>3. table[Probe(key, e)].key # ""
          BY <4>1
        <5> QED
          BY <1>9, <5>2, <5>3
      <4>5. Reached(table', key)
        BY <4>3, <4>4 DEF Reached
      <4> QED
        BY <4>5
    <3> QED
      BY <1>3, <3>2, <3>3
  <2> QED
    BY <1>6, <2>3, <2>4
<1>11. \A i \in DOMAIN seen', q \in Slots : Once(i)' /\ table'[q].key = seen'[i][1] => table'[q].value = seen'[i][2]
  <2> SUFFICES ASSUME NEW i \in DOMAIN seen', NEW q \in Slots, Once(i)', table'[q].key = seen'[i][1]
               PROVE  table'[q].value = seen'[i][2]
    OBVIOUS
  <2>0. \A j \in 1..(n + 1) : seen'[j][1] = seen'[i][1] => j = i
    BY <1>6 DEF Once
  <2>1. CASE i \in 1..n
    <3>1. seen[i] = seen'[i] /\ seen'[i][1] # line[1]
      BY <1>6, <2>0, <2>1
    <3>2. Once(i)
      BY <1>6, <2>0, <2>1 DEF Once
    <3>3. q # p
      BY <1>3, <1>4, <3>1
    <3>4. table'[q] = table[q]
      BY <1>4, <3>3
    <3> QED
      BY <1>6, <2>1, <3>1, <3>2, <3>4, ZenonT(40) DEF ConfigInv
  <2>2. CASE i = n + 1
    <3>1. seen'[i] = line /\ \A j \in 1..n : seen[j][1] # line[1]
      BY <1>6, <2>0, <2>2
    <3>2. \A r \in Slots : table[r].key # line[1]
      <4> SUFFICES ASSUME NEW r \in Slots, table[r].key = line[1] PROVE FALSE
        OBVIOUS
      <4>1. line[1] # ""
        BY <1>2, LineIs
      <4>2. table[r].key # ""
        BY <4>1
      <4>3. PICK j \in DOMAIN seen : seen[j][1] = table[r].key
        BY <4>2 DEF ConfigInv
      <4>4. j \in 1..n /\ seen[j][1] = line[1]
        BY <1>6, <4>3
      <4> QED
        BY <3>1, <4>4
    <3>3. q = p
      BY <1>4, <3>1, <3>2
    <3> QED
      BY <1>3, <1>4, <3>1, <3>2, <3>3
  <2> QED
    BY <1>6, <2>1, <2>2
<1> QED
  BY <1>4, <1>5, <1>7, <1>8, <1>10, <1>11 DEF ConfigInv

LEMMA InitConfig == Init => ConfigInv
<1> SUFFICES ASSUME Init PROVE ConfigInv
  OBVIOUS
<1>1. PICK s \in Scenarios : ConfigInit(s.config)
  BY DEF Init
<1>2. s.config \in Seq(ConfigLines)
  BY AccountAssumption
<1>3. table = [p \in Slots |-> Empty] /\ file = s.config /\ seen = <<>>
  BY <1>1 DEF ConfigInit, Slots
<1>4. Empty \in Entry /\ Empty.key = "" /\ Empty.value = <<>>
  BY DEF Empty, Entry
<1>5. table \in [Slots -> Entry] /\ \A p \in Slots : table[p] = Empty
  BY <1>3, <1>4
<1>6. DOMAIN seen = {} /\ seen \in Seq(ConfigLines)
  BY <1>3
<1> QED
  BY <1>2, <1>3, <1>4, <1>5, <1>6 DEF ConfigInv

\* Every key of the configuration that was read is found, past collisions and round the
\* end of the table, and one that the file names once has its own value (config_table_insert,
\* config_table_find).  For a table of any size and any hash.
THEOREM ConfigAlwaysFound == Spec => []ConfigFound
<1>1. Init => ConfigInv
  BY InitConfig
<1>2. ConfigInv /\ [Next]_vars => ConfigInv'
  <2> SUFFICES ASSUME ConfigInv, [Next]_vars PROVE ConfigInv'
    OBVIOUS
  <2>1. CASE ReadLine
    BY <2>1, ReadLineNext
  <2>2. CASE UNCHANGED configVars
    BY <2>2 DEF configVars, ConfigInv, Reached, Once, Probe
  <2>3. ReadLine \/ UNCHANGED configVars
    <3>1. CASE ReadConfig
      BY <3>1 DEF ReadConfig
    <3>2. ASSUME NEW c \in Clients, Type(c) \/ Recv(c) \/ Vanish(c) PROVE UNCHANGED configVars
      BY <3>2 DEF Type, Recv, RecvSalt, RecvRefused, RecvDone, ClientMoves, Vanish
    <3>3. ASSUME NEW w \in Threads, Server(w) PROVE UNCHANGED configVars
      BY <3>3 DEF Server, Take, CheckQuery, CheckResult, Offer, RecvPasswd, SqlDoRegister, LoginQuery, LoginResult,
         Verify, FromClient
    <3>4. CASE OtherQuery \/ OtherFree
      BY <3>4 DEF OtherQuery, OtherFree
    <3>5. CASE UNCHANGED vars
      BY <3>5 DEF vars
    <3> QED
      BY <3>1, <3>2, <3>3, <3>4, <3>5 DEF Next
  <2> QED
    BY <2>1, <2>2, <2>3
<1> QED
  BY <1>1, <1>2, ConfigFoundIs, PTL DEF Spec
=============================================================================
