------------------------------- MODULE Account -------------------------------
(***************************************************************************)
(* The start of the route server and the two dialogues that come before    *)
(* any command: registration and login, of the programs under              *)
(* Net_Disk_v1, v2 and v3.  In v1 and v2 the event loop runs the dialogue, *)
(* in v3 a thread of the pool does; in all of them the threads share one   *)
(* MySQL connection without a lock, on which a query fails while the       *)
(* result of another one is still open.                                    *)
(*                                                                         *)
(* crypt is a constructor: Crypt(pw, salt) says what it was made from.  An *)
(* empty string is NULL (salt) or <<>> (encrypted password).               *)
(***************************************************************************)
EXTENDS ConfigTable

CONSTANTS Clients, Workers, Salts,
          Other,          \* a thread of the pool that runs a transfer command
          MayVanish,      \* clients whose process may be killed
          MaxOther,       \* bound: queries of the transfer commands
          Scenarios       \* initial states, see Init

\* What a user types, and the rows of a table that no registration has touched yet.
Kinds   == {"register", "login"}
Typed   == Kinds \X STRING \X STRING
Crypted == STRING \X Salts
OldRows == [name : STRING, salt : Salts, pass : Crypted \cup {<<>>}, known : {-1}]

ASSUME AccountAssumption ==
    /\ Workers # {} /\ Other \notin Workers
    /\ MayVanish \subseteq Clients /\ MaxOther \in Nat
    /\ NULL \notin Workers \cup {Other} \cup Clients \cup Salts
    /\ NULL \notin Int /\ NULL \notin Crypted /\ NULL \notin Kinds \X STRING
    /\ \A s \in Scenarios : /\ s.version \in {"v1", "v2", "v3"}
                            /\ s.users \in Seq(OldRows)
                            /\ s.todo \in [Clients -> Seq(Typed)]
                            /\ s.config \in Seq(ConfigLines)

VARIABLES version,        \* which of the three programs runs
          users,          \* user_table; a row's user_id is its place
          res,            \* who holds an open result on the connection, or NULL
          others,         \* queries made by transfer commands
          userExist,      \* v2: the global user_exist
          cl,             \* client processes
          request,        \* request[c]: a train on c's connection, or NULL
          passwd,         \* passwd[c]: the encrypted password on c's connection, or NULL
          reply,          \* reply[c]: what the server sent to c and c has not read
          wk,             \* server threads
          sess            \* client->uid of c's connection

accountVars == <<version, users, res, others, userExist, cl, request, passwd, reply, wk, sess>>
vars == <<configVars, accountVars>>

NotIn == -1
Crypt(pw, salt) == <<pw, salt>>

\* v1 and v2 have one thread for the dialogues, the event loop.
Threads == IF version = "v3" THEN Workers ELSE {CHOOSE w \in Workers : TRUE}

Idle == [at |-> "idle", c |-> NULL, name |-> "", row |-> NULL, known |-> 0, salt |-> NULL,
         pass |-> <<>>]
Served(c) == \E w \in Threads : wk[w].c = c
Alive(c) == cl[c].at # "dead"

Init == \E s \in Scenarios :
    /\ ConfigInit(s.config)
    /\ version = s.version /\ users = s.users /\ res = NULL /\ others = 0 /\ userExist = 1
    /\ cl = [c \in Clients |-> [at |-> "menu", todo |-> s.todo[c], name |-> "", pw |-> "",
                                rows |-> 0, refused |-> FALSE, blind |-> FALSE]]
    /\ request = [c \in Clients |-> NULL] /\ passwd = [c \in Clients |-> NULL]
    /\ reply = [c \in Clients |-> <<>>]
    /\ wk = [w \in Workers |-> Idle] /\ sess = [c \in Clients |-> NotIn]

\* The first rows of main: the configuration is read before the server listens.
ReadConfig == ReadLine /\ UNCHANGED accountVars

-----------------------------------------------------------------------------
(* The client, after its menu.                                             *)

\* do_register or do_login: name and password are typed, the name is sent.
Type(c) ==
    /\ file = <<>> /\ cl[c].at = "menu" /\ cl[c].todo # <<>>
    /\ LET line == Head(cl[c].todo) IN
       /\ cl' = [cl EXCEPT ![c].at = "asked", ![c].name = line[2], ![c].pw = line[3],
                           ![c].rows = Len(users)]
       /\ request' = [request EXCEPT ![c] = <<line[1], line[2]>>]
    /\ UNCHANGED <<configVars, version, users, res, others, userExist, passwd, reply, wk, sess>>

ClientMoves(c, new) ==
    /\ cl' = [cl EXCEPT ![c] = new]
    /\ reply' = [reply EXCEPT ![c] = Tail(@)]
    /\ UNCHANGED <<configVars, version, users, res, others, userExist, request, wk, sess>>

\* crypt refuses an empty salt, and the client reads through the null pointer.
RecvSalt(c) ==
    /\ Alive(c) /\ reply[c] # <<>> /\ Head(reply[c])[1] = "salt"
    /\ LET salt == Head(reply[c])[2] IN
       IF salt = NULL
       THEN ClientMoves(c, [cl[c] EXCEPT !.at = "dead"]) /\ passwd' = passwd
       ELSE /\ ClientMoves(c, [cl[c] EXCEPT !.at = "sent"])
            /\ passwd' = [passwd EXCEPT ![c] = Crypt(cl[c].pw, salt)]

\* A name that is taken, an unknown name, a wrong password: the client exits.
RecvRefused(c) ==
    /\ Alive(c) /\ reply[c] # <<>> /\ Head(reply[c])[1] = "refused"
    /\ ClientMoves(c, [cl[c] EXCEPT !.at = "dead", !.refused = (Head(cl[c].todo)[1] = "login")])
    /\ passwd' = passwd

RecvDone(c) ==
    /\ Alive(c) /\ reply[c] # <<>> /\ Head(reply[c])[1] = "done"
    /\ ClientMoves(c, [cl[c] EXCEPT !.at = IF Head(cl[c].todo)[1] = "login" THEN "in" ELSE "menu",
                                    !.todo = Tail(@)])
    /\ passwd' = passwd

Vanish(c) ==
    /\ file = <<>> /\ c \in MayVanish /\ cl[c].at \in {"asked", "sent"}
    /\ cl' = [cl EXCEPT ![c].at = "dead"]
    /\ UNCHANGED <<configVars, version, users, res, others, userExist, request, passwd, reply, wk, sess>>

-----------------------------------------------------------------------------
(* The server: the thread w.                                               *)

Step(w, new) == wk' = [wk EXCEPT ![w] = new]
Goto(w, at) == Step(w, [wk[w] EXCEPT !.at = at])
Send(w, msg) == reply' = [reply EXCEPT ![wk[w].c] = Append(@, msg)]
FromClient == <<configVars, version, others, request>>

\* Rows of a name; mysql_fetch_row gives the first, the loop of v2 ends with the last.
RowsOf(name) == {i \in DOMAIN users : users[i].name = name}
Row(name) == IF RowsOf(name) = {} THEN NULL
             ELSE IF version = "v2" THEN Max(RowsOf(name)) ELSE Min(RowsOf(name))

\* recv_cmd and cmd_analyse.
Take(w, c) ==
    /\ wk[w] = Idle /\ request[c] # NULL /\ ~Served(c)
    /\ Step(w, [Idle EXCEPT !.at = request[c][1], !.c = c, !.name = request[c][2]])
    /\ request' = [request EXCEPT ![c] = NULL]
    /\ UNCHANGED <<configVars, version, users, res, others, userExist, cl, passwd, reply, sess>>

\* mysql_query and mysql_use_result of a SELECT, or its failure.
Query(w, at) ==
    /\ res = NULL
    /\ res' = w
    /\ Step(w, [wk[w] EXCEPT !.at = at, !.row = Row(wk[w].name), !.known = Len(users)])

\* sql_check_dup_user_name; a query that fails says that the name is free.
CheckQuery(w) ==
    /\ wk[w].at = "register"
    /\ \/ Query(w, "checked")
       \/ res # NULL /\ res' = res /\ Step(w, [wk[w] EXCEPT !.at = "offer", !.known = -1])
    /\ UNCHANGED <<FromClient, users, userExist, cl, passwd, reply, sess>>

\* Mutant: no return after the answer that the name exists.
CheckResultGoesOn(w) ==
    /\ wk[w].at = "checked"
    /\ res' = NULL
    /\ IF wk[w].row # NULL THEN Send(w, <<"refused">>) ELSE UNCHANGED reply
    /\ Goto(w, "offer")
    /\ UNCHANGED <<FromClient, users, userExist, cl, passwd, sess>>

CheckResult(w) ==
    /\ wk[w].at = "checked"
    /\ res' = NULL
    /\ IF wk[w].row # NULL
       THEN Step(w, Idle) /\ Send(w, <<"refused">>)
       ELSE Goto(w, "offer") /\ UNCHANGED reply
    /\ UNCHANGED <<FromClient, users, userExist, cl, passwd, sess>>

\* do_register sends a new salt.
Offer(w) ==
    /\ wk[w].at = "offer"
    /\ \E s \in Salts : Send(w, <<"salt", s>>) /\ Step(w, [wk[w] EXCEPT !.at = "password", !.salt = s])
    /\ UNCHANGED <<FromClient, users, res, userExist, cl, passwd, sess>>

\* recvn: the encrypted password or, from a client that has gone, nothing.
Received(c) == \/ passwd[c] # NULL
               \/ ~Alive(c)
Receive(w, at) ==
    LET c == wk[w].c IN
    /\ Received(c)
    /\ Step(w, [wk[w] EXCEPT !.at = at, !.pass = IF passwd[c] = NULL THEN <<>> ELSE passwd[c]])
    /\ passwd' = [passwd EXCEPT ![c] = NULL]

\* Mutant: the registration waits for a client that has gone.
RecvPasswdWaits(w) == /\ wk[w].at = "password" /\ passwd[wk[w].c] # NULL
                      /\ Receive(w, "insert")
                      /\ UNCHANGED <<FromClient, users, res, userExist, cl, reply, sess>>

\* The result of recvn is not looked at.
RecvPasswd(w) == /\ wk[w].at = "password"
                 /\ Receive(w, "insert")
                 /\ UNCHANGED <<FromClient, users, res, userExist, cl, reply, sess>>

\* sql_do_register and the answer; told of success or failure, the client goes on alike.
SqlDoRegister(w) ==
    /\ wk[w].at = "insert"
    /\ users' = IF res # NULL THEN users
                ELSE Append(users, [name |-> wk[w].name, salt |-> wk[w].salt,
                                    pass |-> wk[w].pass, known |-> wk[w].known])
    /\ Send(w, <<"done">>) /\ Step(w, Idle)
    /\ UNCHANGED <<FromClient, res, userExist, cl, passwd, sess>>

\* sql_do_login; a query that fails returns 0 with an empty salt, an empty password and
\* user 0 in v1 and v3, and an error in v2.
LoginQuery(w) ==
    /\ wk[w].at = "login"
    /\ \/ Query(w, "found") /\ UNCHANGED <<cl, reply>>
       \/ /\ res # NULL /\ res' = res
          /\ cl' = [cl EXCEPT ![wk[w].c].blind = TRUE]
          /\ IF version = "v2"
             THEN Step(w, Idle) /\ Send(w, <<"refused">>)
             ELSE /\ Step(w, [wk[w] EXCEPT !.at = "verify", !.row = 0])
                  /\ Send(w, <<"salt", NULL>>)
    /\ UNCHANGED <<FromClient, users, userExist, passwd, sess>>

\* An unknown name is refused; in v2 it also clears user_exist, for good.
LoginResult(w) ==
    /\ wk[w].at = "found"
    /\ res' = NULL
    /\ IF wk[w].row = NULL
       THEN /\ Step(w, Idle) /\ Send(w, <<"refused">>)
            /\ userExist' = IF version = "v2" THEN 0 ELSE userExist
       ELSE /\ Goto(w, "verify") /\ Send(w, <<"salt", users[wk[w].row].salt>>)
            /\ UNCHANGED userExist
    /\ UNCHANGED <<FromClient, users, cl, passwd, sess>>

\* The encrypted password sql_do_login has read.
Stored(w) == IF wk[w].row = 0 THEN <<>> ELSE users[wk[w].row].pass

\* Mutant: the salts are compared, not the passwords.
MatchesSalt(w, pass) == pass # <<>> => pass[2] = users[wk[w].row].salt

\* strcmp
Matches(w, pass) == pass = Stored(w)

\* Comparison, answer and the session; v2 looks at the result of recvn, and sends
\* user_exist before login_ok.
Verify(w) ==
    LET c == wk[w].c
        pass == IF passwd[c] = NULL THEN <<>> ELSE passwd[c]
        ok == Matches(w, pass) /\ (version = "v2" => pass # <<>>)
    IN /\ wk[w].at = "verify" /\ Received(c)
       /\ Step(w, Idle)
       /\ passwd' = [passwd EXCEPT ![c] = NULL]
       /\ sess' = IF ok THEN [sess EXCEPT ![c] = wk[w].row] ELSE sess
       /\ Send(w, IF ok /\ userExist = 1 THEN <<"done">> ELSE <<"refused">>)
       /\ UNCHANGED <<FromClient, users, res, userExist, cl>>

\* A transfer command of the pool has its result open for a while.
OtherQuery == /\ file = <<>> /\ res = NULL /\ others < MaxOther
              /\ res' = Other /\ others' = others + 1
              /\ UNCHANGED <<configVars, version, users, userExist, cl, request, passwd, reply, wk, sess>>
OtherFree == /\ res = Other /\ res' = NULL
             /\ UNCHANGED <<configVars, version, users, others, userExist, cl, request, passwd, reply, wk, sess>>

Server(w) == \/ \E c \in Clients : Take(w, c)
             \/ CheckQuery(w) \/ CheckResult(w) \/ Offer(w) \/ RecvPasswd(w) \/ SqlDoRegister(w)
             \/ LoginQuery(w) \/ LoginResult(w) \/ Verify(w)
Recv(c) == RecvSalt(c) \/ RecvRefused(c) \/ RecvDone(c)

Next == \/ ReadConfig
        \/ \E c \in Clients : Type(c) \/ Recv(c) \/ Vanish(c)
        \/ \E w \in Threads : Server(w)
        \/ OtherQuery \/ OtherFree

Spec == Init /\ [][Next]_vars

\* The machine runs every thread and every process that can go on; a client that waits
\* for nobody but its user is not asked to.
FairSpec == /\ Spec
            /\ WF_vars(ReadConfig) /\ WF_vars(OtherFree)
            /\ \A c \in Clients : WF_vars(Recv(c))
            /\ \A w \in Workers : WF_vars(w \in Threads /\ Server(w))

-----------------------------------------------------------------------------

TypeOK ==
    /\ res \in Workers \cup {Other, NULL} /\ userExist \in {0, 1} /\ others \in 0..MaxOther
    /\ \A i \in DOMAIN users : users[i].salt \in Salts /\ users[i].known \in -1..(i - 1)
    /\ \A c \in Clients : /\ cl[c].at \in {"menu", "asked", "sent", "in", "dead"}
                          /\ sess[c] \in -1..Len(users)
    /\ \A w \in Workers : wk[w].at = "verify" => wk[w].row \in 0..Len(users)

\* Two rows of one name (the table has no unique key): the second was checked while the
\* first was not yet inserted, which takes the pool of v3, or its check failed on the
\* shared connection (do_register.c, sql_check_dup_user_name).
NamesUnique ==
    \A i, j \in DOMAIN users :
        i < j /\ users[i].name = users[j].name =>
            /\ users[j].known < i
            /\ version = "v1" => users[j].known = -1

\* A connection that acts for a user and whose client is there belongs to a client that
\* has that user's name and password, also when the query of its login failed or the
\* user's row holds the empty password of a registration that broke off (do_login.c).
LoginSound ==
    \A c \in Clients :
        sess[c] # NotIn =>
            \/ cl[c].at = "dead"
            \/ /\ sess[c] \in DOMAIN users
               /\ users[sess[c]].name = cl[c].name
               /\ users[sess[c]].pass = Crypt(cl[c].pw, users[sess[c]].salt)

\* A client whose row was there when it asked, with its password, is turned away only if
\* the name has two rows or, in v2, if the query failed or some login since the start
\* named an unknown user.
RefusedRightly ==
    \A c \in Clients :
        cl[c].refused =>
            \A i \in 1..cl[c].rows :
                (users[i].name = cl[c].name /\ users[i].pass = Crypt(cl[c].pw, users[i].salt))
                    => \/ \E j \in DOMAIN users : j # i /\ users[j].name = cl[c].name
                       \/ version = "v2" /\ (cl[c].blind \/ userExist = 0)

\* Login lets in those it should and only those.
LoginInv == TypeOK /\ LoginSound /\ RefusedRightly

\* A client that has typed its name and password comes to an end of the dialogue, also
\* when others vanish in the middle of theirs and the one thread of v1 waits for them.
DialogueEnds == \A c \in Clients : cl[c].at \in {"asked", "sent"} ~> cl[c].at \in {"menu", "in", "dead"}

\* Neither a dialogue nor the reading of the configuration goes on for ever.
AllEnds == DialogueEnds /\ ConfigRead
=============================================================================
