----------------------------- MODULE MCAccount -----------------------------
EXTENDS Account, TLC

CONSTANTS c1, c2, c3, s1, s2

\* Three keys that collide on the last slot of the table, and one on the first.
MCHash == [sql_server |-> 2, sql_user |-> 2, sql_passwd |-> 2, route_ip |-> 0]
Lines(keys) == [i \in DOMAIN keys |-> <<keys[i], <<"v", "w">>>>]
Repeated == <<<<"sql_user", <<"v", "w">>>>, <<"sql_user", <<"x">>>>>>
NoTodo == [c \in Clients |-> <<>>]
Scenario(v, rows, config, todo) ==
    [version |-> v, users |-> rows, config |-> config, todo |-> todo @@ NoTodo]
Ann == [name |-> "ann", salt |-> s1, pass |-> Crypt("p", s1), known |-> -1]

\* Registrations of one name and logins with the right and a wrong password; the
\* unknown user of v2; configuration files that collide, repeat a key or fill the table.
MCScenarios ==
    {Scenario(v, <<Ann>>, <<>>, todo) : v \in {"v1", "v3"}, todo \in
        {c1 :> <<<<"register", "bob", "p">>, <<"login", "bob", "p">>>> @@ c2 :> <<<<"register", "bob", "q">>, <<"login", "bob", "q">>>>,
         c1 :> <<<<"register", "bob", "p">>>> @@ c2 :> <<<<"login", "ann", "q">>>> @@ c3 :> <<<<"login", "ann", "p">>>>}}
    \cup {Scenario("v2", <<Ann>>, <<>>, c1 :> <<<<"login", "bob", "p">>>> @@ c2 :> <<<<"login", "ann", "q">>>>
                                     @@ c3 :> <<<<"login", "ann", "p">>>>)}
    \cup {Scenario("v3", <<>>, Lines(keys), <<>>) :
             keys \in {<<"sql_user", "sql_server", "route_ip">>, <<"route_ip", "sql_passwd", "sql_user", "sql_server">>}}
    \cup {Scenario("v1", <<>>, Repeated, <<>>)}
=============================================================================
