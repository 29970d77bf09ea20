-------------------------------- MODULE MCXp --------------------------------
(* TLC instance of Xp: two users and, in turn, a directory each, two uploads of *)
(* one content, an upload and a download, commands and login attempts against   *)
(* an upload, an upload before the login; three users, one of whom ends in an   *)
(* upload while the others connect; and a content that is mapped, uploaded by   *)
(* one user and resumed by another from inside a page and from the end of one.  *)
EXTENDS Xp, TLC

CONSTANTS p1, p2, p3, m1, m2

Uploads  == p1 :> m1 @@ p2 :> m1 @@ p3 :> m2
Contents == m1 :> <<"a", "b">> @@ m2 :> <<"a", "b", "c">>
Aligned  == {0, 2}

Login  == <<"login", "right">>
Line(c) == <<c, File>>
Case(t1, t2, known, quit, copy) ==
    [runs |-> {p1, p2}, todo |-> p1 :> t1 @@ p2 :> t2 @@ p3 :> <<>>, known |-> known,
     quit |-> quit, disk |-> p1 :> <<>> @@ p2 :> copy @@ p3 :> <<>>]

Cases == {Case(<<Login, <<"mkdir", "d">>, <<"cd", "d">>, Line("puts"), Line("rm")>>,
               <<Login, <<"mkdir", "d">>, Line("rm")>>, {}, {}, <<>>),
          Case(<<Login, Line("puts")>>, <<Line("puts")>>, {}, {p2}, <<>>),
          Case(<<Login, <<"cd", "d">>, <<"cd", "..">>, Line("ls"), Line("rm")>>,
               <<<<"login", "wrong">>, Login, Line("puts")>>, {p2}, {p2}, <<>>),
          Case(<<Line("puts")>>, <<Login, Line("puts"), <<"cd", "/">>>>, {p1}, {}, <<>>),
          [Case(<<Login, Line("puts")>>, <<Login>>, {}, {p1}, <<>>) EXCEPT !.runs = Procs]}
         \cup {Case(<<Login, Line("puts")>>, <<Login, Line("gets")>>, {}, {}, c) :
                  c \in {<<>>, <<"a">>, <<"x">>}}
         \cup {[runs |-> {p2, p3}, todo |-> p1 :> <<>> @@ p2 :> <<Login, Line("gets")>> @@ p3 :> <<Login, Line("puts")>>,
                 known |-> {}, quit |-> {}, disk |-> p1 :> <<>> @@ p2 :> c @@ p3 :> <<>>] :
                  c \in {<<>>, <<"a">>, <<"a", "b">>}}
=============================================================================
