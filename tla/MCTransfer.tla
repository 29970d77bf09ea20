----------------------------- MODULE MCTransfer -----------------------------
(* TLC instance of Transfer: downloads killed and resumed, two uploads of one    *)
(* content, an upload and a download of it.                                      *)
EXTENDS Transfer, TLC

CONSTANTS c1, c2, m1, m2, m3

Files == m1 :> <<"a", "b", "c", "d">> @@ m2 :> <<"e">> @@ m3 :> <<"f", "g", "h", "i">>

Get(m) == <<"gets", m>>
Put(m) == <<"puts", m>>
Case(t1, t2, stored, k1, k2, closes) ==
    [todo |-> c1 :> t1 @@ c2 :> t2, stored |-> stored, kills |-> c1 :> k1 @@ c2 :> k2,
     closes |-> closes]

Cases == {Case(<<Get(m1), Get(m3)>>, <<>>, {m1, m3}, 1, 0, FALSE),
          Case(<<Put(m1)>>, <<>>, {}, 1, 0, FALSE),
          Case(<<Put(m2)>>, <<Put(m2)>>, {}, 0, 1, FALSE),
          Case(<<Put(m2)>>, <<Get(m2)>>, {}, 0, 0, TRUE)}
=============================================================================
