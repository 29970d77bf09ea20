---------------------------- MODULE MCEarlyServer ----------------------------
EXTENDS EarlyServer, TLC

CONSTANTS s1, s2, a, m1

MCMainFd == s1 :> 1 @@ s2 :> 2
MCOwner == s1 :> 1 @@ s2 :> 2
L(cmd) == Line(cmd, a, m1)

\* A walk down and up beside a download; an upload from a directory the user leaves;
\* uploads of one content; removal.
MCScripts ==
    {s1 :> <<L("mkdir"), L("cd"), L("mkdir"), L("cd"), L("cd.."), L("cd..")>> @@ s2 :> <<>>,
     s1 :> <<L("mkdir"), L("cd"), L("cd..")>> @@ s2 :> <<L("gets")>>,
     s1 :> <<L("mkdir"), L("rmdir")>> @@ s2 :> <<L("gets")>>,
     s1 :> <<L("puts"), L("rm")>> @@ s2 :> <<L("puts")>>,
     s1 :> <<L("mkdir"), L("cd"), L("puts"), L("cd..")>> @@ s2 :> <<>>,
     s1 :> <<L("gets"), L("ls"), L("pwd")>> @@ s2 :> <<>>}
=============================================================================
