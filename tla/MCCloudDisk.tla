----------------------------- MODULE MCCloudDisk -----------------------------
(* TLC instance of CloudDisk: two clients, one after the other, of one user, so *)
(* that a download is killed and taken up again and a descriptor is reused; the *)
(* second one may have two commands under way, one of them for an empty file.   *)
EXTENDS CloudDisk, TLC

CONSTANTS small, large, empty, nofile, c1, c2

OneUser == [c \in Clients |-> "u"]
Sizes   == small :> 2 @@ large :> 3 @@ empty :> 0
Bounds  == c1 :> 1 @@ c2 :> 2
Short   == c1 :> {"pwd", "mkdir", "rmdir"} @@ c2 :> {}
Wanted  == c1 :> {small, large, nofile} @@ c2 :> {small, large, empty}
=============================================================================
