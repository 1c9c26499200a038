---------------------------- MODULE MCCommitQueue ----------------------------
(* A loop: a conditional branch at 0 to the two arms 1 and 2, which meet   *)
(* at 3, which jumps back.  The front end may predict the branch either    *)
(* way, and may predict a stale target for the jump at 1.                  *)
(* At 4, apart from it, straight-line code in a loop, always predicted     *)
(* right.                                                                  *)
EXTENDS CommitQueue, TLC

MCLine    == (4 :> {5}) @@ (5 :> {6}) @@ (6 :> {7}) @@ (7 :> {4})
MCSucc    == (0 :> {1, 2}) @@ (1 :> {3}) @@ (2 :> {3}) @@ (3 :> {0}) @@ MCLine
MCPredict == (0 :> {1, 2}) @@ (1 :> {0, 3}) @@ (2 :> {3}) @@ (3 :> {0}) @@ MCLine
=============================================================================
