----------------------------- MODULE MCCoMutex -----------------------------
(***************************************************************************)
(* Constants of CoMutex for TLC: three coroutines on two contexts, two of  *)
(* them on the first.                                                      *)
(***************************************************************************)
EXTENDS CoMutex, TLC

CONSTANTS c1, c2, c3, x1, x2

MCHome == c1 :> x1 @@ c2 :> x1 @@ c3 :> x2
=============================================================================
