------------------------------ MODULE MCFutures ------------------------------
(* Two futures and a token.  Both threads can be inside calls on the first *)
(* future and on the token at once; the second future is there for the     *)
(* token's list and for a cancellation that has more than one to settle.   *)
EXTENDS Futures, TLC

CONSTANTS f1, f2, k1

MCHandles == f1 :> 2 @@ f2 :> 1 @@ k1 :> 2

=============================================================================
