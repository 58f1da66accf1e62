------------------------------ MODULE MCEmbed ------------------------------
(* Two engines on two host threads and one worker.  The first engine       *)
(* compiles twice, registers a callback and nests calls; the second only   *)
(* compiles and lets go, which is all the shared runtime sees of it.       *)
EXTENDS Embed, TLC

CONSTANTS e1, e2

MCCode == e1 :> 2 @@ e2 :> 1
MCIds == e1 :> 1 @@ e2 :> 0
MCCalls == e1 :> 2 @@ e2 :> 0

=============================================================================
