---- MODULE MCRendering ----
(* Two windows: the first changes between a small and an oversized image, the
   second shows an oversized one, and both together do not fit the budget. *)
EXTENDS Rendering, TLC
CONSTANTS a, b
Image(size, damage) == [size |-> size, damage |-> damage]
MCRequests == a :> {Image(1, TRUE), Image(3, TRUE), Image(1, FALSE)}
                @@ b :> {Image(3, TRUE), Image(5, TRUE), Removed}
MCMaxCommits == a :> 2 @@ b :> 1
====
