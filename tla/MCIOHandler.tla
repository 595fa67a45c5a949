---------------------------- MODULE MCIOHandler ----------------------------
(* Instances of IOHandler for TLC: one process with one or two handles,    *)
(* another with one. *)
EXTENDS IOHandler, TLC

CONSTANTS a1, a2, b1
mcOwner == [h \in Handles |-> IF h = b1 THEN "B" ELSE "A"]
mcSymmetry == Permutations({a1, a2})
mcBuffers == {<<1>>, <<1, 2>>}

\* A behaviour ends when a process has two handles at once, since each property
\* excepts what happens to it from then on.
UntilDoubled == doubled = {}
=============================================================================
