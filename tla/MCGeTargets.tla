----------------------------- MODULE MCGeTargets -----------------------------
(* Two targets for three framebuffers.  The first is drawn to in two       *)
(* shapes, each with a depth buffer of its own, is sampled in one of them  *)
(* and is the source of transfers; the others differ only in name.         *)
EXTENDS GeTargets, TLC

CONSTANTS a, b, c, u, v, y, z

MCSettings ==
    {[fba |-> a, shape |-> u, depth |-> y], [fba |-> a, shape |-> v, depth |-> z],
     [fba |-> b, shape |-> u, depth |-> y], [fba |-> c, shape |-> u, depth |-> y]}

MCTextures == {None, [fba |-> a, shape |-> u]}

MCCopies == {<<<<a, p>>, <<fba, p>>>> : fba \in {b, c}, p \in Parts}

Symmetric == Permutations(Parts) \cup Permutations({b, c})
=============================================================================
