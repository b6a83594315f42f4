--------------------------- MODULE MCApplyCommits ---------------------------
(***************************************************************************)
(* A diamond on top of the root, a commit above it, and a commit with no   *)
(* dependency.  The hash order runs against the dependencies, so that the  *)
(* work list and the order of the graph disagree.  y waits for x forever.  *)
(***************************************************************************)
EXTENDS ApplyCommits, TLC

CONSTANTS r, a, b, m, t, x, y

MCCommit == {r, a, b, m, t, x, y}
MCDeps == (r :> {}) @@ (a :> {r}) @@ (b :> {r}) @@ (m :> {a, b})
          @@ (t :> {m, a}) @@ (x :> {}) @@ (y :> {x, a})
MCRank == (r :> 9) @@ (a :> 4) @@ (b :> 3) @@ (m :> 1) @@ (t :> 0) @@ (x :> 2)
          @@ (y :> 5)
=============================================================================
