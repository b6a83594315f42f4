--------------------------- MODULE MCReplication ---------------------------
(***************************************************************************)
(* Commits are numbers in the order of their hashes.  Which of them a      *)
(* transaction gets is open, so every order of hashes is tried.            *)
(***************************************************************************)
EXTENDS Replication, TLC

CONSTANT Clash  \* commits that write the same primary key

MCRank == [c \in Commit |-> c]

\* A key that is taken by another commit.
MCRefuses(g, c) == c \in Clash /\ g \cap Clash # {}

\* Replicas differ in nothing but their name.
MCSymmetry == Permutations(Replica)
=============================================================================
