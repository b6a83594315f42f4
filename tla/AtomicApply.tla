---------------------------- MODULE AtomicApply ----------------------------
(***************************************************************************)
(* What a coln store promises about the set of commits it holds: a call is  *)
(* asked for a set of commits and answers in one step.                     *)
(*                                                                         *)
(* `applied' is the set of commits recorded in the commit graph, `kept'    *)
(* the commits that Store::apply_chunk_bytes buffers until their           *)
(* dependencies arrive, `saved' the last snapshot written by encode_store, *)
(* `open' whether a store is in memory at all, and `request' the call that *)
(* is running.                                                             *)
(***************************************************************************)
CONSTANTS
  Commit,   \* every commit hash that can ever be seen
  Root,     \* the root commit this store was built from
  Deps      \* Deps[c]: the hashes commit c depends on

VARIABLES applied, kept, saved, open, request

avars == <<applied, kept, saved, open, request>>

\* A set of commits that could be applied on top of g, in some order.
Extends(g, S) == \A c \in S : Deps[c] # {} /\ Deps[c] \subseteq g \cup S

\* Everything of the batch b that can be applied on top of g.
Appliable(g, b) == UNION {S \in SUBSET (b \ g) : Extends(g, S)}

NoRequest == [op |-> "none", all |-> {}]

Init ==
  /\ applied = {Root}
  /\ kept = {}
  /\ saved = {Root}
  /\ open = TRUE
  /\ request = NoRequest

Idle == open /\ request = NoRequest

\* Store::apply_commits (op "direct") is asked for b, Store::apply_chunk_bytes
\* (op "chunks") for b and what is kept.
Ask(op, b) ==
  /\ Idle
  /\ LET all == (IF op = "chunks" THEN b \cup kept ELSE b) \ applied
     IN  /\ \A c \in all : Deps[c] # {}
         /\ request' = [op |-> op, all |-> all]
  /\ UNCHANGED <<applied, kept, saved, open>>

\* A commit without dependencies makes either refuse all it was asked for;
\* apply_chunk_bytes then keeps nothing of what it kept before.
Refuse(b) ==
  /\ Idle
  /\ \E c \in (b \cup kept) \ applied : Deps[c] = {}
  /\ kept' = {}
  /\ UNCHANGED <<applied, saved, open, request>>

Answer == request # NoRequest /\ request' = NoRequest /\ UNCHANGED <<saved, open>>

\* All that can be applied is.  The rest is returned, or kept.
Succeed ==
  /\ Answer
  /\ applied' = applied \cup Appliable(applied, request.all)
  /\ kept' = IF request.op = "chunks" THEN request.all \ applied' ELSE kept

\* A call that meets an error has applied some commits and stops in front of
\* one it could have applied next.  A failed apply_chunk_bytes keeps nothing.
Fail ==
  /\ Answer
  /\ \E S \in SUBSET Appliable(applied, request.all) :
       /\ Extends(applied, S)
       /\ \E c \in Appliable(applied, request.all) \ S :
            Deps[c] \subseteq applied \cup S
       /\ applied' = applied \cup S
  /\ kept' = IF request.op = "chunks" THEN {} ELSE kept

Save ==
  /\ Idle
  /\ saved' = applied
  /\ UNCHANGED <<applied, kept, open, request>>

\* The process goes away: the kept commits are not persisted.
Close ==
  /\ Idle
  /\ applied' = {}
  /\ kept' = {}
  /\ open' = FALSE
  /\ UNCHANGED <<saved, request>>

\* A successful decode_store brings back exactly what was saved.
Load ==
  /\ ~open
  /\ applied' = saved
  /\ open' = TRUE
  /\ UNCHANGED <<kept, saved, request>>

Next ==
  \/ \E b \in SUBSET Commit :
       Ask("direct", b) \/ Ask("chunks", b) \/ Refuse(b)
  \/ Succeed \/ Fail
  \/ Save \/ Close \/ Load

Spec == Init /\ [][Next]_avars
=============================================================================
