---------------------------- MODULE ApplyCommits ----------------------------
(***************************************************************************)
(* The commit side of one coln store: the commit graph (commit/graph.rs),  *)
(* Store::apply_commits (store/mod.rs), the buffer of commits that arrived *)
(* before their dependencies (store/frag.rs) and the snapshot file         *)
(* (commit/pst.rs).                                                        *)
(*                                                                         *)
(* apply_commits is a work-list loop that calls fallible code, so every    *)
(* iteration is a step.  What a commit does to the tables is left to       *)
(* StoreCore; here apply_commit_atomic either succeeds or fails.           *)
(***************************************************************************)
EXTENDS Naturals, FiniteSets

CONSTANTS
  Commit,   \* every commit hash that can ever be seen
  Root,     \* the root commit this store was built from
  Deps,     \* Deps[c]: the hashes commit c depends on
  Rank      \* Rank[c]: the place of c in the byte order of hashes

ASSUME RootAssumption == Root \in Commit

\* Commits name their dependencies by hash, so dependencies are well founded:
\* every non-empty set has a member that depends on no member of the set.
ASSUME DepsAssumption ==
  /\ Deps \in [Commit -> SUBSET Commit]
  /\ Deps[Root] = {}
  /\ \A c \in Commit : IsFiniteSet(Deps[c])
  /\ \A S \in SUBSET Commit : S # {} => \E c \in S : Deps[c] \cap S = {}

ASSUME RankAssumption == Rank \in [Commit -> Nat]

VARIABLES
  graph,      \* CommitGraph.commits: the recorded commits
  children,   \* CommitGraph.children
  heads,      \* CommitGraph.heads
  buffer,     \* Store.pending_commits
  disk,       \* the chunks of the last encode_store
  pc,         \* "idle", "loop" (inside apply_commits), "closed" (no store)
  caller,     \* who called apply_commits: "direct", "chunks", "load" or "none"
  batch,      \* the local `pending`: commits not applied yet
  unsatisfied,\* the local `unsatisfied`; 0 stands for an absent entry
  waiting,    \* the local `waiting_on`; {} stands for an absent entry
  ready,      \* the local `ready`
  entry       \* history only: graph and buffer when the call began

graphVars == <<graph, children, heads>>
callVars == <<caller, batch, unsatisfied, waiting, ready, entry>>
vars == <<graph, children, heads, buffer, disk, pc, caller, batch,
          unsatisfied, waiting, ready, entry>>

NoChildren == [c \in Commit |-> {}]
NoCount == [c \in Commit |-> 0]

\* A root of another store, or a commit with no dependency at all.
Malformed == {c \in Commit : Deps[c] = {}}

-----------------------------------------------------------------------------
\* Locals are dropped when apply_commits returns.
DropLocals ==
  /\ caller' = "none"
  /\ batch' = {}
  /\ unsatisfied' = NoCount
  /\ waiting' = NoChildren
  /\ ready' = {}
  /\ entry' = [graph |-> {}, buffer |-> {}]

\* Mutant of Prepare: every unmet dependency counts, but a commit is queued
\* only behind its least one.
PrepareWaitsOnOne(who, g, pending) ==
  /\ caller' = who
  /\ batch' = pending
  /\ unsatisfied' =
       [c \in Commit |-> IF c \in pending THEN Cardinality(Deps[c] \ g) ELSE 0]
  /\ waiting' =
       [d \in Commit |-> {c \in pending : /\ d \in pending \cap Deps[c]
                                          /\ \A e \in pending \cap Deps[c] :
                                               Rank[d] <= Rank[e]}]
  /\ ready' = {c \in pending : Deps[c] \subseteq g}

\* The two loops before the work list: which dependencies each pending commit
\* still lacks, who waits on whom, and what is ready at once.
Prepare(who, g, pending) ==
  /\ caller' = who
  /\ batch' = pending
  /\ unsatisfied' =
       [c \in Commit |-> IF c \in pending THEN Cardinality(Deps[c] \ g) ELSE 0]
  /\ waiting' =
       [d \in Commit |-> IF d \in pending THEN {c \in pending : d \in Deps[c]}
                                          ELSE {}]
  /\ ready' = {c \in pending : Deps[c] \subseteq g}

\* CommitGraph::add_commit
AddCommit(c) ==
  IF c \in graph
  THEN UNCHANGED graphVars
  ELSE /\ heads' = (heads \ Deps[c]) \cup {c}
       /\ children' = [d \in Commit |->
                         IF d \in Deps[c] THEN children[d] \cup {c}
                                          ELSE children[d]]
       /\ graph' = graph \cup {c}

\* A store built from a root: Store::try_from_ir
FreshGraph ==
  /\ graph' = {Root}
  /\ heads' = {Root}
  /\ children' = NoChildren

-----------------------------------------------------------------------------
(* The entry points *)

\* Store::apply_commits called by apply_commit, a transaction, or merge: what
\* cannot be applied goes back to the caller.
CallDirect(cs) ==
  /\ pc = "idle"
  /\ LET pending == cs \ graph
     IN  /\ pending \cap Malformed = {}
         /\ Prepare("direct", graph, pending)
  /\ entry' = [graph |-> graph, buffer |-> buffer]
  /\ pc' = "loop"
  /\ UNCHANGED <<graph, children, heads, buffer, disk>>

\* Store::apply_chunk_bytes: the buffer is taken out of the store and added to
\* the batch before apply_commits runs.
CallChunks(cs) ==
  /\ pc = "idle"
  /\ LET pending == (cs \cup buffer) \ graph
     IN  /\ pending \cap Malformed = {}
         /\ Prepare("chunks", graph, pending)
  /\ entry' = [graph |-> graph, buffer |-> buffer]
  /\ buffer' = {}
  /\ pc' = "loop"
  /\ UNCHANGED <<graph, children, heads, disk>>

\* The early return on a malformed commit; the buffer has been taken already.
RefuseDirect(cs) ==
  /\ pc = "idle"
  /\ (cs \ graph) \cap Malformed # {}
  /\ UNCHANGED vars

RefuseChunks(cs) ==
  /\ pc = "idle"
  /\ ((cs \cup buffer) \ graph) \cap Malformed # {}
  /\ buffer' = {}
  /\ UNCHANGED <<graph, children, heads, disk, pc>>
  /\ UNCHANGED callVars

-----------------------------------------------------------------------------
(* The work list *)

\* ready.pop_first(): the least ready hash.
Popped(c) ==
  /\ pc = "loop"
  /\ c \in ready
  /\ \A d \in ready : Rank[c] <= Rank[d]

\* One iteration whose apply_commit_atomic succeeds.
ApplyOne(c) ==
  /\ Popped(c)
  /\ AddCommit(c)
  /\ batch' = batch \ {c}
  /\ unsatisfied' = [w \in Commit |-> IF w \in waiting[c] THEN unsatisfied[w] - 1
                                                          ELSE unsatisfied[w]]
  /\ waiting' = [waiting EXCEPT ![c] = {}]
  /\ ready' = (ready \ {c}) \cup {w \in waiting[c] : unsatisfied[w] = 1}
  /\ UNCHANGED <<buffer, disk, pc, caller, entry>>

\* One iteration whose apply_commit_atomic fails: `?` leaves apply_commits at
\* once.  A failed load leaves no store behind.
ApplyFails(c) ==
  /\ Popped(c)
  /\ IF caller = "load"
     THEN /\ pc' = "closed"
          /\ graph' = {} /\ heads' = {} /\ children' = NoChildren
     ELSE /\ pc' = "idle"
          /\ UNCHANGED graphVars
  /\ DropLocals
  /\ UNCHANGED <<buffer, disk>>

\* Mutant of Return: the leftovers are dropped, as `merge' drops them.
ReturnDropsLeftovers ==
  /\ pc = "loop"
  /\ ready = {}
  /\ pc' = "idle"
  /\ DropLocals
  /\ UNCHANGED <<graph, children, heads, buffer, disk>>

\* Mutant of Return: the leftovers are tried again at once.
ReturnRetriesLeftovers ==
  /\ pc = "loop"
  /\ ready = {}
  /\ IF batch # {}
     THEN Prepare(caller, graph, batch) /\ UNCHANGED <<pc, entry>>
     ELSE pc' = "idle" /\ DropLocals
  /\ UNCHANGED <<graph, children, heads, buffer, disk>>

\* The work list is empty.  apply_chunk_bytes stores the leftovers in the
\* buffer; decode_store refuses a snapshot that has any.
Return ==
  /\ pc = "loop"
  /\ ready = {}
  /\ buffer' = IF caller = "chunks" THEN batch ELSE buffer
  /\ IF caller = "load" /\ batch # {}
     THEN /\ pc' = "closed"
          /\ graph' = {} /\ heads' = {} /\ children' = NoChildren
     ELSE /\ pc' = "idle"
          /\ UNCHANGED graphVars
  /\ DropLocals
  /\ UNCHANGED disk

-----------------------------------------------------------------------------
(* The snapshot file *)

\* Mutant of SaveStore: the buffered commits are written as well.
SaveStoreWithBuffer ==
  /\ pc = "idle"
  /\ disk' = graph \cup buffer
  /\ UNCHANGED <<graph, children, heads, buffer, pc>>
  /\ UNCHANGED callVars

\* encode_store writes every recorded commit, nothing of the buffer.
SaveStore ==
  /\ pc = "idle"
  /\ disk' = graph
  /\ UNCHANGED <<graph, children, heads, buffer, pc>>
  /\ UNCHANGED callVars

\* The process ends with no call running.
CloseStore ==
  /\ pc = "idle"
  /\ pc' = "closed"
  /\ graph' = {} /\ heads' = {} /\ children' = NoChildren
  /\ buffer' = {}
  /\ UNCHANGED disk
  /\ UNCHANGED callVars

\* decode_store: a fresh store from the root chunk, then apply_commits on all
\* other chunks.
LoadStore ==
  /\ pc = "closed"
  /\ FreshGraph
  /\ Prepare("load", {Root}, disk \ {Root})
  /\ entry' = [graph |-> {}, buffer |-> {}]
  /\ pc' = "loop"
  /\ UNCHANGED <<buffer, disk>>

-----------------------------------------------------------------------------
Init ==
  /\ graph = {Root} /\ heads = {Root} /\ children = NoChildren
  /\ buffer = {}
  /\ disk = {Root}
  /\ pc = "idle"
  /\ caller = "none"
  /\ batch = {}
  /\ unsatisfied = NoCount
  /\ waiting = NoChildren
  /\ ready = {}
  /\ entry = [graph |-> {}, buffer |-> {}]

Loop == Return \/ \E c \in Commit : ApplyOne(c) \/ ApplyFails(c)

Next ==
  \/ \E cs \in SUBSET Commit :
       CallDirect(cs) \/ CallChunks(cs) \/ RefuseDirect(cs) \/ RefuseChunks(cs)
  \/ Loop
  \/ SaveStore \/ CloseStore \/ LoadStore

Spec == Init /\ [][Next]_vars

\* A running call is never suspended: the loop keeps taking steps.
FairSpec == Spec /\ WF_vars(Loop)

-----------------------------------------------------------------------------
(* Properties *)

TypeOK ==
  /\ graph \in SUBSET Commit
  /\ children \in [Commit -> SUBSET Commit]
  /\ heads \in SUBSET Commit
  /\ buffer \in SUBSET Commit
  /\ disk \in SUBSET Commit
  /\ pc \in {"idle", "loop", "closed"}
  /\ caller \in {"none", "direct", "chunks", "load"}
  /\ batch \in SUBSET Commit
  /\ unsatisfied \in [Commit -> Nat]
  /\ waiting \in [Commit -> SUBSET Commit]
  /\ ready \in SUBSET Commit
  /\ entry \in [graph : SUBSET Commit, buffer : SUBSET Commit]

\* A commit is recorded only after all it depends on, whatever the order in
\* which commits were delivered, buffered, retried or reloaded.
GraphClosed == \A c \in graph : Deps[c] \subseteq graph

\* The indexes add_commit keeps beside the commits are exact: `heads' are the
\* recorded commits that no recorded commit depends on (the dependencies of the
\* next transaction, and what a peer is told we have), and `children' is the
\* inverse of the dependencies (what iter_topological walks).
GraphIndexesExact ==
  pc # "closed" =>
    /\ heads = {c \in graph : \A d \in graph : c \notin Deps[d]}
    /\ children = [c \in Commit |-> {d \in graph : c \in Deps[d]}]

\* Inside the loop the incremental counters agree with their definition: a
\* pending commit's counter is the number of its dependencies not recorded yet,
\* `ready' holds exactly those at zero, and a commit's waiters are the pending
\* commits that depend on it.  The expect() and unwrap() calls of the loop
\* cannot fail because of this.
WorkListExact ==
  pc = "loop" =>
    /\ batch \cap graph = {}
    /\ ready = {c \in batch : Deps[c] \subseteq graph}
    /\ \A c \in batch : unsatisfied[c] = Cardinality(Deps[c] \ graph)
    /\ \A d \in batch : waiting[d] = {c \in batch : d \in Deps[c]}

\* What apply_commits and the graph keep besides the commits, and could compute
\* from them, never goes stale.
DerivedStateExact == GraphClosed /\ GraphIndexesExact /\ WorkListExact

\* decode_store never meets its own error "store snapshot contains commits that
\* could not be applied" on a file encode_store wrote: when the replay runs out
\* of ready commits, nothing is left over.
SnapshotReplays ==
  pc = "loop" /\ caller = "load" /\ ready = {} => batch = {}

\* A call that began is over at some time: the work list always empties.
CallReturns == pc = "loop" ~> pc # "loop"

\* The store as its callers see it: a call takes effect when it returns.  What
\* it was asked for is what it has recorded so far and what is still pending.
Promise == INSTANCE AtomicApply WITH
  applied <- IF pc = "loop" THEN entry.graph ELSE graph,
  kept    <- IF pc = "loop" THEN entry.buffer ELSE buffer,
  saved   <- disk,
  open    <- pc = "idle" \/ (pc = "loop" /\ caller # "load"),
  request <- IF pc = "loop" /\ caller # "load"
             THEN [op |-> caller, all |-> (graph \ entry.graph) \cup batch]
             ELSE [op |-> "none", all |-> {}]

\* Each call of apply_commits or apply_chunk_bytes applies the largest part of
\* its batch that dependencies allow, and keeps or returns exactly the rest;
\* one that fails stops at a set that respects dependencies; a reload restores
\* what was saved.
Implements == Promise!Spec

-----------------------------------------------------------------------------
(* The inductive invariant of the proofs *)

\* A set that contains the dependencies of its members, none of them malformed.
Respects(G) ==
  \A c \in G : Deps[c] \subseteq G /\ (c # Root => Deps[c] # {})

StoreInv ==
  /\ Respects(graph) /\ Respects(disk)
  /\ Root \in disk
  /\ GraphIndexesExact
  /\ IF pc = "closed"
     THEN graph = {} /\ heads = {} /\ children = NoChildren /\ buffer = {}
     ELSE Root \in graph

\* How the locals of a running call relate to the store at its beginning.
CallInv ==
  IF pc = "loop"
  THEN /\ caller \in {"direct", "chunks", "load"}
       /\ \A c \in batch : Deps[c] # {}
       /\ entry.graph \subseteq graph
       /\ caller = "direct" => buffer = entry.buffer
       /\ caller = "chunks" => /\ buffer = {}
                              /\ entry.buffer \subseteq graph \cup batch
       /\ IF caller = "load"
          THEN /\ entry.graph = {} /\ entry.buffer = {} /\ buffer = {}
               /\ graph \cup batch = disk
          ELSE Root \in entry.graph
  ELSE caller = "none"

IInv == TypeOK /\ StoreInv /\ WorkListExact /\ CallInv
=============================================================================
