------------------------- MODULE ApplyCommitsProofs -------------------------
(***************************************************************************)
(* Proofs about ApplyCommits, for every set of commits, every dependency   *)
(* relation that hashes can express and every hash order:                  *)
(*   - the inductive invariant IInv, hence TypeOK, GraphClosed,            *)
(*     GraphIndexesExact, WorkListExact and SnapshotReplays;               *)
(*   - the work list implements AtomicApply.                               *)
(***************************************************************************)
EXTENDS ApplyCommits, FiniteSetTheorems, TLAPS

-----------------------------------------------------------------------------
(* Facts about dependencies *)

\* Among the unapplied members of a set that respects dependencies, one can be
\* applied at once.
LEMMA SomeIsReady ==
  ASSUME NEW H \in SUBSET Commit, NEW B \in SUBSET Commit, B # {},
         \A c \in B : Deps[c] \subseteq H \cup B
  PROVE  \E c \in B : Deps[c] \subseteq H
<1>1. PICK c \in B : Deps[c] \cap B = {}
  BY DepsAssumption
<1>2. Deps[c] \subseteq H
  BY <1>1
<1> QED BY <1>2

\* The work list is maximal: when none of the leftovers B is ready over the
\* graph H, what was added to the graph G is all that could be.
LEMMA WorkListMaximal ==
  ASSUME NEW G \in SUBSET Commit, NEW H \in SUBSET Commit,
         NEW B \in SUBSET Commit,
         G \subseteq H, Root \in G, H \cap B = {}, Respects(H),
         \A c \in B : ~(Deps[c] \subseteq H)
  PROVE  Promise!Appliable(G, (H \ G) \cup B) = H \ G
<1> DEFINE all == (H \ G) \cup B
<1>1. all \ G = all
  OBVIOUS
<1>2. H \ G \in SUBSET all /\ Promise!Extends(G, H \ G)
  BY DEF Respects, Promise!Extends
<1>3. ASSUME NEW S \in SUBSET all, Promise!Extends(G, S)
      PROVE  S \subseteq H \ G
  <2>1. SUFFICES ASSUME S \cap B # {} PROVE FALSE
    OBVIOUS
  <2> DEFINE T == S \cap B
  <2>2. \A c \in T : Deps[c] \subseteq H \cup T
    BY <1>3 DEF Promise!Extends
  <2>3. T \in SUBSET Commit /\ T # {} /\ T \subseteq B
    BY <2>1
  <2>4. \E c \in T : Deps[c] \subseteq H
    <3> HIDE DEF T
    <3> QED BY <2>2, <2>3, SomeIsReady
  <2> QED BY <2>3, <2>4
<1> QED BY <1>1, <1>2, <1>3 DEF Promise!Appliable

\* Removing the dependency just recorded decrements the count of what is unmet.
LEMMA OneFewer ==
  ASSUME NEW w \in Commit, NEW c \in Commit, NEW G \in SUBSET Commit,
         c \notin G, c \in Deps[w]
  PROVE  /\ Cardinality(Deps[w] \ G) \in Nat \ {0}
         /\ Cardinality(Deps[w] \ (G \cup {c})) = Cardinality(Deps[w] \ G) - 1
         /\ Cardinality(Deps[w] \ G) = 1 <=> Deps[w] \subseteq G \cup {c}
<1> DEFINE U == Deps[w] \ G
<1>1. IsFiniteSet(U)
  BY DepsAssumption, FS_Subset
<1>2. /\ IsFiniteSet(U \ {c})
      /\ Cardinality(U \ {c}) = Cardinality(U) - 1
      /\ Cardinality(U) \in Nat /\ Cardinality(U \ {c}) \in Nat
  BY <1>1, FS_RemoveElement, FS_CardinalityType
<1>3. U \ {c} = Deps[w] \ (G \cup {c})
  OBVIOUS
<1>4. Cardinality(U \ {c}) = 0 <=> U \ {c} = {}
  BY <1>2, FS_EmptySet
<1> QED BY <1>2, <1>3, <1>4

\* A dependency count is a number.
LEMMA CountType ==
  ASSUME NEW c \in Commit, NEW G
  PROVE  Cardinality(Deps[c] \ G) \in Nat
BY DepsAssumption, FS_Subset, FS_CardinalityType

-----------------------------------------------------------------------------
(* The invariant *)

LEMMA InitIInv == Init => IInv
BY RootAssumption, DepsAssumption
   DEF Init, IInv, TypeOK, StoreInv, WorkListExact, CallInv, Respects,
       GraphIndexesExact, NoChildren, NoCount

\* The loops before the work list establish WorkListExact.
LEMMA PrepareExact ==
  ASSUME NEW who, NEW g \in SUBSET Commit, NEW pending \in SUBSET Commit,
         pending \cap g = {}, Prepare(who, g, pending), graph' = g
  PROVE  /\ WorkListExact'
         /\ batch' \in SUBSET Commit /\ ready' \in SUBSET Commit
         /\ unsatisfied' \in [Commit -> Nat]
         /\ waiting' \in [Commit -> SUBSET Commit]
<1>1. \A c \in Commit : Cardinality(Deps[c] \ g) \in Nat
  BY CountType
<1> QED BY <1>1 DEF Prepare, WorkListExact

LEMMA CallDirectIInv ==
  ASSUME IInv, NEW cs \in SUBSET Commit, CallDirect(cs)
  PROVE  IInv'
<1> DEFINE pending == cs \ graph
<1> USE DEF IInv
<1>1. /\ WorkListExact'
      /\ batch' \in SUBSET Commit /\ ready' \in SUBSET Commit
      /\ unsatisfied' \in [Commit -> Nat]
      /\ waiting' \in [Commit -> SUBSET Commit]
  <2>1. Prepare("direct", graph, pending) /\ graph' = graph
    BY DEF CallDirect
  <2>2. /\ graph \in SUBSET Commit /\ pending \in SUBSET Commit
        /\ pending \cap graph = {}
    BY DEF TypeOK
  <2> HIDE DEF pending
  <2> QED BY ONLY <2>1, <2>2, PrepareExact
<1>2. TypeOK'
  BY <1>1 DEF CallDirect, Prepare, TypeOK
<1>3. StoreInv'
  BY DEF CallDirect, StoreInv, GraphIndexesExact
<1>4. CallInv'
  BY DEF CallDirect, Prepare, CallInv, StoreInv, Malformed, TypeOK
<1> QED BY <1>1, <1>2, <1>3, <1>4

LEMMA CallChunksIInv ==
  ASSUME IInv, NEW cs \in SUBSET Commit, CallChunks(cs)
  PROVE  IInv'
<1> DEFINE pending == (cs \cup buffer) \ graph
<1> USE DEF IInv
<1>1. /\ WorkListExact'
      /\ batch' \in SUBSET Commit /\ ready' \in SUBSET Commit
      /\ unsatisfied' \in [Commit -> Nat]
      /\ waiting' \in [Commit -> SUBSET Commit]
  <2>1. Prepare("chunks", graph, pending) /\ graph' = graph
    BY DEF CallChunks
  <2>2. /\ graph \in SUBSET Commit /\ pending \in SUBSET Commit
        /\ pending \cap graph = {}
    BY DEF TypeOK
  <2> HIDE DEF pending
  <2> QED BY ONLY <2>1, <2>2, PrepareExact
<1>2. TypeOK'
  BY <1>1 DEF CallChunks, Prepare, TypeOK
<1>3. StoreInv'
  BY DEF CallChunks, StoreInv, GraphIndexesExact
<1>4. CallInv'
  BY DEF CallChunks, Prepare, CallInv, StoreInv, Malformed, TypeOK
<1> QED BY <1>1, <1>2, <1>3, <1>4

LEMMA LoadStoreIInv ==
  ASSUME IInv, LoadStore
  PROVE  IInv'
<1> DEFINE pending == disk \ {Root}
<1> USE DEF IInv
<1>1. /\ WorkListExact'
      /\ batch' \in SUBSET Commit /\ ready' \in SUBSET Commit
      /\ unsatisfied' \in [Commit -> Nat]
      /\ waiting' \in [Commit -> SUBSET Commit]
  <2>1. Prepare("load", {Root}, pending) /\ graph' = {Root}
    BY DEF LoadStore, FreshGraph
  <2>2. /\ {Root} \in SUBSET Commit /\ pending \in SUBSET Commit
        /\ pending \cap {Root} = {}
    BY RootAssumption DEF TypeOK
  <2> HIDE DEF pending
  <2> QED BY ONLY <2>1, <2>2, PrepareExact
<1>2. TypeOK'
  BY <1>1, RootAssumption
     DEF LoadStore, FreshGraph, Prepare, TypeOK, NoChildren
<1>3. StoreInv'
  BY DepsAssumption, RootAssumption
     DEF LoadStore, FreshGraph, StoreInv, GraphIndexesExact, Respects, NoChildren
<1>4. CallInv'
  BY DEF LoadStore, FreshGraph, Prepare, CallInv, StoreInv, Respects
<1> QED BY <1>1, <1>2, <1>3, <1>4

LEMMA UnchangedIInv ==
  ASSUME IInv, UNCHANGED vars
  PROVE  IInv'
BY DEF vars, IInv, TypeOK, StoreInv, WorkListExact, CallInv, GraphIndexesExact

\* One iteration of the work list.
LEMMA ApplyOneIInv ==
  ASSUME IInv, NEW c \in Commit, ApplyOne(c)
  PROVE  IInv'
<1> USE DEF IInv
<1>1. /\ pc = "loop" /\ c \in batch /\ c \notin graph
      /\ Deps[c] \subseteq graph /\ Deps[c] # {} /\ c # Root
      /\ waiting[c] = {w \in batch : c \in Deps[w]}
      /\ graph \in SUBSET Commit /\ batch \in SUBSET Commit
      /\ Deps \in [Commit -> SUBSET Commit]
  BY DepsAssumption
     DEF ApplyOne, Popped, WorkListExact, CallInv, TypeOK
<1>2. /\ graph' = graph \cup {c}
      /\ heads' = (heads \ Deps[c]) \cup {c}
      /\ children' = [d \in Commit |->
                         IF d \in Deps[c] THEN children[d] \cup {c}
                                          ELSE children[d]]
      /\ batch' = batch \ {c}
      /\ UNCHANGED <<buffer, disk, pc, caller, entry>>
  BY <1>1 DEF ApplyOne, AddCommit
<1>3. \A w \in waiting[c] :
        /\ w \in batch /\ w \in Commit
        /\ unsatisfied[w] \in Nat \ {0}
        /\ Cardinality(Deps[w] \ (graph \cup {c})) = unsatisfied[w] - 1
        /\ unsatisfied[w] = 1 <=> Deps[w] \subseteq graph \cup {c}
  <2>1. SUFFICES ASSUME NEW w \in waiting[c]
                 PROVE  /\ w \in batch /\ w \in Commit
                        /\ unsatisfied[w] \in Nat \ {0}
                        /\ Cardinality(Deps[w] \ (graph \cup {c}))
                             = unsatisfied[w] - 1
                        /\ unsatisfied[w] = 1 <=> Deps[w] \subseteq graph \cup {c}
    OBVIOUS
  <2>2. w \in batch /\ w \in Commit /\ c \in Deps[w]
    BY <1>1
  <2>3. unsatisfied[w] = Cardinality(Deps[w] \ graph)
    BY <1>1, <2>2 DEF WorkListExact
  <2>4. /\ Cardinality(Deps[w] \ graph) \in Nat \ {0}
        /\ Cardinality(Deps[w] \ (graph \cup {c})) = Cardinality(Deps[w] \ graph) - 1
        /\ Cardinality(Deps[w] \ graph) = 1 <=> Deps[w] \subseteq graph \cup {c}
    <3>1. c \notin graph /\ graph \in SUBSET Commit
      BY <1>1
    <3> QED BY ONLY <3>1, <2>2, c \in Commit, OneFewer
  <2> QED BY <2>2, <2>3, <2>4
<1>4. TypeOK'
  <2>1. unsatisfied' \in [Commit -> Nat]
    <3>1. \A w \in Commit :
            (IF w \in waiting[c] THEN unsatisfied[w] - 1 ELSE unsatisfied[w]) \in Nat
      <4>1. unsatisfied \in [Commit -> Nat]
        BY DEF TypeOK
      <4>2. \A n \in Nat \ {0} : n - 1 \in Nat
        OBVIOUS
      <4> QED BY ONLY <1>3, <4>1, <4>2
    <3> QED BY <3>1 DEF ApplyOne
  <2>2. waiting' \in [Commit -> SUBSET Commit]
    BY DEF ApplyOne, TypeOK
  <2>3. ready' \in SUBSET Commit
    BY <1>3 DEF ApplyOne, TypeOK
  <2>4. children' \in [Commit -> SUBSET Commit]
    BY <1>2 DEF TypeOK
  <2> QED BY <1>1, <1>2, <2>1, <2>2, <2>3, <2>4 DEF TypeOK
<1>5. StoreInv'
  <2>1. Respects(graph)' /\ Respects(disk)'
    BY <1>1, <1>2 DEF StoreInv, Respects
  <2>2. GraphIndexesExact'
    <3>1. heads = {d \in graph : \A e \in graph : d \notin Deps[e]}
      BY <1>1 DEF StoreInv, GraphIndexesExact
    <3>2. children = [d \in Commit |-> {e \in graph : d \in Deps[e]}]
      BY <1>1 DEF StoreInv, GraphIndexesExact
    <3>3. \A e \in graph \cup {c} : c \notin Deps[e]
      BY <1>1, DepsAssumption DEF StoreInv, Respects
    <3>4. heads' = {d \in graph' : \A e \in graph' : d \notin Deps[e]}
      BY <1>1, <1>2, <3>1, <3>3
    <3>5. children' = [d \in Commit |-> {e \in graph' : d \in Deps[e]}]
      BY <1>1, <1>2, <3>2
    <3> QED BY <3>4, <3>5 DEF GraphIndexesExact
  <2> QED BY <1>1, <1>2, <2>1, <2>2 DEF StoreInv
<1>6. WorkListExact'
  <2>1. (batch \cap graph = {})'
    BY <1>1, <1>2 DEF WorkListExact
  <2>2. (\A w \in batch : unsatisfied[w] = Cardinality(Deps[w] \ graph))'
    <3>1. SUFFICES ASSUME NEW w \in batch \ {c}
                   PROVE  unsatisfied'[w] = Cardinality(Deps[w] \ (graph \cup {c}))
      BY <1>2
    <3>2. CASE c \in Deps[w]
      BY <1>1, <1>3, <3>2 DEF ApplyOne, TypeOK
    <3>3. CASE c \notin Deps[w]
      <4>1. Deps[w] \ (graph \cup {c}) = Deps[w] \ graph
        BY <3>3
      <4> QED BY <1>1, <3>3, <4>1 DEF ApplyOne, TypeOK, WorkListExact
    <3> QED BY <3>2, <3>3
  <2>3. (ready = {w \in batch : Deps[w] \subseteq graph})'
    <3>1. ready = {w \in batch : Deps[w] \subseteq graph}
      BY <1>1 DEF WorkListExact
    <3>2. ready' = (ready \ {c}) \cup {w \in waiting[c] : unsatisfied[w] = 1}
      BY DEF ApplyOne
    <3>3. {w \in waiting[c] : unsatisfied[w] = 1}
            = {w \in batch : c \in Deps[w] /\ Deps[w] \subseteq graph \cup {c}}
      BY <1>1, <1>3
    <3>4. c \notin Deps[c]
      BY <1>1
    <3> QED BY <1>1, <1>2, <3>1, <3>2, <3>3, <3>4
  <2>4. (\A d \in batch : waiting[d] = {w \in batch : d \in Deps[w]})'
    BY <1>1, <1>2 DEF ApplyOne, TypeOK, WorkListExact
  <2> QED BY <2>1, <2>2, <2>3, <2>4 DEF WorkListExact
<1>7. CallInv'
  BY <1>1, <1>2 DEF CallInv
<1> QED BY <1>4, <1>5, <1>6, <1>7

\* A snapshot respects dependencies, so replaying it leaves nothing over.
LEMMA IInvSnapshotReplays == IInv => SnapshotReplays
<1> SUFFICES ASSUME IInv, pc = "loop", caller = "load", ready = {}, batch # {}
             PROVE  FALSE
  BY DEF SnapshotReplays
<1>1. \A c \in batch : ~(Deps[c] \subseteq graph)
  BY DEF IInv, WorkListExact
<1>2. \A c \in batch : Deps[c] \subseteq graph \cup batch
  BY DEF IInv, CallInv, StoreInv, Respects
<1>3. \E c \in batch : Deps[c] \subseteq graph
  BY <1>2, SomeIsReady DEF IInv, TypeOK
<1> QED BY <1>1, <1>3

\* The steps that end a call, and those that happen between calls.
LEMMA OtherIInv ==
  ASSUME IInv,
         \/ Return
         \/ \E c \in Commit : ApplyFails(c)
         \/ \E cs \in SUBSET Commit : RefuseChunks(cs)
         \/ SaveStore
         \/ CloseStore
  PROVE  IInv'
<1> USE DEF IInv, NoChildren, NoCount
<1>1. CASE Return
  <2>1. ~(caller = "load" /\ batch # {})
    BY <1>1, IInvSnapshotReplays DEF Return, SnapshotReplays
  <2>2. /\ pc' = "idle" /\ UNCHANGED <<graph, children, heads, disk>>
        /\ buffer' \in SUBSET Commit
        /\ pc = "loop"
    BY <1>1, <2>1 DEF Return, graphVars, TypeOK
  <2>3. TypeOK'
    BY <1>1, <2>2 DEF Return, DropLocals, TypeOK
  <2>4. StoreInv'
    BY <2>2 DEF StoreInv, GraphIndexesExact
  <2>5. WorkListExact' /\ CallInv'
    BY <1>1, <2>2 DEF Return, DropLocals, WorkListExact, CallInv
  <2> QED BY <2>3, <2>4, <2>5
<1>2. CASE \E c \in Commit : ApplyFails(c)
  <2>1. PICK c \in Commit : ApplyFails(c)
    BY <1>2
  <2>2. pc = "loop"
    BY <2>1 DEF ApplyFails, Popped
  <2>3. TypeOK'
    BY <2>1 DEF ApplyFails, DropLocals, TypeOK, graphVars
  <2>4. StoreInv'
    BY <2>1, <2>2
       DEF ApplyFails, StoreInv, GraphIndexesExact, graphVars, CallInv, Respects
  <2>5. WorkListExact' /\ CallInv'
    BY <2>1 DEF ApplyFails, DropLocals, WorkListExact, CallInv
  <2> QED BY <2>3, <2>4, <2>5
<1>3. CASE \E cs \in SUBSET Commit : RefuseChunks(cs)
  <2>1. PICK cs \in SUBSET Commit : RefuseChunks(cs)
    BY <1>3
  <2> QED BY <2>1
          DEF RefuseChunks, callVars, TypeOK, StoreInv, GraphIndexesExact,
              WorkListExact, CallInv
<1>4. CASE SaveStore
  BY <1>4 DEF SaveStore, callVars, TypeOK, StoreInv, GraphIndexesExact,
              WorkListExact, CallInv
<1>5. CASE CloseStore
  BY <1>5 DEF CloseStore, callVars, TypeOK, StoreInv, GraphIndexesExact,
              WorkListExact, CallInv, Respects
<1> QED BY <1>1, <1>2, <1>3, <1>4, <1>5

LEMMA NextIInv == IInv /\ [Next]_vars => IInv'
<1> SUFFICES ASSUME IInv, [Next]_vars PROVE IInv'
  OBVIOUS
<1>1. CASE \E cs \in SUBSET Commit : CallDirect(cs)
  BY <1>1, CallDirectIInv
<1>2. CASE \E cs \in SUBSET Commit : CallChunks(cs)
  BY <1>2, CallChunksIInv
<1>3. CASE \E cs \in SUBSET Commit : RefuseDirect(cs)
  BY <1>3, UnchangedIInv DEF RefuseDirect
<1>4. CASE \E c \in Commit : ApplyOne(c)
  BY <1>4, ApplyOneIInv
<1>5. CASE LoadStore
  BY <1>5, LoadStoreIInv
<1>6. CASE UNCHANGED vars
  BY <1>6, UnchangedIInv
<1> QED BY <1>1, <1>2, <1>3, <1>4, <1>5, <1>6, OtherIInv DEF Next, Loop

THEOREM Invariance == Spec => []IInv
BY InitIInv, NextIInv, PTL DEF Spec

-----------------------------------------------------------------------------
(* The properties *)

\* Every variable of the commit side stays within its type, for every commit
\* universe.
THEOREM TypeCorrect == Spec => []TypeOK
<1>1. IInv => TypeOK
  BY DEF IInv
<1> QED BY <1>1, Invariance, PTL

\* The recorded commits always contain the dependencies of each of them,
\* however commits are delivered, buffered, retried or reloaded.
THEOREM Closed == Spec => []GraphClosed
<1>1. IInv => GraphClosed
  BY DEF IInv, StoreInv, Respects, GraphClosed
<1> QED BY <1>1, Invariance, PTL

\* CommitGraph's heads and children are exactly the tips and the inverse of the
\* dependencies.
THEOREM IndexesExact == Spec => []GraphIndexesExact
<1>1. IInv => GraphIndexesExact
  BY DEF IInv, StoreInv
<1> QED BY <1>1, Invariance, PTL

\* The incremental counters, the ready set and the waiter lists of
\* apply_commits always agree with their definitions.
THEOREM CountersExact == Spec => []WorkListExact
<1>1. IInv => WorkListExact
  BY DEF IInv
<1> QED BY <1>1, Invariance, PTL

\* Nothing that apply_commits and the graph could compute from the commits, and
\* keep instead, is ever out of date.
THEOREM DerivedStateIsExact == Spec => []DerivedStateExact
<1>1. GraphClosed /\ GraphIndexesExact /\ WorkListExact => DerivedStateExact
  BY DEF DerivedStateExact
<1> QED BY <1>1, Closed, IndexesExact, CountersExact, PTL

\* A file written by encode_store never leaves decode_store with commits that
\* cannot be applied.
THEOREM SnapshotsReplay == Spec => []SnapshotReplays
BY IInvSnapshotReplays, Invariance, PTL

-----------------------------------------------------------------------------
(* ApplyCommits implements AtomicApply *)

LEMMA InitPromise == Init => Promise!Init
BY DEF Init, Promise!Init, Promise!NoRequest

\* The beginning of a call is the request.
LEMMA CallPromise ==
  ASSUME IInv, NEW cs \in SUBSET Commit, CallDirect(cs) \/ CallChunks(cs)
  PROVE  Promise!Ask("direct", cs) \/ Promise!Ask("chunks", cs)
<1> USE DEF Promise!Idle, Promise!NoRequest, Malformed
<1>1. CASE CallDirect(cs)
  <2>1. /\ pc = "idle" /\ pc' = "loop" /\ caller' = "direct"
        /\ batch' = cs \ graph
        /\ \A c \in cs \ graph : Deps[c] # {}
        /\ entry' = [graph |-> graph, buffer |-> buffer]
        /\ UNCHANGED <<graph, disk>>
    BY <1>1 DEF CallDirect, Prepare
  <2>2. (graph' \ entry'.graph) \cup batch' = cs \ graph
    BY <2>1
  <2> QED BY <2>1, <2>2 DEF Promise!Ask
<1>2. CASE CallChunks(cs)
  <2>1. /\ pc = "idle" /\ pc' = "loop" /\ caller' = "chunks"
        /\ batch' = (cs \cup buffer) \ graph
        /\ \A c \in (cs \cup buffer) \ graph : Deps[c] # {}
        /\ entry' = [graph |-> graph, buffer |-> buffer]
        /\ UNCHANGED <<graph, disk>>
    BY <1>2 DEF CallChunks, Prepare, IInv, TypeOK
  <2>2. (graph' \ entry'.graph) \cup batch' = (cs \cup buffer) \ graph
    BY <2>1
  <2> QED BY <2>1, <2>2 DEF Promise!Ask
<1> QED BY <1>1, <1>2

\* What a call was asked for does not change while it runs.
LEMMA StutterPromise ==
  ASSUME IInv,
         \/ \E cs \in SUBSET Commit : RefuseDirect(cs)
         \/ \E c \in Commit : ApplyOne(c)
         \/ LoadStore
         \/ UNCHANGED vars
  PROVE  UNCHANGED Promise!avars
<1> USE DEF Promise!avars
<1>1. CASE \E c \in Commit : ApplyOne(c)
  <2>1. PICK c \in Commit : ApplyOne(c)
    BY <1>1
  <2>2. /\ pc = "loop" /\ UNCHANGED <<buffer, disk, pc, caller, entry>>
        /\ c \in batch /\ c \notin graph
        /\ graph' = graph \cup {c} /\ batch' = batch \ {c}
    BY <2>1 DEF ApplyOne, AddCommit, Popped, IInv, WorkListExact
  <2>3. caller # "load" => entry.graph \subseteq graph
    BY <2>2 DEF IInv, CallInv
  <2>4. caller # "load" => (graph' \ entry'.graph) \cup batch'
                             = (graph \ entry.graph) \cup batch
    BY <2>2, <2>3
  <2> QED BY <2>2, <2>4
<1>2. CASE LoadStore
  BY <1>2 DEF LoadStore, Prepare, IInv, StoreInv
<1>3. CASE UNCHANGED vars \/ \E cs \in SUBSET Commit : RefuseDirect(cs)
  BY <1>3 DEF vars, RefuseDirect
<1> QED BY <1>1, <1>2, <1>3

\* What a running call has recorded since it began is a set of commits that
\* could be applied to the graph it began with.
LEMMA RecordedExtends ==
  ASSUME IInv, pc = "loop", caller # "load"
  PROVE  /\ graph = entry.graph \cup (graph \ entry.graph)
         /\ Promise!Extends(entry.graph, graph \ entry.graph)
BY DEF IInv, StoreInv, CallInv, Respects, Promise!Extends

LEMMA ReturnPromise ==
  ASSUME IInv, Return
  PROVE  Promise!Succeed \/ Promise!Load
<1> DEFINE G == entry.graph
           all == (graph \ G) \cup batch
<1>1. /\ pc = "loop" /\ ready = {}
      /\ G \in SUBSET Commit /\ graph \in SUBSET Commit
      /\ batch \in SUBSET Commit /\ G \subseteq graph
      /\ graph \cap batch = {} /\ Respects(graph)
      /\ \A c \in batch : ~(Deps[c] \subseteq graph)
      /\ caller \in {"direct", "chunks", "load"}
  BY DEF Return, IInv, TypeOK, StoreInv, WorkListExact, CallInv
<1>2. CASE caller = "load"
  <2>1. batch = {}
    BY <1>1, <1>2, IInvSnapshotReplays DEF SnapshotReplays
  <2>2. graph = disk /\ entry.graph = {} /\ entry.buffer = {} /\ buffer = {}
    BY <1>1, <1>2, <2>1 DEF IInv, CallInv
  <2>3. pc' = "idle" /\ UNCHANGED <<graph, buffer, disk>>
    BY <1>2, <2>1 DEF Return, graphVars
  <2> QED BY <1>1, <1>2, <2>2, <2>3 DEF Promise!Load
<1>3. CASE caller # "load"
  <2>1. pc' = "idle" /\ graph' = graph /\ disk' = disk
    BY <1>3 DEF Return, graphVars
  <2>2. Root \in G
    BY <1>1, <1>3 DEF IInv, CallInv
  <2>3. Promise!Appliable(G, all) = graph \ G
    <3> HIDE DEF G
    <3> QED BY <1>1, <2>2, WorkListMaximal
  <2>4. graph = G \cup (graph \ G) /\ all \ graph = batch
    BY <1>1
  <2>5. buffer' = IF caller = "chunks" THEN batch ELSE entry.buffer
    BY <1>1, <1>3 DEF IInv, CallInv, Return
  <2> QED BY <1>1, <1>3, <2>1, <2>3, <2>4, <2>5
          DEF Promise!Succeed, Promise!Answer, Promise!NoRequest
<1> QED BY <1>2, <1>3

LEMMA FailPromise ==
  ASSUME IInv, NEW c \in Commit, ApplyFails(c)
  PROVE  Promise!Fail \/ UNCHANGED Promise!avars
<1>1. pc = "loop" /\ caller \in {"direct", "chunks", "load"}
  BY DEF ApplyFails, Popped, IInv, CallInv
<1>2. CASE caller = "load"
  BY <1>1, <1>2 DEF ApplyFails, IInv, CallInv, Promise!avars
<1>3. CASE caller # "load"
  <2> DEFINE G == entry.graph
             S == graph \ G
             all == S \cup batch
  <2>1. /\ graph = G \cup S /\ Promise!Extends(G, S)
        /\ S \in SUBSET Commit
    BY <1>1, <1>3, RecordedExtends DEF IInv, TypeOK
  <2>2. /\ c \in batch /\ c \notin graph /\ G \subseteq graph
        /\ Deps[c] # {} /\ Deps[c] \subseteq graph
        /\ batch \cap graph = {}
    BY <1>1, <1>3 DEF ApplyFails, Popped, IInv, WorkListExact, CallInv
  <2>3. Promise!Extends(G, S \cup {c})
    BY <2>1, <2>2 DEF Promise!Extends
  <2>4. S \cup {c} \subseteq Promise!Appliable(G, all)
    BY <2>1, <2>2, <2>3 DEF Promise!Appliable
  <2>5. pc' = "idle" /\ UNCHANGED <<graph, buffer, disk>>
    BY <1>3 DEF ApplyFails, graphVars
  <2>6. buffer = IF caller = "chunks" THEN {} ELSE entry.buffer
    BY <1>1, <1>3 DEF IInv, CallInv
  <2>7. /\ S \in SUBSET Promise!Appliable(G, all)
        /\ c \in Promise!Appliable(G, all) \ S
    BY <2>2, <2>4
  <2> QED BY <1>1, <1>3, <2>1, <2>2, <2>5, <2>6, <2>7
          DEF Promise!Fail, Promise!Answer, Promise!NoRequest
<1> QED BY <1>2, <1>3

LEMMA OtherPromise ==
  ASSUME IInv,
         \/ \E cs \in SUBSET Commit : RefuseChunks(cs)
         \/ SaveStore
         \/ CloseStore
  PROVE  Promise!Next
<1> USE DEF Promise!Idle, Promise!NoRequest
<1>1. CASE \E cs \in SUBSET Commit : RefuseChunks(cs)
  <2>1. PICK cs \in SUBSET Commit : RefuseChunks(cs)
    BY <1>1
  <2>2. Promise!Refuse(cs)
    BY <2>1 DEF RefuseChunks, Malformed, Promise!Refuse
  <2> QED BY <2>2 DEF Promise!Next
<1>2. CASE SaveStore
  BY <1>2 DEF SaveStore, Promise!Save, Promise!Next
<1>3. CASE CloseStore
  BY <1>3 DEF CloseStore, Promise!Close, Promise!Next
<1> QED BY <1>1, <1>2, <1>3

LEMMA NextPromise == IInv /\ [Next]_vars => [Promise!Next]_(Promise!avars)
<1> SUFFICES ASSUME IInv, [Next]_vars PROVE Promise!Next \/ UNCHANGED Promise!avars
  OBVIOUS
<1>1. CASE Return
  BY <1>1, ReturnPromise DEF Promise!Next
<1>2. CASE \E c \in Commit : ApplyFails(c)
  BY <1>2, FailPromise DEF Promise!Next
<1>3. CASE \E cs \in SUBSET Commit : CallDirect(cs) \/ CallChunks(cs)
  BY <1>3, CallPromise DEF Promise!Next
<1> QED BY <1>1, <1>2, <1>3, StutterPromise, OtherPromise DEF Next, Loop

\* The work-list loop of apply_commits, with its counters, buffer, early
\* returns and snapshot file, implements the store that answers a request in one
\* step: everything dependencies allow is applied, the rest kept or returned.
THEOREM Refinement == Spec => Implements
<1>1. IInv /\ [Next]_vars => [Promise!Next]_(Promise!avars)
  BY NextPromise
<1> QED BY <1>1, InitPromise, Invariance, PTL
        DEF Spec, Implements, Promise!Spec
=============================================================================
