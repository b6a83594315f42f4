------------------------- MODULE ReplicationProofs -------------------------
(***************************************************************************)
(* Proofs about replication (Replication), for every set of replicas and   *)
(* commits, whatever a store refuses, and however often it stops.          *)
(***************************************************************************)
EXTENDS Replication, TLAPS

(***************************************************************************)
(* The strengthening.  Wherever a commit is - in a graph, a buffer, a      *)
(* batch, a file, on the wire - it was made by somebody, on top of commits *)
(* that were; and commits are made one after the other, so that in every   *)
(* set of them some commit has nothing on top of it.                       *)
(***************************************************************************)
Known == Made \cup {Root}

DepsKnown ==
    /\ deps[Root] = {}
    /\ \A c \in Commit : deps[c] \subseteq Known

AllKnown ==
    /\ wire \subseteq Known
    /\ \A r \in Replica :
          /\ graph[r] \subseteq Known
          /\ buffer[r] \subseteq Known
          /\ batch[r] \subseteq Known
          /\ disk[r] \subseteq Known

Layered ==
    \A S \in SUBSET Known :
        S # {} => \E c \in S : \A d \in S : c \notin deps[d]

IInv ==
    /\ TypeOK
    /\ GraphsClosed
    /\ TransactionsOnHeads
    /\ DepsKnown
    /\ AllKnown
    /\ Layered

-----------------------------------------------------------------------------
(***************************************************************************)
(* Lemmas about commit graphs.                                             *)
(***************************************************************************)
ClosedSet(g) == \A c \in g : deps[c] \subseteq g

\* A closed set that has the heads of a graph has all of the graph.
LEMMA HeadsCover ==
    ASSUME Layered, NEW g \in SUBSET Known, NEW h, ClosedSet(h),
           Heads(g) \subseteq h
    PROVE  g \subseteq h
<1>1. SUFFICES ASSUME g \ h # {} PROVE FALSE
  OBVIOUS
<1>2. PICK m \in g \ h : \A d \in g \ h : m \notin deps[d]
  BY <1>1 DEF Layered
<1>3. m \notin Heads(g)
  BY <1>2
<1>4. PICK d \in g : m \in deps[d]
  BY <1>2, <1>3 DEF Heads
<1>5. d \in h
  BY <1>2, <1>4
<1> QED
  BY <1>2, <1>4, <1>5 DEF ClosedSet

\* What a store answers are commits it has.
LEMMA AnswersHeld ==
    ASSUME NEW g, NEW have
    PROVE  CommitsAfter(g, have) \subseteq g
BY DEF CommitsAfter

\* What a merge asks for are commits the other store has.
LEMMA AddedHeld ==
    ASSUME NEW mine, NEW g
    PROVE  CommitsAdded(mine, g) \subseteq g
BY DEF CommitsAdded

-----------------------------------------------------------------------------
(***************************************************************************)
(* The invariant.                                                          *)
(***************************************************************************)
LEMMA InitInv == Init => IInv
<1> SUFFICES ASSUME Init PROVE IInv
  OBVIOUS
<1>1. Made = {}
  BY ReplicationAssumption DEF Init, Made
<1>2. TypeOK
  BY ReplicationAssumption DEF Init, TypeOK
<1>3. GraphsClosed
  BY ReplicationAssumption DEF Init, GraphsClosed
<1>4. TransactionsOnHeads
  BY DEF Init, TransactionsOnHeads
<1>5. DepsKnown
  BY ReplicationAssumption DEF Init, DepsKnown
<1>6. AllKnown
  BY DEF Init, AllKnown, Known
<1>7. Layered
  BY <1>1, ReplicationAssumption DEF Init, Layered, Known
<1> QED
  BY <1>2, <1>3, <1>4, <1>5, <1>6, <1>7 DEF IInv

\* A step that makes no commit keeps what is said of commits alone.
LEMMA NothingMade ==
    ASSUME IInv, deps' = deps
    PROVE  /\ Made' = Made
           /\ Known' = Known
           /\ DepsKnown'
           /\ Layered'
BY DEF IInv, Made, Known, DepsKnown, Layered

\* The user's steps that make no commit.
LEMMA TransactionStep ==
    ASSUME IInv, NEW r \in Replica, Transaction(r)
    PROVE  IInv'
<1> USE DEF IInv
<1>1. Known' = Known /\ DepsKnown' /\ Layered'
  BY NothingMade DEF Transaction
<1>2. DepsOfNew(graph[r]) \in SUBSET Commit
  BY DEF TypeOK, DepsOfNew, Heads
<1>3. TypeOK'
  BY <1>2 DEF Transaction, TypeOK, callVars
<1>4. GraphsClosed'
  BY DEF Transaction, GraphsClosed
<1>5. TransactionsOnHeads'
  BY DEF Transaction, TransactionsOnHeads, TypeOK, DepsOfNew, Heads
<1>6. AllKnown'
  BY <1>1 DEF Transaction, AllKnown, callVars
<1> QED
  BY <1>1, <1>3, <1>4, <1>5, <1>6

\* A transaction that ends without a commit: empty, aborted or refused.
LEMMA EndTxnStep ==
    ASSUME IInv, NEW r \in Replica, CloseTxn(r), UNCHANGED <<deps, graph>>
    PROVE  IInv'
<1> USE DEF IInv
<1>1. Known' = Known /\ DepsKnown' /\ Layered'
  BY NothingMade
<1>2. TypeOK'
  BY DEF CloseTxn, TypeOK, callVars
<1>3. GraphsClosed'
  BY DEF GraphsClosed
<1>4. TransactionsOnHeads'
  BY DEF CloseTxn, TransactionsOnHeads, TypeOK, Heads
<1>5. AllKnown'
  BY <1>1 DEF CloseTxn, AllKnown, callVars
<1> QED
  BY <1>1, <1>2, <1>3, <1>4, <1>5

\* The step that makes a commit.  Nobody depends on the new commit, and it
\* depends on commits that were made before.
LEMMA CommitTxnStep ==
    ASSUME IInv, NEW r \in Replica, NEW c \in Commit, CommitTxn(r, c)
    PROVE  IInv'
<1> USE DEF IInv
<1>1. /\ c \notin Known
      /\ deps' = [deps EXCEPT ![c] = base[r]]
      /\ graph' = [graph EXCEPT ![r] = @ \cup {c}]
      /\ base[r] \subseteq graph[r]
      /\ base[r] = Heads(graph[r])
      /\ Root \in graph[r]
  BY DEF CommitTxn, CloseTxn, Known, TransactionsOnHeads, TypeOK
<1>2. /\ graph[r] \in SUBSET Known
      /\ base[r] \in SUBSET Commit
      /\ deps \in [Commit -> SUBSET Commit]
      /\ graph \in [Replica -> SUBSET Commit]
  BY DEF AllKnown, TypeOK
<1>3. base[r] # {}
  BY <1>1, <1>2 DEF Layered, Heads
<1>4. Known' = Known \cup {c}
  BY <1>1, <1>2, <1>3 DEF Known, Made
<1>5. \A d \in Known : d # c /\ deps'[d] = deps[d] /\ c \notin deps[d]
  BY <1>1, <1>2, ReplicationAssumption DEF Known, Made, DepsKnown
<1>6. deps'[c] = base[r] /\ c \notin deps'[c]
  BY <1>1, <1>2
<1>7. TypeOK'
  BY DEF CommitTxn, CloseTxn, TypeOK, callVars
<1>8. GraphsClosed'
  <2> SUFFICES ASSUME NEW q \in Replica, NEW d \in graph'[q]
               PROVE  deps'[d] \subseteq graph'[q]
    BY DEF GraphsClosed
  <2>1. CASE d \in graph[q]
    <3>1. d \in Known /\ deps[d] \subseteq graph[q]
      BY <2>1 DEF GraphsClosed, AllKnown
    <3> QED
      BY <3>1, <1>1, <1>2, <1>5
  <2>2. CASE q = r /\ d = c
    BY <2>2, <1>1, <1>2, <1>6
  <2> QED
    BY <2>1, <2>2, <1>1, <1>2
<1>9. TransactionsOnHeads'
  <2> SUFFICES ASSUME NEW q \in Replica, phase'[q] = "txn"
               PROVE  base'[q] = Heads(graph[q])'
    BY DEF TransactionsOnHeads
  <2>1. q # r /\ phase[q] = "txn"
    BY DEF CommitTxn, CloseTxn, TypeOK
  <2>2. /\ base'[q] = base[q] /\ graph'[q] = graph[q]
        /\ base[q] = Heads(graph[q])
    BY <2>1, <1>1, <1>2 DEF CommitTxn, CloseTxn, TypeOK, TransactionsOnHeads
  <2>3. \A d \in graph[q] : deps'[d] = deps[d]
    BY <1>5 DEF AllKnown
  <2> QED
    BY <2>2, <2>3 DEF Heads
<1>10. DepsKnown'
  BY <1>1, <1>2, <1>4 DEF DepsKnown, Known, Made
<1>11. AllKnown'
  BY <1>1, <1>2, <1>4 DEF CommitTxn, CloseTxn, AllKnown, callVars, TypeOK
<1>12. Layered'
  <2> SUFFICES ASSUME NEW S \in SUBSET (Known'), S # {}
               PROVE  \E d \in S : \A e \in S : d \notin deps'[e]
    BY DEF Layered
  <2>1. CASE c \in S
    BY <2>1, <1>4, <1>5, <1>6
  <2>2. CASE c \notin S
    <3>1. S \in SUBSET Known
      BY <2>2, <1>4
    <3>2. PICK d \in S : \A e \in S : d \notin deps[e]
      BY <3>1 DEF Layered
    <3> QED
      BY <3>1, <3>2, <1>5
  <2> QED
    BY <2>1, <2>2
<1> QED
  BY <1>7, <1>8, <1>9, <1>10, <1>11, <1>12

-----------------------------------------------------------------------------
\* The wire.
LEMMA WireStep ==
    ASSUME IInv, wire' \subseteq Known,
           UNCHANGED <<deps, graph, buffer, phase, base, callVars, disk, crashes>>
    PROVE  IInv'
<1> USE DEF IInv
<1>1. Known' = Known /\ DepsKnown' /\ Layered'
  BY NothingMade
<1>2. wire' \subseteq Commit
  BY ReplicationAssumption DEF Known, Made
<1>3. TypeOK'
  BY <1>2 DEF TypeOK, callVars
<1>4. GraphsClosed' /\ TransactionsOnHeads'
  BY DEF GraphsClosed, TransactionsOnHeads, Heads
<1>5. AllKnown'
  BY <1>1 DEF AllKnown, callVars
<1> QED
  BY <1>1, <1>3, <1>4, <1>5

\* The beginning of a call, on a graph that is closed.
LEMMA CallStep ==
    ASSUME IInv, NEW r \in Replica, NEW who \in {"chunks", "merge", "file", "bootstrap"},
           NEW cs \in SUBSET Known, Call(r, who, cs),
           phase[r] \in {"idle", "down"},
           buffer' = buffer \/ buffer' = [buffer EXCEPT ![r] = {}],
           \/ graph' = graph /\ phase[r] = "idle"
           \/ graph' = [graph EXCEPT ![r] = {Root}]
    PROVE  IInv'
<1> USE DEF IInv
<1>1. Known' = Known /\ DepsKnown' /\ Layered'
  BY NothingMade DEF Call
<1>2. Root \in Known /\ Known \subseteq Commit /\ deps[Root] = {}
  BY ReplicationAssumption DEF Known, Made, DepsKnown
<1>3. TypeOK'
  BY <1>2 DEF Call, TypeOK
<1>4. GraphsClosed'
  BY <1>2 DEF Call, GraphsClosed, TypeOK
<1>5. TransactionsOnHeads'
  BY DEF Call, TransactionsOnHeads, TypeOK, Heads
<1>6. AllKnown'
  BY <1>1, <1>2 DEF Call, AllKnown, TypeOK
<1> QED
  BY <1>1, <1>3, <1>4, <1>5, <1>6

\* The commit of the loop.
LEMMA ApplyOneStep ==
    ASSUME IInv, NEW r \in Replica, NEW c \in Commit, ApplyOne(r, c)
    PROVE  IInv'
<1> USE DEF IInv
<1>1. Known' = Known /\ DepsKnown' /\ Layered'
  BY NothingMade DEF ApplyOne
<1>2. /\ phase[r] = "call"
      /\ c \in batch[r]
      /\ deps[c] \subseteq graph[r]
      /\ graph' = [graph EXCEPT ![r] = @ \cup {c}]
      /\ batch' = [batch EXCEPT ![r] = @ \ {c}]
  BY DEF ApplyOne, Popped, Ready
<1>3. TypeOK'
  BY <1>2 DEF ApplyOne, TypeOK
<1>4. GraphsClosed'
  BY <1>2 DEF ApplyOne, GraphsClosed, TypeOK
<1>5. TransactionsOnHeads'
  BY <1>2 DEF ApplyOne, TransactionsOnHeads, TypeOK, Heads
<1>6. AllKnown'
  BY <1>1, <1>2 DEF ApplyOne, AllKnown, TypeOK
<1> QED
  BY <1>1, <1>3, <1>4, <1>5, <1>6

\* The end of a call, with the store or without it.
LEMMA LeaveStep ==
    ASSUME IInv, NEW r \in Replica, NEW next \in {"idle", "down"},
           Leave(r, next), phase[r] = "call",
           buffer' = buffer \/ buffer' = [buffer EXCEPT ![r] = batch[r]],
           \/ next = "idle" /\ graph' = graph
           \/ next = "down" /\ graph' = [graph EXCEPT ![r] = {}]
    PROVE  IInv'
<1> USE DEF IInv
<1>1. Known' = Known /\ DepsKnown' /\ Layered'
  BY NothingMade DEF Leave
<1>2. TypeOK'
  BY DEF Leave, TypeOK
<1>3. GraphsClosed'
  BY DEF Leave, GraphsClosed, TypeOK
<1>4. TransactionsOnHeads'
  BY DEF Leave, TransactionsOnHeads, TypeOK, Heads
<1>5. AllKnown'
  BY <1>1 DEF Leave, AllKnown, TypeOK
<1> QED
  BY <1>1, <1>2, <1>3, <1>4, <1>5

\* A file that is written, and a process that stops.
LEMMA ProcessStep ==
    ASSUME IInv, NEW r \in Replica, Save(r) \/ Crash(r)
    PROVE  IInv'
<1> USE DEF IInv
<1>1. Known' = Known /\ DepsKnown' /\ Layered'
  BY NothingMade DEF Save, Crash
<1>2. CASE Save(r)
  <2>1. TypeOK'
    BY <1>2 DEF Save, TypeOK, callVars
  <2>2. GraphsClosed' /\ TransactionsOnHeads'
    BY <1>2 DEF Save, GraphsClosed, TransactionsOnHeads, Heads
  <2>3. AllKnown'
    BY <1>1, <1>2 DEF Save, AllKnown, TypeOK, callVars
  <2> QED
    BY <1>1, <2>1, <2>2, <2>3
<1>3. CASE Crash(r)
  <2>1. TypeOK'
    BY <1>3, ReplicationAssumption DEF Crash, TypeOK
  <2>2. GraphsClosed'
    BY <1>3 DEF Crash, GraphsClosed, TypeOK
  <2>3. TransactionsOnHeads'
    BY <1>3 DEF Crash, TransactionsOnHeads, TypeOK, Heads
  <2>4. AllKnown'
    BY <1>1, <1>3 DEF Crash, AllKnown, TypeOK
  <2> QED
    BY <1>1, <2>1, <2>2, <2>3, <2>4
<1> QED
  BY <1>2, <1>3

\* Every step keeps the strengthening.
LEMMA NextInv == IInv /\ [Next]_vars => IInv'
<1> SUFFICES ASSUME IInv, [Next]_vars PROVE IInv'
  OBVIOUS
<1> USE DEF IInv
<1>1. ASSUME NEW r \in Replica, User(r) PROVE IInv'
  <2>1. CASE Transaction(r)
    BY <2>1, TransactionStep
  <2>2. CASE EndTxn(r)
    BY <2>2, EndTxnStep DEF EndTxn
  <2>3. ASSUME NEW c \in Commit, CommitTxn(r, c) PROVE IInv'
    BY <2>3, CommitTxnStep
  <2>4. ASSUME NEW c \in Commit, CommitRefused(r, c) PROVE IInv'
    BY <2>4, EndTxnStep DEF CommitRefused
  <2> QED
    BY <1>1, <2>1, <2>2, <2>3, <2>4 DEF User
<1>2. ASSUME NEW r \in Replica, Sync(r) PROVE IInv'
  <2>1. ASSUME NEW have \in SUBSET Commit, Send(r, have) PROVE IInv'
    <3>1. wire' \subseteq Known
      BY <2>1, AnswersHeld DEF Send, AllKnown
    <3> QED
      BY <2>1, <3>1, WireStep DEF Send
  <2>2. ASSUME NEW p \in Others(r), MergeFrom(r, p) PROVE IInv'
    <3>1. CommitsAdded(graph[r], graph[p]) \ graph[r] \in SUBSET Known
      BY <2>2, AddedHeld DEF Others, AllKnown
    <3>2. phase[r] = "idle" /\ graph' = graph /\ buffer' = buffer
      BY <2>2 DEF MergeFrom
    <3> QED
      BY <2>2, <3>1, <3>2, CallStep DEF MergeFrom
  <2>3. ASSUME NEW cs \in SUBSET wire, Receive(r, cs) PROVE IInv'
    <3>1. (cs \cup buffer[r]) \ graph[r] \in SUBSET Known
      BY <2>3 DEF AllKnown
    <3> QED
      BY <2>3, <3>1, CallStep DEF Receive
  <2>4. ASSUME NEW cs \in SUBSET wire, Bootstrap(r, cs) PROVE IInv'
    <3>1. cs \ {Root} \in SUBSET Known
      BY <2>4 DEF AllKnown
    <3> QED
      BY <2>4, <3>1, CallStep DEF Bootstrap
  <2> QED
    BY <1>2, <2>1, <2>2, <2>3, <2>4 DEF Sync
<1>3. ASSUME NEW r \in Replica, Loop(r) PROVE IInv'
  <2>1. ASSUME NEW c \in Commit, ApplyOne(r, c) PROVE IInv'
    BY <2>1, ApplyOneStep
  <2>2. ASSUME NEW c \in Commit, ApplyFails(r, c) PROVE IInv'
    BY <2>2, LeaveStep DEF ApplyFails, NoStore, Popped
  <2>3. CASE Return(r)
    <3>1. CASE caller[r] = "file" /\ batch[r] # {}
      BY <2>3, <3>1, LeaveStep DEF Return, NoStore
    <3>2. CASE ~(caller[r] = "file" /\ batch[r] # {})
      <4>1. Leave(r, "idle") /\ graph' = graph /\ phase[r] = "call"
        BY <2>3, <3>2 DEF Return
      <4>2. buffer' = buffer \/ buffer' = [buffer EXCEPT ![r] = batch[r]]
        BY <2>3, <3>2 DEF Return, TypeOK
      <4> QED
        BY <4>1, <4>2, LeaveStep
    <3> QED
      BY <3>1, <3>2
  <2> QED
    BY <1>3, <2>1, <2>2, <2>3 DEF Loop
<1>4. ASSUME NEW r \in Replica, Open(r) PROVE IInv'
  <2>1. disk[r] \ {Root} \in SUBSET Known
    BY <1>4 DEF AllKnown
  <2> QED
    BY <1>4, <2>1, CallStep DEF Open
<1>5. ASSUME NEW c \in Commit, Lose(c) PROVE IInv'
  <2>1. wire' \subseteq Known
    BY <1>5 DEF Lose, AllKnown
  <2> QED
    BY <1>5, <2>1, WireStep DEF Lose
<1>6. CASE UNCHANGED vars
  <2>1. wire' \subseteq Known
    BY <1>6 DEF vars, AllKnown
  <2> QED
    BY <1>6, <2>1, WireStep DEF vars
<1> QED
  BY <1>1, <1>2, <1>3, <1>4, <1>5, <1>6, ProcessStep DEF Next

\* IInv holds in every reachable state.
THEOREM Invariance == Spec => []IInv
BY InitInv, NextInv, PTL DEF Spec

-----------------------------------------------------------------------------
(***************************************************************************)
(* What follows from it.                                                   *)
(***************************************************************************)

\* Type correctness.
THEOREM TypeCorrect == Spec => []TypeOK
<1>1. IInv => TypeOK
  BY DEF IInv
<1> QED
  BY <1>1, Invariance, PTL

\* No replica ever holds a commit without what it was made on top of.
THEOREM Closed == Spec => []GraphsClosed
<1>1. IInv => GraphsClosed
  BY DEF IInv
<1> QED
  BY <1>1, Invariance, PTL

\* An open transaction is on top of all the heads of its store.
THEOREM OnHeads == Spec => []TransactionsOnHeads
<1>1. IInv => TransactionsOnHeads
  BY DEF IInv
<1> QED
  BY <1>1, Invariance, PTL

\* Heads say all of what a replica holds.
THEOREM HeadsAreEnough == Spec => []HeadsIdentify
<1>1. IInv => HeadsIdentify
  <2> SUFFICES ASSUME IInv, NEW p \in Replica, NEW r \in Replica,
                      Heads(graph[p]) = Heads(graph[r])
               PROVE  graph[p] = graph[r]
    BY DEF HeadsIdentify
  <2>1. /\ Layered /\ ClosedSet(graph[p]) /\ ClosedSet(graph[r])
        /\ graph[p] \in SUBSET Known /\ graph[r] \in SUBSET Known
    BY DEF IInv, GraphsClosed, ClosedSet, AllKnown
  <2>2. Heads(graph[p]) \subseteq graph[r] /\ Heads(graph[r]) \subseteq graph[p]
    BY DEF Heads
  <2>3. graph[p] \subseteq graph[r] /\ graph[r] \subseteq graph[p]
    BY <2>1, <2>2, HeadsCover
  <2> QED
    BY <2>3
<1> QED
  BY <1>1, Invariance, PTL

\* Answering a peer that told its heads gives it all it lacks, and nothing
\* else if the heads were known here.
THEOREM AnswersAreExact == Spec => []AnswersExact
<1>1. IInv => AnswersExact
  <2> SUFFICES ASSUME IInv, NEW p \in Replica, NEW r \in Replica
               PROVE  LET have == Heads(graph[r])
                          answer == CommitsAfter(graph[p], have)
                      IN  /\ graph[p] \ graph[r] \subseteq answer
                          /\ have \subseteq graph[p]
                                => answer = graph[p] \ graph[r]
    BY DEF AnswersExact
  <2> DEFINE have == Heads(graph[r])
             seen == Seen(graph[p], have)
  <2>1. /\ Layered /\ ClosedSet(graph[p]) /\ ClosedSet(graph[r])
        /\ graph[p] \in SUBSET Known /\ graph[r] \in SUBSET Known
        /\ graph[p] \in SUBSET Commit /\ graph[r] \in SUBSET Commit
    BY DEF IInv, GraphsClosed, ClosedSet, AllKnown, TypeOK
  <2>2. have \subseteq graph[r]
    BY DEF Heads
  <2>3. seen \subseteq graph[r]
    BY <2>1, <2>2 DEF Seen, ClosedSet
  <2>4. ASSUME have \subseteq graph[p] PROVE graph[r] \subseteq seen
    <3> SUFFICES ASSUME NEW c \in graph[r], NEW S \in SUBSET Commit,
                        have \subseteq S,
                        \A d \in S \cap graph[p] : deps[d] \subseteq S
                 PROVE  c \in S
      BY <2>1 DEF Seen
    <3>1. ClosedSet(S \cap graph[p])
      BY <2>1 DEF ClosedSet
    <3>2. have \subseteq S \cap graph[p]
      BY <2>4
    <3>3. graph[r] \subseteq S \cap graph[p]
      <4> HIDE DEF have
      <4> DEFINE h == S \cap graph[p]
      <4>1. Heads(graph[r]) \subseteq h
        BY <3>2 DEF have
      <4>2. ClosedSet(h)
        BY <3>1
      <4> HIDE DEF h
      <4>3. graph[r] \subseteq h
        BY <2>1, <4>1, <4>2, HeadsCover
      <4> QED
        BY <4>3 DEF h
    <3> QED
      BY <3>3
  <2>5. CommitsAfter(graph[p], have) = graph[p] \ seen
    BY DEF CommitsAfter
  <2> HIDE DEF have, seen
  <2>6. graph[p] \ graph[r] \subseteq CommitsAfter(graph[p], have)
    BY <2>3, <2>5
  <2>7. have \subseteq graph[p]
            => CommitsAfter(graph[p], have) = graph[p] \ graph[r]
    BY <2>3, <2>4, <2>5
  <2> QED
    BY <2>6, <2>7 DEF have
<1> QED
  BY <1>1, Invariance, PTL

\* A merge finds exactly what is missing.
THEOREM MergesAreExact == Spec => []AddedExact
<1>1. IInv => AddedExact
  <2> SUFFICES ASSUME IInv, NEW p \in Replica, NEW r \in Replica
               PROVE  CommitsAdded(graph[r], graph[p]) = graph[p] \ graph[r]
    BY DEF AddedExact
  <2> DEFINE g == graph[p]
             mine == graph[r]
             added == CommitsAdded(mine, g)
  <2>1. /\ Layered /\ ClosedSet(g) /\ ClosedSet(mine)
        /\ g \in SUBSET Known
        /\ g \in SUBSET Commit /\ mine \in SUBSET Commit
    BY DEF IInv, GraphsClosed, ClosedSet, AllKnown, TypeOK
  <2> HIDE DEF g, mine
  <2>2. added \subseteq g \ mine
    <3> DEFINE S == g \ mine
    <3>1. /\ S \in SUBSET Commit
          /\ Heads(g) \ mine \subseteq S
          /\ \A d \in S \cap g : deps[d] \ mine \subseteq S
      BY <2>1 DEF Heads, ClosedSet
    <3> HIDE DEF S
    <3>2. added \subseteq S
      BY <3>1 DEF CommitsAdded
    <3> QED
      BY <3>2 DEF S
  <2>3. g \ mine \subseteq added
    <3> SUFFICES ASSUME NEW c \in g \ mine, NEW S \in SUBSET Commit,
                        Heads(g) \ mine \subseteq S,
                        \A d \in S \cap g : deps[d] \ mine \subseteq S
                 PROVE  c \in S
      BY DEF CommitsAdded
    <3> DEFINE h == (S \cap g) \cup mine
    <3>1. ClosedSet(h)
      BY <2>1 DEF ClosedSet
    <3>2. Heads(g) \subseteq h
      BY DEF Heads
    <3> HIDE DEF h
    <3>3. g \subseteq h
      BY <2>1, <3>1, <3>2, HeadsCover
    <3> QED
      BY <3>3 DEF h
  <2> QED
    BY <2>2, <2>3 DEF g, mine
<1> QED
  BY <1>1, Invariance, PTL

\* What replicas ask of each other, and what they answer, is the difference of
\* their graphs.
THEOREM ExchangesAreExact == Spec => []ExchangesExact
<1>1. AnswersExact /\ AddedExact => ExchangesExact
  BY DEF ExchangesExact
<1> QED
  BY <1>1, AnswersAreExact, MergesAreExact, PTL
=============================================================================
