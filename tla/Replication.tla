---------------------------- MODULE Replication ----------------------------
(***************************************************************************)
(* Several coln stores that start from one theory, hence from one root     *)
(* commit, each behind an AutoStore (store/auto.rs) on which a user runs   *)
(* transactions (txn/), and which exchange the commits they lack           *)
(* (Store::commits_after, commits_added, merge, apply_chunk_bytes).        *)
(*                                                                         *)
(* The transport is not part of coln-store: chunks go through a sync       *)
(* server, which may lose, repeat, delay, reorder and regroup them, and    *)
(* deliver them to any replica.  A replica may stop at any time and lose   *)
(* what it did not save.                                                   *)
(*                                                                         *)
(* A call of apply_commits takes one commit per step, the least ready one, *)
(* which is what the counters of its work list amount to (ApplyCommits).   *)
(***************************************************************************)
EXTENDS Naturals

CONSTANTS
    Replica,
    Commit,         \* the hashes of commits
    Root,           \* the commit every store is built from
    Rank,           \* Rank[c]: the place of c in the byte order of hashes
    Refuses(_, _),  \* Refuses(g, c): c breaks a key or a rule on top of g
    MaxCrashes      \* bound: how often a process stops

ASSUME ReplicationAssumption ==
    /\ Root \in Commit
    /\ Rank \in [Commit -> Nat]
    /\ \A c, d \in Commit : Rank[c] = Rank[d] => c = d
    /\ MaxCrashes \in Nat

VARIABLES
    deps,       \* deps[c]: what c was made on top of; {} for a hash not in use
    graph,      \* graph[r]: the commits in the CommitGraph of replica r
    buffer,     \* buffer[r]: Store::pending_commits
    phase,      \* "idle", "txn" (AutoStore::txn is open), "call", "down"
    base,       \* base[r]: TxnInner::deps of the open transaction
    caller,     \* who called apply_commits
    batch,      \* the local `pending' of apply_commits
    disk,       \* disk[r]: the last file written; {} if there is none
    wire,       \* commits in chunks on their way
    crashes

callVars == <<caller, batch>>
vars == <<deps, graph, buffer, phase, base, callVars, disk, wire, crashes>>

Made == {c \in Commit : deps[c] # {}}

-----------------------------------------------------------------------------
(***************************************************************************)
(* Reading a commit graph g.                                               *)
(***************************************************************************)

\* Mutant of Heads: of concurrent heads only the last one is remembered.
HeadsLast(g) ==
    LET tips == {c \in g : \A d \in g : c \notin deps[d]}
    IN  {c \in tips : \A d \in tips : Rank[d] <= Rank[c]}

\* CommitGraph::heads
Heads(g) == {c \in g : \A d \in g : c \notin deps[d]}

\* Mutant of Seen: the search does not go past the heads.
SeenHeadsOnly(g, have) == have

\* The search of commits_after: the given heads and, below those that are
\* known, everything they depend on.
Seen(g, have) ==
    {c \in Commit :
        \A S \in SUBSET Commit :
            (have \subseteq S /\ \A d \in S \cap g : deps[d] \subseteq S)
            => c \in S}

\* Store::commits_after: what a peer with these heads may lack.
CommitsAfter(g, have) == g \ Seen(g, have)

\* Store::commits_added: the search from the heads of the other store, which
\* turns back at what this store has.
CommitsAdded(mine, g) ==
    {c \in g :
        \A S \in SUBSET Commit :
            (/\ Heads(g) \ mine \subseteq S
             /\ \A d \in S \cap g : deps[d] \ mine \subseteq S)
            => c \in S}

\* The set `ready' of apply_commits.
Ready(g, b) == {c \in b : deps[c] \subseteq g}

Popped(r, c) ==
    /\ phase[r] = "call"
    /\ c \in Ready(graph[r], batch[r])
    /\ \A d \in Ready(graph[r], batch[r]) : Rank[c] <= Rank[d]

-----------------------------------------------------------------------------
(***************************************************************************)
(* Transactions of an AutoStore.  The store is inside the transaction      *)
(* while one is open, so nothing else can be done with it.                 *)
(***************************************************************************)

\* Mutant of DepsOfNew: only one of the heads.
DepsOfNewLeast(g) == {c \in Heads(g) : \A d \in Heads(g) : Rank[c] <= Rank[d]}

\* OwnedTransaction::new
DepsOfNew(g) == Heads(g)

Transaction(r) ==
    /\ phase[r] = "idle"
    /\ phase' = [phase EXCEPT ![r] = "txn"]
    /\ base' = [base EXCEPT ![r] = DepsOfNew(graph[r])]
    /\ UNCHANGED <<deps, graph, buffer, callVars, disk, wire, crashes>>

\* AutoStore::commit and abort take the transaction and put the store back.
CloseTxn(r) ==
    /\ phase[r] = "txn"
    /\ phase' = [phase EXCEPT ![r] = "idle"]
    /\ base' = [base EXCEPT ![r] = {}]
    /\ UNCHANGED <<buffer, callVars, disk, wire, crashes>>

\* TxnInner::commit with the rows TxnInner::add has collected: the commit gets
\* a hash nobody has seen and is applied.
CommitTxn(r, c) ==
    /\ c \notin Made \cup {Root}
    /\ base[r] \subseteq graph[r]
    /\ ~Refuses(graph[r], c)
    /\ deps' = [deps EXCEPT ![c] = base[r]]
    /\ graph' = [graph EXCEPT ![r] = @ \cup {c}]
    /\ CloseTxn(r)

\* The commit is refused; nobody else ever hears of it.
CommitRefused(r, c) ==
    /\ c \notin Made \cup {Root}
    /\ base[r] \subseteq graph[r]
    /\ Refuses(graph[r], c)
    /\ CloseTxn(r)
    /\ UNCHANGED <<deps, graph>>

\* An empty transaction commits nothing; abort, and the destructor of an
\* AutoStore, drop the rows.
EndTxn(r) ==
    /\ CloseTxn(r)
    /\ UNCHANGED <<deps, graph>>

-----------------------------------------------------------------------------
(***************************************************************************)
(* Synchronisation.                                                        *)
(***************************************************************************)

\* Mutant of Announced: commits that only wait in the buffer count as held.
AnnouncedBuffered(r) == Heads(graph[r] \cup buffer[r])

\* What r tells its peers of what it holds (Store::heads).
Announced(r) == Heads(graph[r])

\* FragmentSync::commit_chunks_after: p answers with the commits after some
\* heads, which may be those of a replica that has moved on, or lost them.
Send(p, have) ==
    /\ phase[p] = "idle"
    /\ wire' = wire \cup CommitsAfter(graph[p], have)
    /\ UNCHANGED <<deps, graph, buffer, phase, base, callVars, disk, crashes>>

\* A chunk is lost; one that is not may be delivered many times.
Lose(c) ==
    /\ c \in wire
    /\ wire' = wire \ {c}
    /\ UNCHANGED <<deps, graph, buffer, phase, base, callVars, disk, crashes>>

Call(r, who, cs) ==
    /\ phase' = [phase EXCEPT ![r] = "call"]
    /\ caller' = [caller EXCEPT ![r] = who]
    /\ batch' = [batch EXCEPT ![r] = cs]
    /\ UNCHANGED <<deps, base, disk, wire, crashes>>

\* FragmentSync::apply_chunk_bytes: the buffer joins the batch.
Receive(r, cs) ==
    /\ phase[r] = "idle"
    /\ cs \subseteq wire
    /\ Call(r, "chunks", (cs \cup buffer[r]) \ graph[r])
    /\ buffer' = [buffer EXCEPT ![r] = {}]
    /\ UNCHANGED graph

\* Store::merge with a store of the same process.
MergeFrom(r, p) ==
    /\ phase[r] = "idle"
    /\ phase[p] = "idle"
    /\ Call(r, "merge", CommitsAdded(graph[r], graph[p]) \ graph[r])
    /\ UNCHANGED <<graph, buffer>>

-----------------------------------------------------------------------------
(***************************************************************************)
(* The loop of apply_commits, and how its callers leave.                   *)
(***************************************************************************)
Leave(r, next) ==
    /\ phase' = [phase EXCEPT ![r] = next]
    /\ caller' = [caller EXCEPT ![r] = "none"]
    /\ batch' = [batch EXCEPT ![r] = {}]
    /\ UNCHANGED <<deps, base, disk, wire, crashes>>

\* A store that could not be built does not exist.
NoStore(r) ==
    /\ Leave(r, "down")
    /\ graph' = [graph EXCEPT ![r] = {}]
    /\ UNCHANGED buffer

ApplyOne(r, c) ==
    /\ Popped(r, c)
    /\ ~Refuses(graph[r], c)
    /\ graph' = [graph EXCEPT ![r] = @ \cup {c}]
    /\ batch' = [batch EXCEPT ![r] = @ \ {c}]
    /\ UNCHANGED <<deps, buffer, phase, base, caller, disk, wire, crashes>>

\* The call fails; what was applied before stays applied.
ApplyFails(r, c) ==
    /\ Popped(r, c)
    /\ Refuses(graph[r], c)
    /\ IF caller[r] \in {"file", "bootstrap"}
       THEN NoStore(r)
       ELSE Leave(r, "idle") /\ UNCHANGED <<graph, buffer>>

\* Nothing is ready: apply_chunk_bytes and try_from_chunks buffer the rest,
\* merge drops it, decode_store refuses a file that has any.
Return(r) ==
    /\ phase[r] = "call"
    /\ Ready(graph[r], batch[r]) = {}
    /\ IF caller[r] = "file" /\ batch[r] # {}
       THEN NoStore(r)
       ELSE /\ Leave(r, "idle")
            /\ buffer' = [buffer EXCEPT ![r] =
                            IF caller[r] \in {"chunks", "bootstrap"}
                            THEN batch[r] ELSE @]
            /\ UNCHANGED graph

-----------------------------------------------------------------------------
(***************************************************************************)
(* The life of a process.                                                  *)
(***************************************************************************)

\* encode_store
Save(r) ==
    /\ phase[r] = "idle"
    /\ disk' = [disk EXCEPT ![r] = graph[r]]
    /\ UNCHANGED <<deps, graph, buffer, phase, base, callVars, wire, crashes>>

Crash(r) ==
    /\ crashes < MaxCrashes
    /\ phase[r] # "down"
    /\ crashes' = crashes + 1
    /\ phase' = [phase EXCEPT ![r] = "down"]
    /\ graph' = [graph EXCEPT ![r] = {}]
    /\ buffer' = [buffer EXCEPT ![r] = {}]
    /\ base' = [base EXCEPT ![r] = {}]
    /\ caller' = [caller EXCEPT ![r] = "none"]
    /\ batch' = [batch EXCEPT ![r] = {}]
    /\ UNCHANGED <<deps, disk, wire>>

\* A new process opens the file (decode_store) or, without one, builds an
\* empty store from the theory (try_from_ir).
Open(r) ==
    /\ phase[r] = "down"
    /\ graph' = [graph EXCEPT ![r] = {Root}]
    /\ Call(r, "file", disk[r] \ {Root})
    /\ UNCHANGED buffer

\* Without a file it may also start from the chunks of its peers
\* (try_from_commit_bytes), if the root is among them.
Bootstrap(r, cs) ==
    /\ phase[r] = "down"
    /\ disk[r] = {}
    /\ cs \subseteq wire
    /\ Root \in cs
    /\ graph' = [graph EXCEPT ![r] = {Root}]
    /\ Call(r, "bootstrap", cs \ {Root})
    /\ UNCHANGED buffer

-----------------------------------------------------------------------------
Init ==
    /\ deps = [c \in Commit |-> {}]
    /\ graph = [r \in Replica |-> {Root}]
    /\ buffer = [r \in Replica |-> {}]
    /\ phase = [r \in Replica |-> "idle"]
    /\ base = [r \in Replica |-> {}]
    /\ caller = [r \in Replica |-> "none"]
    /\ batch = [r \in Replica |-> {}]
    /\ disk = [r \in Replica |-> {}]
    /\ wire = {}
    /\ crashes = 0

Others(r) == Replica \ {r}

Loop(r) == Return(r) \/ \E c \in Commit : ApplyOne(r, c) \/ ApplyFails(r, c)

User(r) ==
    \/ Transaction(r) \/ EndTxn(r)
    \/ \E c \in Commit : CommitTxn(r, c) \/ CommitRefused(r, c)

Sync(r) ==
    \/ \E have \in SUBSET Commit : Send(r, have)
    \/ \E p \in Others(r) : MergeFrom(r, p)
    \/ \E cs \in SUBSET wire : Receive(r, cs) \/ Bootstrap(r, cs)

Next ==
    \/ \E r \in Replica :
           User(r) \/ Sync(r) \/ Loop(r) \/ Save(r) \/ Crash(r) \/ Open(r)
    \/ \E c \in Commit : Lose(c)

Spec == Init /\ [][Next]_vars

(***************************************************************************)
(* Calls return, users close their transactions, a process that stopped is *)
(* started again.  Replicas tell each other their heads and answer again   *)
(* and again; from some time on the server loses nothing, and a commit it  *)
(* holds is offered to a replica whenever that can take it.  Nobody has to *)
(* save, to write, or to merge.                                            *)
(***************************************************************************)
Deliver(r, c) == \E cs \in SUBSET wire : c \in cs /\ Receive(r, cs)

Fairness ==
    /\ <>[][\A c \in Commit : ~Lose(c)]_vars
    /\ \A r \in Replica :
           /\ WF_vars(Loop(r))
           /\ WF_vars(EndTxn(r))
           /\ WF_vars(Open(r))
           /\ \A p \in Others(r) : SF_vars(Send(p, Announced(r)))
           /\ \A c \in Commit \ {Root} : SF_vars(Deliver(r, c))

FairSpec == Spec /\ Fairness

-----------------------------------------------------------------------------
(***************************************************************************)
(* Properties                                                              *)
(***************************************************************************)

\* Every variable holds values of its type; only a running call has a batch,
\* only an open transaction dependencies, and no store holds no commit.
TypeOK ==
    /\ deps \in [Commit -> SUBSET Commit]
    /\ graph \in [Replica -> SUBSET Commit]
    /\ buffer \in [Replica -> SUBSET Commit]
    /\ phase \in [Replica -> {"idle", "txn", "call", "down"}]
    /\ base \in [Replica -> SUBSET Commit]
    /\ caller \in [Replica -> {"none", "chunks", "merge", "file", "bootstrap"}]
    /\ batch \in [Replica -> SUBSET Commit]
    /\ disk \in [Replica -> SUBSET Commit]
    /\ wire \in SUBSET Commit
    /\ crashes \in 0 .. MaxCrashes
    /\ \A r \in Replica :
           /\ caller[r] # "none" <=> phase[r] = "call"
           /\ phase[r] # "call" => batch[r] = {}
           /\ phase[r] # "txn" => base[r] = {}
           /\ IF phase[r] = "down" THEN graph[r] = {} ELSE Root \in graph[r]

\* Whatever was lost, repeated or reordered on the way, a replica holds no
\* commit without those it was made on top of.
GraphsClosed == \A r \in Replica : \A c \in graph[r] : deps[c] \subseteq graph[r]

\* The dependencies a transaction captured when it was opened are still all
\* the heads when it commits, so a local commit never misses a dependency
\* (the unreachable! of txn/inner.rs 127) and joins all branches.
TransactionsOnHeads ==
    \A r \in Replica : phase[r] = "txn" => base[r] = Heads(graph[r])

\* Two replicas with the same heads hold the same commits: heads are all that
\* replicas tell each other of what they hold.
HeadsIdentify ==
    \A p, r \in Replica :
        (/\ phase[p] # "down" /\ phase[r] # "down"
         /\ Heads(graph[p]) = Heads(graph[r]))
        => graph[p] = graph[r]

\* An answer to the current heads of a peer contains everything the peer
\* lacks, although the answering store may not know those heads; if it does,
\* it contains nothing else.
AnswersExact ==
    \A p, r \in Replica :
        LET have == Heads(graph[r])
            answer == CommitsAfter(graph[p], have)
        IN  /\ graph[p] \ graph[r] \subseteq answer
            /\ have \subseteq graph[p] => answer = graph[p] \ graph[r]

\* A merge asks for exactly the commits that the other store has and this one
\* lacks, although its search turns back at the first commit this one has.
AddedExact ==
    \A p, r \in Replica :
        CommitsAdded(graph[r], graph[p]) = graph[p] \ graph[r]

\* What replicas ask of each other and answer covers the difference of their
\* graphs, although both searches turn back early.
ExchangesExact == AnswersExact /\ AddedExact

\* Once nobody writes any more, all replicas hold the same commits for good,
\* whatever was lost before, if no commit is refused.
Converge == <>[](\A p, r \in Replica : graph[p] = graph[r])
=============================================================================
