------------------------------ MODULE StoreFile ------------------------------
(***************************************************************************)
(* From an open transaction to the bytes another process reads: commits    *)
(* are encoded (CommitWire), framed as chunks with a checksum              *)
(* (commit/chunk.rs), written into one store file (commit/pst.rs) or sent  *)
(* one by one (store/frag.rs), and decoded again.  On the way one place of *)
(* the bytes may be damaged.                                               *)
(*                                                                         *)
(* The hash is taken to be perfect: it is a pair of checksums of the       *)
(* content modulo primes, which no two contents met here share.            *)
(***************************************************************************)
EXTENDS CommitWire, TLC

CONSTANTS RootPayload,     \* the JSON of the root commit's schema
          Author,          \* Author::foo(): every commit has the same
          Stamps,          \* the times and messages a commit may have
          Rows,            \* Rows[t]: the rows that may be added to table t,
                           \* "here" and "old" standing for references
          MaxOps,          \* bound: operations of all transactions together
          DamagedOps       \* bound: operations of a store that comes to damage

VARIABLES commits,    \* the store's commits, root first: [hash, data, payload]
          seen,       \* the commits that the open transaction's author has
          pending,    \* its operations
          form,       \* what was written: "none", "file", "chunk" or "payload"
          bytes,      \* of it
          damaged,    \* whether something happened to them
          outcome     \* what reading them gave: "unread" until then

vars == <<commits, seen, pending, form, bytes, damaged, outcome>>

-----------------------------------------------------------------------------
(* Chunks.                                                                 *)

COMMIT == 0
ROOT   == 1
CHUNK_MAGIC == <<71, 77, 99, 109>>
STORE_MAGIC == <<71, 77, 115, 116>>
FORMAT_VERSION == 2

Checksum(s, prime) ==
    LET sum[i \in 0 .. Len(s)] == IF i = 0 THEN 0 ELSE (sum[i - 1] * 257 + s[i]) % prime
    IN  sum[Len(s)]
hash(type, data) ==
    LET content == <<type, Len(data)>> \o data
    IN  <<Checksum(content, 65521), Checksum(content, 65479)>>

chunk_write(type, payload) ==
    CHUNK_MAGIC \o hash(type, payload) \o <<type>> \o write_u64(Len(payload)) \o payload

(* Header::parse and Chunk::read_at: a chunk at r, or a failure.           *)
read_at(r) ==
    LET good(body, type) ==
            /\ body.read[1] = CHUNK_MAGIC
            /\ type \in {COMMIT, ROOT}
            /\ body.read[2] = hash(type, body.read[5])
        chunk(body) ==
            IF ~ body.ok \/ ~ good(body, body.read[3][1]) THEN Fail(r)
            ELSE [body EXCEPT !.read = Append(r.read, [type |-> body.read[3][1],
                                                       payload |-> body.read[5]])]
        payload(head) == IF head.ok THEN read_slice(head, Read(head)) ELSE head
        magic == read_slice([r EXCEPT !.read = <<>>], Len(CHUNK_MAGIC))
    IN  IF ~ r.ok THEN r
        ELSE chunk(payload(Len64(read_slice(read_slice(magic, HashSize), 1))))

(* Chunk::decode                                                           *)
chunk_decode(s) ==
    LET only(r) == IF r.ok /\ AtEnd(r) THEN Good(Read(r)) ELSE Bad
    IN  only(read_at(Reader(s)))

(* Commit::from_chunk                                                      *)
from_chunk(chunk, bits) ==
    LET commit(d) == Good([hash |-> hash(chunk.type, chunk.payload), data |-> d,
                           payload |-> chunk.payload])
    IN  IF chunk.type # ROOT THEN Then(deserialize(chunk.payload, bits), commit)
        ELSE IF chunk.payload = RootPayload THEN commit(<<>>) ELSE Bad

(* The store file: read_store_envelope, then every chunk as a commit of    *)
(* the one root among them (try_from_chunks).                              *)
encode_store(cs) ==
    STORE_MAGIC \o write_u64(FORMAT_VERSION) \o write_u64(Len(cs))
      \o FlattenSeq([i \in DOMAIN cs |-> chunk_write(IF cs[i].data = <<>> THEN ROOT ELSE COMMIT,
                                                     cs[i].payload)])

read_chunks(s) ==
    LET chunks(head) == Repeat(head, Read(head), read_at)
    IN  chunks(Len64(Len64(read_slice(Reader(s), Len(STORE_MAGIC)))))

(* What follows the last chunk not looked at.                              *)
read_store_envelopeLoose(s) ==
    LET store(r) ==
            IF r.ok /\ r.read[1] = STORE_MAGIC /\ r.read[2] = FORMAT_VERSION
            THEN Good(Read(r)) ELSE Bad
    IN  store(read_chunks(s))

read_store_envelope(s) ==
    LET store(r) ==
            IF r.ok /\ r.read[1] = STORE_MAGIC /\ r.read[2] = FORMAT_VERSION /\ AtEnd(r)
            THEN Good(Read(r)) ELSE Bad
    IN  store(read_chunks(s))

decode_store(s) ==
    LET one_root(chunks) ==
            \E i \in DOMAIN chunks :
               /\ chunks[i].type = ROOT
               /\ \A j \in DOMAIN chunks : chunks[j].type = ROOT => j = i
        commits_of(chunks) ==
            IF one_root(chunks)
            THEN AllGood([i \in DOMAIN chunks |-> from_chunk(chunks[i], IntBits)])
            ELSE Bad
    IN  Then(read_store_envelope(s), commits_of)

Unread == [ok |-> FALSE, unread |-> TRUE]

-----------------------------------------------------------------------------
(* A transaction, on the commits that its author has: everything seen by   *)
(* another commit that it has seen, and the root.                          *)

Stamped(data) ==
    LET commit(d, payload) == [hash |-> hash(COMMIT, payload), data |-> d, payload |-> payload]
        encoded(d) == commit(d, serialize(d))
    IN  encoded(WithHashes(data))

Deps(c) == IF c.data = <<>> THEN {} ELSE ToSet(c.data.deps)
Ops(cs) == MapThenSumSet(LAMBDA i : Len(cs[i].data.pending), 2 .. Len(cs))
Closed(S) == \A c \in S : \A d \in ToSet(commits) : d.hash \in Deps(c) => d \in S
Heads(S) == {c.hash : c \in {c \in S : \A d \in S : c.hash \notin Deps(d)}}
Before(g, h) == g[1] < h[1] \/ (g[1] = h[1] /\ g[2] < h[2])

(* encode_op_group and its columns fail on a cell of another type.         *)
Encodes(ops) ==
    \A i \in DOMAIN ops : \A c \in DOMAIN ops[i].values :
        ops[i].values[c].kind \in (IF Schema[ops[i].table].columns[c] = "ref"
                                   THEN {"pending", "existing"}
                                   ELSE {Schema[ops[i].table].columns[c]})

(* The rows that a transaction on the commits S can refer to.              *)
Referable(S) ==
    {Pending(op.row_id) : op \in ToSet(pending)}
      \cup {Existing(c.hash, n) : c \in S \ {commits[1]}, n \in 0 .. MaxOps - 1}

Known(S, ref) == ref.kind = "existing" =>
    \E c \in S : c.hash = ref.commit /\ ref.counter < Len(c.data.pending)

Init ==
    /\ commits = <<[hash |-> hash(ROOT, RootPayload), data |-> <<>>, payload |-> RootPayload]>>
    /\ seen = {commits[1]} /\ pending = <<>>
    /\ form = "none" /\ bytes = <<>> /\ damaged = FALSE /\ outcome = Unread

(* TxnInner::add: the number of cells is checked, their types are not.     *)
AddRow(t) ==
    /\ form = "none" /\ Ops(commits) + Len(pending) < MaxOps
    /\ \E row \in Rows[t] :
         \E ref \in [{c \in DOMAIN row : row[c].kind = "any"} ->
                        {r \in Referable(seen) : Known(seen, r)}] :
            pending' = Append(pending, Add(Len(pending), t,
                         [c \in DOMAIN row |-> IF c \in DOMAIN ref THEN ref[c] ELSE row[c]]))
    /\ UNCHANGED <<commits, seen, form, bytes, damaged, outcome>>

(* TxnInner::commit, and what the next author has seen.  A transaction     *)
(* without operations, or with one that does not encode, leaves no commit. *)
Commit(time, message) ==
    /\ form = "none" /\ pending # <<>>
    /\ \E c \in {Stamped(CommitData(Author, SetToSortSeq(Heads(seen), Before),
                                    time, message, pending))} :
          commits' = IF Encodes(pending) /\ c \notin ToSet(commits) THEN Append(commits, c)
                     ELSE commits
    /\ seen' \in {S \in SUBSET ToSet(commits') : commits[1] \in S /\ Closed(S)}
    /\ pending' = <<>>
    /\ UNCHANGED <<form, bytes, damaged, outcome>>

-----------------------------------------------------------------------------
(* Writing, damage and reading.                                            *)

Write(how, s) ==
    /\ form = "none" /\ pending = <<>> /\ Len(commits) > 1
    /\ form' = how /\ bytes' = s
    /\ UNCHANGED <<commits, seen, pending, damaged, outcome>>

(* CommitGraph::iter_topological: of the commits whose dependencies have   *)
(* all been given, the one with the least hash comes next.                 *)
iter_topological(cs) ==
    LET given(order) == {order[i].hash : i \in DOMAIN order}
        ready(order) == {c \in ToSet(cs) : c.hash \notin given(order) /\ Deps(c) \subseteq given(order)}
        least(S) == CHOOSE c \in S : \A d \in S \ {c} : Before(c.hash, d.hash)
    IN  FoldLeft(LAMBDA order, c : Append(order, least(ready(order))), <<>>, cs)

Save == Write("file", encode_store(iter_topological(commits)))

Send == Write("chunk", chunk_write(COMMIT, Last(commits).payload))

(* The payload by itself, as in a chunk that a peer framed anew.           *)
SendPayload == Write("payload", Last(commits).payload)

(* One byte lost, doubled, changed or put in, two swapped, or the end lost.*)
Edits(s, i) ==
    LET before == SubSeq(s, 1, i - 1)
        after == SubSeq(s, i + 1, Len(s))
    IN  {before} \cup
        {before \o new \o after :
            new \in {<<>>, <<s[i], s[i]>>, <<0, s[i]>>, <<s[i] + 1>>, <<s[i] + 4>>,
                     <<(s[i] + 128) % 256>>}}
        \cup {before \o <<after[1], s[i]>> \o Tail(after) : x \in {1} \cap DOMAIN after}

Damage(i) ==
    /\ form # "none" /\ outcome = Unread /\ ~ damaged /\ Ops(commits) <= DamagedOps
    /\ bytes' \in Edits(bytes, i) \ {bytes}
    /\ damaged' = TRUE
    /\ UNCHANGED <<commits, seen, pending, form, outcome>>

LoadFile ==
    /\ form = "file" /\ outcome = Unread
    /\ outcome' = decode_store(bytes)
    /\ UNCHANGED <<commits, seen, pending, form, bytes, damaged>>

LoadCommit ==
    LET chunk == IF form = "chunk" THEN chunk_decode(bytes)
                 ELSE Good([type |-> COMMIT, payload |-> bytes])
    IN  /\ form \in {"chunk", "payload"} /\ outcome = Unread
        /\ outcome' = Then(chunk, LAMBDA c : from_chunk(c, IntBits))
        /\ UNCHANGED <<commits, seen, pending, form, bytes, damaged>>

Next ==
    \/ \E t \in DOMAIN Schema : AddRow(t)
    \/ \E stamp \in Stamps : Commit(stamp.time, stamp.message)
    \/ Save \/ Send \/ SendPayload
    \/ \E i \in DOMAIN bytes : Damage(i)
    \/ LoadFile \/ LoadCommit

Spec == Init /\ [][Next]_vars

-----------------------------------------------------------------------------
(* What the encoding is for.                                               *)

(* What was written and came to no harm is what is read: the same commits  *)
(* with the same hashes, the rows of all tables in the order they were     *)
(* added, every reference on the row it was on.  A commit is therefore all *)
(* its payload says, and no two commits share a payload, or a hash.  In a  *)
(* file every commit comes after those it depends on or refers to: it can  *)
(* be applied as soon as it is read.                                       *)
RoundTrip ==
    ~ damaged /\ outcome # Unread =>
        IF form # "file" THEN outcome = Good(Last(commits))
        ELSE /\ outcome.ok
             /\ Len(outcome.value) = Len(commits)
             /\ ToSet(outcome.value) = ToSet(commits)
             /\ \A i \in DOMAIN outcome.value :
                  LET c == outcome.value[i]
                      earlier == {outcome.value[j].hash : j \in 1 .. i - 1}
                  IN  c.data # <<>> => ToSet(c.data.deps \o c.data.other_hashes) \subseteq earlier

(* No single damage to a store file or to a chunk on its way, in the       *)
(* framing, the checksum, the lengths, or the payload, goes unnoticed: it  *)
(* is an error, never other commits or fewer of them.                      *)
DamageDetected ==
    damaged /\ form \in {"file", "chunk"} /\ outcome # Unread => outcome = Bad

(* The decoder of a payload skips nothing: one that differs from a commit's*)
(* payload in one place is refused or says something else.  The exception  *)
(* is the one the code makes: the upper bits of an integer are cut off.    *)
NothingIgnored ==
    damaged /\ form = "payload" /\ outcome \notin {Unread, Bad} =>
        \/ outcome.value.data # Last(commits).data
        \/ deserialize(bytes, Width).value # Last(commits).data

=============================================================================
