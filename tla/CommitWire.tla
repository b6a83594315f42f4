----------------------------- MODULE CommitWire -----------------------------
(***************************************************************************)
(* The canonical payload of a commit (coln-store/src/commit/wire/data.rs,  *)
(* wire/prim.rs, hash_dict.rs): what the hash of a commit is taken of, and *)
(* what snapshots and peers hand around.  Rows are grouped by table and    *)
(* stored by column; a reference to another commit's row names the commit  *)
(* by its place in a dictionary, one to a row of the same commit by -1.    *)
(*                                                                         *)
(* A payload is a sequence of bytes.  A hash is HashSize of them; a path   *)
(* or a string is a sequence of codes below 128, and bytes that are not    *)
(* all of that kind stand for invalid utf-8.  The columns of the hexane    *)
(* library, run-length and delta encoded, are plain sequences here.  The   *)
(* i32 of an integer cell is IntBits wide.                                 *)
(***************************************************************************)
EXTENDS Leb128, SequencesExt

CONSTANTS HashSize, IntBits, Schema

(* A table's path, and the kinds of its columns: "int", "str" or "ref".    *)
ASSUME SchemaAssumption ==
    /\ \A t \in DOMAIN Schema : Schema[t] \in [path : Seq(0 .. 127), columns : Seq(STRING)]
    /\ \A t, u \in DOMAIN Schema : Schema[t].path = Schema[u].path => t = u
ASSUME SizeAssumption ==
    HashSize \in Nat \ {0} /\ IntBits \in Nat \ {0} /\ IntBits < Width

IntCell(i)     == [kind |-> "int", int |-> i]
StrCell(s)     == [kind |-> "str", str |-> s]
Pending(n)     == [kind |-> "pending", counter |-> n]
Existing(h, n) == [kind |-> "existing", commit |-> h, counter |-> n]

OP_KIND_ADD == 0
LOCAL_COMMIT_HASH_INDEX == -1

Column(bytes) == write_u64(Len(bytes)) \o bytes          \* write_len_prefixed_bytes
Items(s, Write(_)) == FlattenSeq([i \in DOMAIN s |-> Write(s[i])])
Place(x, s) == (CHOOSE i \in DOMAIN s : s[i] = x) - 1

-----------------------------------------------------------------------------
(* Writing.                                                                *)

Add(row, table, values) == [row_id |-> row, table |-> table, values |-> values]

FirstSeen(s) == FoldLeft(LAMBDA seen, x : IF Contains(seen, x) THEN seen ELSE Append(seen, x),
                         <<>>, s)

collect_op_hashes(pending) ==
    LET values == FlattenSeq([i \in DOMAIN pending |-> pending[i].values])
        old == SelectSeq(values, LAMBDA v : v.kind = "existing")
    IN  FirstSeen([i \in DOMAIN old |-> old[i].commit])

TypeCode(kind) == IF kind = "int" THEN 4 ELSE 12       \* ValueType::Leb, ValueType::String
ValueMeta(kind, bytes) == Len(bytes) * 32 + TypeCode(kind)

encode_prim_value(v) == IF v.kind = "int" THEN write_i64(v.int) ELSE v.str

encode_txn_prim_value_column(values) ==
    LET bytes == [i \in DOMAIN values |-> encode_prim_value(values[i])]
        meta == [i \in DOMAIN values |-> ValueMeta(values[i].kind, bytes[i])]
    IN  Column(Items(meta, write_u64)) \o Column(FlattenSeq(bytes))

encode_txn_row_ref_column(values, other) ==
    LET index(v) == IF v.kind = "pending" THEN LOCAL_COMMIT_HASH_INDEX ELSE Place(v.commit, other)
    IN  Column(Items(values, LAMBDA v : write_i64(index(v))))
          \o Column(Items(values, LAMBDA v : write_u64(v.counter)))

encode_op_group(t, rows, other) ==
    LET cells(c) == [r \in DOMAIN rows |-> rows[r].values[c]]
        blob(c) == IF Schema[t].columns[c] = "ref"
                   THEN encode_txn_row_ref_column(cells(c), other)
                   ELSE encode_txn_prim_value_column(cells(c))
    IN  Column(Schema[t].path) \o write_u64(Len(rows)) \o write_u64(Len(Schema[t].columns))
          \o FlattenSeq([c \in DOMAIN Schema[t].columns |-> Column(blob(c))])

encode_commit_body(pending, other) ==
    LET groups == FirstSeen([i \in DOMAIN pending |-> pending[i].table])
        group(t) == SelectSeq(pending, LAMBDA op : op.table = t)
    IN  Column(Items(pending, LAMBDA op : write_u64(OP_KIND_ADD)))
          \o Column(Items(pending, LAMBDA op : write_u64(Place(op.table, groups))))
          \o write_u64(Len(groups))
          \o Items(groups, LAMBDA t : Column(encode_op_group(t, group(t), other)))

(* A message is absent, <<>>, or present, <<m>>; an empty one is written   *)
(* as none.                                                                *)
Message(data) == IF data.message = <<>> THEN <<>> ELSE data.message[1]

write_hash_dict(hashes) == write_u64(Len(hashes)) \o FlattenSeq(hashes)

serialize(data) ==
    Column(data.author) \o write_u64(Len(data.deps)) \o FlattenSeq(data.deps)
      \o write_hash_dict(data.other_hashes)
      \o write_i64(data.timestamp) \o Column(Message(data))
      \o encode_commit_body(data.pending, data.other_hashes) \o data.extra_bytes

(* CommitData::new                                                         *)
CommitData(author, deps, time, message, pending) ==
    [author |-> author, deps |-> deps, other_hashes |-> <<>>, timestamp |-> time,
     message |-> message, pending |-> pending, extra_bytes |-> <<>>]

(* Commit::from_commit_data                                                *)
WithHashes(data) == [data EXCEPT !.other_hashes = collect_op_hashes(data.pending)]

-----------------------------------------------------------------------------
(* Reading.  A reader is where it is in the bytes and what it has read so  *)
(* far; once it has failed it stays failed.                                *)

Reader(bytes) == [ok |-> TRUE, data |-> bytes, pos |-> 0, read |-> <<>>]
Fail(r) == [r EXCEPT !.ok = FALSE]
Read(r) == Last(r.read)
AtEnd(r) == r.pos = Len(r.data)

Scalar(r, number) ==
    IF ~ number.ok THEN Fail(r)
    ELSE [r EXCEPT !.pos = number.pos, !.read = Append(@, number.value)]
Len64(r) == IF r.ok THEN Scalar(r, read_u64(r.data, r.pos)) ELSE r
Signed64(r) == IF r.ok THEN Scalar(r, read_i64(r.data, r.pos)) ELSE r

read_slice(r, n) ==
    IF ~ r.ok THEN r
    ELSE IF Len(r.data) < r.pos + n THEN Fail(r)
    ELSE [r EXCEPT !.pos = @ + n, !.read = Append(@, SubSeq(r.data, r.pos + 1, r.pos + n))]

Blob(r) ==
    LET slice(n) == IF n.ok THEN read_slice([n EXCEPT !.read = r.read], Read(n)) ELSE n
    IN  slice(Len64(r))

(* n things one after the other, as one sequence.  Each of them takes a    *)
(* byte at least, so more of them than there are bytes left cannot be read.*)
Repeat(r, n, One(_)) ==
    LET start == [r EXCEPT !.read = <<>>]
        all == FoldLeft(LAMBDA s, i : IF s.ok THEN One(s) ELSE s, start,
                        [i \in 1 .. n |-> i])
    IN  IF ~ r.ok THEN r
        ELSE IF n > Len(r.data) - r.pos THEN Fail(r)
        ELSE [all EXCEPT !.read = Append(r.read, all.read)]

Hashes(r) ==
    LET dict(n) == IF n.ok THEN Repeat([n EXCEPT !.read = r.read], Read(n),
                                       LAMBDA s : read_slice(s, HashSize))
                   ELSE n
    IN  dict(Len64(r))

IsUtf8(bytes) == \A i \in DOMAIN bytes : bytes[i] < 128

(* A column of the hexane library: numbers until the end of it.            *)
Numbers(bytes, One(_)) ==
    FoldLeft(LAMBDA r, i : IF r.ok /\ ~ AtEnd(r) THEN One(r) ELSE r,
             Reader(bytes), [i \in DOMAIN bytes |-> i])

(* A result, and the first error of several (the operator ?).              *)
Bad == [ok |-> FALSE]
Good(v) == [ok |-> TRUE, value |-> v]
Then(result, Rest(_)) == IF result.ok THEN Rest(result.value) ELSE Bad
AllGood(results) ==
    IF \A i \in DOMAIN results : results[i].ok
    THEN Good([i \in DOMAIN results |-> results[i].value])
    ELSE Bad

decode_txn_row_ref_column(bytes, hashes) ==
    LET known(i) == i = LOCAL_COMMIT_HASH_INDEX \/ i \in 0 .. Len(hashes) - 1
        value(i, n) == IF i = LOCAL_COMMIT_HASH_INDEX THEN Pending(n) ELSE Existing(hashes[i + 1], n)
        cells(indexes, counters) ==
            IF /\ indexes.ok /\ counters.ok
               /\ Len(indexes.read) = Len(counters.read)
               /\ \A k \in DOMAIN indexes.read : known(indexes.read[k])
            THEN Good([k \in DOMAIN indexes.read |-> value(indexes.read[k], counters.read[k])])
            ELSE Bad
        column(r) ==
            IF r.ok /\ AtEnd(r)
            THEN cells(Numbers(r.read[1], Signed64), Numbers(r.read[2], Len64))
            ELSE Bad
    IN  column(Blob(Blob(Reader(bytes))))

Cut(i, bits) == ((i + 2 ^ (bits - 1)) % 2 ^ bits) - 2 ^ (bits - 1)       \* i as i32

IntCellOf(number, bytes, bits) ==
    IF number.ok /\ number.pos = Len(bytes) THEN Good(IntCell(Cut(number.value, bits))) ELSE Bad
StrCellOf(bytes) == IF IsUtf8(bytes) THEN Good(StrCell(bytes)) ELSE Bad

decode_prim_value(meta, kind, bytes, bits) ==
    CASE kind = "int" /\ meta % 32 = TypeCode("int") -> IntCellOf(read_signed(bytes), bytes, bits)
      [] kind = "str" /\ meta % 32 = TypeCode("str") -> StrCellOf(bytes)
      [] OTHER -> Bad          \* not valid for the column's type, or not supported

decode_txn_prim_value_column(bytes, kind, bits) ==
    LET cells(meta, values) ==
            LET ends[i \in 0 .. Len(meta)] == IF i = 0 THEN 0 ELSE ends[i - 1] + meta[i] \div 32
                value(i) == decode_prim_value(meta[i], kind,
                                              SubSeq(values, ends[i - 1] + 1, ends[i]), bits)
            IN  IF ends[Len(meta)] = Len(values)
                THEN AllGood([i \in DOMAIN meta |-> value(i)])
                ELSE Bad
        split(metas, values) == IF metas.ok THEN cells(metas.read, values) ELSE Bad
        column(r) ==
            IF r.ok /\ AtEnd(r) THEN split(Numbers(r.read[1], Len64), r.read[2]) ELSE Bad
    IN  column(Blob(Blob(Reader(bytes))))

decode_op_group(bytes, hashes, bits) ==
    LET cells(kind, column) ==
            IF kind = "ref" THEN decode_txn_row_ref_column(column, hashes)
            ELSE decode_txn_prim_value_column(column, kind, bits)
        group(t, n, columns) ==
            IF \A c \in DOMAIN columns : Len(columns[c]) = n
            THEN Good([table |-> t,
                       rows |-> [i \in 1 .. n |-> [c \in DOMAIN columns |-> columns[c][i]]]])
            ELSE Bad
        rest(t, kinds, n, r) ==
            IF r.ok /\ AtEnd(r)
            THEN Then(AllGood([c \in DOMAIN kinds |-> cells(kinds[c], Read(r)[c])]),
                      LAMBDA columns : group(t, n, columns))
            ELSE Bad
        named(head, t) ==
            IF head.read[3] = Len(Schema[t].columns)
            THEN rest(t, Schema[t].columns, head.read[2], Repeat(head, head.read[3], Blob))
            ELSE Bad
        table(head) ==
            IF /\ head.ok /\ IsUtf8(head.read[1])
               /\ \E u \in DOMAIN Schema : Schema[u].path = head.read[1]
            THEN named(head, CHOOSE t \in DOMAIN Schema : Schema[t].path = head.read[1])
            ELSE Bad
    IN  table(Len64(Len64(Blob(Reader(bytes)))))

(* The place within the group not advanced.                                *)
ReassembledStuck(sequence, groups) ==
    [i \in DOMAIN sequence |->
        LET g == groups[sequence[i] + 1] IN Add(i - 1, g.table, g.rows[1])]

(* The rows of the groups, put back in the order of the table sequence.    *)
Reassembled(sequence, groups) ==
    [i \in DOMAIN sequence |->
        LET g == groups[sequence[i] + 1]
            offset == Cardinality({j \in 1 .. i : sequence[j] = sequence[i]})
        IN  Add(i - 1, g.table, g.rows[offset])]

(* Every operation has its row and every row its operation: no index of    *)
(* the sequence out of bounds, no group exhausted, none with rows left.    *)
Covers(sequence, groups) ==
    /\ \A i \in DOMAIN sequence : sequence[i] < Len(groups)
    /\ \A g \in DOMAIN groups :
          Cardinality({i \in DOMAIN sequence : sequence[i] = g - 1}) = Len(groups[g].rows)

decode_commit_body(r, hashes, bits) ==
    LET body(kinds, sequence, groups, pos) ==
            IF /\ kinds.ok /\ sequence.ok
               /\ Len(kinds.read) = Len(sequence.read)
               /\ groups.ok
               /\ \A i \in DOMAIN kinds.read : kinds.read[i] = OP_KIND_ADD
               /\ Covers(sequence.read, groups.value)
            THEN [ok |-> TRUE, pos |-> pos, value |-> Reassembled(sequence.read, groups.value)]
            ELSE Bad
        decoded(blobs) == AllGood([g \in DOMAIN blobs |-> decode_op_group(blobs[g], hashes, bits)])
        columns(s) ==
            IF s.ok
            THEN body(Numbers(s.read[1], Len64), Numbers(s.read[2], Len64), decoded(Read(s)), s.pos)
            ELSE Bad
        blobs(count) == Repeat(count, Read(count), Blob)
    IN  columns(blobs(Len64(Blob(Blob([r EXCEPT !.read = <<>>])))))

deserialize(bytes, bits) ==
    LET data(r, body) ==
            IF r.ok /\ IsUtf8(Read(r)) /\ body.ok
            THEN Good([author       |-> r.read[1],
                       deps         |-> r.read[2],
                       other_hashes |-> r.read[3],
                       timestamp    |-> r.read[4],
                       message      |-> IF Read(r) = <<>> THEN <<>> ELSE <<Read(r)>>,
                       pending      |-> body.value,
                       extra_bytes  |-> SubSeq(bytes, body.pos + 1, Len(bytes))])
            ELSE Bad
        header(r) == data(r, decode_commit_body(r, r.read[3], bits))
    IN  header(Blob(Signed64(Hashes(Hashes(Blob(Reader(bytes)))))))

=============================================================================
