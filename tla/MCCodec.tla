------------------------------ MODULE MCCodec ------------------------------
(* Three tables: integers with references, strings, and no columns at all. *)
EXTENDS StoreFile

AnyRow == [kind |-> "any"]

MCSchema == [A |-> [path |-> <<65>>, columns |-> <<"int", "ref">>],
             B |-> [path |-> <<66, 98>>, columns |-> <<"str">>],
             U |-> [path |-> <<85>>, columns |-> <<>>]]

(* -1 and 64 are the ends of one byte; 130 takes two of which the second   *)
(* has room for bits that IntBits cuts off.  The last row of B is of the   *)
(* wrong type.                                                             *)
MCRows == [A |-> {<<IntCell(-1), AnyRow>>, <<IntCell(130), AnyRow>>},
           B |-> {<<StrCell(<<>>)>>, <<StrCell(<<97>>)>>, <<IntCell(64)>>},
           U |-> {<<>>}]

MCStamps == {[time |-> -65, message |-> <<>>], [time |-> 3, message |-> <<<<109>>>>]}

MCAuthor == <<0, 0>>
MCRootPayload == <<123, 125>>

(* Beside the store, a stream of bytes of which numbers are read.  Numbers *)
(* have 5 bits in groups of 2, so that 4 bytes already overflow.           *)
VARIABLE stream

Small == INSTANCE Leb128 WITH Group <- 2, Width <- 5

Receive(byte) ==
    /\ commits = <<commits[1]>> /\ pending = <<>> /\ Len(stream) < 4
    /\ stream' = Append(stream, byte)
    /\ UNCHANGED vars

MCInit == Init /\ stream = <<>>
MCNext == \/ stream = <<>> /\ Next /\ UNCHANGED stream
          \/ \E byte \in 0 .. 7 : Receive(byte)
MCSpec == MCInit /\ [][MCNext]_<<vars, stream>>

(* Every number of the width has exactly one encoding, the writer's: what  *)
(* is written is read back, at every boundary of the groups and of the     *)
(* width, and a stream that the readers accept begins with what the writer *)
(* would have written.                                                     *)
NumbersOnce == stream # <<>> =>
    LET u == Small!read_u64(stream, 0)
        i == Small!read_i64(stream, 0)
    IN  /\ u.ok => SubSeq(stream, 1, u.pos) = Small!write_u64(u.value)
        /\ i.ok => SubSeq(stream, 1, i.pos) = Small!write_i64(i.value)
        /\ \A v \in 0 .. 31 : LET written == Small!write_u64(v)
                              IN  Small!read_u64(written \o stream, 0) = Small!Number(v, Len(written))
        /\ \A v \in -16 .. 15 : LET written == Small!write_i64(v)
                                IN  Small!read_i64(written \o stream, 0) = Small!Number(v, Len(written))

(* A commit has one payload, and so one hash: its numbers have one encoding *)
(* each, and no byte of a payload is skipped.                                *)
OneEncoding == NumbersOnce /\ NothingIgnored

=============================================================================
