------------------------------- MODULE Leb128 -------------------------------
(***************************************************************************)
(* Variable-length integers (coln-store/src/commit/leb128.rs): a number is *)
(* written in groups of Group bits, least significant first, each in a     *)
(* byte whose top bit says that another follows.  The code has Group = 7   *)
(* and Width = 64; its limits rest on a last byte that holds one bit only, *)
(* so Width is one more than a multiple of Group here too.  The writers    *)
(* are the leb128 crate's; the readers are the store's own.                *)
(***************************************************************************)
EXTENDS Integers, Sequences, FiniteSetsExt

CONSTANTS Group, Width

ASSUME WidthAssumption ==
    Group \in Nat \ {0, 1} /\ Width \in Nat /\ Width > Group /\ Width % Group = 1

More     == 2 ^ Group                    \* the continuation bit of a byte
SignBit  == 2 ^ (Group - 1)              \* the sign, in the last group
MaxBytes == (Width \div Group) + 1       \* the byte at which shift exceeds Width

Groups(v, n) ==
    [i \in 1 .. n |->
        ((v \div 2 ^ (Group * (i - 1))) % More) + (IF i < n THEN More ELSE 0)]

write_u64(v) == Groups(v, Min({n \in 1 .. MaxBytes : v < 2 ^ (Group * n)}))

write_i64(v) ==
    Groups(v, Min({n \in 1 .. MaxBytes : /\ -(2 ^ (Group * n - 1)) <= v
                                         /\ v < 2 ^ (Group * n - 1)}))

-----------------------------------------------------------------------------
(* A number found at pos of data: its bytes up to the first without a      *)
(* continuation bit, of which there are none when the data end first or    *)
(* when MaxBytes bytes go on.                                              *)

Lengths(data, pos) ==
    {n \in 1 .. MaxBytes : /\ pos + n <= Len(data)
                           /\ data[pos + n] < More
                           /\ \A i \in 1 .. n - 1 : data[pos + i] >= More}

Sum(data, pos, n) ==
    LET sum[i \in 0 .. n] ==
            IF i = 0 THEN 0 ELSE sum[i - 1] + (data[pos + i] % More) * 2 ^ (Group * (i - 1))
    IN  sum[n]

Refused == [ok |-> FALSE]
Number(v, pos) == [ok |-> TRUE, value |-> v, pos |-> pos]

unsigned(data, pos, n) ==
    IF (n = MaxBytes /\ data[pos + n] > 1) \/ (n > 1 /\ data[pos + n] = 0)
    THEN Refused
    ELSE Number(Sum(data, pos, n), pos + n)

read_u64(data, pos) ==
    IF Lengths(data, pos) = {} THEN Refused ELSE unsigned(data, pos, Min(Lengths(data, pos)))

(* The value of n signed bytes.  What the last of MaxBytes bytes holds      *)
(* beyond Width is shifted out; what is left of it is the sign.            *)
SignedSum(data, pos, n) ==
    LET last == data[pos + n]
    IN  IF n = MaxBytes
        THEN Sum(data, pos, n - 1) - (IF last = 0 THEN 0 ELSE 2 ^ (Width - 1))
        ELSE Sum(data, pos, n) - (IF last < SignBit THEN 0 ELSE 2 ^ (Group * n))

TooLarge(data, pos, n) == n = MaxBytes /\ data[pos + n] \notin {0, More - 1}

(* A last group without value taken for superfluous whatever the sign.     *)
superfluousUnsigned(data, pos, n) == n > 1 /\ data[pos + n] = 0

(* A last group that only repeats the sign bit before it.                  *)
superfluous(data, pos, n) ==
    LET last == data[pos + n]
        previous == data[pos + n - 1] % More
    IN  n > 1 /\ \/ last = 0 /\ previous < SignBit
                 \/ last = More - 1 /\ previous >= SignBit

signed(data, pos, n) ==
    IF TooLarge(data, pos, n) \/ superfluous(data, pos, n) THEN Refused
    ELSE Number(SignedSum(data, pos, n), pos + n)

read_i64(data, pos) ==
    IF Lengths(data, pos) = {} THEN Refused ELSE signed(data, pos, Min(Lengths(data, pos)))

(* The leb128 crate's reader, which a cell's integer goes through: it does *)
(* not mind an encoding that is longer than it has to be.                  *)
any_signed(data, pos, n) ==
    IF TooLarge(data, pos, n) THEN Refused ELSE Number(SignedSum(data, pos, n), n)

read_signed(data) ==
    IF Lengths(data, 0) = {} THEN Refused ELSE any_signed(data, 0, Min(Lengths(data, 0)))

=============================================================================
