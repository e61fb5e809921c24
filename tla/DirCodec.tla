------------------------------ MODULE DirCodec ------------------------------
(* fs/src/cafs/mod.rs: the bytes of a directory.  An entry is an inode number *)
(* encoded without zero bytes (inode_number_binary); a zero byte separates    *)
(* the entries.  CAFS::create appends an entry, CAFS::sub_inodes splits the   *)
(* bytes at the zeros and decodes them (inode_number_from).                   *)
EXTENDS Integers, Sequences

\* inode numbers, as their eight little-endian bytes
u64 == [1..8 -> 0..255]

\* inode_number_binary.  Byte i + 1 of the sequences is byte i of the arrays.
ZeroFlag(bytes) ==
    LET add[i \in 0..8] == IF i = 0 THEN 0
                           ELSE add[i - 1] + (IF bytes[i] = 0 THEN 2 ^ (i - 1) ELSE 0)
    IN  add[8]

inode_number_binary(bytes) ==
    LET flag == ZeroFlag(bytes)
    IN  [i \in 1..8 |-> IF bytes[i] = 0 THEN 255 ELSE bytes[i]]
        \o (IF flag = 0 THEN <<255, 20>> ELSE <<flag, 10>>)

\* Mutant: the last byte, which tells 255 from no flag, is not looked at.
number_from_flag(arr) ==
    [i \in 1..8 |-> IF (arr[9] \div 2 ^ (i - 1)) % 2 = 0 THEN arr[i] ELSE 0]

\* inode_number_from
inode_number_from(arr) ==
    LET flag == IF arr[10] = 20 THEN 0 ELSE arr[9]
    IN  [i \in 1..8 |-> IF (flag \div 2 ^ (i - 1)) % 2 = 0 THEN arr[i] ELSE 0]

\* slice::split at the zero bytes
Split(s) ==
    LET zeros == SelectSeq([i \in 1..Len(s) |-> i], LAMBDA i : s[i] = 0)
        ends == <<0>> \o zeros \o <<Len(s) + 1>>
    IN  [k \in 1..(Len(ends) - 1) |-> SubSeq(s, ends[k] + 1, ends[k + 1] - 1)]

\* The numbers that CAFS::sub_inodes reads.
Decoded(s) ==
    IF s = <<>> THEN <<>>
    ELSE [k \in 1..Len(Split(s)) |-> inode_number_from(SubSeq(Split(s)[k], 1, 10))]

\* The bytes that CAFS::create writes back to the directory.
Extended(s, number) ==
    s \o (IF s = <<>> THEN <<>> ELSE <<0>>) \o inode_number_binary(number)
=============================================================================
