---------------------------- MODULE OffsetIndex ----------------------------
(***************************************************************************)
(* CodePointIndex of the Python binding and Utf16Index of the Node and     *)
(* WebAssembly bindings.  The core's findings carry byte offsets into all  *)
(* the text a session was given; the index turns them into the offsets of  *)
(* the host's strings (code points, or UTF-16 code units) without keeping  *)
(* the text.                                                               *)
(***************************************************************************)
EXTENDS Integers, Sequences, SequencesExt

CONSTANTS Chunks,              \* what the host may append: sequences of characters
          max_buffered_bytes

\* A character by the number of bytes it takes.
Bytes == [a |-> 1, e |-> 2, k |-> 3, w |-> 4]
Char == DOMAIN Bytes
Bindings == {"python", "node", "wasm"}

\* The length of a character in the strings of a host: Python counts code points, JavaScript
\* UTF-16 code units.
UnitsOf(host) == [c \in Char |-> IF host # "python" /\ c = "w" THEN 2 ELSE 1]

ASSUME HostText == Chunks \subseteq Seq(Char) /\ max_buffered_bytes \in Nat \ {0}

VARIABLES
    binding,
    text,                                       \* all that was appended
    discounts, below_floor, floor, total_bytes

index == <<discounts, below_floor, floor, total_bytes>>

size(u, of) ==
    LET Total[n \in 0 .. Len(u)] == IF n = 0 THEN 0 ELSE Total[n - 1] + of[u[n]]
    IN  Total[Len(u)]
bytes(u) == size(u, Bytes)
units(host, u) == size(u, UnitsOf(host))

\* Offsets of the character boundaries of a text.
Boundaries(u) == {bytes(SubSeq(u, 1, k)) : k \in 0 .. Len(u)}

\* Utf16Index::new, CodePointIndex::new
IndexInit ==
    /\ text = <<>>
    /\ discounts = <<>> /\ below_floor = 0 /\ floor = 0 /\ total_bytes = 0

\* Offsets recorded for the character c at byte `at`, one for each byte that is no unit of its
\* own: the continuation bytes themselves, or the first byte once for each.
continuation_bytes(c, at) == [k \in 1 .. (Bytes[c] - UnitsOf("python")[c]) |-> at + k]
utf16_discounts(c, at) == [k \in 1 .. (Bytes[c] - UnitsOf("node")[c]) |-> at]
recorded(c, at) ==
    IF binding = "python" THEN continuation_bytes(c, at) ELSE utf16_discounts(c, at)

observe(chunk) ==
    /\ discounts' = discounts \o
          FlattenSeq([k \in 1 .. Len(chunk) |->
              recorded(chunk[k], total_bytes + bytes(SubSeq(chunk, 1, k - 1)))])
    /\ total_bytes' = total_bytes + bytes(chunk)
    /\ UNCHANGED <<below_floor, floor>>

\* How many offsets lie below a limit: the discounts ascend, so they are the first ones, which
\* prune takes off the front and partition_point counts.
below(limit) == CHOOSE n \in 0 .. Len(discounts) :
    /\ \A k \in 1 .. n : discounts[k] < limit
    /\ n < Len(discounts) => discounts[n + 1] >= limit

\* Mutant of prune: what is pruned is not counted.
prune_uncounted ==
    LET new_floor == IF total_bytes > max_buffered_bytes
                     THEN total_bytes - max_buffered_bytes ELSE 0
    IN  /\ discounts' = SubSeq(discounts, below(new_floor) + 1, Len(discounts))
        /\ floor' = new_floor
        /\ UNCHANGED <<below_floor, total_bytes>>

\* Mutant of prune: one byte of the window too many.
prune_early ==
    LET new_floor == IF total_bytes >= max_buffered_bytes
                     THEN total_bytes - max_buffered_bytes + 1 ELSE 0
    IN  /\ discounts' = SubSeq(discounts, below(new_floor) + 1, Len(discounts))
        /\ below_floor' = below_floor + below(new_floor)
        /\ floor' = new_floor
        /\ UNCHANGED total_bytes

prune ==
    LET new_floor == IF total_bytes > max_buffered_bytes
                     THEN total_bytes - max_buffered_bytes ELSE 0
    IN  /\ discounts' = SubSeq(discounts, below(new_floor) + 1, Len(discounts))
        /\ below_floor' = below_floor + below(new_floor)
        /\ floor' = new_floor
        /\ UNCHANGED total_bytes

clear ==
    /\ discounts' = <<>> /\ below_floor' = 0
    /\ floor' = total_bytes
    /\ UNCHANGED total_bytes

\* char_offset, code_unit_offset: no offset below the floor.
NoOffset == -1
offset(byte_offset) ==
    IF byte_offset < floor THEN NoOffset
    ELSE byte_offset - (below_floor + below(byte_offset))

---------------------------------------------------------------------------
(* Properties. *)

IndexTypeOK ==
    /\ text \in Seq(Char)
    /\ total_bytes = bytes(text)
    /\ discounts \in Seq(0 .. total_bytes)
    /\ below_floor \in Nat /\ floor \in 0 .. total_bytes

\* The offset a host string of u has at a byte offset that is a boundary of it.
Reference(host, u, byte_offset) ==
    LET k == CHOOSE k \in 0 .. Len(u) : bytes(SubSeq(u, 1, k)) = byte_offset
    IN  units(host, SubSeq(u, 1, k))
=============================================================================
