----------------------------- MODULE MCDualSlot -----------------------------
(* Small instances of DualSlot: two pages of two chunks, chunks of two     *)
(* cells, two releases, and downloads that are good, corrupted or too big. *)
EXTENDS DualSlot

Image(n, f(_)) == [c \in 0 .. n - 1 |-> f(c)]
OldByte(c) == IF c = 2 THEN "e" ELSE "x"
NewByte(c) == IF c \in {1, 4} THEN "e" ELSE "x"

(* The second release fills the slot; the first one ends inside a chunk.   *)
OldImage == Image(5, OldByte)
NewImage == Image(8, NewByte)
MCImages == {OldImage, NewImage}

InSlot(i) == [c \in Cells |-> IF c \in DOMAIN i THEN i[c] ELSE Erased]
HeaderOf(i, n) == [size |-> n, digest |-> i, sig |-> i]

MCPackages ==
    {[hdr |-> HeaderOf(OldImage, 5), data |-> InSlot(OldImage)],
     [hdr |-> HeaderOf(NewImage, 8), data |-> InSlot(NewImage)],
     [hdr |-> HeaderOf(NewImage, 8), data |-> InSlot(OldImage)],   \* corrupted
     [hdr |-> HeaderOf(NewImage, 9), data |-> InSlot(NewImage)]}   \* too large

-----------------------------------------------------------------------------
=============================================================================
