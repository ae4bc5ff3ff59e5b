---------------------------- MODULE MC_FsblBoot ----------------------------
(***************************************************************************)
(* Constants for TLC: three pages of four cells, a sector each.  The       *)
(* writes begin in the middle of a page and at its start, fill a page, end *)
(* inside one, and set no bit; one erase ends with less than a sector, one *)
(* begins inside a sector.                                                 *)
(***************************************************************************)
EXTENDS FsblBoot

MCSomeCells == <<1, 1, 1, 1, 0, 1, 1, 0, 1, 0, 1, 1>>
MCContents  == {[a \in 0 .. 11 |-> 1], [a \in 0 .. 11 |-> MCSomeCells[a + 1]]}
MCWrites    == {[addr |-> 3, data |-> <<0, 1, 0, 0, 1, 0, 0>>],
                [addr |-> 6, data |-> <<0>>],
                [addr |-> 4, data |-> <<1, 0, 0, 1, 0, 0>>]}
MCErases    == {[addr |-> 0, size |-> 8], [addr |-> 4, size |-> 6],
                [addr |-> 2, size |-> 8]}
=============================================================================
