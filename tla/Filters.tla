------------------------------- MODULE Filters -------------------------------
(***************************************************************************)
(* The loops that append some elements of a slice to a new one.  SelectSeq *)
(* says the same, but the proof system knows no definition of it.          *)
(***************************************************************************)
EXTENDS Naturals, Sequences

(* The elements that are among these, in their order. *)
Kept(s, these) ==
    LET kept[n \in 0 .. Len(s)] ==
            IF n = 0 THEN <<>> ELSE IF s[n] \in these THEN Append(kept[n - 1], s[n]) ELSE kept[n - 1]
    IN  kept[Len(s)]
=============================================================================
