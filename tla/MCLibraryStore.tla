---------------------------- MODULE MCLibraryStore ----------------------------
(* Small instances of LibraryStore for TLC. *)
EXTENDS LibraryStore, TLC

CONSTANTS b1, r1, r2

MCBooks == {b1}
MCRequests == {r1, r2}
SymmetricRequests == Permutations(MCRequests)

\* title is hashed, translator is not, tags are hashed and joined.
AllFields == {"title", "translator", "tags"}
AllHashed == {"title", "tags"}
OnlyTags == {"tags"}

\* The second text of the tags names the same ones as the first, in an order
\* of its own.
Texts == [f \in AllFields |-> IF f = "title" THEN 1 .. 3 ELSE 1 .. 2]
ReadBack == [f \in AllFields |-> [x \in Texts[f] |-> IF f = "tags" THEN 1 ELSE x]]

ThreeTexts == [f \in OnlyTags |-> 1 .. 3]
TagsReadBack == [f \in OnlyTags |-> [x \in 1 .. 3 |-> IF x = 2 THEN 1 ELSE x]]
=============================================================================
