----------------------------- MODULE Selections -----------------------------
(***************************************************************************)
(* Picking elements of a sequence by a set of its indices, in order.  The  *)
(* streaming engine filters word lists (`Vec::into_iter().filter`); these  *)
(* operators say what such a filter returns without recursion, so that     *)
(* the facts about it can be proved (Selections_proofs).                   *)
(***************************************************************************)
EXTENDS Integers, Sequences, FiniteSets

\* How many of the indices in `idx` are at or below `i`.
Rank(idx, i) == Cardinality({j \in idx : j <= i})

\* The index of the k-th selected element.
Nth(idx, k) == CHOOSE i \in idx : Rank(idx, i) = k

\* The elements of `s` at the indices `idx`, in the order of `s`.
At(s, idx) == [k \in 1..Cardinality(idx) |-> s[Nth(idx, k)]]

\* The elements of `s` from position `i` (0-based, as a Rust slice `s[i..]`).
From(s, i) == SubSeq(s, i + 1, Len(s))

\* The first `i` elements of `s` (the Rust slice `s[..i]`).
UpTo(s, i) == SubSeq(s, 1, i)

=============================================================================
