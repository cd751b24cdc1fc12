---------------------------- MODULE WaiterLists -----------------------------
(***************************************************************************)
(* Lists of waiters: the slices of channels and futures that the           *)
(* semaphore, the queue, the condition and their asyncio counterparts      *)
(* keep.  The entries of a list q are Range(q) and, without repetition, q  *)
(* is injective (module Functions).                                        *)
(***************************************************************************)
EXTENDS Integers, Sequences, FiniteSets, FiniteSetsExt, Functions

\* append(q[:i], q[i+1:]...): q without its i-th entry.
removeAt(q, i) == SubSeq(q, 1, i - 1) \o SubSeq(q, i + 1, Len(q))

\* removeWaiter: q without the first entry that is w.
removeFirst(q, w) ==
  LET places == {i \in DOMAIN q : q[i] = w}
  IN IF places = {} THEN q ELSE removeAt(q, Min(places))

\* The orders in which the elements of a finite set S may come.
orders(S) == Bijection(1..Cardinality(S), S)
=============================================================================
