------------------------------ MODULE Sorting ------------------------------
(***************************************************************************)
(* Sequences put into an order: the filters and the stable sorts of the    *)
(* compilers.  The k-th element is the one up to which there are k, so     *)
(* that what they make of a sequence can be proved (the provers cannot     *)
(* look into the sorts of the library, which take an operator).            *)
(***************************************************************************)
EXTENDS Integers, FiniteSets

\* the numbers of a finite set by their size
Ascending(I) ==
  [k \in 1 .. Cardinality(I) |-> CHOOSE i \in I : Cardinality({j \in I : j <= i}) = k]

\* the elements of a sequence at some of its indices
Those(s, I) == [k \in 1 .. Cardinality(I) |-> s[Ascending(I)[k]]]

\* the indices up to one of them, by their keys and then by their size
UpTo(I, key, i) == {j \in I : key[j] < key[i] \/ (key[j] = key[i] /\ j <= i)}

\* a stable sort by the keys of the indices
SortedBy(s, key) ==
  [k \in DOMAIN s |->
     s[CHOOSE i \in DOMAIN s : Cardinality(UpTo(DOMAIN s, key, i)) = k]]
=============================================================================
