---------------------------- MODULE MCFactIndex ----------------------------
(***************************************************************************)
(* Small instances of FactIndex: two files, two versions, two processes.   *)
(***************************************************************************)
EXTENDS FactIndex, TLC

CONSTANTS h1, h2, i1, i2, v1, v2, p1, p2, b1, b2, b3, f, g, k

HostApart == i1 :> h1 @@ i2 :> h2      \* one indexer in each process
HostOne == i1 :> h1

\* b1 defines f, which calls g; b2 and b3 define one symbol each
SmallFacts ==
  b1 :> [defs |-> {f}, uses |-> {<<f, g>>}]
  @@ b2 :> [defs |-> {k}, uses |-> {}]
  @@ b3 :> [defs |-> {g}, uses |-> {}]

\* contents that define one symbol and call nothing
PlainFacts == [b \in {b1, b2, b3} |-> [defs |-> {f}, uses |-> {}]]

\* two files with contents of their own; v2 modifies the second
Edited == v1 :> (p1 :> b1 @@ p2 :> b2) @@ v2 :> (p1 :> b1 @@ p2 :> b3)

\* v2 swaps the two files: its facts come from the other path's cache
Swapped == v1 :> (p1 :> b1 @@ p2 :> b2) @@ v2 :> (p1 :> b2 @@ p2 :> b1)

\* one version
Single == v1 :> (p1 :> b1 @@ p2 :> b2)

=============================================================================
