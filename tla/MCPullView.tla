---------------------------- MODULE MCPullView ----------------------------
(***************************************************************************)
(* Small instances of PullView: three files, two pull requests against one *)
(* base, one of them analysed by two tasks (a webhook delivered twice).    *)
(***************************************************************************)
EXTENDS PullView, TLC

CONSTANTS ta, tb, tc, base, head, other, f, g, h, a1, b0, b1, b2, c0, d0

\* head adds file 1, modifies file 2 and deletes file 4; other modifies file
\* 2 in its own way; file 3 stays
Commits ==
  base :> (1 :> None @@ 2 :> b0 @@ 3 :> c0 @@ 4 :> d0)
  @@ head :> (1 :> a1 @@ 2 :> b1 @@ 3 :> c0 @@ 4 :> None)
  @@ other :> (1 :> None @@ 2 :> b2 @@ 3 :> c0 @@ 4 :> d0)

BaseOf == [t \in Tasks |-> base]
HeadOf == [t \in Tasks |-> IF t = tc THEN other ELSE head]
DiffOf == [t \in Tasks |-> IF t = tc THEN {2} ELSE {1, 2, 4}]

\* a1 defines f, which calls g; c0 defines h, which calls f
DefsOf ==
  a1 :> {f} @@ b0 :> {f} @@ b1 :> {g} @@ b2 :> {h} @@ c0 :> {h} @@ d0 :> {g}
UsesOf ==
  [b \in Blobs |-> CASE b = a1 -> {<<f, g>>} [] b = c0 -> {<<h, f>>} [] OTHER -> {}]
=============================================================================
