----------------------------- MODULE SyntaxTree -----------------------------
(***************************************************************************)
(* Syntax trees as the visitors of the language adapters walk them.        *)
(*                                                                         *)
(* A tree is a sequence of nodes in source order.  A node has a kind, the  *)
(* position "up" of the node it lies in (0 for the module), and what the   *)
(* passes of its language read of it.                                      *)
(***************************************************************************)
EXTENDS Integers, Sequences, FiniteSets, SequencesExt, Sorting

\* every node lies in one before it, or in the module
IsTree(t) ==
  /\ Len(t) \in Nat /\ DOMAIN t = 1 .. Len(t)
  /\ \A n \in DOMAIN t : /\ t[n].up \in 0 .. (n - 1)
                         /\ t[n].kind = "import" => t[n].names \in Seq(STRING)

\* the nodes a node lies in
Above(t, n) ==
  LET above[k \in 0..Len(t)] ==
        IF k = 0 THEN {} ELSE {t[k].up} \union above[t[k].up]
  IN above[n] \ {0}

Nodes(t, kinds) == {n \in DOMAIN t : t[n].kind \in kinds}

Under(t, n, kinds) == {a \in Above(t, n) : t[a].kind \in kinds}

Innermost(ns) == CHOOSE n \in ns : \A m \in ns : m <= n

Outermost(ns) == CHOOSE n \in ns : \A m \in ns : n <= m

\* _dispatch: the nodes the passes are called with; a class is not gone into
Dispatched(t) == {n \in DOMAIN t : Under(t, n, {"class"}) = {}}
=============================================================================
