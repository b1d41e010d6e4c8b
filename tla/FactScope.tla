----------------------------- MODULE FactScope -----------------------------
(***************************************************************************)
(* What lazy resolution and the full index promise together about one      *)
(* commit: the files whose facts are known only grow, one at a time, and   *)
(* the commit is declared wholly indexed only once every file is known,    *)
(* for good.                                                               *)
(***************************************************************************)
CONSTANT Paths

VARIABLES known, whole

Init == known = {} /\ whole = FALSE

Learn(p) ==
  /\ known' = known \cup {p}
  /\ UNCHANGED whole

Declare ==
  /\ known = Paths
  /\ whole' = TRUE
  /\ UNCHANGED known

Next == Declare \/ \E p \in Paths : Learn(p)

Spec == Init /\ [][Next]_<<known, whole>>
=============================================================================
