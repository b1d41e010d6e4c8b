--------------------------- MODULE MCResolution ---------------------------
(***************************************************************************)
(* Small instances of Resolution: three files, one of them undecodable,    *)
(* and queries that need one file, two files, or everything.               *)
(***************************************************************************)
EXTENDS Resolution, TLC

CONSTANTS va, vb, p1, p2, p3, imports, callers, tests, entryPoints

\* imports: the imports of p1
\* callers: the callers of a symbol of p1; p2 mentions its name, and so does p3
\* tests: the tests of a symbol the commit does not have, p2 mentions its name
\* entryPoints: what any file may declare
OwnFile == [r \in Reqs |-> IF r = imports THEN p1 ELSE None]

RowOf == [r \in Symbols |-> IF r = callers THEN p1 ELSE None]

Found ==
  [r \in Reqs |-> CASE r = imports -> {} [] r = callers -> {p2, p3}
                    [] r = tests -> {p2} [] r = entryPoints -> {p1, p2, p3}]

UnitSize == [p \in Paths |-> 1]

Peers == Permutations(Views)
=============================================================================
