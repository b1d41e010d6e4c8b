------------------------------ MODULE FactRows ------------------------------
(***************************************************************************)
(* What the indexer makes of the facts of a file: rows that hang on the    *)
(* identifier of a symbol.  An identifier is built from a name, a kind and *)
(* a parent; here it is the triple itself, in the form the three give it.  *)
(***************************************************************************)
EXTENDS Integers, Sequences, FiniteSets, SequencesExt

\* FileIndex of a file without facts, as of one that does not parse
NoFacts ==
  [symbols |-> {}, imports |-> <<>>, calls |-> {}, types |-> <<>>, constructs |-> {}]

\* build_symbol_fqn
Fqn(f, name, kind, parent) ==
  IF parent # "" THEN <<"member", f, parent, name>>
  ELSE IF kind = "class" THEN <<"class", f, name>>
  ELSE <<"module", f, name>>

\* the symbols a file defines
DefinedRows(f, idx) == {Fqn(f, s.name, s.kind, s.parent) : s \in idx.symbols}

\* Mutant of CallRows: the parent of the caller is forgotten
CallRowsPlain(f, idx) == {Fqn(f, c.caller, "", "") : c \in idx.calls}

CallRows(f, idx) == {Fqn(f, c.caller, "", c.owner) : c \in idx.calls}

ConstructsOf(idx, kind) == {c \in idx.constructs : c.kind = kind}

EndpointRows(f, idx) == {Fqn(f, c.name, "", "") : c \in ConstructsOf(idx, "route")}

ModelRows(f, idx) == {Fqn(f, c.name, "class", "") : c \in ConstructsOf(idx, "model")}
=============================================================================
