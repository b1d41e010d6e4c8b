--------------------------- MODULE ChangeCompiler ---------------------------
(***************************************************************************)
(* The change compiler: the facts of the base and of the head compared, one *)
(* changed file after the other in no particular order.                    *)
(*                                                                         *)
(* The base is asked through a view with an empty overlay and the head     *)
(* through the view of the pull request; both answer as ViewCalls says.    *)
(* Symbols are told apart by their numbers.                                *)
(***************************************************************************)
EXTENDS ViewCalls, Naturals

CONSTANTS Spans, Visibilities, Routes, Targets

VARIABLES
  base, head,  \* the versions, the head as the overlay of the view
  pending,     \* the files of the diff not compared yet
  facts        \* ChangeFacts

changeVars == <<base, head, pending, facts>>

Row == Rows(Spans, Visibilities, Routes, Targets)
Kinds == {"added", "removed", "modified"}
Diff == DOMAIN head.change

NoFacts == [symbols |-> {}, addedCalls |-> {}, removedCalls |-> {}, contracts |-> {}]

ChangeTypeOK ==
  /\ base \in Bases(Row) /\ head \in Overlays(Row)
  /\ pending \in SUBSET Diff
  /\ facts.symbols \in SUBSET (Numbers \X Kinds \X Diff)
  /\ facts.addedCalls \in SUBSET (Numbers \X Numbers)
  /\ facts.removedCalls \in SUBSET (Numbers \X Numbers)
  /\ facts.contracts \in
       SUBSET (Numbers \X {"body", "visibility", "api", "surface"} \X Kinds
               \X (Routes \union Targets \union {None}))

\* callees as the view of the base and the view of the pull request answer
BaseCallees(s) == Callees(base, NoOverlay, s)
HeadCallees(s) == Callees(base, head, s)

\* the rows of a file
InFile(rows, f) == [s \in {t \in Numbers : rows[t] # None /\ rows[t].file = f} |-> rows[s]]

\* rows of the overlay in files that are modified: removed_symbols
Replaced == {s \in Numbers : /\ head.rows[s] # None /\ head.rows[s].file \in Diff
                             /\ head.change[head.rows[s].file] = "modified"}

\* get_file of the head and get_symbols_in_file: a deleted file is asked for by the
\* number it has in the base
HeadRows(f) ==
  CASE head.change[f] # "deleted" -> InFile(head.rows, f)
    [] head.change[f] = "deleted" /\ Hidden(head, f) -> <<>>
    [] head.change[f] = "deleted" /\ ~Hidden(head, f) /\ head.twin[f] # None ->
         InFile(head.rows, head.twin[f])
    [] OTHER -> [s \in DOMAIN InFile(base.rows, f) \ Replaced |-> base.rows[s]]

\* a symbol counts as modified when its lines or its visibility differ: facts
\* carry no other property of it
Differ(b, h) == b.span # h.span \/ b.visibility # h.visibility

Edges(s, callees) == {s} \X callees

NewCalls(s) == Edges(s, HeadCallees(s) \ BaseCallees(s))

\* Mutant of LostCalls: the two versions the wrong way round
LostCallsSwapped(s) == Edges(s, HeadCallees(s) \ BaseCallees(s))

LostCalls(s) == Edges(s, BaseCallees(s) \ HeadCallees(s))

\* contract changes of a symbol that was added or removed with its row
Whole(s, row, kind) ==
  ({s} \X {"api"} \X {kind} \X row.api) \union ({s} \X {"surface"} \X {kind} \X row.surfaces)

\* an endpoint is identified by its route and the name of its handler
Lost(b, h) == IF b.name = h.name THEN b.api \ h.api ELSE b.api

\* the contract changes of a symbol that was modified: tables and events are not
\* compared
Parts(s, b, h) ==
  {c \in {<<s, "body", "modified", None>>} : b.span # h.span}
  \union {c \in {<<s, "visibility", "modified", None>>} : b.visibility # h.visibility}
  \union ({s} \X {"api"} \X {"added"} \X Lost(h, b))
  \union ({s} \X {"api"} \X {"removed"} \X Lost(b, h))

ChangeInit ==
  /\ pending = Diff
  /\ facts = NoFacts

CompareFile(f) ==
  /\ f \in pending
  /\ pending' = pending \ {f}
  /\ LET b == InFile(base.rows, f)
         h == HeadRows(f)
         added == DOMAIN h \ DOMAIN b
         removed == DOMAIN b \ DOMAIN h
         modified == {s \in DOMAIN b \intersect DOMAIN h : Differ(b[s], h[s])} IN
     facts' =
       [symbols |-> facts.symbols
          \union (added \X {"added"} \X {f}) \union (removed \X {"removed"} \X {f})
          \union (modified \X {"modified"} \X {f}),
        addedCalls |-> facts.addedCalls
          \union (UNION {Edges(s, HeadCallees(s)) : s \in added})
          \union (UNION {NewCalls(s) : s \in modified}),
        removedCalls |-> facts.removedCalls
          \union (UNION {Edges(s, BaseCallees(s)) : s \in removed})
          \union (UNION {LostCalls(s) : s \in modified}),
        contracts |-> facts.contracts
          \union (UNION {Whole(s, h[s], "added") : s \in added})
          \union (UNION {Whole(s, b[s], "removed") : s \in removed})
          \union (UNION {Parts(s, b[s], h[s]) : s \in modified})]
  /\ UNCHANGED <<base, head>>

ChangeNext == \E f \in pending : CompareFile(f)

-----------------------------------------------------------------------------
\* the identifiers the behavior compiler starts from
ChangedIds == {c[1] : c \in facts.symbols}

\* the files the pull request changes, and that the base has, are hidden from the
\* base: their numbers in the base are those the overlay holds
FilesAgree ==
  /\ \A f \in Diff :
       head.change[f] # "added" \/ DOMAIN InFile(base.rows, f) # {} => Hidden(head, f)
  /\ \A s \in Numbers :
       head.rows[s] # None => head.rows[s].file \in Diff /\ head.change[head.rows[s].file] # "deleted"

\* Where the numbers of the changed files agree, the compiled change turns the base
\* into the head, whatever the numbers of the symbols are: in each file the symbols
\* of the base, without those removed and with those added, are the symbols of the
\* head, and the callees the base answers for a symbol that changed, without the
\* removed calls and with the added ones, are those the head answers (of a number
\* the base gave to a symbol of another file it is asked nothing); a contract change
\* belongs to a symbol that changed.
ChangePatches ==
  (pending = {} /\ FilesAgree) =>
    LET of(kind, f) == {s \in Numbers : <<s, kind, f>> \in facts.symbols}
        to(edges, s) == {n \in Numbers : <<s, n>> \in edges}
        was(s) == IF base.rows[s] # None /\ base.rows[s].file \in Diff THEN BaseCallees(s) ELSE {} IN
    /\ \A f \in Diff :
         (DOMAIN InFile(base.rows, f) \ of("removed", f)) \union of("added", f)
           = DOMAIN InFile(head.rows, f)
    /\ \A s \in ChangedIds :
         (was(s) \ to(facts.removedCalls, s)) \union to(facts.addedCalls, s) = HeadCallees(s)
    /\ \A e \in facts.addedCalls \union facts.removedCalls : e[1] \in ChangedIds
    /\ \A c \in facts.contracts : c[1] \in ChangedIds

\* What is reported modified is one symbol in two versions: a claim of the indexer,
\* which calls the number it gives a symbol stable.  Not so: the head is numbered
\* by itself.
ModifiedIsOne ==
  \A c \in facts.symbols : c[2] = "modified" =>
    base.rows[c[1]].name = head.rows[c[1]].name

\* The symbols of a deleted file are reported removed: a claim of the architecture
\* document on the change compiler.  Not so: the file may have no number, or another
\* one, in the version it is looked up in.
DeletedReported ==
  pending = {} => \A f \in Diff : head.change[f] = "deleted" =>
    \A s \in DOMAIN InFile(base.rows, f) : <<s, "removed", f>> \in facts.symbols
=============================================================================
