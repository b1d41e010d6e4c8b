----------------------------- MODULE ViewCalls -----------------------------
(***************************************************************************)
(* The facts a repository view reports, symbol by symbol.  The indexer     *)
(* stores every call under a placeholder of the callee's name              *)
(* ("unresolved://name"); the view resolves placeholders when it reads     *)
(* base rows, and not when it reads the rows of the overlay.               *)
(*                                                                         *)
(* Either version numbers its symbols and its placeholders by itself, and  *)
(* its files as well; the view compares the numbers of both.  A version is *)
(*   rows    the row of each number, or None,                              *)
(*   named   the names whose placeholders the indexer of this run numbered,*)
(* and the overlay also holds                                              *)
(*   change  what happens to each file of the diff,                        *)
(*   twin    the file of the diff that has, in the sets of the overlay, the*)
(*           number the base gave to a file.                               *)
(***************************************************************************)
EXTENDS FiniteSets

CONSTANTS
  None,
  Numbers,   \* identifiers of symbols and of placeholders
  Names,
  Files

\* the facts of a symbol: its name, file, lines and visibility, the numbers it
\* calls, the endpoints it handles, the tables and events it touches, and the
\* symbols it is a test of
Rows(Spans, Visibilities, Routes, Targets) ==
  [name : Names, file : Files, span : Spans, visibility : Visibilities,
   calls : SUBSET Numbers, api : SUBSET Routes, surfaces : SUBSET Targets,
   covers : SUBSET Numbers]

Numbered(Row) == [Numbers -> Row \union {None}]
Placeholders == [Numbers -> Names \union {None}]
Changes == {"added", "modified", "deleted"}

Bases(Row) == [rows : Numbered(Row), named : Placeholders]
Overlays(Row) ==
  [rows : Numbered(Row), named : Placeholders,
   change : UNION {[F -> Changes] : F \in SUBSET Files}, twin : [Files -> Files \union {None}]]

\* RepositoryOverlay(): nothing is added, and nothing removed
NoOverlay ==
  [rows |-> [x \in Numbers |-> None], named |-> [x \in Numbers |-> None],
   change |-> <<>>, twin |-> [f \in Files |-> None]]

\* a file of the base whose number is among removed_files or modified_files
Hidden(head, f) ==
  head.twin[f] \in {g \in DOMAIN head.change : head.change[g] # "added"}

\* _should_skip_base_for_symbol: by the number alone
Skipped(base, head, x) ==
  \/ head.rows[x] # None
  \/ base.rows[x] # None /\ Hidden(head, base.rows[x].file)

\* symbols of the base with a name; the statement reads the first of them
Named(base, n) == {s \in Numbers : base.rows[s] # None /\ base.rows[s].name = n}

\* the name of a placeholder: the head's map is asked first
NameOf(base, head, x) == IF head.named[x] # None THEN head.named[x] ELSE base.named[x]

\* _resolve_unresolved_symbol_id
Resolved(base, head, x) ==
  IF Named(base, NameOf(base, head, x)) # {}
  THEN CHOOSE s \in Named(base, NameOf(base, head, x)) : TRUE
  ELSE x

\* get_symbol: the overlay first, then the base without its hidden files
Got(base, head, x) ==
  IF head.rows[x] # None THEN head.rows[x]
  ELSE LET row == base.rows[Resolved(base, head, x)] IN
       IF row # None /\ Hidden(head, row.file) THEN None ELSE row

Exists(base, head, x) == Got(base, head, x) # None

\* get_endpoints, get_database_relationships and get_published_events: the row
\* whose facts they answer with, None where they answer with none
Shown(base, head, x) ==
  IF head.rows[x] # None THEN head.rows[x]
  ELSE IF Skipped(base, head, x) \/ ~Exists(base, head, x) THEN None
  ELSE base.rows[x]

\* Mutant of AsCalled: the symbol is looked up by its own number only
OwnNumber(base, head, x) == {x}

\* the numbers under which the base may call a symbol: its own, and that of the
\* placeholder of its name, where the indexer of the run knows it
AsCalled(base, head, x) ==
  {x} \union {u \in Numbers : Exists(base, head, x) /\ base.named[u] = Got(base, head, x).name}

\* get_callers: rows of the overlay by the number they call, rows of the base by
\* either
Callers(base, head, x) ==
  {c \in Numbers :
     \/ head.rows[c] # None /\ x \in head.rows[c].calls
     \/ /\ head.rows[c] = None /\ Shown(base, head, c) # None
        /\ base.rows[c].calls \intersect AsCalled(base, head, x) # {}}

\* get_callees: overlay rows as they are, base rows resolved, without the numbers
\* that are skipped
Callees(base, head, x) ==
  IF Shown(base, head, x) = None THEN {}
  ELSE IF head.rows[x] # None THEN head.rows[x].calls
  ELSE {r \in {Resolved(base, head, c) : c \in {d \in base.rows[x].calls : ~Skipped(base, head, d)}} :
          Exists(base, head, r)}

\* get_tests
Tests(base, head, x) ==
  {t \in Numbers : Shown(base, head, t) # None /\ x \in Shown(base, head, t).covers}
=============================================================================
