----------------------------- MODULE MCAnalysis -----------------------------
(***************************************************************************)
(* The base has six symbols in five files: sf is called by most, sk calls  *)
(* most of the others, sy, sz and sometimes sf handle routes, fb is a test *)
(* file, and fa and fd have one base name.  A pull request moves,          *)
(* rewrites, adds or removes some of sf, sg, sh and sz; MCAlike holds the  *)
(* pull requests whose head has the numbers of the base, MCApart some whose*)
(* head is numbered otherwise.                                             *)
(***************************************************************************)
EXTENDS Analysis, TLC

CONSTANTS sf, sg, sh, sk, sy, sz,  \* numbers the base gives to symbols
          pf, pg, ph, pk, pz,      \* and to placeholders
          nf, ng, nh, nk, ny, nz, fa, fb, fc, fd, fe, none,
          span1, span2, get, put, path, other, store, event

Symbols == {sf, sg, sh, sk, sy, sz}
MCNumbers == Symbols \union {pf, pg, ph, pk, pz}
MCNames == {nf, ng, nh, nk, ny, nz}
MCFiles == {fa, fb, fc, fd, fe}
MCBaseOf == (fa :> "util") @@ (fb :> "test") @@ (fc :> "main") @@ (fd :> "util") @@ (fe :> "other")
MCRoutes == {get, put} \X {path, other}

Plain(name, file, calls, api, surfaces_) ==
  [name |-> name, file |-> file, span |-> span1, visibility |-> "public", calls |-> calls,
   api |-> api, surfaces |-> surfaces_, covers |-> {}]

Nothing == [x \in MCNumbers |-> none]

Old ==
  (sf :> Plain(nf, fa, {}, {}, {store}))
  @@ (sg :> [Plain(ng, fb, {pf, ph}, {}, {event}) EXCEPT !.covers = {sh}])
  @@ (sh :> Plain(nh, fc, {pf, pg}, {}, {})) @@ (sk :> Plain(nk, fe, {pf, pg, ph}, {}, {}))
  @@ (sy :> Plain(ny, fe, {pz}, {<<put, path>>}, {}))
  @@ (sz :> Plain(nz, fd, {pk}, {<<get, path>>}, {})) @@ Nothing

\* the base's indexer of the run has not come across pg
Known == (pf :> nf) @@ (ph :> nh) @@ (pk :> nk) @@ (pz :> nz) @@ Nothing
Calling == Known @@ (pg :> ng)

Version(rows) == [rows |-> rows, named |-> Known]

Moved(row) == [row EXCEPT !.span = span2]

OldRows == {Old, [Old EXCEPT ![sg] = none]}

\* what may become of each symbol
Edits(old, s) ==
  {old[s]} \union
  CASE s = sf -> {none, Moved(old[sf]), [Moved(old[sf]) EXCEPT !.calls = {ph}],
                 [Moved(old[sf]) EXCEPT !.api = {<<put, path>>}]}
    [] s = sg -> {Moved(Old[sg])}
    [] s = sh -> {[old[sh] EXCEPT !.visibility = "private", !.calls = {pf}]}
    [] s = sz -> {[Moved(old[sz]) EXCEPT !.api = {<<get, path>>, <<put, other>>}],
                 [Moved(old[sz]) EXCEPT !.api = {<<get, other>>}],
                 [Moved(old[sz]) EXCEPT !.api = {}]}
    [] OTHER -> {}

Edited(old) == UNION {{s} \X Edits(old, s) : s \in Symbols}

\* the rows of a head that numbers everything as the base does; a file without a
\* row left was emptied, and not deleted
Alike(old, new) ==
  LET files(rows) == {rows[s].file : s \in {t \in MCNumbers : rows[t] # none}}
      touched == {Old[s].file : s \in {t \in MCNumbers : old[t] # new[t]}} IN
  [rows |-> [s \in MCNumbers |-> IF new[s] # none /\ new[s].file \in touched THEN new[s] ELSE none],
   named |-> [u \in MCNumbers |->
                IF \E s \in MCNumbers : new[s] # none /\ new[s].file \in touched /\ u \in new[s].calls
                THEN Calling[u] ELSE none],
   change |-> [f \in touched |-> IF f \in files(old) THEN "modified" ELSE "added"],
   twin |-> [f \in MCFiles |-> IF f \in touched \intersect files(old) THEN f ELSE none]]

MCAlike ==
  UNION {{<<Version(old), Alike(old, [old EXCEPT ![p[1]] = p[2], ![q[1]] = q[2]])>> :
            p \in Edited(old), q \in Edited(old)} : old \in OldRows}

Apart(rows, named, diff, twins) ==
  [rows |-> rows @@ Nothing, named |-> named @@ Nothing, change |-> diff,
   twin |-> twins @@ [f \in MCFiles |-> none]]

\* fa gains a symbol above sf, so that sf has the number the base gave to sk, or
\* sf stays as it is and the new symbol has the number of the base's sf
Above(number, row) ==
  Apart((sf :> Moved(Plain(nz, fa, {}, {}, {}))) @@ (number :> row), <<>>, fa :> "modified", fa :> fa)

\* a deleted file is asked for by its number in the base: which no file of the head
\* has, or the modified fa, or fd, which was added
Deleted(twins) ==
  Apart((sf :> Moved(Old[sf])) @@ (sz :> Old[sz]), pk :> nk,
        (fa :> "modified") @@ (fc :> "deleted") @@ (fd :> "added"), twins)

\* fc and fb were deleted and nothing else was changed
OnlyDeleted == Apart(<<>>, <<>>, (fc :> "deleted") @@ (fb :> "deleted"), (fc :> fc) @@ (fb :> fb))

\* the head has a placeholder under the number of the base's sh, and the number of
\* fe in the base is that of fa in the head
Crossed ==
  Apart(sf :> [Moved(Old[sf]) EXCEPT !.calls = {sh}], sh :> nz, fa :> "modified", fe :> fa)

MCApart ==
  {<<Version(Old), h>> : h \in {Above(sk, Moved(Old[sf])), Above(pz, Moved(Old[sf])), Crossed, OnlyDeleted}}
  \union
  {<<Version([Old EXCEPT ![sz] = none]), Deleted(t)>> :
     t \in {fa :> fa, (fa :> fa) @@ (fc :> fd), fc :> fa}}

MCPulls == MCAlike \union MCApart

MCPublishes == [n \in MCNames |-> IF n = nk THEN {event} ELSE {}]
MCConsumes == [n \in MCNames |-> IF n = nf THEN {event} ELSE {}]
MCCategoryOf == [x \in MCNames \X MCFiles |-> IF x[1] = ng THEN "integration" ELSE none]
=============================================================================
