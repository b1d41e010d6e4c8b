----------------------------- MODULE JavaFacts -----------------------------
(***************************************************************************)
(* The structural facts of one Java file, found by patterns on its lines.  *)
(*                                                                         *)
(* A line is what the patterns find on it:                                 *)
(*   class      name of a class that is declared, or ""                    *)
(*   type       name of a class, interface or enum, or ""                  *)
(*   bases      of the type, as [target, kind]                             *)
(*   method     the second of two words before a bracket, or "": the name  *)
(*              of a method, but also f of "return f("                     *)
(*   field      the type of a field, primitive types left out, or ""       *)
(*   import     <<module, last part of it>>, or <<>>                       *)
(*   calls      <<receiver, method>> pairs, the printing of text left out  *)
(*   routes, events, configs   of mappings, sends and keys on the line     *)
(*   repository name of a repository interface, or ""                      *)
(*   entity, test   the line is marked @Entity; the type is a test class   *)
(*   open, net  there is a brace that opens; opened minus closed braces    *)
(***************************************************************************)
EXTENDS Integers, Sequences, FiniteSets, SequencesExt, Sorting

IsText(t) == Len(t) \in Nat /\ DOMAIN t = 1 .. Len(t)

\* opened minus closed braces of some lines
Depth(t, lines) == FoldFunctionOnSet(+, 0, [k \in DOMAIN t |-> t[k].net], lines)

First(ks) == CHOOSE k \in ks : \A j \in ks : k <= j
Nearest(ks) == CHOOSE k \in ks : \A j \in ks : j <= k

\* _is_inside_class
Inside(t, i) == Depth(t, 1..(i - 1)) > 0

\* _find_block_end: the first brace counts as one, whatever else its line holds
BlockEnd(t, i) ==
  LET opens == {k \in i..Len(t) : t[k].open}
      ends == {k \in i..Len(t) :
                 \E o \in opens : o = First(opens) /\ o < k /\ 1 + Depth(t, (o + 1)..k) <= 0}
  IN IF ends # {} THEN First(ends) ELSE IF i + 9 < Len(t) THEN i + 9 ELSE Len(t)

Classes(t) == {i \in DOMAIN t : t[i].class # ""}

\* lines where a method may begin
Heads(t) == {i \in DOMAIN t : t[i].method # "" /\ t[i].type = ""}

\* JavaSymbolIndexPass: classes, the methods in the block of each, and what looks
\* like a method outside every brace
SymbolsOf(t) ==
  {[name |-> t[i].class, kind |-> "class", parent |-> ""] : i \in Classes(t)}
  \union (UNION {{[name |-> t[k].method, kind |-> "method", parent |-> t[i].class] :
                    k \in Heads(t) \intersect (i..BlockEnd(t, i))} : i \in Classes(t)})
  \union {[name |-> t[i].method, kind |-> "function", parent |-> ""] :
            i \in {k \in Heads(t) : ~Inside(t, k)}}

\* JavaImportIndexPass
ImportsOf(t) ==
  LET seen == Ascending({i \in DOMAIN t : t[i].import # <<>>})
  IN [i \in DOMAIN seen |->
        [module |-> t[seen[i]].import[1], names |-> <<t[seen[i]].import[2]>>]]

\* JavaCallIndexPass: the receiver is taken for the caller
CallsOf(t) ==
  UNION {{[at |-> i, caller |-> c[1], owner |-> "", callee |-> c[2], receiver |-> ""] :
            c \in t[i].calls} : i \in DOMAIN t}

\* _find_enclosing_class
Enclosing(t, i) ==
  LET around == {k \in Classes(t) : k <= i /\ Depth(t, k..(i - 1)) > 0}
  IN IF around = {} THEN "" ELSE t[Nearest(around)].class

\* JavaTypeIndexPass: the source is an address, not a name
Address(name) == "java://#" \o name

TypesOf(t) ==
  FlattenSeq([i \in DOMAIN t |->
    [b \in DOMAIN t[i].bases |->
       [source |-> Address(t[i].type), target |-> t[i].bases[b].target,
        kind |-> t[i].bases[b].kind]]])
  \o FlattenSeq([i \in DOMAIN t |->
       IF t[i].field # "" /\ Inside(t, i) /\ Enclosing(t, i) # ""
       THEN << [source |-> Address(Enclosing(t, i)), target |-> t[i].field,
                kind |-> "composes"] >>
       ELSE <<>>])

\* _find_method_name: within five lines of the mapping, or the route is dropped
RoutesOf(t) ==
  UNION {{[kind |-> "route", name |-> t[First(Heads(t) \intersect (i..(i + 4)))].method,
           key |-> r] : r \in t[i].routes} :
           i \in {k \in DOMAIN t : Heads(t) \intersect (k..(k + 4)) # {}}}

\* _find_caller_method and _find_method_for_line: the nearest head above
MethodAt(t, i) ==
  LET above == Heads(t) \intersect (1..i)
  IN IF above = {} THEN "unknown" ELSE t[Nearest(above)].method

EventsOf(t) ==
  UNION {{[kind |-> "event", name |-> MethodAt(t, i), key |-> e] : e \in t[i].events} :
           i \in DOMAIN t}

ConfigsOf(t) ==
  UNION {{[kind |-> "config", name |-> MethodAt(t, i), key |-> c] : c \in t[i].configs} :
           i \in DOMAIN t}

\* _extract_entity: one mark makes the first class of the file an entity
Entities(t) ==
  {i \in Classes(t) : i = First(Classes(t)) /\ \E l \in DOMAIN t : t[l].entity}

\* _extract_repositories
Repositories(t) == {i \in DOMAIN t : t[i].repository # ""}

\* JavaPersistenceIndexPass
ModelsOf(t) ==
  {[kind |-> "model", name |-> t[i].class, key |-> "table"] : i \in Entities(t)}
  \union {[kind |-> "model", name |-> t[i].repository, key |-> "interface"] :
            i \in Repositories(t)}

\* JavaTestIndexPass
TestsOf(t) ==
  {[kind |-> "test", name |-> t[i].class, key |-> "class"] :
     i \in {k \in Classes(t) : t[k].test}}

FileIndex(t) ==
  [symbols |-> SymbolsOf(t), imports |-> ImportsOf(t), calls |-> CallsOf(t),
   types |-> TypesOf(t),
   constructs |-> RoutesOf(t) \union ModelsOf(t) \union EventsOf(t)
                  \union ConfigsOf(t) \union TestsOf(t)]
=============================================================================
