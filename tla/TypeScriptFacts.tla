-------------------------- MODULE TypeScriptFacts --------------------------
(***************************************************************************)
(* The structural facts of one TypeScript file, by a visitor over the tree *)
(* of the parser.  A pass that raises leaves out the node it was given.    *)
(*                                                                         *)
(* The kinds of nodes, and what the passes read of each:                   *)
(*   function        name                                                  *)
(*   method          name, routes (of the decorators right before it)      *)
(*   arrow           name (of the variable it is the value of, or "")      *)
(*   variable, interface, enum   name (a type alias is an interface)       *)
(*   class           name, bases                                           *)
(*   import          module, names (none without an import clause)         *)
(*   call            name (of the callee), receiver, and routes: the       *)
(*                   <<route, handler>> that it registers with a router    *)
(***************************************************************************)
EXTENDS SyntaxTree

\* an arrow function with a name is the value of the variable of that name
ValuesNamed(t) ==
  \A n \in Nodes(t, {"arrow"}) : t[n].name # "" =>
    t[n].up \in Nodes(t, {"variable"}) /\ t[t[n].up].name = t[n].name

\* what may call: an arrow function counts by the name of its variable
Callers(t) == {n \in Nodes(t, {"function", "method", "arrow"}) : t[n].name # ""}

Classes(t) == Nodes(t, {"class"}) \intersect Dispatched(t)

\* _extract_class: methods directly in the body
Methods(t) == {n \in Nodes(t, {"method"}) : t[n].up \in Classes(t)}

\* _extract_function, _extract_interface, _extract_type_alias, _extract_enum and
\* _extract_variables
Declared(t) == Nodes(t, {"function", "variable", "interface", "enum"}) \intersect Dispatched(t)

\* TypeScriptSymbolIndexPass
SymbolsOf(t) ==
  {[name |-> t[n].name, kind |-> t[n].kind, parent |-> ""] : n \in Declared(t) \union Classes(t)}
  \union {[name |-> t[n].name, kind |-> "method", parent |-> t[t[n].up].name] :
            n \in Methods(t)}

\* extract_import_info: a statement that names nothing names its module
ImportsOf(t) ==
  LET seen == Ascending(Nodes(t, {"import"}))
      names(n) == IF t[n].names = <<>> THEN <<t[n].module>> ELSE t[n].names
  IN [i \in DOMAIN seen |-> [module |-> t[seen[i]].module, names |-> names(seen[i])]]

\* get_caller_info climbs to the first class and keeps the last name it met
Climbed(t, n) ==
  LET classes == Under(t, n, {"class"})
  IN {a \in Above(t, n) \intersect Callers(t) : \A c \in classes : c < a}

CallerOf(t, n) == t[Outermost(Climbed(t, n))].name

OwnerOf(t, n) ==
  LET classes == Under(t, n, {"class"})
  IN IF classes = {} THEN "" ELSE t[Innermost(classes)].name

\* TypeScriptCallIndexPass
CallsOf(t) ==
  {[at |-> n, caller |-> CallerOf(t, n), owner |-> OwnerOf(t, n),
    callee |-> t[n].name, receiver |-> t[n].receiver] :
     n \in {c \in Nodes(t, {"call"}) : Climbed(t, c) # {}}}

\* TypeScriptTypeIndexPass
TypesOf(t) ==
  FlattenSeq([n \in DOMAIN t |->
    IF n \in Classes(t)
    THEN [b \in DOMAIN t[n].bases |->
            [source |-> t[n].name, target |-> t[n].bases[b], kind |-> "extends"]]
    ELSE <<>>])

\* TypeScriptEntrypointIndexPass: calls of a router, and decorators in classes
RoutesOf(t) ==
  (UNION {{[kind |-> "route", name |-> r[2], key |-> r[1]] : r \in t[n].routes} :
            n \in Nodes(t, {"call"})})
  \union
  (UNION {{[kind |-> "route", name |-> t[n].name, key |-> r] : r \in t[n].routes} :
            n \in Nodes(t, {"method"}) \ Dispatched(t)})

\* the passes for models, events, tests and configuration are stubs
FileIndex(t) ==
  [symbols |-> SymbolsOf(t), imports |-> ImportsOf(t), calls |-> CallsOf(t),
   types |-> TypesOf(t), constructs |-> RoutesOf(t)]

\* calls out of a function, a variable or a method that is a symbol: the name
\* the climb ends with is that of a symbol, unless it ends in an object literal
\* or in a class inside a class
Listed(t, c) ==
  Outermost(Climbed(t, c.at)) \in
    Methods(t) \union (Dispatched(t) \intersect Nodes(t, {"function", "arrow"}))
=============================================================================
