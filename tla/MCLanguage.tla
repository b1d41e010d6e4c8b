----------------------------- MODULE MCLanguage -----------------------------
(***************************************************************************)
(* Three files that import, inherit from and call each other, each with    *)
(* a few contents, in three languages.  In Python:                         *)
(*                                                                         *)
(*   util     u1  def x; def y: x()                                        *)
(*            u2  def y; class C: def m, a nested class with a call        *)
(*            u3  class x (a persistent model): def m: self.m()            *)
(*            u4  class B: def m; class E: def m                           *)
(*   svc      s1  from util import x; a route f: x(), x.y(), and a         *)
(*                function inside it: x()                                  *)
(*            s2  from util import C; class D(C): def run: self.m(),       *)
(*                C.m(), x()                                               *)
(*            s3  from util import x, y; def y: event and configuration    *)
(*                calls, x()                                               *)
(*            s4  class C(B)                                               *)
(*            s5  class C(E); def h: m()                                   *)
(*            s6  from util import x; from ext import x; def g: x()        *)
(*   api      a1  from svc import y; def x: y(); def test_x: x(), util.y() *)
(*            a2  not Python                                               *)
(*            a3  from svc import x; class D(C): def run: self.m(), x()    *)
(*                                                                         *)
(* In TypeScript: nested functions, arrow functions and their variables,   *)
(* methods of classes and of objects, routes of routers and of decorators. *)
(* In Java: an entity, a nested class, a record, a test class, mappings    *)
(* with and without a method near, a repository interface.                 *)
(***************************************************************************)
EXTENDS GraphPatch

Def(up, name) == [kind |-> "function", up |-> up, name |-> name, routes |-> {}]
Routed(up, name, r) == [kind |-> "async", up |-> up, name |-> name, routes |-> {r}]
Class(up, name, bases) == [kind |-> "class", up |-> up, name |-> name, bases |-> bases]
Import(module, names) == [kind |-> "import", up |-> 0, module |-> module, names |-> names]
Call(up, receiver, name) ==
  [kind |-> "call", up |-> up, receiver |-> receiver, name |-> name]
Other(up) == [kind |-> "other", up |-> up]

u1 == << Def(0, "x"), Def(0, "y"), Call(2, "", "x") >>
u2 == << Def(0, "y"), Class(0, "C", <<>>), Def(2, "m"), Class(2, "N", <<>>),
         Def(4, "n"), Call(5, "", "y") >>
u3 == << Class(0, "x", <<"Base">>), Def(1, "m"), Other(2), Call(3, "self", "m") >>
u4 == << Class(0, "B", <<>>), Def(1, "m"), Class(0, "E", <<>>), Def(3, "m") >>
s1 == << Import("util", <<"x">>), Routed(0, "f", "/f"), Call(2, "", "x"), Call(2, "x", "y"),
         Def(2, "g"), Call(5, "", "x") >>
s2 == << Import("util", <<"C">>), Class(0, "D", <<"C">>), Def(2, "run"), Call(3, "self", "m"),
         Call(3, "C", "m"), Call(3, "", "x") >>
s3 == << Import("util", <<"x", "y">>), Def(0, "y"), Call(2, "bus", "publish"),
         Call(2, "os", "getenv"), Call(2, "", "x") >>
s4 == << Class(0, "C", <<"B">>) >>
s5 == << Class(0, "C", <<"E">>), Def(0, "h"), Call(2, "", "m") >>
s6 == << Import("util", <<"x">>), Import("ext", <<"x">>), Def(0, "g"), Call(3, "", "x") >>
a1 == << Import("svc", <<"y">>), Import("util", <<"util">>), Def(0, "x"), Call(3, "", "y"),
         Def(0, "test_x"), Call(5, "", "x"), Call(5, "util", "y") >>
a3 == << Import("svc", <<"x">>), Class(0, "D", <<"C">>), Def(2, "run"), Call(3, "self", "m"),
         Call(3, "", "x") >>

Fun(up, name) == [kind |-> "function", up |-> up, name |-> name]
Method(up, name, routes) == [kind |-> "method", up |-> up, name |-> name, routes |-> routes]
Arrow(up, name) == [kind |-> "arrow", up |-> up, name |-> name]
Declared(kind, up, name) == [kind |-> kind, up |-> up, name |-> name]
Calls(up, receiver, name, routes) ==
  [kind |-> "call", up |-> up, receiver |-> receiver, name |-> name, routes |-> routes]

tu1 == << Fun(0, "x"), Fun(0, "y"), Fun(2, "inner"), Calls(3, "", "x", {}) >>
tu2 == << Class(0, "C", <<>>), Method(1, "m", {"/m"}), Calls(2, "", "y", {}),
          Declared("variable", 0, "y"), Arrow(4, "y"), Calls(5, "", "m", {}),
          Declared("enum", 0, "x") >>
ts1 == << Import("util", <<"x">>), Declared("variable", 0, "f"), Arrow(2, "f"),
          Calls(3, "", "x", {}),
          Calls(0, "app", "get", {<<"/f", "f">>, <<"/z", "anonymous">>}) >>
ts2 == << Import("util", <<>>), Class(0, "D", <<"C">>), Method(2, "run", {}),
          Arrow(3, ""), Calls(4, "this", "m", {}), Class(3, "N", <<>>), Method(6, "n", {}),
          Calls(7, "", "y", {}), Declared("variable", 0, "o"), Method(9, "go", {}),
          Calls(10, "", "x", {}) >>
ta1 == << Import("svc", <<"f">>), Declared("interface", 0, "y"), Fun(0, "x"),
          Calls(3, "", "f", {}), Calls(0, "", "y", {}) >>

Blank == [class |-> "", type |-> "", bases |-> <<>>, method |-> "", field |-> "",
          import |-> <<>>, calls |-> {}, routes |-> {}, events |-> {}, configs |-> {},
          repository |-> "", entity |-> FALSE, test |-> FALSE, open |-> FALSE, net |-> 0]
Line(found) == found @@ Blank
Opens(found) == found @@ [Blank EXCEPT !.open = TRUE, !.net = 1]
Close == Line([net |-> -1])
ClassLine(name, bases) == Opens([class |-> name, type |-> name, bases |-> bases])

ju1 == << Line([entity |-> TRUE]), ClassLine("x", <<>>), Line([field |-> "Foo"]),
          Opens([method |-> "m"]), Line([calls |-> {<<"bus", "send">>}, events |-> {"e"}]),
          Close, Close >>
ju2 == << Line([method |-> "y", open |-> TRUE]),
          ClassLine("C", <<[target |-> "x", kind |-> "extends"]>>), ClassLine("N", <<>>),
          Line([method |-> "m", calls |-> {<<"y", "x">>}]), Close, Close >>
js1 == << Line([import |-> <<"util", "x">>]),
          Opens([class |-> "f", type |-> "f", test |-> TRUE]), Line([routes |-> {"/f"}]),
          Opens([method |-> "run"]), Line([calls |-> {<<"x", "y">>}, configs |-> {"key"}]),
          Close, Close >>
js2 == << Opens([type |-> "R", repository |-> "R",
                 bases |-> <<[target |-> "Base", kind |-> "extends"]>>]),
          Line([routes |-> {"/lost"}]), Close >>
ja1 == << Line([import |-> <<"svc", "f">>]),
          ClassLine("y", <<[target |-> "f", kind |-> "implements"]>>),
          Line([method |-> "m", calls |-> {<<"f", "run">>, <<"y", "x">>}]), Close >>

MCFiles == {"util", "svc", "api"}
MCContentsOf ==
  [l \in {"python", "typescript", "java"} |-> [f \in MCFiles |->
     CASE l = "python" /\ f = "util" -> {"u1", "u2", "u3", "u4"}
       [] l = "python" /\ f = "svc" -> {"s1", "s2", "s3", "s4", "s5", "s6"}
       [] l = "python" /\ f = "api" -> {"a1", "a2", "a3"}
       [] l = "typescript" /\ f = "util" -> {"tu1", "tu2"}
       [] l = "typescript" /\ f = "svc" -> {"ts1", "ts2"}
       [] l = "typescript" /\ f = "api" -> {"ta1"}
       [] l = "java" /\ f = "util" -> {"ju1", "ju2"}
       [] l = "java" /\ f = "svc" -> {"js1", "js2"}
       [] OTHER -> {"ja1"}]]
MCTreeOf ==
  [u1 |-> u1, u2 |-> u2, u3 |-> u3, u4 |-> u4, s1 |-> s1, s2 |-> s2, s3 |-> s3,
   s4 |-> s4, s5 |-> s5, s6 |-> s6, a1 |-> a1, a3 |-> a3,
   tu1 |-> tu1, tu2 |-> tu2, ts1 |-> ts1, ts2 |-> ts2, ta1 |-> ta1,
   ju1 |-> ju1, ju2 |-> ju2, js1 |-> js1, js2 |-> js2, ja1 |-> ja1]
MCUnparsable == {"a2"}
MCContents == DOMAIN MCTreeOf \union MCUnparsable
MCPathHolds == {<<"util", "util">>, <<"svc", "svc">>}
MCEventMethods == {"publish"}
MCConfigCalls == {<<"os", "getenv">>}
MCModelBases == {"Base"}
MCTestNames == {"test_x"}
MCTestBases == {"TestCase"}
=============================================================================
