----------------------------- MODULE MCCompile -----------------------------
(***************************************************************************)
(* Eight packages and the empty path. a, b and c compile in that order:   *)
(* b imports a, c imports b and a (in that order, so that its PackageDeps *)
(* must be sorted), and their types reach other packages' types through   *)
(* lists, maps, structs and oneofs, a type of GlobalPackage and one of     *)
(* their own. a declares the error id E1 twice. d has no files, e's files *)
(* disagree on the package name, f imports two packages under one name,   *)
(* g imports a and does not use it, h uses a name it does not import.     *)
(* Every order of calls is tried, so b or c may come before a.            *)
(***************************************************************************)
EXTENDS Compile

MCGlobalPath == "global"
MCPkgOrder == <<"a", "b", "c", "d", "e", "f", "g", "h">>
MCPkgs == {"", "a", "b", "c", "d", "e", "f", "g", "h"}

Ty(n, p, k, s) == [name |-> n, pkg |-> p, kind |-> k, sub |-> s]

Bool == Ty("", "", "bool", <<>>)
Err == Ty("error", "global", "struct", <<>>)
ListBool == Ty("", "", "list", <<Bool>>)
A == Ty("A", "a", "struct", <<ListBool>>)
ListA == Ty("", "", "list", <<A>>)
MapBoolA == Ty("", "", "map", <<Bool, A>>)
B == Ty("B", "b", "struct", <<ListA, MapBoolA, Err>>)
OneOfAB == Ty("", "", "oneof", <<A, Bool>>)
C == Ty("C", "c", "struct", <<B, OneOfAB>>)
ListC == Ty("", "", "list", <<C>>)

MCTypes == {Bool, Err, ListBool, A, ListA, MapBoolA, B, OneOfAB, C, ListC}

File(n, imps, eids, tdefs, cs, ifs, us) ==
  [pkgName |-> n, imports |-> imps, errorIDs |-> eids, typeDefs |-> tdefs,
   consts |-> cs, ifaces |-> ifs, uses |-> us]

Imp(path, local) == [path |-> path, local |-> local]
EID(n, id) == [name |-> n, id |-> id]

MCInput ==
  [p \in MCPkgs |->
     CASE p = "" -> <<File("x", <<>>, <<>>, {}, {}, {}, {})>>
       [] p = "a" -> <<File("a", <<>>, <<EID("E1", ""), EID("E1", "a.Other")>>,
                            {A}, {Bool}, {}, {})>>
       [] p = "b" -> <<File("b", <<Imp("a", "a")>>, <<EID("E2", "")>>, {B}, {ListA},
                            {[embeds |-> {"a"}, types |-> {Err}]}, {"a"})>>
       [] p = "c" -> <<File("c", <<Imp("b", "b"), Imp("a", "a")>>, <<>>, {C}, {ListC},
                            {}, {"a", "b"}),
                       File("c", <<>>, <<EID("E3", "")>>, {}, {ListBool}, {}, {})>>
       [] p = "d" -> <<>>
       [] p = "e" -> <<File("e", <<>>, <<>>, {}, {}, {}, {}),
                       File("x", <<>>, <<>>, {}, {}, {}, {})>>
       [] p = "f" -> <<File("f", <<Imp("a", "a"), Imp("b", "a")>>, <<>>, {}, {}, {}, {"a"})>>
       [] p = "g" -> <<File("g", <<Imp("a", "a")>>, <<>>, {}, {}, {}, {})>>
       [] p = "h" -> <<File("h", <<>>, <<>>, {}, {}, {}, {"z"})>>]
====
