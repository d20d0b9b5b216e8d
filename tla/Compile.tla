------------------------------ MODULE Compile ------------------------------
(***************************************************************************)
(* The IDL compiler driver of src/idl2/compile/compile.go: Compile(pkgpath,*)
(* pfiles, env) defines one concept across all files of a package before  *)
(* the next (imports, error ids, types, consts, interfaces), returns nil  *)
(* as soon as env.Errors is not empty after a pass, and computes each     *)
(* file's type and package dependencies before it records the package in *)
(* env.                                                                    *)
(*                                                                         *)
(* A driver calls Compile once for each package, in any order; env, with  *)
(* its Errors, is shared by the calls. A package's parsed files are the   *)
(* constant Input. defineTypeDefs, defineConstDefs and defineInterfaces   *)
(* and parse.InferPackageName live in files that are not in the tree;     *)
(* they are modelled by what compile.go relies on: the names a file's     *)
(* definitions use mark its imports used, and an undefined one is an      *)
(* error. Positions and message texts are left out: an error is the pair  *)
(* of the package and the kind of error.                                   *)
(***************************************************************************)
EXTENDS Naturals, Sequences, FiniteSets, SequencesExt

CONSTANTS
  Pkgs,        \* the package paths the driver compiles, "" among them
  PkgOrder,    \* the non-empty paths in lexicographic order (a sequence)
  GlobalPath,  \* the path of GlobalPackage
  Input,       \* Input[p]: the parsed files of package p (a sequence)
  Types        \* every type the files mention, closed under subtypes

(***************************************************************************)
(* A type is [name, pkg, kind, sub]: name is "" for an unnamed type, pkg  *)
(* is the package of a named type's TypeDef, sub the element types (list: *)
(* <<elem>>, map: <<key, elem>>, struct: the field types, oneof: the      *)
(* oneof types, others: <<>>). A named type has the kind of its           *)
(* underlying type, as a val.Type does.                                   *)
(*                                                                         *)
(* A parsed file is [pkgName, imports, errorIDs, typeDefs, consts, ifaces, *)
(* uses]: imports a sequence of [path, local], errorIDs a sequence of     *)
(* [name, id], typeDefs the named types it defines, consts the types of   *)
(* its const values, ifaces a set of [embeds, types] (the packages of     *)
(* embedded interfaces; the in/out arg, stream and tag types of the       *)
(* methods), uses the import names its definitions use.                   *)
(***************************************************************************)

VARIABLES
  pkgs,     \* DOMAIN env.pkgs: the packages compiled so far
  out,      \* out[p]: the compiled files of p, once p is in pkgs
  errors,   \* env.Errors: the errors reported so far
  tried,    \* the packages Compile has been called on
  cur,      \* the package being compiled
  files,    \* pkg.Files of the package being compiled
  pc        \* the pass Compile is in, "idle" between calls

vars == <<pkgs, out, errors, tried, cur, files, pc>>

Idx(p) == CHOOSE i \in DOMAIN PkgOrder : PkgOrder[i] = p

Named(t) == t.name # ""

\* A compiled file: its imports by local name, its ErrorIDs, TypeDeps and
\* PackageDeps.
NewFile == [imports |-> <<>>, errorIDs |-> <<>>, typeDeps |-> {}, pkgDeps |-> <<>>]

TypeOK ==
  /\ pkgs \subseteq Pkgs \ {""}
  /\ DOMAIN out = pkgs
  /\ errors \subseteq Pkgs \X {"emptyPath", "noFiles", "pkgName", "notFound",
                               "importReused", "undefined", "unused"}
  /\ tried \subseteq Pkgs /\ pkgs \subseteq tried
  /\ cur \in Pkgs
  /\ pc \in {"idle", "imports", "errorIDs", "defs", "deps"}

Init ==
  /\ pkgs = {}
  /\ out = <<>>
  /\ errors = {}
  /\ tried = {}
  /\ cur \in Pkgs
  /\ files = <<>>
  /\ pc = "idle"
-----------------------------------------------------------------------------
\* The errors a pass adds when cond holds.
Report(kind, cond) == IF cond THEN {<<cur, kind>>} ELSE {}

\* Mutant: the empty path is not checked.
EmptyPathUnchecked(p) == FALSE

\* Compile's first check: an empty package path.
EmptyPath(p) == p = ""

\* Compile's checks of its arguments, then newPackage with one File per
\* parsed file; parse.InferPackageName (not in the tree) reports files
\* that disagree on the package name, and Compile goes on to defineImports.
Compile(p) ==
  /\ pc = "idle" /\ p \notin tried
  /\ tried' = tried \cup {p}
  /\ cur' = p
  /\ \/ /\ EmptyPath(p)
        /\ errors' = errors \cup {<<p, "emptyPath">>}
        /\ UNCHANGED <<files, pc>>
     \/ /\ ~EmptyPath(p) /\ Input[p] = <<>>
        /\ errors' = errors \cup {<<p, "noFiles">>}
        /\ UNCHANGED <<files, pc>>
     \/ /\ ~EmptyPath(p) /\ Input[p] # <<>>
        /\ errors' = errors \cup
             IF Cardinality({f.pkgName : f \in ToSet(Input[p])}) > 1
             THEN {<<p, "pkgName">>} ELSE {}
        /\ files' = [i \in DOMAIN Input[p] |-> NewFile]
        /\ pc' = "imports"
  /\ UNCHANGED <<pkgs, out>>

\* The imports of a parsed file, and the first import of each local name.
ImportSet(pf) == ToSet(pf.imports)
FirstImport(pf, l) ==
  pf.imports[CHOOSE j \in DOMAIN pf.imports :
               /\ pf.imports[j].local = l
               /\ \A k \in 1..(j - 1) : pf.imports[k].local # l]

\* env.ResolvePackage (not in the tree): the packages compiled so far.
Resolves(path) == path \in pkgs

\* defineImports: an import env cannot resolve is an error and is still
\* recorded; a local name imported before in the file is an error and the
\* import is skipped. Then Compile returns nil if env has errors.
DefineImports ==
  /\ pc = "imports"
  /\ LET pf == Input[cur] IN
     /\ files' = [i \in DOMAIN files |->
                   [files[i] EXCEPT !.imports =
                      [l \in {imp.local : imp \in ImportSet(pf[i])} |->
                         [path |-> FirstImport(pf[i], l).path, used |-> FALSE]]]]
     /\ errors' = errors
          \cup Report("notFound", \E i \in DOMAIN pf :
                                    \E imp \in ImportSet(pf[i]) : ~Resolves(imp.path))
          \cup Report("importReused", \E i \in DOMAIN pf :
                                        \E j, k \in DOMAIN pf[i].imports :
                                          j < k /\ pf[i].imports[j].local = pf[i].imports[k].local)
  /\ pc' = IF errors' = {} THEN "errorIDs" ELSE "idle"
  /\ UNCHANGED <<pkgs, out, tried, cur>>

\* The ErrorID defineErrorIDs appends: an empty ID is generated from the
\* package path and the name.
ErrorID(peid) ==
  [name |-> peid.name, id |-> IF peid.id = "" THEN cur \o "." \o peid.name ELSE peid.id]

\* defineErrorIDs: every error id of every file is appended; its seen map
\* is looked up but never written, so the "reused" error is never given.
DefineErrorIDs ==
  /\ pc = "errorIDs"
  /\ files' = [i \in DOMAIN files |->
                [files[i] EXCEPT !.errorIDs =
                   [j \in DOMAIN Input[cur][i].errorIDs |-> ErrorID(Input[cur][i].errorIDs[j])]]]
  /\ pc' = IF errors = {} THEN "defs" ELSE "idle"
  /\ UNCHANGED <<pkgs, out, errors, tried, cur>>

\* defineTypeDefs, defineConstDefs and defineInterfaces (not in the tree),
\* as compile.go relies on them: the import names a file's definitions use
\* are marked used, and a name the file does not import is an error.
DefineDefs ==
  /\ pc = "defs"
  /\ LET pf == Input[cur] IN
     /\ files' = [i \in DOMAIN files |->
                   LET m == files[i].imports IN
                   [files[i] EXCEPT !.imports =
                      [l \in DOMAIN m |-> [m[l] EXCEPT !.used = l \in pf[i].uses]]]]
     /\ errors' = errors \cup
          Report("undefined", \E i \in DOMAIN pf : ~(pf[i].uses \subseteq DOMAIN files[i].imports))
  /\ pc' = IF errors' = {} THEN "deps" ELSE "idle"
  /\ UNCHANGED <<pkgs, out, tried, cur>>

\* addTypeDeps: a type with a TypeDef is an immediate dependency and is
\* not looked into; other types are looked into.
RECURSIVE addTypeDeps(_), addSubTypeDeps(_)
addTypeDeps(t) == IF Named(t) THEN {t} ELSE addSubTypeDeps(t)

\* addSubTypeDeps: the dependencies of a list's elem, a map's key and elem,
\* a struct's fields and a oneof's types.
addSubTypeDeps(t) ==
  IF t.kind \in {"list", "map", "struct", "oneof"}
  THEN UNION {addTypeDeps(t.sub[i]) : i \in DOMAIN t.sub}
  ELSE {}

\* The types computeDeps records for a file: its TypeDefs' subtypes, its
\* consts' value types, its interfaces' arg, stream and tag types.
FileTypeDeps(pf) ==
  UNION {addSubTypeDeps(d) : d \in pf.typeDefs}
  \cup UNION {addTypeDeps(c) : c \in pf.consts}
  \cup UNION {UNION {addTypeDeps(t) : t \in i.types} : i \in pf.ifaces}

\* Mutant: the package itself is not removed.
FilePkgDepsWithSelf(p, pf) ==
  ({t.pkg : t \in FileTypeDeps(pf)} \cup UNION {i.embeds : i \in pf.ifaces}) \ {GlobalPath}

\* The packages of those types and of the embedded interfaces, less the
\* package itself and GlobalPackage, sorted by path.
FilePkgDeps(p, pf) ==
  ({t.pkg : t \in FileTypeDeps(pf)} \cup UNION {i.embeds : i \in pf.ifaces})
  \ {p, GlobalPath}

ByPath(p1, p2) == Idx(p1) < Idx(p2)

\* Mutant: imports are never reported unused.
UnusedIgnored(fs) == FALSE

\* computeDeps' first loop: some file has an import its definitions did
\* not use.
Unused(fs) == \E i \in DOMAIN fs : \E l \in DOMAIN fs[i].imports : ~fs[i].imports[l].used

\* computeDeps: an import no definition used is an error; every file gets
\* its TypeDeps and its PackageDeps. Compile then records the package in
\* env unless env has errors.
ComputeDeps ==
  /\ pc = "deps"
  /\ LET pf == Input[cur]
         done == [i \in DOMAIN files |->
                   [files[i] EXCEPT !.typeDeps = FileTypeDeps(pf[i]),
                                    !.pkgDeps = SetToSortSeq(FilePkgDeps(cur, pf[i]), ByPath)]]
     IN /\ errors' = errors \cup
             Report("unused", Unused(files))
        /\ files' = done
        /\ IF errors' = {}
           THEN pkgs' = pkgs \cup {cur} /\ out' = (cur :> done) @@ out
           ELSE UNCHANGED <<pkgs, out>>
  /\ pc' = "idle"
  /\ UNCHANGED <<tried, cur>>

Next ==
  \/ \E p \in Pkgs : Compile(p)
  \/ DefineImports \/ DefineErrorIDs \/ DefineDefs \/ ComputeDeps

Spec == Init /\ [][Next]_vars
-----------------------------------------------------------------------------
\* The named types reachable from the types of S through types without a
\* TypeDef, by iterating to a fixed point.
RECURSIVE Reach(_, _)
Reach(S, n) ==
  IF n = 0 THEN S
  ELSE Reach(S \cup UNION {ToSet(t.sub) : t \in {u \in S : ~Named(u)}}, n - 1)

RefDeps(S) == {t \in Reach(S, Cardinality(Types)) : Named(t)}

\* The reference dependencies of a parsed file.
RefTypeDeps(pf) ==
  RefDeps(UNION {ToSet(d.sub) : d \in pf.typeDefs}
          \cup pf.consts \cup UNION {i.types : i \in pf.ifaces})

\* Every package in env has, in every file, as TypeDeps exactly the types
\* with a TypeDef its definitions reach through types without one (and no
\* transitive dependency past them), and as PackageDeps their packages and
\* those of embedded interfaces, without itself and GlobalPackage, once
\* each and sorted by path (addTypeDeps, addSubTypeDeps and computeDeps).
DepsAsReference ==
  \A p \in pkgs : \A i \in DOMAIN out[p] :
    LET pf == Input[p][i]
        deps == out[p][i].pkgDeps
    IN /\ out[p][i].typeDeps = RefTypeDeps(pf)
       /\ ToSet(deps) = ({t.pkg : t \in RefTypeDeps(pf)} \cup UNION {f.embeds : f \in pf.ifaces})
                        \ {p, GlobalPath}
       /\ \A j \in 1..(Len(deps) - 1) : Idx(deps[j]) < Idx(deps[j + 1])

\* Every package in env was compiled against packages already in env: each
\* import of each of its files names a package in env, under a name no
\* other import of the file uses, and is used by its definitions, and
\* every import name they use is imported (the checks of defineImports,
\* defineTypeDefs and computeDeps, and Compile's early returns).
CompiledWellFormed ==
  \A p \in pkgs : \A i \in DOMAIN out[p] :
    LET pf == Input[p][i]
        m == out[p][i].imports
    IN /\ \A l \in DOMAIN m : m[l].path \in pkgs /\ m[l].used
       /\ Cardinality(DOMAIN m) = Len(pf.imports)
       /\ pf.uses \subseteq DOMAIN m

\* No file in env has two error ids of the same name, as the "error id %s
\* reused" error of defineErrorIDs means to ensure.
UniqueErrorIDs ==
  \A p \in pkgs : \A i \in DOMAIN out[p] :
    LET e == out[p][i].errorIDs
    IN \A j, k \in DOMAIN e : j < k => e[j].name # e[k].name
====
