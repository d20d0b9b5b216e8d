-------------------------- MODULE ValConvComposite --------------------------
(***************************************************************************)
(* Composite conversion in src/vdl/valconv/convert.go between the three    *)
(* representations of a set of names that finishKeyStartField says are     *)
(* "all convertible to each other": set[string], map[string]bool and a     *)
(* struct of bool fields; and between a list ([]string) and an array       *)
(* ([ArrayLen]string), which StartList, startElem and finishElem fill.     *)
(*                                                                         *)
(* A source value drives a convTarget through the Target protocol, one     *)
(* call per step: Start{Set,Map,Fields}; per entry StartKey, the key's     *)
(* FromString, FinishKeyStartField, the field's FromBool (map and struct   *)
(* sources) and FinishField (a set source calls FinishKey, which is the    *)
(* last two); then Finish{Set,Map,Fields}. A list or array source sends   *)
(* StartList, per element StartElem, the element's FromString and         *)
(* FinishElem, then FinishList. Any error ends the conversion.             *)
(* The rv and vv branches of these methods have the same arms for these   *)
(* kinds, so one definition stands for both; for lists the rv branch is   *)
(* modelled (a Go slice with its backing array), since the vv branch's    *)
(* Value.AssignLen is in package vdl, which is not in the tree.            *)
(***************************************************************************)
EXTENDS Naturals, FiniteSets, Sequences, TLC

CONSTANTS
  Names,   \* the names a set or map may hold
  Fields,  \* the struct's bool fields, in declaration order (a sequence)
  Elems,   \* the strings a list or array may hold, "" among them
  ArrayLen,\* the length of the array type
  MaxLen   \* the longest list a source holds

FieldSet == {Fields[i] : i \in DOMAIN Fields}

SetKinds == {"set", "map", "struct"}
\* "servers" is the Servers field of naming.MountEntry, a []MountedServer
\* filled by the generated __VDLTarget1_list rather than by a convTarget;
\* a MountedServer is abstracted to its Server string.
ListKinds == {"list", "array", "servers"}
Kinds == SetKinds \cup ListKinds

\* The zero string, which a new slice or array element holds.
ZeroElem == ""

\* The kinds vdl.compatible accepts together (package vdl, not in the
\* tree): the set representations among themselves, lists and arrays of
\* the same element type among themselves.
Compatible(k1, k2) ==
  /\ (k1 \in SetKinds) = (k2 \in SetKinds)
  /\ k2 = "servers" => k1 = "list"

\* Source values: a set is a map to TRUE; a struct maps every field.
Values(k) ==
  CASE k = "set" -> {[n \in S |-> TRUE] : S \in SUBSET Names}
    [] k = "map" -> UNION {[S -> BOOLEAN] : S \in SUBSET Names}
    [] k = "struct" -> [FieldSet -> BOOLEAN]
    [] k \in {"list", "servers"} -> UNION {[1..n -> Elems] : n \in 0..MaxLen}
    [] k = "array" -> [1..ArrayLen -> Elems]

VARIABLES
  srcKind, src,  \* the source value and its representation
  tgtKind, tgt,  \* the target value and its representation
  todo,          \* the source entries not yet sent
  pc,            \* the step the source is at
  entry,         \* the source entry being sent (a list's: its index + 1)
  key,           \* the key target's value (the entry name)
  field,         \* the field target's value (a struct field is tgt itself)
  back           \* the backing array of a slice target (tgt is its first
                 \* Len(tgt) elements); an array target is its own

vars == <<srcKind, src, tgtKind, tgt, todo, pc, entry, key, field, back>>

Steps == {"start", "next", "startKey", "fromString", "finishKeyStartField",
          "fromBool", "finishField", "startElem", "elemFromString",
          "finishElem", "finish", "done", "failed"}

TypeOK ==
  /\ srcKind \in Kinds /\ src \in Values(srcKind)
  /\ tgtKind \in Kinds /\ tgt \in Values(tgtKind)
  /\ todo \subseteq DOMAIN src
  /\ pc \in Steps
  /\ entry \in IF srcKind \in ListKinds THEN 0..MaxLen ELSE Names \cup FieldSet \cup {""}
  /\ key \in Names \cup FieldSet \cup {""}
  /\ field \in BOOLEAN
  /\ back \in Seq(Elems)

\* What a target variable's storage can be beforehand: a slice may have
\* capacity past its length, holding what an earlier value left there.
Backings(k, t) ==
  CASE k \in {"list", "servers"} -> {t \o s : s \in {<<>>} \cup {<<e>> : e \in Elems}}
    [] k = "array" -> {t}
    [] OTHER -> {<<>>}

\* A conversion into a variable that already holds a value of its type.
Init ==
  /\ srcKind \in Kinds \ {"servers"} /\ src \in Values(srcKind)
  /\ tgtKind \in {k \in Kinds : Compatible(srcKind, k)}
  /\ tgt \in Values(tgtKind)
  /\ back \in Backings(tgtKind, tgt)
  /\ todo = DOMAIN src
  /\ pc = "start"
  /\ entry = IF srcKind \in ListKinds THEN 0 ELSE ""
  /\ key = ""
  /\ field = FALSE

-----------------------------------------------------------------------------
\* The zero value createFillTarget assigns to the concrete target: a nil
\* slice for a list, an array of zero strings.
Zero(k) ==
  CASE k = "struct" -> [f \in FieldSet |-> FALSE]
    [] k = "list" -> <<>>
    [] k = "array" -> [i \in 1..ArrayLen |-> ZeroElem]
    [] OTHER -> [n \in {} |-> TRUE]

\* StartSet / StartMap / StartFields / StartList: startConvert accepts the
\* compatible type and zeroes the target before it is filled; a slice
\* set to nil drops its backing array.
Start ==
  /\ pc = "start" /\ tgtKind # "servers"
  /\ tgt' = Zero(tgtKind)
  /\ back' = IF tgtKind \in ListKinds THEN Zero(tgtKind) ELSE back
  /\ pc' = "next"
  /\ UNCHANGED <<srcKind, src, tgtKind, todo, entry, key, field>>

\* Whether n is the entry the source sends next: a struct sends its fields
\* in declaration order, a list or array its elements by index, a set or
\* map its keys in Go's unspecified map order.
SentNext(n) ==
  CASE srcKind = "struct" ->
         n = Fields[CHOOSE i \in DOMAIN Fields :
                      Fields[i] \in todo /\ \A j \in 1..(i - 1) : Fields[j] \notin todo]
    [] srcKind \in ListKinds -> \A m \in todo : n <= m
    [] OTHER -> TRUE

\* The source's loop over its entries, then Finish*.
NextEntry ==
  /\ pc = "next"
  /\ \/ /\ todo = {}
        /\ pc' = "finish"
        /\ UNCHANGED <<todo, entry>>
     \/ /\ todo # {}
        /\ \E n \in todo :
             /\ SentNext(n)
             /\ entry' = n
             /\ todo' = todo \ {n}
        /\ pc' = IF srcKind \in ListKinds THEN "startElem" ELSE "startKey"
  /\ UNCHANGED <<back, srcKind, src, tgtKind, tgt, key, field>>

\* compConvTarget.StartKey / startKey: a zero string key target (a map's
\* key type is string here; a struct's key is the field name).
StartKey ==
  /\ pc = "startKey"
  /\ key' = ""
  /\ pc' = "fromString"
  /\ UNCHANGED <<back, srcKind, src, tgtKind, tgt, todo, entry, field>>

\* key.FromString(name): the key target now holds the entry's name.
KeyFromString ==
  /\ pc = "fromString"
  /\ key' = entry
  /\ pc' = "finishKeyStartField"
  /\ UNCHANGED <<back, srcKind, src, tgtKind, tgt, todo, entry, field>>

\* Mutant: the struct arm does not check that the field exists.
FinishKeyStartFieldNoFieldCheck ==
  /\ pc = "finishKeyStartField"
  /\ field' = TRUE
  /\ tgt' = IF tgtKind = "struct" THEN (key :> TRUE) @@ tgt ELSE tgt
  /\ pc' = IF srcKind = "set" THEN "finishField" ELSE "fromBool"
  /\ UNCHANGED <<back, srcKind, src, tgtKind, todo, entry, key>>

\* Mutant: the struct arm does not set its bool field to true.
FinishKeyStartFieldNoInit ==
  /\ pc = "finishKeyStartField"
  /\ \/ /\ tgtKind \in {"set", "map"}
        /\ field' = TRUE
        /\ UNCHANGED tgt
        /\ pc' = IF srcKind = "set" THEN "finishField" ELSE "fromBool"
     \/ /\ tgtKind = "struct" /\ key \in FieldSet
        /\ field' = tgt[key]
        /\ UNCHANGED tgt
        /\ pc' = IF srcKind = "set" THEN "finishField" ELSE "fromBool"
     \/ /\ tgtKind = "struct" /\ key \notin FieldSet
        /\ pc' = "failed"
        /\ UNCHANGED <<tgt, field>>
  /\ UNCHANGED <<back, srcKind, src, tgtKind, todo, entry, key>>

\* finishKeyStartField (FinishKeyStartField, and the first half of FinishKey
\* and StartField): a set gets a bool field, and a bool field of a map or a
\* struct starts out true; a struct's field is the struct's own, or
\* errFieldNotFound when it has no field of that name.
FinishKeyStartField ==
  /\ pc = "finishKeyStartField"
  /\ \/ /\ tgtKind \in {"set", "map"}
        /\ field' = TRUE
        /\ UNCHANGED tgt
        /\ pc' = IF srcKind = "set" THEN "finishField" ELSE "fromBool"
     \/ /\ tgtKind = "struct" /\ key \in FieldSet
        /\ field' = TRUE
        /\ tgt' = [tgt EXCEPT ![key] = TRUE]
        /\ pc' = IF srcKind = "set" THEN "finishField" ELSE "fromBool"
     \/ /\ tgtKind = "struct" /\ key \notin FieldSet
        /\ pc' = "failed"
        /\ UNCHANGED <<tgt, field>>
  /\ UNCHANGED <<back, srcKind, src, tgtKind, todo, entry, key>>

\* field.FromBool(v) from a map or struct source: the field target is
\* zeroed and set; a struct's field target is the struct's field.
FieldFromBool ==
  /\ pc = "fromBool"
  /\ field' = src[entry]
  /\ tgt' = IF tgtKind = "struct" THEN [tgt EXCEPT ![key] = src[entry]] ELSE tgt
  /\ pc' = "finishField"
  /\ UNCHANGED <<back, srcKind, src, tgtKind, todo, entry, key>>

\* finishField (FinishField, and the second half of FinishKey): a set takes
\* the key only from a true field, a map stores the field under the key,
\* a struct has nothing left to do.
FinishField ==
  /\ pc = "finishField"
  /\ \/ /\ tgtKind = "set" /\ ~field
        /\ pc' = "failed"
        /\ UNCHANGED tgt
     \/ /\ tgtKind = "set" /\ field
        /\ tgt' = (key :> TRUE) @@ tgt
        /\ pc' = "next"
     \/ /\ tgtKind = "map"
        /\ tgt' = (key :> field) @@ tgt
        /\ pc' = "next"
     \/ /\ tgtKind = "struct"
        /\ pc' = "next"
        /\ UNCHANGED tgt
  /\ UNCHANGED <<back, srcKind, src, tgtKind, todo, entry, key, field>>

\* __VDLTarget1_list.StartList(tt, len): keep the slice's backing array
\* and re-slice it to len when its capacity suffices, the old elements
\* still in place; else a new zeroed slice of length and capacity len.
GenStartList ==
  /\ pc = "start" /\ tgtKind = "servers"
  /\ IF Len(back) < Len(src)
     THEN back' = [i \in 1..Len(src) |-> ZeroElem]
     ELSE back' = back
  /\ tgt' = SubSeq(back', 1, Len(src))
  /\ pc' = "next"
  /\ UNCHANGED <<srcKind, src, tgtKind, todo, entry, key, field>>

\* __VDLTarget1_list.StartElem(index): the element target points at the
\* slice's element index.
GenStartElem ==
  /\ pc = "startElem" /\ tgtKind = "servers"
  /\ pc' = "elemFromString"
  /\ UNCHANGED <<back, srcKind, src, tgtKind, tgt, todo, entry, key, field>>

\* Mutant: a slice that outgrows its capacity is not copied across.
StartElemNoCopy ==
  /\ pc = "startElem" /\ tgtKind # "servers"
  /\ \/ /\ tgtKind = "array" /\ entry > Len(tgt)
        /\ pc' = "failed"
        /\ UNCHANGED <<tgt, back>>
     \/ /\ tgtKind = "array" /\ entry <= Len(tgt)
        /\ pc' = "elemFromString"
        /\ UNCHANGED <<tgt, back>>
     \/ /\ tgtKind = "list"
        /\ LET newlen == IF entry < Len(tgt) THEN Len(tgt) ELSE entry
           IN IF newlen > Len(back)
              THEN back' = [i \in 1..(newlen * 2) |-> ZeroElem]
              ELSE back' = back
        /\ tgt' = SubSeq(back', 1, IF entry < Len(tgt) THEN Len(tgt) ELSE entry)
        /\ pc' = "elemFromString"
  /\ UNCHANGED <<srcKind, src, tgtKind, todo, entry, key, field>>

\* compConvTarget.StartElem / startElem(index), index = entry - 1: an
\* array fails with errArrayIndex past its length; a slice grows to
\* newlen = max(index+1, len), into a new backing array of twice newlen,
\* copied from the old slice, when newlen passes its capacity, and by
\* SetLen over its own backing array otherwise. The element target is
\* the element itself.
StartElem ==
  /\ pc = "startElem" /\ tgtKind # "servers"
  /\ \/ /\ tgtKind = "array" /\ entry > Len(tgt)
        /\ pc' = "failed"
        /\ UNCHANGED <<tgt, back>>
     \/ /\ tgtKind = "array" /\ entry <= Len(tgt)
        /\ pc' = "elemFromString"
        /\ UNCHANGED <<tgt, back>>
     \/ /\ tgtKind = "list"
        /\ LET newlen == IF entry < Len(tgt) THEN Len(tgt) ELSE entry
           IN IF newlen > Len(back)
              THEN back' = [i \in 1..(newlen * 2) |->
                              IF i <= Len(tgt) THEN tgt[i] ELSE ZeroElem]
              ELSE back' = back
        /\ tgt' = SubSeq(back', 1, IF entry < Len(tgt) THEN Len(tgt) ELSE entry)
        /\ pc' = "elemFromString"
  /\ UNCHANGED <<srcKind, src, tgtKind, todo, entry, key, field>>

\* elem.FromString(src[index]): startConvert zeroes the string element,
\* fromBytes sets it; a slice element is a cell of its backing array.
ElemFromString ==
  /\ pc = "elemFromString" /\ tgtKind # "servers"
  /\ tgt' = [tgt EXCEPT ![entry] = src[entry]]
  /\ back' = IF tgtKind = "list" THEN [back EXCEPT ![entry] = src[entry]] ELSE tgt'
  /\ pc' = "finishElem"
  /\ UNCHANGED <<srcKind, src, tgtKind, todo, entry, key, field>>

\* The element's MountedServer.FillVDLTarget into MountedServerTarget:
\* StartFields, and StartField, From* and FinishField for Server and for
\* Deadline, each written in place into the element.
GenElemFill ==
  /\ pc = "elemFromString" /\ tgtKind = "servers"
  /\ tgt' = [tgt EXCEPT ![entry] = src[entry]]
  /\ back' = [back EXCEPT ![entry] = src[entry]]
  /\ pc' = "finishElem"
  /\ UNCHANGED <<srcKind, src, tgtKind, todo, entry, key, field>>

\* FinishElem / finishElem: nothing to do for an array or a slice; the
\* generated FinishElem returns nil as well.
FinishElem ==
  /\ pc = "finishElem"
  /\ pc' = "next"
  /\ UNCHANGED <<back, srcKind, src, tgtKind, tgt, todo, entry, key, field>>

\* FinishSet / FinishMap / FinishFields / FinishList: finishConvert has
\* nothing to assign for a concrete target; the generated FinishList
\* returns nil.
Finish ==
  /\ pc = "finish"
  /\ pc' = "done"
  /\ UNCHANGED <<back, srcKind, src, tgtKind, tgt, todo, entry, key, field>>

Next ==
  \/ Start \/ NextEntry \/ StartKey \/ KeyFromString
  \/ FinishKeyStartField \/ FieldFromBool \/ FinishField
  \/ StartElem \/ ElemFromString \/ FinishElem \/ Finish
  \/ GenStartList \/ GenStartElem \/ GenElemFill

Spec == Init /\ [][Next]_vars
-----------------------------------------------------------------------------
(***************************************************************************)
(* Properties, against a reference that reads each value as a set of      *)
(* names with a bool.                                                      *)
(***************************************************************************)
TrueNames(v) == {n \in DOMAIN v : v[n]}

\* Where the reference says the conversion must fail: a false entry has no
\* set representation, and a struct has no field for a name it lacks.
RefFails ==
  \/ tgtKind = "array" /\ Len(src) > ArrayLen
  \/ tgtKind = "set" /\ \E n \in DOMAIN src : ~src[n]
  \/ tgtKind = "struct" /\ ~(DOMAIN src \subseteq FieldSet)

\* What the target must then hold: a set holds the true names, a map every
\* entry with its bool, a struct each field true exactly when it is named.
RefValue ==
  CASE tgtKind = "set" -> [n \in TrueNames(src) |-> TRUE]
    [] tgtKind = "map" -> src
    [] tgtKind = "struct" -> [f \in FieldSet |-> f \in TrueNames(src)]
    [] tgtKind \in {"list", "servers"} -> src
    [] tgtKind = "array" -> [i \in 1..ArrayLen |-> IF i <= Len(src) THEN src[i] ELSE ZeroElem]

\* A conversion between the set representations, whatever the order the
\* source sends its entries in and whatever the target held before, ends
\* successfully exactly when the reference allows it, holding the value
\* the reference gives (the bool special cases of finishKeyStartField and
\* finishField, and the zeroing of createFillTarget).
ConvertsAsReference ==
  tgtKind \in SetKinds =>
  /\ pc = "done" => ~RefFails /\ tgt = RefValue
  /\ pc = "failed" => RefFails

\* A conversion between a list and an array, into a slice that may have
\* spare capacity holding old elements or into an array that held any
\* value, ends successfully exactly when the source fits the target, and
\* then the target holds the source's elements, an array padded with zero
\* strings (the zeroing of createFillTarget, startElem's growth and copy of
\* a slice past its capacity and its SetLen over the old backing array
\* within it, and the array bound); a slice's elements are always the
\* first cells of its backing array.
ListConvertsAsReference ==
  tgtKind \in ListKinds =>
  /\ pc = "done" => ~RefFails /\ tgt = RefValue
  /\ pc = "failed" => RefFails
  /\ tgt = SubSeq(back, 1, Len(tgt))

\* The comment on finishKeyStartField: "set[string], map[string]bool,
\* struct{X, Y, Z bool}" are "all convertible to each other" -- so a value
\* whose names are all fields of the struct converts into each of them.
ConvertibleToEachOther ==
  tgtKind \in SetKinds /\ DOMAIN src \subseteq FieldSet => pc # "failed"
====
