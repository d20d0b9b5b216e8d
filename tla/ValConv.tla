------------------------------ MODULE ValConv ------------------------------
(***************************************************************************)
(* Scalar value conversion in src/vdl/valconv/convert.go: the From*        *)
(* methods of convTarget, into a target that is either a Go variable       *)
(* (ReflectTarget, the rv side, "R") or a *vdl.Value (ValueTarget, the vv  *)
(* side, "V"). The two sides are driven with the same calls, so that what  *)
(* one side does with a call can be compared with what the other does.     *)
(*                                                                         *)
(* Data. A target has a fixed kind. Integers keep their value. Bit widths  *)
(* are scaled so that TLC's integers hold them while every order between   *)
(* them is kept: 8, 16, 32 and 64 bits become 2, 3, 5 and 7 bits, and the  *)
(* exact-integer ranges of float32 and float64 (2^24, 2^53) become 2^4 and *)
(* 2^6. A float is its value in halves (3 stands for 1.5); a complex is a  *)
(* pair of floats. Strings are short literals; the enum is the generated   *)
(* internal.CreditAgency of src/vom/internal/internal.vdl.go.              *)
(***************************************************************************)
EXTENDS Integers

CONSTANTS
  UintSrc,     \* uint64 values passed to FromUint
  IntSrc,      \* int64 values passed to FromInt
  FloatSrc,    \* float64 values (in halves) passed to FromFloat
  ComplexSrc,  \* complex128 values (pairs of halves) passed to FromComplex
  StringSrc,   \* strings passed to FromString / FromBytes / FromEnumLabel
  MaxCalls     \* calls made on a target

VARIABLES
  kind,    \* the vdl kind of the target (its type does not change)
  target,  \* target[r]: the value held by the Go variable / *vdl.Value
  result,  \* result[r]: what the last From* call on side r returned
  last,    \* the last call: [m |-> method, x |-> source value]
  calls    \* calls made so far

vars == <<kind, target, result, last, calls>>

Reps == {"R", "V"}

UintKinds    == {"Byte", "Uint16", "Uint32", "Uint64"}
IntKinds     == {"Int16", "Int32", "Int64"}
FloatKinds   == {"Float32", "Float64"}
ComplexKinds == {"Complex64", "Complex128"}
Kinds == UintKinds \cup IntKinds \cup FloatKinds \cup ComplexKinds
           \cup {"Bool", "String", "Enum"}

(***************************************************************************)
(* Widths and the numeric helpers. bitlenR/bitlenV and the overflow and    *)
(* convert* helpers are called by convert.go but are not in the tree; they *)
(* are modelled from their names and their use: a conversion succeeds when *)
(* the value is exact in the target.                                       *)
(***************************************************************************)
Bits(w) == CASE w = 8 -> 2 [] w = 16 -> 3 [] w = 32 -> 5 [] w = 64 -> 7
Mant(w) == IF w = 32 THEN 4 ELSE 6

bitlenR(rk) ==
  CASE rk \in {"Uint8", "Int8"} -> 8
    [] rk \in {"Uint16", "Int16"} -> 16
    [] rk \in {"Uint32", "Int32", "Float32", "Complex64"} -> 32
    [] OTHER -> 64

bitlenV(vk) ==
  CASE vk = "Byte" -> 8
    [] vk \in {"Uint16", "Int16"} -> 16
    [] vk \in {"Uint32", "Int32", "Float32", "Complex64"} -> 32
    [] OTHER -> 64

overflowUint(x, w) == x >= 2^Bits(w)
overflowInt(x, w) == x < -(2^(Bits(w) - 1)) \/ x >= 2^(Bits(w) - 1)

Conv(ok, v) == [ok |-> ok, v |-> v]

convertUintToInt(x, w) == Conv(~overflowInt(x, w), x)
convertIntToUint(x, w) == Conv(x >= 0 /\ ~overflowUint(x, w), x)
convertUintToFloat(x, w) == Conv(x <= 2^Mant(w), 2 * x)
convertIntToFloat(x, w) == Conv(-(2^Mant(w)) <= x /\ x <= 2^Mant(w), 2 * x)
convertFloatToUint(h, w) == Conv(h % 2 = 0 /\ h >= 0 /\ ~overflowUint(h \div 2, w), h \div 2)
convertFloatToInt(h, w) == Conv(h % 2 = 0 /\ ~overflowInt(h \div 2, w), h \div 2)
convertComplexToUint(c, w) == Conv(c[2] = 0 /\ convertFloatToUint(c[1], w).ok, c[1] \div 2)
convertComplexToInt(c, w) == Conv(c[2] = 0 /\ convertFloatToInt(c[1], w).ok, c[1] \div 2)

\* float64(float32(x)): round to the nearest value with Mant(w) significant
\* bits, ties to even. Always succeeds (exponent range is not modelled).
convertFloatToFloat(h, w) ==
  LET a == IF h < 0 THEN -h ELSE h
      e == CHOOSE e \in 0..16 : a < 2^(Mant(w) + e) /\ \A d \in 0..(e - 1) : a >= 2^(Mant(w) + d)
      q == a \div 2^e
      r == a % 2^e
      up == e > 0 /\ (r > 2^(e - 1) \/ (r = 2^(e - 1) /\ q % 2 = 1))
      m == (IF up THEN q + 1 ELSE q) * 2^e
  IN IF h < 0 THEN -m ELSE m

(***************************************************************************)
(* The target kinds. The Go kind of a target (what c.rv.Kind() returns) is *)
(* its vdl kind, except that a vdl byte is a Go uint8 and the generated    *)
(* enum CreditAgency is declared `type CreditAgency int`.                  *)
(***************************************************************************)
RKind(k) == CASE k = "Byte" -> "Uint8" [] k = "Enum" -> "Int" [] OTHER -> k

\* The switch arm of fromUint/fromInt/fromFloat/fromComplex a kind falls in.
ArmR(rk) ==
  CASE rk \in {"Uint8", "Uint16", "Uint32", "Uint64", "Uint", "Uintptr"} -> "uint"
    [] rk \in {"Int8", "Int16", "Int32", "Int64", "Int"} -> "int"
    [] rk \in {"Float32", "Float64"} -> "float"
    [] rk \in {"Complex64", "Complex128"} -> "complex"
    [] OTHER -> "none"

\* Mutant: the vv branch of the int arm lists vdl.Int32 and vdl.Int64 only.
ArmVNoInt16(vk) ==
  CASE vk \in UintKinds -> "uint"
    [] vk \in {"Int32", "Int64"} -> "int"
    [] vk \in FloatKinds -> "float"
    [] vk \in ComplexKinds -> "complex"
    [] OTHER -> "none"

ArmV(vk) ==
  CASE vk \in UintKinds -> "uint"
    [] vk \in IntKinds -> "int"
    [] vk \in FloatKinds -> "float"
    [] vk \in ComplexKinds -> "complex"
    [] OTHER -> "none"

Arm(r, k) == IF r = "R" THEN ArmR(RKind(k)) ELSE ArmV(k)
bitlen(r, k) == IF r = "R" THEN bitlenR(RKind(k)) ELSE bitlenV(k)

\* The zero value createFillTarget puts in a concrete target before it is
\* filled (fin.rv.Set(reflect.New(..).Elem()), fin.vv.Assign(nil)).
Zero(k) ==
  CASE k = "Bool" -> FALSE
    [] k = "String" -> ""
    [] k \in ComplexKinds -> <<0, 0>>
    [] OTHER -> 0

\* A fill step's outcome: the value the target holds afterwards and
\* whether it returned nil. A failed fill leaves the zeroed target.
Filled(k, ok, v) == [ok |-> ok, val |-> IF ok THEN v ELSE Zero(k)]

\* vdl.compatible (not in the tree): bools with bools, numbers with numbers,
\* strings with enums and []byte.
Class(k) ==
  CASE k = "Bool" -> "bool"
    [] k \in {"String", "Enum"} -> "string"
    [] OTHER -> "number"

\* startConvert: fails before touching the target unless the types are
\* compatible; createFinTarget/createFillTarget then zero the target.
startConvert(k, srcClass) == Class(k) = srcClass
-----------------------------------------------------------------------------
(***************************************************************************)
(* The fill steps: convTarget.fromBool ... fromBytes on the zeroed target. *)
(* The rv and vv branches of each have the same arms over their kinds, so  *)
(* one definition per method takes the arm of side r's kind.               *)
(***************************************************************************)
fromBool(r, k, b) == Filled(k, k = "Bool", b)

fromUint(r, k, x) ==
  LET w == bitlen(r, k) IN
  CASE Arm(r, k) = "uint" -> Filled(k, ~overflowUint(x, w), x)
    [] Arm(r, k) = "int" -> Filled(k, convertUintToInt(x, w).ok, x)
    [] Arm(r, k) = "float" -> Filled(k, convertUintToFloat(x, w).ok, 2 * x)
    [] Arm(r, k) = "complex" -> Filled(k, convertUintToFloat(x, w).ok, <<2 * x, 0>>)
    [] OTHER -> Filled(k, FALSE, 0)

fromInt(r, k, x) ==
  LET w == bitlen(r, k) IN
  CASE Arm(r, k) = "uint" -> Filled(k, convertIntToUint(x, w).ok, x)
    [] Arm(r, k) = "int" -> Filled(k, ~overflowInt(x, w), x)
    [] Arm(r, k) = "float" -> Filled(k, convertIntToFloat(x, w).ok, 2 * x)
    [] Arm(r, k) = "complex" -> Filled(k, convertIntToFloat(x, w).ok, <<2 * x, 0>>)
    [] OTHER -> Filled(k, FALSE, 0)

fromFloat(r, k, h) ==
  LET w == bitlen(r, k) IN
  CASE Arm(r, k) = "uint" -> Filled(k, convertFloatToUint(h, w).ok, h \div 2)
    [] Arm(r, k) = "int" -> Filled(k, convertFloatToInt(h, w).ok, h \div 2)
    [] Arm(r, k) = "float" -> Filled(k, TRUE, convertFloatToFloat(h, w))
    [] Arm(r, k) = "complex" -> Filled(k, TRUE, <<convertFloatToFloat(h, w), 0>>)
    [] OTHER -> Filled(k, FALSE, 0)

fromComplex(r, k, c) ==
  LET w == bitlen(r, k) IN
  CASE Arm(r, k) = "uint" -> Filled(k, convertComplexToUint(c, w).ok, c[1] \div 2)
    [] Arm(r, k) = "int" -> Filled(k, convertComplexToInt(c, w).ok, c[1] \div 2)
    [] Arm(r, k) = "float" -> Filled(k, c[2] = 0, convertFloatToFloat(c[1], w))
    [] Arm(r, k) = "complex" ->
         Filled(k, TRUE, <<convertFloatToFloat(c[1], w), convertFloatToFloat(c[2], w)>>)
    [] OTHER -> Filled(k, FALSE, 0)

\* The generated enum (internal.vdl.go): its labels, by index, and the
\* lower-case spellings its Set method also accepts.
CreditAgencyLabels == <<"Equifax", "Experian", "TransUnion">>
CreditAgencyLower == <<"equifax", "experian", "transunion">>

\* Mutant: Set stores the 1-based position of the label.
CreditAgencySetOffByOne(label) ==
  IF \E i \in 1..3 : label \in {CreditAgencyLabels[i], CreditAgencyLower[i]}
  THEN [ok |-> TRUE,
        val |-> CHOOSE i \in 1..3 : label \in {CreditAgencyLabels[i], CreditAgencyLower[i]}]
  ELSE [ok |-> FALSE, val |-> -1]

\* func (x *CreditAgency) Set(label string): on an unknown label it stores
\* -1 before returning the error.
CreditAgencySet(label) ==
  IF \E i \in 1..3 : label \in {CreditAgencyLabels[i], CreditAgencyLower[i]}
  THEN [ok |-> TRUE,
        val |-> (CHOOSE i \in 1..3 : label \in {CreditAgencyLabels[i], CreditAgencyLower[i]}) - 1]
  ELSE [ok |-> FALSE, val |-> -1]

\* vdl.Type.EnumIndex: the index of an exact label, or -1.
EnumIndex(label) ==
  IF \E i \in 1..3 : CreditAgencyLabels[i] = label
  THEN (CHOOSE i \in 1..3 : CreditAgencyLabels[i] = label) - 1
  ELSE -1

\* fromBytes: an enum Go variable is set through its Set method; a
\* *vdl.Value enum looks the label up with EnumIndex.
fromBytes(r, k, s) ==
  CASE k = "Enum" /\ r = "R" -> CreditAgencySet(s)
    [] k = "Enum" /\ r = "V" -> Filled(k, EnumIndex(s) >= 0, EnumIndex(s))
    [] OTHER -> Filled(k, k = "String", s)
-----------------------------------------------------------------------------
(***************************************************************************)
(* The Target methods. Each From* is startConvert, then the fill step,     *)
(* then finishConvert (which has nothing to do for a concrete target). An  *)
(* incompatible source returns before the target is touched.               *)
(***************************************************************************)
\* The values a target of kind k can hold: an enum Go variable may hold -1.
Values(k) ==
  CASE k = "Bool" -> BOOLEAN
    [] k = "String" -> STRING
    [] k = "Enum" -> -1..2
    [] k \in ComplexKinds -> Int \X Int
    [] OTHER -> Int

TypeOK ==
  /\ kind \in Kinds
  /\ \A r \in Reps : target[r] \in Values(kind)
  /\ result \in [Reps -> {"none", "nil", "err"}]
  /\ last.m \in {"none", "Bool", "Uint", "Int", "Float", "Complex", "String"}
  /\ calls \in 0..MaxCalls

Init ==
  /\ kind \in Kinds
  /\ target = [r \in Reps |-> Zero(kind)]
  /\ result = [r \in Reps |-> "none"]
  /\ last = [m |-> "none", x |-> 0]
  /\ calls = 0

\* One From* call with source x of method m, fill[r] the fill step on side r.
Call(m, srcClass, x, fill) ==
  /\ calls < MaxCalls
  /\ target' = [r \in Reps |-> IF startConvert(kind, srcClass) THEN fill[r].val ELSE target[r]]
  /\ result' = [r \in Reps |-> IF startConvert(kind, srcClass) /\ fill[r].ok THEN "nil" ELSE "err"]
  /\ last' = [m |-> m, x |-> x]
  /\ calls' = calls + 1
  /\ UNCHANGED kind

FromBool == \E b \in BOOLEAN : Call("Bool", "bool", b, [r \in Reps |-> fromBool(r, kind, b)])

FromUint == \E x \in UintSrc : Call("Uint", "number", x, [r \in Reps |-> fromUint(r, kind, x)])

FromInt == \E x \in IntSrc : Call("Int", "number", x, [r \in Reps |-> fromInt(r, kind, x)])

FromFloat == \E h \in FloatSrc : Call("Float", "number", h, [r \in Reps |-> fromFloat(r, kind, h)])

FromComplex ==
  \E c \in ComplexSrc : Call("Complex", "number", c, [r \in Reps |-> fromComplex(r, kind, c)])

\* FromString, FromEnumLabel and FromBytes all end in FromBytes.
FromString ==
  \E s \in StringSrc : Call("String", "string", s, [r \in Reps |-> fromBytes(r, kind, s)])

Next == FromBool \/ FromUint \/ FromInt \/ FromFloat \/ FromComplex \/ FromString

Spec == Init /\ [][Next]_vars
-----------------------------------------------------------------------------
(***************************************************************************)
(* Properties, against a reference that states the ranges directly.        *)
(***************************************************************************)
\* The integers each integer kind holds, and the largest integer each float
\* kind holds exactly (at the scaled widths).
IntRange(k) ==
  CASE k = "Byte" -> 0..3 [] k = "Uint16" -> 0..7 [] k = "Uint32" -> 0..31
    [] k = "Uint64" -> 0..127 [] k = "Int16" -> -4..3 [] k = "Int32" -> -16..15
    [] k = "Int64" -> -64..63
ExactLimit(k) == IF k \in {"Float32", "Complex64"} THEN 16 ELSE 64

\* A number as a pair of halves <<re, im>>: a source of the last call, and
\* the value a numeric target holds.
SrcHalves ==
  CASE last.m \in {"Uint", "Int"} -> <<2 * last.x, 0>>
    [] last.m = "Float" -> <<last.x, 0>>
    [] OTHER -> last.x
ValHalves(v) ==
  CASE kind \in UintKinds \cup IntKinds -> <<2 * v, 0>>
    [] kind \in FloatKinds -> <<v, 0>>
    [] OTHER -> v

NumberCall == last.m \in {"Uint", "Int", "Float", "Complex"} /\ Class(kind) = "number"
Integral(s) == s[2] = 0 /\ s[1] % 2 = 0

\* On both sides, a number converted into an integer kind succeeds exactly
\* when it is an integer in the kind's range, and then it is stored exactly;
\* an integer (FromUint/FromInt) converted into a float or complex kind
\* succeeds exactly when the kind holds it exactly, and is stored exactly.
\* This is the dispatch of fromUint/fromInt/fromFloat/fromComplex on
\* c.rv.Kind() and c.vv.Kind(), with the widths each arm passes on.
NumericExact ==
  NumberCall =>
    \A r \in Reps :
      LET s == SrcHalves
          ok == result[r] = "nil"
      IN /\ kind \in UintKinds \cup IntKinds =>
              /\ ok <=> Integral(s) /\ s[1] \div 2 \in IntRange(kind)
              /\ ok => ValHalves(target[r]) = s
         /\ (kind \in FloatKinds \cup ComplexKinds /\ last.m \in {"Uint", "Int"}) =>
              /\ ok <=> -ExactLimit(kind) <= last.x /\ last.x <= ExactLimit(kind)
              /\ ok => ValHalves(target[r]) = s

\* A conversion that reports success never changes an integer value:
\* convertUintToFloat and convertIntToFloat refuse an integer the float kind
\* cannot hold, so the same is expected of a float64 source.
IntegerValuesExact ==
  NumberCall =>
    \A r \in Reps :
      (result[r] = "nil" /\ Integral(SrcHalves)) => ValHalves(target[r]) = SrcHalves

\* A ReflectTarget and a ValueTarget of the same vdl type, given the same
\* calls, hold the same value and return the same errors (convTarget is one
\* type with a vv and an rv branch in every method).
TargetsAgree ==
  /\ result["R"] = result["V"]
  /\ target["R"] = target["V"]
====
