---------------------------- MODULE CustomerCodec ----------------------------
(***************************************************************************)
(* The generated VDL codec of internal.Customer (src/vom/internal/          *)
(* internal.vdl.go): a Customer value is sent by its FillVDLTarget into    *)
(* the CustomerTarget of another Customer variable, which already holds a  *)
(* value, as decoding into a reused variable does.                         *)
(*                                                                         *)
(* The generated FillVDLTarget methods nest (Customer sends Name, Id,      *)
(* Active, then Address through AddressInfo's, then Credit through        *)
(* CreditReport's), and each generated Target writes a field in place as  *)
(* it arrives. A Customer is flattened into its leaf fields, in the order *)
(* the nested calls send them; one step sends one leaf field: StartField, *)
(* the From* call or nested FillVDLTarget, FinishField. Source and target  *)
(* have the same type, so StartFields and StartField never fail; an error *)
(* of a From* call is returned up through every enclosing FillVDLTarget.  *)
(***************************************************************************)
EXTENDS Integers, Sequences

CONSTANTS
  Customers,  \* the values the sender's variable starts with
  Olds,       \* the values the receiver's variable holds beforehand
  Labels      \* labels passed to CreditAgency.Set / ExperianRating.Set

\* The leaf fields, in the order the nested FillVDLTarget methods send
\* them: AddressInfo's, CreditReport's, and Customer's around them.
AddressFields == <<"Street", "City", "State", "Zip">>
CreditFields == <<"Agency", "Report">>
Fields == <<"Name", "Id", "Active">> \o AddressFields \o CreditFields

\* An AgencyReport union value: its field name and the Rating of the
\* report it holds; NilReport is a nil AgencyReport interface.
NilReport == [tag |-> "nil", rating |-> 0]

VARIABLES
  src,   \* the sender's Customer variable
  dst,   \* the receiver's Customer variable
  sent,  \* the value being sent (src when the fill started)
  old,   \* dst when the fill started
  pc     \* the index of the next field to send, or Idle, Done, Failed

vars == <<src, dst, sent, old, pc>>

Idle == 0
Done == Len(Fields) + 1
Failed == -1
-----------------------------------------------------------------------------
\* CreditAgency.String: the label of a CreditAgency, "" for any other value.
CreditAgencyString(x) ==
  CASE x = 0 -> "Equifax" [] x = 1 -> "Experian" [] x = 2 -> "TransUnion"
    [] OTHER -> ""

\* CreditAgency.Set: exact and lower-case labels; -1 and an error otherwise.
CreditAgencySet(label) ==
  CASE label \in {"Equifax", "equifax"} -> 0
    [] label \in {"Experian", "experian"} -> 1
    [] label \in {"TransUnion", "transunion"} -> 2
    [] OTHER -> -1

\* Mutant: TransUnion is decoded one past its index.
CreditAgencyFromEnumLabelOffByOne(label) ==
  CASE label = "Equifax" -> {0} [] label = "Experian" -> {1}
    [] label = "TransUnion" -> {3} [] OTHER -> {}

\* CreditAgencyTarget.FromEnumLabel: exact labels only. A FromEnumLabel is
\* the set of the value it stores, empty when it returns an error.
CreditAgencyFromEnumLabel(label) ==
  CASE label = "Equifax" -> {0} [] label = "Experian" -> {1}
    [] label = "TransUnion" -> {2} [] OTHER -> {}

\* Mutant: String falls back to the first label.
ExperianRatingStringDefault(x) == IF x = 1 THEN "Bad" ELSE "Good"

\* ExperianRating.String: the label, "" for any other value.
ExperianRatingString(x) ==
  CASE x = 0 -> "Good" [] x = 1 -> "Bad" [] OTHER -> ""

\* ExperianRating.Set: exact and lower-case labels; -1 and an error otherwise.
ExperianRatingSet(label) ==
  CASE label \in {"Good", "good"} -> 0
    [] label \in {"Bad", "bad"} -> 1
    [] OTHER -> -1

\* ExperianRatingTarget.FromEnumLabel: exact labels only.
ExperianRatingFromEnumLabel(label) ==
  CASE label = "Good" -> {0} [] label = "Bad" -> {1} [] OTHER -> {}

\* A value the sender cannot send: an enum that Set left at -1.
Valid(c) ==
  /\ CreditAgencyString(c.Agency) # ""
  /\ c.Report.tag = "ExperianReport" => ExperianRatingString(c.Report.rating) # ""

\* The AgencyReport values a program can build: a nil interface, each
\* union field with a Rating, an ExperianRating from ExperianRatingFromString.
Reports ==
  {NilReport}
  \cup {[tag |-> t, rating |-> n] : t \in {"EquifaxReport", "TransUnionReport"}, n \in {0, 1}}
  \cup {[tag |-> "ExperianReport", rating |-> ExperianRatingSet(l)] : l \in Labels}

\* The AgencyReport CreditReport.FillVDLTarget sends for a nil Report.
EquifaxZero == [tag |-> "EquifaxReport", rating |-> 0]

IsCustomer(c) ==
  /\ DOMAIN c = {Fields[i] : i \in DOMAIN Fields}
  /\ {c.Name, c.Street, c.City, c.State, c.Zip} \subseteq STRING
  /\ c.Id \in Int /\ c.Active \in BOOLEAN
  /\ c.Agency \in -1..2 /\ c.Report \in Reports

TypeOK ==
  /\ IsCustomer(src) /\ IsCustomer(dst) /\ IsCustomer(sent) /\ IsCustomer(old)
  /\ pc \in {Idle, Done, Failed} \cup DOMAIN Fields

Init ==
  /\ src \in Customers
  /\ dst \in Olds
  /\ sent = src
  /\ old = dst
  /\ pc = Idle
-----------------------------------------------------------------------------
Ready == pc \in {Idle, Done, Failed}

\* x.Credit.Agency.Set(label), its error ignored (CreditAgencyFromString).
SetAgency ==
  /\ Ready
  /\ \E label \in Labels : src' = [src EXCEPT !.Agency = CreditAgencySet(label)]
  /\ UNCHANGED <<dst, sent, old, pc>>

\* x.Credit.Report = r, for any AgencyReport value.
SetReport ==
  /\ Ready
  /\ \E r \in Reports : src' = [src EXCEPT !.Report = r]
  /\ UNCHANGED <<dst, sent, old, pc>>

\* src.FillVDLTarget(dst.MakeVDLTarget(), tt): StartFields of the
\* CustomerTarget checks the type, which is the same.
StartFill ==
  /\ Ready
  /\ sent' = src
  /\ old' = dst
  /\ pc' = 1
  /\ UNCHANGED <<src, dst>>

\* After a field: the next, or FinishFields and a nil error.
NextField == pc + 1

\* A string, int64 or bool field: FromString / FromInt / FromBool into the
\* field's StringTarget, Int64Target or BoolTarget, which store it.
SendPlain ==
  /\ pc \in DOMAIN Fields
  /\ Fields[pc] \notin {"Agency", "Report"}
  /\ dst' = [dst EXCEPT ![Fields[pc]] = sent[Fields[pc]]]
  /\ pc' = NextField
  /\ UNCHANGED <<src, sent, old>>

\* Credit.Agency: CreditAgency.FillVDLTarget sends String() to
\* CreditAgencyTarget.FromEnumLabel; an error ends the whole fill.
SendAgency ==
  /\ pc \in DOMAIN Fields
  /\ Fields[pc] = "Agency"
  /\ LET r == CreditAgencyFromEnumLabel(CreditAgencyString(sent.Agency))
     IN IF r = {}
        THEN pc' = Failed /\ UNCHANGED dst
        ELSE dst' = [dst EXCEPT !.Agency = CHOOSE x \in r : TRUE] /\ pc' = NextField
  /\ UNCHANGED <<src, sent, old>>

\* The report's FillVDLTarget sends its one field, Rating: a byte by
\* FromUint, an int16 by FromInt, an ExperianRating by its String() as an
\* enum label. The Report is filled through vdl.ReflectTarget, which is not
\* in the tree; it is taken to accept the labels ExperianRatingTarget
\* accepts. The set of what is stored.
ReportRating(u) ==
  IF u.tag = "ExperianReport"
  THEN ExperianRatingFromEnumLabel(ExperianRatingString(u.rating))
  ELSE {u.rating}

\* Credit.Report: a nil Report is sent as AgencyReportEquifaxReport{}; the
\* union's FillVDLTarget sends its one field into the vdl.ReflectTarget
\* CreditReportTarget gives for Report. An Experian report sends its
\* Rating's String() as an enum label, and "" fails; whether the
\* ReflectTarget has by then replaced the Report is left open.
SendReport ==
  /\ pc \in DOMAIN Fields
  /\ Fields[pc] = "Report"
  /\ LET u == IF sent.Report = NilReport THEN EquifaxZero ELSE sent.Report
         r == ReportRating(u)
     IN IF r = {}
        THEN /\ pc' = Failed
             /\ \E kept \in {dst.Report, [tag |-> u.tag, rating |-> 0]} :
                  dst' = [dst EXCEPT !.Report = kept]
        ELSE /\ dst' = [dst EXCEPT !.Report = [tag |-> u.tag, rating |-> CHOOSE x \in r : TRUE]]
             /\ pc' = NextField
  /\ UNCHANGED <<src, sent, old>>

Next == SetAgency \/ SetReport \/ StartFill \/ SendPlain \/ SendAgency \/ SendReport

Spec == Init /\ [][Next]_vars
-----------------------------------------------------------------------------
\* The value a fill must reproduce: a nil Report is sent as the zero union.
Canon(c) == [c EXCEPT !.Report = IF @ = NilReport THEN EquifaxZero ELSE @]

\* A fill into a variable that held any value ends without error exactly
\* when the sent value holds no enum that Set left at -1, and then leaves
\* the receiver equal to the value sent (the generated String, Set and
\* FromEnumLabel of both enums, the nil-union default of CreditReport, and
\* the in-place writes of the generated targets).
DecodesExactly ==
  /\ pc = Done => Valid(sent) /\ dst = Canon(sent)
  /\ pc = Failed => ~Valid(sent)

\* A failed fill leaves the receiving variable as it was.
FailedFillKeepsTarget == pc = Failed => dst = old
====
