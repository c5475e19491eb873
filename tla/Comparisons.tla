------------------------------ MODULE Comparisons ------------------------------
(***************************************************************************)
(* How a comparison of two operands becomes SQL.  A value of the language  *)
(* is of one type; the tables keep a reference as an identifier, or an     *)
(* identifier beside a table number, or one payload of both, and a value   *)
(* of several types as the members of all of them.  Every place an         *)
(* equality may stand brings its two sides to one form; the module reads   *)
(* what comes out over one pair of rows, and compares it with whether the  *)
(* two values are the same.                                                *)
(*                                                                         *)
(* src/query/core/codegen/expression.rs, select.rs (join equality),        *)
(* scalar_policy.rs: the PostgreSQL dialect.                               *)
(***************************************************************************)
EXTENDS Integers, FiniteSets, Sequences

CONSTANTS Identifiers,  \* referenced object -> the identifiers of its rows, 0 of the empty one
          Comparisons   \* [place, negated, left, right]

VARIABLES comparison,
          content,      \* side -> the value a row holds there
          pick,         \* whether the condition of a CASE holds
          step,         \* Written, Compiled, Refused, Answered
          form,         \* how the two sides meet
          answer

Objects == DOMAIN Identifiers
Sides == {"l", "r", "c"}

\* The values: the zero of every type is 0.
Null == [type |-> "null", v |-> 0]
Undefined == [type |-> "undefined", v |-> 0]
References(objects) == UNION {{[type |-> o, v |-> i] : i \in Identifiers[o]} : o \in objects}
Scalars(type) == {[type |-> type, v |-> v] : v \in 0..1}
IsReference(x) == x.type \in Objects

-----------------------------------------------------------------------------
(* The shapes a field is stored in, and the constants of the language.      *)
(*   fixed    one identifier of .of                                         *)
(*   payload  one column of number and identifier, of a derived source      *)
(*   pair     two columns, _RTRef and _RRRef                                *)
(*   many     _TYPE, _S, _N, _RTRef, _RRRef                                 *)
(*   one      _TYPE, _S, _RRRef of .of                                      *)
(*   string, number                                                         *)
(*   typed, bare, wide, literal, undefined, unbound: constants of .value    *)
(*   case     one of two alternatives, .then and .else                      *)

Fields == {"fixed", "payload", "pair", "many", "one", "string", "number"}
IsField(o) == o.is \in Fields

Storable(o) ==
  CASE o.is = "fixed" -> References({o.of})
    [] o.is \in {"payload", "pair"} -> References(Objects)
    [] o.is = "many" -> References(Objects) \cup Scalars("string") \cup Scalars("number") \cup {Undefined}
    [] o.is = "one" -> References({o.of}) \cup Scalars("string") \cup {Undefined}
    [] OTHER -> Scalars(o.is)

FieldsOf(o) == IF o.is = "case" THEN {p \in {o.then, o.else} : IsField(p)}
               ELSE IF IsField(o) THEN {o} ELSE {}
Members(o) == CASE o.is = "many" -> {"_TYPE", "_S", "_N", ""} [] o.is = "one" -> {"_TYPE", "_S", ""}
                [] OTHER -> {}

-----------------------------------------------------------------------------
(* SQL.  A value is the sequence of its parts: bytes are an identifier of   *)
(* one, a payload of two, a tag of three; an equality with NULL is unknown. *)

NULL == <<>>
Tag(type) == <<"tag", IF type \in Objects THEN "reference" ELSE type, "of">>
Payload(number, id) == IF NULL \in {number, id} THEN NULL ELSE number \o id
ZeroPayload == <<"0", 0>>

Eq(a, b) == IF NULL \in {a, b} THEN "unknown" ELSE IF a = b THEN "true" ELSE "false"
Not(p) == CASE p = "true" -> "false" [] p = "false" -> "true" [] OTHER -> p
All(ps) == IF "false" \in ps THEN "false" ELSE IF "unknown" \in ps THEN "unknown" ELSE "true"
Any(ps) == IF "true" \in ps THEN "true" ELSE IF "unknown" \in ps THEN "unknown" ELSE "false"
Truth(b) == IF b THEN "true" ELSE "false"

\* What a row stores of the value a field holds; a row an outer join found
\* no match for stores nothing.
Stored(o, member) ==
  LET x == content[o.side]
  IN IF x = Null THEN NULL
     ELSE CASE member = "_TYPE" -> Tag(x.type)
            [] member = "_S" -> <<"string", IF x.type = "string" THEN x.v ELSE 0>>
            [] member = "_N" -> <<"number", IF x.type = "number" THEN x.v ELSE 0>>
            [] member = "_RTRef" -> <<IF IsReference(x) THEN x.type ELSE "0">>
            [] member = "_RRRef" -> <<IF IsReference(x) THEN x.v ELSE 0>>
            [] member = "value" -> IF o.is = "fixed" THEN <<x.v>> ELSE <<x.type, x.v>>

PairPayload(o) == Payload(Stored(o, "_RTRef"), Stored(o, "_RRRef"))

-----------------------------------------------------------------------------
(* The kinds of operands.                                                   *)

Kind(is, targets, runtime) == [is |-> is, targets |-> targets, runtime |-> runtime]
Wildcard(kind) == kind.is \in {"null", "undefined"}
Compatible(a, b) == Wildcard(a) \/ Wildcard(b) \/ a.is = b.is

\* The kind several operands share: references of one fixed target stay, any
\* others are widened to payloads.
Common(kinds) ==
  LET typed == {i \in DOMAIN kinds : ~Wildcard(kinds[i])}
      targets == UNION {kinds[i].targets : i \in typed}
  IN CASE typed = {} -> Kind(IF \E i \in DOMAIN kinds : kinds[i].is = "undefined" THEN "undefined" ELSE "null", {}, FALSE)
       [] \E i, k \in typed : kinds[i].is # kinds[k].is -> Kind("refused", {}, FALSE)
       [] OTHER -> Kind(kinds[CHOOSE i \in typed : TRUE].is, targets,
                        Cardinality(targets) > 1 \/ \E i \in typed : kinds[i].runtime)

SimpleKind(o) ==
  CASE o.is = "fixed" -> Kind("reference", {o.of}, FALSE)
    [] o.is \in {"payload", "pair", "many"} -> Kind("reference", Objects, TRUE)
    [] o.is = "one" -> Kind("refused", {}, FALSE)
    [] o.is \in {"string", "number"} -> Kind(o.is, {}, FALSE)
    [] o.is = "typed" -> Kind("reference", {o.value.type}, FALSE)
    [] o.is \in {"bare", "wide"} -> Kind("binary", {}, FALSE)
    [] o.is = "literal" -> Kind(o.value.type, {}, FALSE)
    [] o.is = "undefined" -> Kind("undefined", {}, FALSE)
    [] o.is = "unbound" -> Kind("null", {}, FALSE)

Alternatives(o) == <<SimpleKind(o.then), SimpleKind(o.else)>>
KindOf(o) == IF o.is = "case" THEN Common(Alternatives(o)) ELSE SimpleKind(o)

\* A mutant: a fixed reference stands beside a payload as it is.
WidenNothing(sql, kind) == sql

\* A fixed reference becomes the payload of its one target.
Widen(sql, kind) ==
  IF kind.is = "reference" /\ ~kind.runtime THEN Payload(<<CHOOSE t \in kind.targets : TRUE>>, sql)
  ELSE sql

\* An operand as a value.
Simple(o) ==
  CASE o.is \in {"pair", "many"} -> PairPayload(o)
    [] IsField(o) -> Stored(o, "value")
    [] o.is \in {"typed", "bare"} -> <<o.value.v>>
    [] o.is \in {"wide", "literal"} -> <<o.value.type, o.value.v>>
    [] OTHER -> NULL

Wide(sql, kind, common) == IF common.runtime THEN Widen(sql, kind) ELSE sql
Chosen(p, common, refused) ==
  IF SimpleKind(p).is \in refused THEN NULL ELSE Wide(Simple(p), SimpleKind(p), common)
Alternative(o, common, refused) == Chosen(IF pick THEN o.then ELSE o.else, common, refused)

Expression(o) == IF o.is = "case" THEN Alternative(o, KindOf(o), {}) ELSE Simple(o)

\* The alternatives of a kind the other side cannot be answer NULL.  Against
\* NULL they are measured by the first typed one.
Toward(kinds, other) ==
  CASE ~Wildcard(other) \/ \A i \in 1..2 : Wildcard(kinds[i]) -> other
    [] OTHER -> IF Wildcard(kinds[1]) THEN kinds[2] ELSE kinds[1]
Foreign(kinds, target) == {k \in {kinds[1], kinds[2]} : ~Compatible(k, target)}
Kept(kinds, foreign) == [i \in 1..2 |-> IF kinds[i] \in foreign THEN Kind("null", {}, FALSE) ELSE kinds[i]]
ForeignOf(o, other) == Foreign(Alternatives(o), Toward(Alternatives(o), KindOf(other)))
CaseKind(o, foreign) == Common(Kept(Alternatives(o), foreign))
CaseValue(o, foreign) == Alternative(o, CaseKind(o, foreign), {k.is : k \in foreign})

Operand(o, other) == IF o.is = "case" THEN CaseValue(o, ForeignOf(o, other)) ELSE Simple(o)
OperandKind(o, other) == IF o.is = "case" THEN CaseKind(o, ForeignOf(o, other)) ELSE SimpleKind(o)

-----------------------------------------------------------------------------
(* A field beside a constant reference, and a field of several types beside *)
(* a value.                                                                 *)

Constant(o) == o.is \in {"typed", "bare", "wide"}
NumberOf(c) == IF c.is = "bare" THEN NULL ELSE <<c.value.type>>

\* none: the operands are no such pair.
ReferenceForm(field, other) ==
  CASE ~Constant(other) \/ field.is \in {"one", "string", "number"} -> "none"
    [] field.is \in {"pair", "many"} -> IF other.is = "bare" THEN "refused" ELSE "reference"
    [] OTHER -> IF other.is = "wide" THEN "refused" ELSE "reference"

ReferenceEquality(field, c) ==
  IF field.is \in {"pair", "many"}
  THEN All({Eq(Stored(field, "_RTRef"), NumberOf(c)), Eq(Stored(field, "_RRRef"), <<c.value.v>>)})
  ELSE Eq(Stored(field, "value"), <<c.value.v>>)

\* The value a field of several types is compared with: its tag, the number
\* of its table and what its own member holds.
OneType(kind) ==
  kind.is \in {"string", "number"} \/ (kind.is = "reference" /\ Cardinality(kind.targets) = 1)
Describable(o) == o.is \in {"undefined", "unbound"} \/ Constant(o) \/ OneType(KindOf(o))

Described(kind, sql) ==
  [type |-> kind.is, sql |-> sql,
   number |-> IF kind.is = "reference" THEN <<CHOOSE t \in kind.targets : TRUE>> ELSE NULL]
Describe(o) ==
  CASE o.is \in {"undefined", "unbound"} -> [type |-> IF o.is = "undefined" THEN "undefined" ELSE "null",
                                              number |-> NULL, sql |-> NULL]
    [] Constant(o) -> [type |-> "reference", number |-> NumberOf(o), sql |-> <<o.value.v>>]
    [] OTHER -> Described(KindOf(o), Expression(o))

MemberOf(type) == CASE type = "string" -> "_S" [] type = "number" -> "_N" [] type = "reference" -> ""
                    [] OTHER -> "none"

\* The number of the table of a field of one: its own while it holds a
\* reference.
NumberIn(field) ==
  CASE field.is = "many" -> Stored(field, "_RTRef")
    [] Stored(field, "_TYPE") = NULL -> NULL
    [] OTHER -> IF Stored(field, "_TYPE") = Tag(field.of) THEN <<field.of>> ELSE <<"0">>

ReferenceTag == <<"tag", "reference", "of">>

MemberEquality(field, d) ==
  IF d.type = "null" THEN "unknown"
  ELSE All({Eq(Stored(field, "_TYPE"), IF d.type = "reference" THEN ReferenceTag ELSE Tag(d.type))}
           \cup (IF d.number = NULL THEN {} ELSE {Eq(NumberIn(field), d.number)})
           \cup (IF MemberOf(d.type) \notin Members(field) THEN {}
                 ELSE {Eq(Stored(field, IF d.type = "reference" THEN "_RRRef" ELSE MemberOf(d.type)), d.sql)}))

\* Whether a type constant is the type of a value; NULL is of the type NULL.
TypeOfValue(o, kind, sql) ==
  CASE sql = NULL /\ o.is # "undefined" -> <<"null", "0">>
    [] kind.runtime -> <<"reference", sql[1]>>
    [] kind.is = "reference" -> <<"reference", CHOOSE t \in kind.targets : TRUE>>
    [] OTHER -> <<kind.is, "0">>
TypeOf(o) ==
  CASE o.is \notin {"many", "one"} -> TypeOfValue(o, KindOf(o), Expression(o))
    [] Stored(o, "_TYPE") = NULL -> <<"null", "0">>
    [] OTHER -> <<Stored(o, "_TYPE")[2], NumberIn(o)[1]>>

TypeConstant(type) == IF type \in Objects THEN <<"reference", type>> ELSE <<type, "0">>

-----------------------------------------------------------------------------
(* An equality of a predicate, and of an alternative of a simple CASE.      *)

Domain(kind) == IF kind.is = "binary" THEN "reference" ELSE kind.is

\* Sides of two SQL types the server has no operator for are refused, but a
\* string beside a number, which is never equal.
KindsMeet(a, b, plain) ==
  CASE "refused" \in {a.is, b.is} -> "refused"
    [] Wildcard(a) \/ Wildcard(b) \/ Domain(a) = Domain(b) -> "generic"
    [] {a.is, b.is} = {"string", "number"} /\ plain -> "incompatible"
    [] OTHER -> "refused"
GenericForm(l, r, negated) ==
  KindsMeet(OperandKind(l, r), OperandKind(r, l), ~negated /\ "case" \notin {l.is, r.is})

EqualityForm(l, r, negated) ==
  LET field == IF IsField(l) THEN l ELSE r
      other == IF IsField(l) THEN r ELSE l
      reference == IF IsField(field) THEN ReferenceForm(field, other) ELSE "none"
  IN CASE "undefined" \in {l.is, r.is} ->
            IF \E o \in {l, r} : KindOf(o).is = "refused" /\ o.is # "one" THEN "refused" ELSE "undefined"
       [] reference # "none" -> reference
       [] field.is \in {"many", "one"} /\ KindOf(other).is = "refused" -> "refused"
       [] field.is \in {"many", "one"} /\ Describable(other) -> "composite"
       [] OTHER -> GenericForm(l, r, negated)

Equality(l, r, meets) ==
  LET field == IF IsField(l) THEN l ELSE r
      other == IF IsField(l) THEN r ELSE l
  IN CASE meets = "undefined" ->
            Truth(TypeOf(IF r.is = "undefined" THEN l ELSE r) = TypeConstant("undefined"))
       [] meets = "reference" -> ReferenceEquality(field, other)
       [] meets = "composite" -> MemberEquality(field, Describe(other))
       [] meets = "incompatible" -> IF NULL \in {Expression(l), Expression(r)} THEN "unknown" ELSE "false"
       [] OTHER -> Eq(Operand(l, r), Operand(r, l))

-----------------------------------------------------------------------------
(* The equality two sources of a join meet by.                              *)

JoinShape(o) == CASE o.is \in {"pair", "many", "one"} -> IF o.is = "one" THEN "unsupported" ELSE "compound"
                  [] o.is = "payload" -> "payload" [] o.is = "fixed" -> "fixed" [] OTHER -> "scalar"

AnchorForm(l, r) ==
  LET shapes == {JoinShape(l), JoinShape(r)}
  IN CASE "unsupported" \in shapes \/ ("scalar" \in shapes /\ Cardinality(shapes) > 1) -> "refused"
       [] shapes = {"scalar"} /\ l.is # r.is -> "refused"
       [] OTHER -> "anchor"

TypeAndValue(compound, number, id) ==
  All({Eq(Stored(compound, "_RRRef"), id), Eq(Stored(compound, "_RTRef"), number)})

Anchor(l, r) ==
  LET shapes == {JoinShape(l), JoinShape(r)}
      compound == IF JoinShape(l) = "compound" THEN l ELSE r
      other == IF JoinShape(l) = "compound" THEN r ELSE l
  IN CASE shapes = {"compound", "fixed"} -> TypeAndValue(compound, <<other.of>>, Stored(other, "value"))
       [] shapes = {"compound"} -> TypeAndValue(l, Stored(r, "_RTRef"), Stored(r, "_RRRef"))
       [] shapes = {"fixed"} -> Eq(Stored(l, "value"), Stored(r, "value"))
       [] OTHER -> Eq(Widen(Simple(l), KindOf(l)), Widen(Simple(r), KindOf(r)))

-----------------------------------------------------------------------------
(* The columns of a subquery.                                               *)

\* A field of several types projects its members.
Zero(m, reference) ==
  CASE m = "_S" -> <<"string", 0>> [] m = "_N" -> <<"number", 0>> [] OTHER -> reference
SpreadOf(value, is, members, reference) ==
  [m \in members |->
     CASE value = NULL -> NULL
       [] m = "_TYPE" /\ value # NULL -> IF is = "reference" THEN ReferenceTag ELSE Tag(is)
       [] m # "_TYPE" /\ value # NULL -> IF m = MemberOf(is) THEN value ELSE Zero(m, reference)]
Widened(o) == Widen(Expression(o), KindOf(o))
Spread(o, members) == SpreadOf(Widened(o), KindOf(o).is, members, ZeroPayload)

Own(o, members) ==
  [m \in members |-> IF m = "" THEN IF o.is = "many" THEN PairPayload(o) ELSE Stored(o, "_RRRef")
                     ELSE Stored(o, m)]

\* The item of a tuple beside the columns of a field of several types: its
\* reference member is the bare identifier.
TupleSpread(o, members) == SpreadOf(Expression(o), KindOf(o).is, members, <<0>>)

QueryForm(place, l, r) ==
  LET several == Members(r) # {}
  IN CASE ~several -> IF KindOf(l).is = "refused" \/ ~Compatible(KindOf(l), KindOf(r)) THEN "refused" ELSE "column"
       [] place = "query" /\ r.is = "one" -> "refused"
       [] l.is \in {"many", "one"} ->
            IF Members(r) \subseteq Members(l) THEN "members" ELSE "refused"
       [] KindOf(l).is = "refused" \/ l.is = "unbound" -> "refused"
       [] place = "tuple" /\ KindOf(l).runtime -> "refused"
       [] OTHER -> "spread"

\* The one column of the subquery, either side widened to the other.
Column(l, r) ==
  IF KindOf(l).runtime \/ KindOf(r).runtime THEN Eq(Widened(l), Widened(r))
  ELSE Eq(Expression(l), Expression(r))

SideBySide(place, l, r, meets) ==
  LET left(members) == CASE meets = "members" -> Own(l, members)
                         [] place = "tuple" -> TupleSpread(l, members)
                         [] OTHER -> Spread(l, members)
      equal(a, b) == All({Eq(a[m], b[m]) : m \in DOMAIN a})
  IN equal(left(Members(r)), Own(r, Members(r)))

-----------------------------------------------------------------------------
(* A list, the section of an owner, and the two questions about a type.     *)

\* The list is taken whole in one of the three ways.
ListForm(l, items, negated) ==
  CASE IsField(l) /\ l.is \in {"pair", "many"} /\ \A i \in DOMAIN items : Constant(items[i]) ->
         IF \E i \in DOMAIN items : items[i].is = "bare" THEN "refused" ELSE "reference"
    [] l.is \in {"many", "one"} /\ \A i \in DOMAIN items : items[i].is = "one" \/ Describable(items[i]) ->
         IF \E i \in DOMAIN items : KindOf(items[i]).is = "refused" THEN "refused" ELSE "composite"
    [] \E i \in DOMAIN items : GenericForm(l, items[i], TRUE) = "refused" -> "refused"
    [] OTHER -> "generic"

\* One row of the section answers for its owner.
Section(l, r) ==
  IF content[r.side] = Null THEN "false"
  ELSE Truth(Eq(IF r.is = "pair" THEN Widened(l) ELSE Expression(l), Simple(r)) = "true")

RefsForm(o, type) ==
  CASE o.is \in {"string", "number"} \/ ~IsField(o) -> "refused"
    [] o.is \in {"fixed", "one"} /\ o.of # type -> "refused"
    [] OTHER -> "refs"

Refs(o, type) ==
  CASE o.is \in {"fixed", "one"} -> "true"
    [] OTHER -> Eq(IF o.is = "payload" THEN IF Stored(o, "value") = NULL THEN NULL ELSE <<Stored(o, "value")[1]>>
                   ELSE Stored(o, "_RTRef"), <<type>>)

-----------------------------------------------------------------------------
(* One comparison is compiled, and the server answers it for one row.       *)

FormOf(c) ==
  CASE c.place \in {"where", "case"} -> EqualityForm(c.left, c.items[1], c.negated)
    [] c.place = "list" -> ListForm(c.left, c.items, c.negated)
    [] c.place = "join" -> AnchorForm(c.left, c.items[1])
    [] c.place \in {"query", "tuple"} -> QueryForm(c.place, c.left, c.items[1])
    [] c.place = "section" -> IF KindOf(c.left).is = "refused" THEN "refused"
                              ELSE GenericForm(c.left, c.items[1], TRUE)
    [] c.place = "refs" -> RefsForm(c.left, c.items[1].of)
    [] c.place = "type" -> IF KindOf(c.left).is = "refused" /\ c.left.is # "one" THEN "refused" ELSE "type"

OneOf(c, meets) ==
  LET l == c.left r == c.items[1]
      listed(o) == CASE meets = "reference" -> ReferenceEquality(l, o)
                     [] meets = "composite" -> MemberEquality(l, Describe(o))
                     [] OTHER -> Eq(Expression(l), Operand(o, l))
  IN CASE c.place \in {"where", "case"} -> Equality(l, r, meets)
       [] c.place = "list" -> Any({listed(c.items[i]) : i \in DOMAIN c.items})
       [] c.place = "join" -> Anchor(l, r)
       [] c.place \in {"query", "tuple"} -> IF meets = "column" THEN Column(l, r) ELSE SideBySide(c.place, l, r, meets)
       [] c.place = "section" -> Section(l, r)
       [] c.place = "refs" -> Refs(l, r.of)
       [] c.place = "type" -> Truth(TypeOf(l) = TypeConstant(r.of))

SqlAnswer(c, meets) ==
  LET found(one) == IF c.place = "tuple" THEN Truth(one = "true") ELSE one
      said(answered) == IF c.negated THEN Not(answered) ELSE answered
  IN said(found(OneOf(c, meets)))

FieldsIn(c) == UNION {FieldsOf(o) : o \in {c.left} \cup {c.items[i] : i \in DOMAIN c.items}}

At(c, side) == {Null} \cup UNION {Storable(o) : o \in {p \in FieldsIn(c) : p.side = side}}

CompareInit ==
  /\ comparison \in Comparisons
  /\ \E l \in At(comparison, "l"), r \in At(comparison, "r"), c \in At(comparison, "c") :
       content = [l |-> l, r |-> r, c |-> c]
  /\ pick \in IF comparison.left.is = "case" THEN BOOLEAN ELSE {TRUE}
  /\ step = "Written" /\ form = "none" /\ answer = "none"

CompileComparison ==
  /\ step = "Written"
  /\ form' = FormOf(comparison)
  /\ step' = IF form' = "refused" THEN "Refused" ELSE "Compiled"
  /\ UNCHANGED <<comparison, content, pick, answer>>

RunComparison ==
  /\ step = "Compiled"
  /\ answer' = SqlAnswer(comparison, form)
  /\ step' = "Answered"
  /\ UNCHANGED <<comparison, content, pick, form>>

CompareNext == CompileComparison \/ RunComparison

-----------------------------------------------------------------------------
(* What the comparison says.                                                *)

Meaning(o) ==
  LET simple(p) == IF IsField(p) THEN content[p.side]
                   ELSE CASE p.is = "undefined" -> Undefined [] p.is = "unbound" -> Null [] OTHER -> p.value
  IN IF o.is = "case" THEN simple(IF pick THEN o.then ELSE o.else) ELSE simple(o)

\* A bare identifier names no type.
Same(l, r) ==
  LET a == Meaning(l) b == Meaning(r)
  IN CASE Null \in {a, b} -> "unknown"
       [] r.is = "bare" -> Truth(IsReference(a) /\ a.v = b.v)
       [] OTHER -> Truth(a = b)

TypeIs(o, type) == Meaning(o).type = type

Expected(c) ==
  LET l == c.left r == c.items[1]
      found == CASE c.place \in {"tuple", "section"} -> Truth(Same(l, r) = "true")
                 [] c.place = "list" -> Any({Same(l, c.items[i]) : i \in DOMAIN c.items})
                 [] c.place = "type" -> Truth(TypeIs(l, r.of))
                 [] c.place = "refs" -> IF l.is = "fixed" THEN "true"
                                        ELSE IF Meaning(l) = Null THEN "unknown" ELSE Truth(TypeIs(l, r.of))
                 [] "undefined" \in {l.is, r.is} -> Truth(Meaning(l) = Meaning(r))
                 [] OTHER -> Same(l, r)
  IN IF c.negated THEN Not(found) ELSE found

\* In every place an equality may stand it holds for the rows whose two
\* values are of one type and equal, and its negation for the rows whose
\* values differ; neither holds beside NULL.  Two negations answer otherwise,
\* as the language does: a field of several types differs from any value of
\* another type, a missing one too, and a CASE whose alternative is of another
\* kind answers NULL.
EqualityMeansSame ==
  step = "Answered" =>
    /\ answer = "true" =>
         \/ Expected(comparison) = "true"
         \/ /\ comparison.negated /\ form = "composite"
            /\ \E i \in DOMAIN comparison.items : Meaning(comparison.items[i]) = Null
    /\ Expected(comparison) = "true" =>
         answer = "true" \/ (comparison.negated /\ comparison.left.is = "case")

=============================================================================
