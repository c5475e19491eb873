---------------------------- MODULE Restrictions ----------------------------
(***************************************************************************)
(* What the roles of a user let the user read of one table: the text of a  *)
(* restriction is expanded, read as a form, merged with those of the other *)
(* roles and compiled into a predicate of the restricted row; the rights   *)
(* of members decide its fields.                                           *)
(*                                                                         *)
(* src/access.rs, src/query/core/codegen/sources.rs,                       *)
(* crates/open-sdbl-db/src/access.rs                                       *)
(***************************************************************************)
EXTENDS Integers, FiniteSets, Sequences, SequencesExt

CONSTANTS Roles,          \* the roles a user may be given: rights of one table
          Templates,      \* the bodies of the templates, by name
          Sessions,       \* the session parameters: name -> value
          TableRows,      \* the rows of the restricted table
          Joined,         \* the contents the joined table may have
          TemplateDepth   \* how deep template calls nest

VARIABLES session,        \* the session parameters
          joined,         \* the rows of the table a restriction joins
          roles           \* the roles of the user, in order

Ok(value) == [ok |-> TRUE, value |-> value]
Error == [ok |-> FALSE, value |-> << >>]
AndThen(result, Next(_)) == IF result.ok THEN Next(result.value) ELSE Error

-----------------------------------------------------------------------------
(* Texts are sequences of pieces: words, directives, the tests between #Если *)
(* and #Тогда, calls, parameters.                                           *)

Is(pieces, at, k) == at <= Len(pieces) /\ pieces[at].k = k
Directives == {"if", "elsif", "then", "else", "end"}

\* #Параметр(N) and the names of the signature, in the arguments of calls
\* too; a parameter the call does not supply is empty.
RECURSIVE Substitute(_, _)
Substitute(body, args) ==
  FlattenSeq([i \in DOMAIN body |->
    CASE body[i].k = "parameter" -> IF body[i].n \in DOMAIN args THEN args[body[i].n] ELSE << >>
      [] body[i].k = "call" ->
           <<[body[i] EXCEPT !.args = [a \in DOMAIN @ |-> Substitute(@[a], args)]]>>
      [] OTHER -> <<body[i]>>])

\* Every call is replaced by its body before any directive is read.
RECURSIVE ExpandTemplates(_, _)
ExpandTemplates(text, depth) ==
  LET calls == {i \in DOMAIN text : text[i].k = "call" /\ text[i].name \in DOMAIN Templates}
      bodies == [i \in calls |->
                   ExpandTemplates(Substitute(Templates[text[i].name], text[i].args), depth + 1)]
  IN IF calls = {} THEN Ok(text)
     ELSE IF depth >= TemplateDepth \/ \E i \in calls : ~bodies[i].ok THEN Error
     ELSE Ok(FlattenSeq([i \in DOMAIN text |->
                           IF i \in calls THEN bodies[i].value ELSE <<text[i]>>]))

-----------------------------------------------------------------------------
(* The expressions of directives.                                           *)

Bool(v) == [kind |-> "bool", v |-> v]
Fault == [kind |-> "error", v |-> "none"]

\* Both operands are read before the operator looks at either: a parameter
\* without a value is an error wherever it stands.
RECURSIVE Val(_)
Val(e) ==
  CASE e.op = "value" -> e.v
    [] e.op = "session" -> IF e.name \in DOMAIN session THEN session[e.name] ELSE Fault
    [] e.op = "not" ->
         LET v == Val(e.of) IN IF v.kind = "bool" THEN Bool(~v.v) ELSE Fault
    [] e.op \in {"and", "or"} ->
         LET l == Val(e.left)
             r == Val(e.right)
         IN IF {l.kind, r.kind} # {"bool"} THEN Fault
            ELSE Bool(IF e.op = "and" THEN l.v /\ r.v ELSE l.v \/ r.v)
    [] e.op = "equal" ->
         LET l == Val(e.left)
             r == Val(e.right)
             references == {"empty", "reference"}
         IN IF l.kind = "error" \/ r.kind = "error" THEN Fault
            ELSE IF l.kind = r.kind THEN Bool(l.v = r.v)
            ELSE IF {l.kind, r.kind} \subseteq references THEN Bool(FALSE)
            ELSE Fault

\* -1 for an expression that is malformed, not a boolean, or without a value.
Truth(e) == LET v == Val(e) IN IF v.kind # "bool" THEN -1 ELSE IF v.v THEN 1 ELSE 0

-----------------------------------------------------------------------------
(* The directives: one pass over the pieces, a cursor and the text kept.    *)

Stop(at, out) == [ok |-> TRUE, at |-> at, out |-> out]
Broken == [ok |-> FALSE, at |-> 0, out |-> << >>]

\* A pass that ended at the end of the text.
Whole(pieces, run) == IF run.ok /\ run.at > Len(pieces) THEN Ok(run.out) ELSE Error

RECURSIVE ProcessPieces(_, _, _, _), ProcessIf(_, _, _, _, _)
Resume(pieces, block, emit) ==
  IF block.ok THEN ProcessPieces(pieces, block.at, emit, block.out) ELSE Broken

ProcessPieces(pieces, at, emit, out) ==
  IF at > Len(pieces) THEN Stop(at, out)
  ELSE CASE pieces[at].k = "if" -> Resume(pieces, ProcessIf(pieces, at + 1, emit, FALSE, out), emit)
         [] pieces[at].k \in Directives \ {"if"} -> Stop(at, out)
         [] OTHER -> ProcessPieces(pieces, at + 1, emit,
                                   IF emit THEN Append(out, pieces[at]) ELSE out)

Close(pieces, body) ==
  IF body.ok /\ Is(pieces, body.at, "end") THEN Stop(body.at + 1, body.out) ELSE Broken

\* What follows the body of a branch.
ProcessBranch(pieces, body, emit, taken) ==
  CASE body.ok /\ Is(pieces, body.at, "elsif") -> ProcessIf(pieces, body.at + 1, emit, taken, body.out)
    [] body.ok /\ Is(pieces, body.at, "else") ->
         Close(pieces, ProcessPieces(pieces, body.at + 1, emit /\ ~taken, body.out))
    [] OTHER -> Close(pieces, body)

ProcessTest(pieces, at, truth, emit, taken, out) ==
  IF truth = -1 THEN Broken
  ELSE ProcessBranch(pieces, ProcessPieces(pieces, at + 2, truth = 1, out), emit, taken \/ truth = 1)

ProcessIf(pieces, at, emit, taken, out) ==
  IF ~(Is(pieces, at, "test") /\ Is(pieces, at + 1, "then")) THEN Broken
  ELSE ProcessTest(pieces, at, IF emit /\ ~taken THEN Truth(pieces[at].e) ELSE 0, emit, taken, out)

EvaluateDirectives(pieces) == Whole(pieces, ProcessPieces(pieces, 1, TRUE, << >>))

Expand(text) == AndThen(ExpandTemplates(text, 0), EvaluateDirectives)

-----------------------------------------------------------------------------
(* The tree a tool is shown of the same text (parse_template).              *)

RECURSIVE ParseNodes(_, _, _), ParseCondition(_, _, _)
Collect(pieces, block, nodes) ==
  IF block.ok THEN ParseNodes(pieces, block.at, Append(nodes, block.out)) ELSE Broken

ParseNodes(pieces, at, nodes) ==
  IF at > Len(pieces) THEN Stop(at, nodes)
  ELSE CASE pieces[at].k = "if" -> Collect(pieces, ParseCondition(pieces, at + 1, << >>), nodes)
         [] pieces[at].k \in Directives \ {"if"} -> Stop(at, nodes)
         [] OTHER -> ParseNodes(pieces, at + 1, Append(nodes, pieces[at]))

Node(pieces, branches, last, otherwise) ==
  IF last.ok /\ Is(pieces, last.at, "end")
  THEN Stop(last.at + 1, [k |-> "condition", branches |-> branches, otherwise |-> otherwise])
  ELSE Broken
ParseElse(pieces, branches, last) == Node(pieces, branches, last, last.out)

ParseBranch(pieces, body, branches) ==
  CASE body.ok /\ Is(pieces, body.at, "elsif") -> ParseCondition(pieces, body.at + 1, branches)
    [] body.ok /\ Is(pieces, body.at, "else") ->
         ParseElse(pieces, branches, ParseNodes(pieces, body.at + 1, << >>))
    [] OTHER -> Node(pieces, branches, body, << >>)

ParseBody(pieces, at, body, branches) ==
  ParseBranch(pieces, body, Append(branches, [e |-> pieces[at].e, body |-> body.out]))

ParseCondition(pieces, at, branches) ==
  IF ~(Is(pieces, at, "test") /\ Is(pieces, at + 1, "then")) THEN Broken
  ELSE ParseBody(pieces, at, ParseNodes(pieces, at + 2, << >>), branches)

ParseTemplate(text) == Whole(text, ParseNodes(text, 1, << >>))

-----------------------------------------------------------------------------
(* The form: [table [as alias] [from table [as alias]] [joins]] [where]      *)
(* condition. A condition is the set of words that must hold together.      *)

JoinWords == {"inner", "left"}
At(words, i, w) == i <= Len(words) /\ words[i] = w

Form(words) ==
  LET full == At(words, 1, "table")
      named == full /\ At(words, 2, "as")
      source == IF named THEN 4 ELSE 2
      from == full /\ At(words, source, "from")
      renamed == from /\ At(words, source + 2, "as")
      next == IF ~full THEN 1 ELSE IF renamed THEN source + 4 ELSE IF from THEN source + 2 ELSE source
      joins == full /\ next <= Len(words) /\ words[next] \in JoinWords
      wheres == {i \in next..Len(words) : words[i] = "where"}
      start == IF joins THEN (IF wheres = {} THEN Len(words) ELSE Min(wheres)) + 1
               ELSE IF At(words, next, "where") THEN next + 1 ELSE next
  IN IF \/ words = << >> \/ words[1] = "message"
        \/ named /\ Len(words) < 3
        \/ renamed /\ Len(words) < source + 3
        \/ from /\ ~At(words, source + 1, "table")        \* another table
        \/ full /\ ~joins /\ next <= Len(words) /\ words[next] # "where"
        \/ start > Len(words)
       THEN Error
     ELSE LET alias == IF renamed THEN words[source + 3] ELSE IF named THEN words[3] ELSE "none"
          IN Ok([alias |-> alias, reads |-> {alias} \ {"none"},
                 join |-> IF joins THEN words[next] ELSE "none",
                 any |-> {ToSet(SubSeq(words, start, Len(words)))}])

RestrictionOf(text) ==
  AndThen(Expand(text), LAMBDA pieces : Form([i \in DOMAIN pieces |-> pieces[i].w]))

-----------------------------------------------------------------------------
(* Roles.                                                                   *)

\* A resource records only what differs from the role's default.
Grants(role) == IF role.read = "unlisted" THEN role.default ELSE role.read = "granted"

\* Several restrictions of one right hold together.
Together(forms) ==
  LET value(i) == forms[i].value
      joining == {i \in DOMAIN forms : value(i).join # "none"}
      named == {i \in DOMAIN forms : value(i).alias # "none"}
  IN IF \E i \in DOMAIN forms : ~forms[i].ok THEN Error
     ELSE IF Cardinality(joining) > 1 THEN Error
     ELSE Ok([alias |-> IF named = {} THEN "none" ELSE value(Min(named)).alias,
              reads |-> UNION {value(i).reads : i \in DOMAIN forms},
              join |-> IF joining = {} THEN "none" ELSE value(Min(joining)).join,
              any |-> {UNION {UNION value(i).any : i \in DOMAIN forms}}])
RoleRestriction(role) ==
  Together([i \in DOMAIN role.restrictions |-> RestrictionOf(role.restrictions[i])])

\* The roles one by one: an unrestricted one ends the search, a restriction
\* that cannot be expanded fails it.
RECURSIVE ReadAccess(_, _)
Restricts(own, left, restricted) ==
  AndThen(own, LAMBDA restriction :
    AndThen(ReadAccess(left, Append(restricted, restriction)),
            LAMBDA rest : Ok([rest EXCEPT !.granted = TRUE])))
ReadAccess(left, restricted) ==
  CASE left = << >> -> Ok([granted |-> FALSE, all |-> FALSE, of |-> restricted])
    [] left # << >> /\ ~Grants(Head(left)) -> ReadAccess(Tail(left), restricted)
    [] left # << >> /\ Grants(Head(left)) ->
         IF Head(left).restrictions = << >> THEN Ok([granted |-> TRUE, all |-> TRUE, of |-> << >>])
         ELSE Restricts(RoleRestriction(Head(left)), Tail(left), restricted)

\* A mutant: the restrictions of several roles hold together.
ConditionOfAll(restrictions) ==
  Ok([alias |-> "none", reads |-> {}, join |-> "none",
      any |-> {UNION {UNION restrictions[i].any : i \in DOMAIN restrictions}}])

\* The restrictions of several roles, joined by ИЛИ under one alias.
Condition(restrictions) ==
  LET joins == {i \in DOMAIN restrictions : restrictions[i].join # "none"}
      aliases == {restrictions[i].alias : i \in DOMAIN restrictions} \ {"none"}
  IN IF Cardinality(joins) > 1 \/ Cardinality(aliases) > 1 THEN Error
     ELSE Ok([alias |-> IF aliases = {} THEN "none" ELSE CHOOSE a \in aliases : TRUE,
              reads |-> UNION {restrictions[i].reads : i \in DOMAIN restrictions},
              join |-> IF joins = {} THEN "none" ELSE restrictions[Min(joins)].join,
              any |-> UNION {restrictions[i].any : i \in DOMAIN restrictions}])

-----------------------------------------------------------------------------
(* The predicate of the restricted row.                                     *)

NoRow == [key |-> 0, ok |-> FALSE, own |-> FALSE]

Satisfies(word, row, other) ==
  CASE word = "mine" -> row.mine
    [] word = "joined" -> other # NoRow /\ other.ok
    [] word = "missing" -> other = NoRow
    [] word = "true" -> TRUE
    [] word = "false" -> FALSE

\* The joined rows of the restricted row must carry one the condition holds
\* for. The separator of the joined table is a conjunct of WHERE.
Admits(condition, row) ==
  LET matched == {j \in joined : j.key = row.key}
      others == CASE condition.join = "none" -> {NoRow}
                  [] condition.join = "inner" -> matched
                  [] condition.join = "left" -> IF matched = {} THEN {NoRow} ELSE matched
  IN \E other \in others :
       /\ condition.join # "none" => other.own
       /\ \E all \in condition.any : \A word \in all : Satisfies(word, row, other)

\* A word read through an alias the merged form does not have is refused.
Compiles(condition) == condition.reads \subseteq {condition.alias}

Admitted(condition) ==
  IF Compiles(condition) THEN Ok({row \in TableRows : Admits(condition, row)}) ELSE Error
Accessible(access) ==
  CASE ~access.granted -> Ok({})
    [] access.granted /\ access.all -> Ok(TableRows)
    [] OTHER -> AndThen(Condition(access.of), Admitted)
RowsOf(given) == AndThen(ReadAccess(given, << >>), Accessible)

-----------------------------------------------------------------------------
(* The fields a user may read.                                              *)

\* A field the platform was seen to let a program read through the object's
\* own right, another metadata field, a standard field not so verified.
Fields == {"verified", "metadata", "standard"}

FieldVerdict(role, field) ==
  CASE ~Grants(role) -> "refused"
    [] field = "standard" -> "uncertain"
    [] role.member = "nested" -> "uncertain"
    [] role.member = "allowed" -> "allowed"
    [] role.member = "refused" -> "refused"
    [] field = "verified" -> "allowed"
    [] role.member = "listed" -> "uncertain"      \* an entry without Read
    [] OTHER -> "refused"

\* Nothing is known while the rights of one role are unread.
FieldsOf(given) ==
  IF \E i \in DOMAIN given : ~given[i].known THEN {}
  ELSE {f \in Fields : \E i \in DOMAIN given : FieldVerdict(given[i], f) = "allowed"}

-----------------------------------------------------------------------------
AccessInit ==
  /\ session \in Sessions /\ joined \in Joined
  /\ roles = << >>

Grant ==
  /\ Len(roles) < 2
  /\ \E role \in Roles : roles' = Append(roles, role)
  /\ UNCHANGED <<session, joined>>

AccessNext == Grant

-----------------------------------------------------------------------------
(* The tree, read: the branch that holds, and of its calls the bodies.      *)

RECURSIVE Meaning(_, _)
Taken(node, held) ==
  IF held = {} THEN Ok(node.otherwise)
  ELSE IF Truth(node.branches[Min(held)].e) = -1 THEN Error
  ELSE Ok(node.branches[Min(held)].body)
MeaningOf(node, depth) ==
  CASE node.k = "condition" ->
         AndThen(Taken(node, {b \in DOMAIN node.branches : Truth(node.branches[b].e) # 0}),
                 LAMBDA nodes : Meaning(nodes, depth))
    [] node.k = "call" /\ node.name \in DOMAIN Templates ->
         IF depth >= TemplateDepth THEN Error
         ELSE AndThen(ParseTemplate(Substitute(Templates[node.name], node.args)),
                      LAMBDA nodes : Meaning(nodes, depth + 1))
    [] OTHER -> Ok(<<node>>)
AllOk(results) ==
  IF \E i \in DOMAIN results : ~results[i].ok THEN Error
  ELSE Ok(FlattenSeq([i \in DOMAIN results |-> results[i].value]))
Meaning(nodes, depth) == AllOk([i \in DOMAIN nodes |-> MeaningOf(nodes[i], depth)])

TextsOf(role) == ToSet(role.restrictions)

\* The tree a tool shows of a restriction and the text the compiler is given
\* are readings of the same language: whenever the expansion succeeds, the
\* branches and calls of the tree mean the text it answers (parse_template
\* against expand_restriction, two walks over the same pieces).
TreeMeansExpansion ==
  \A i \in DOMAIN roles : \A text \in TextsOf(roles[i]) :
    LET meaning == AndThen(ParseTemplate(text), LAMBDA nodes : Meaning(nodes, 0))
    IN IF Expand(text).ok THEN ParseTemplate(text).ok => meaning = Expand(text)
       ELSE meaning.ok => ~ExpandTemplates(text, 0).ok

\* What one restriction lets through, on its own, an unmatched row included.
Lets(form, row) ==
  LET matched == {j \in joined : j.key = row.key /\ j.own}
      others == CASE form.join = "none" -> {NoRow}
                  [] form.join = "inner" -> matched
                  [] form.join = "left" -> IF matched = {} THEN {NoRow} ELSE matched
  IN \E other \in others : \E all \in form.any : \A word \in all : Satisfies(word, row, other)

Lets_(role, row) ==
  /\ Grants(role)
  /\ \A text \in TextsOf(role) : LET own == RestrictionOf(text) IN own.ok /\ Lets(own.value, row)

AnyRole == {row \in TableRows : \E i \in DOMAIN roles : Lets_(roles[i], row)}

\* An inner join kept for the conditions of every role, and the separator of
\* an outer-joined table kept in WHERE, drop rows a role allows.
JoinKeptForAll ==
  \E i \in DOMAIN roles : \E text \in TextsOf(roles[i]) :
    LET own == RestrictionOf(text)
    IN own.ok /\ Grants(roles[i]) /\ own.value.join # "none"

\* The rows any of the granting roles allows are the rows read, no row more
\* and no row less, in whatever order the roles come (read_access,
\* Access::condition, restriction_exists).
RolesAddUp ==
  LET rows == RowsOf(roles)
  IN rows.ok => /\ rows.value \subseteq AnyRole
                /\ ~JoinKeptForAll => rows.value = AnyRole

\* The same of every restriction (Access::Restricted: "the rows any of them
\* allows are accessible", src/access.rs).
AnyRoleAllows == LET rows == RowsOf(roles) IN rows.ok => rows.value = AnyRole

\* A role given to a user never takes away a row or a field.
RolesOnlyAdd ==
  \A n \in DOMAIN roles :
    LET fewer == RowsOf(SubSeq(roles, 1, n))
        rows == RowsOf(roles)
    IN /\ fewer.ok /\ rows.ok /\ ~JoinKeptForAll => fewer.value \subseteq rows.value
       /\ (\A i \in DOMAIN roles : roles[i].known) =>
            FieldsOf(SubSeq(roles, 1, n)) \subseteq FieldsOf(roles)

\* What several roles let a user read is the sum of what each lets him read,
\* and the tree of a restriction shown to him is the text compiled.
AccessAddsUp == TreeMeansExpansion /\ RolesAddUp /\ RolesOnlyAdd
=============================================================================
