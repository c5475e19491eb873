-------------------------------- MODULE Sources --------------------------------
(***************************************************************************)
(* What one source of a statement reads: the state of a data separator,    *)
(* resolved from the configuration and the values of the session, and the  *)
(* relation compiled of a table and its extension, of a slice of an        *)
(* information register, or of the constants.  A statement is prepared     *)
(* without values, its SQL thrown away, and compiled with them.            *)
(*                                                                         *)
(* src/query/core/resolve.rs, codegen/separators.rs, sources.rs,           *)
(* constants.rs                                                            *)
(***************************************************************************)
EXTENDS Integers, FiniteSets, Sequences

CONSTANTS Separators,   \* the settings of the separator tried
          Sessions,     \* the values a session has: use, value, condition
          Statements,   \* the sources tried
          Bases         \* what the tables hold

VARIABLES settings,     \* of the separator, as Config declares it
          session,      \* its values
          source,       \* what is read
          base,         \* the tables
          step,         \* Text, Prepared, Refused, Compiled, Answered
          state,        \* of the separator, as the statement resolved it
          answer        \* the rows, or the row of the constants

sourceVars == <<settings, session, source, base, step, state, answer>>

EmptyArea == 0                       \* the empty value of the separator's type
Unset == -1                          \* no area: of a session, of a statement
Everywhere == -2                     \* every area
Is(s) == [is |-> s, area |-> EmptyArea]
Value(area) == [is |-> "Value", area |-> area]

-----------------------------------------------------------------------------
(* The separator.                                                           *)

\* A mutant: the value is asked for before the use flag is.
ResolveValueFirst(bound) ==
  IF ~bound THEN Is("Disabled")
  ELSE IF session.value # Unset THEN Value(session.value)
  ELSE IF settings.use /\ session.use = "false" THEN Is("Disabled") ELSE Is("Missing")

\* The use flag decides before the value is asked for; a false condition
\* selects the empty area, of the two types whose empty area is known.
Resolve(bound) ==
  LET empty == IF settings.type = "reference" THEN Is("Unsupported") ELSE Value(EmptyArea)
  IN IF ~bound THEN Is("Disabled")
     ELSE IF ~settings.parsed THEN Is("MissingSettings")
     ELSE IF settings.conditional /\ session.condition = "unset" THEN Is("MissingCondition")
     ELSE IF settings.conditional /\ session.condition = "false"
       THEN IF settings.type \in {"number", "string"} THEN Value(EmptyArea)
            ELSE Is("UnsupportedConditionEmpty")
     ELSE IF settings.use /\ session.use = "unset" THEN Is("Missing")
     ELSE IF settings.use /\ session.use = "false"
       THEN Is(IF settings.independent THEN "Forbidden" ELSE "Disabled")
     ELSE IF session.value # Unset THEN Value(session.value)
     ELSE IF settings.independent \/ (settings.use /\ settings.value) THEN Is("Missing")
     ELSE empty

\* Only a table that declares the column is refused or filtered.
Allows(separator, separated) == separated => separator.is \in {"Value", "Disabled"}
Passes(separator, separated, row) ==
  separated /\ separator.is = "Value" => row.area = separator.area

-----------------------------------------------------------------------------
(* The relations.                                                           *)

\* The table and, when it has one, its extension table, united; either may
\* lack the separator's column.
Tables ==
  {[rows |-> base.table, separated |-> source.separated]}
    \cup IF source.extended
           THEN {[rows |-> base.extension, separated |-> source.extensionSeparated]} ELSE {}

LiveRelation(separator) ==
  UNION {{r \in t.rows : Passes(separator, t.separated, r)} : t \in Tables}

\* The restriction of the source is one more conjunct of WHERE.
Restricted(rows) == {r \in rows : source.restricted => r.allowed}

\* The rows at the greatest (least) eligible period of each combination of
\* dimensions and separators.
Slice(separator) ==
  LET within(r) == CASE source.bound = 0 -> TRUE
                     [] source.kind = "SliceLast" -> r.period <= source.bound
                     [] source.kind = "SliceFirst" -> r.period >= source.bound
      read == Restricted({r \in base.table : /\ Passes(separator, source.separated, r)
                                             /\ within(r)
                                             /\ source.condition => r.holds})
      same(r) == {k \in read : k.dim = r.dim /\ k.area = r.area}
      rank(r) == Cardinality({k.period : k \in {k \in same(r) :
                                IF source.kind = "SliceLast" THEN k.period > r.period
                                                             ELSE k.period < r.period}}) + 1
  IN {r \in read : rank(r) = 1}

SliceAllowed == source.register /\ source.periodic /\ source.roles # "unknown"

\* One row: the greatest value of each constant read, NULL where it was
\* never written.  A constant that is not read needs no separator.
Null == -1
Constants(separator) ==
  [c \in source.used |->
     LET values == {r.value : r \in {r \in base.constants[c].rows :
                                       Passes(separator, base.constants[c].separated, r)}}
     IN IF values = {} THEN Null ELSE CHOOSE v \in values : \A w \in values : v >= w]

\* Without a value a separated constant has no single row.
ConstantsAllowed(separator, bound) ==
  \A c \in source.used :
    /\ Allows(separator, base.constants[c].separated)
    /\ ~(bound /\ separator.is = "Disabled" /\ base.constants[c].separated)

Allowed(separator, bound) ==
  CASE source.kind = "table" -> \A t \in Tables : Allows(separator, t.separated)
    [] source.kind \in {"SliceLast", "SliceFirst"} ->
         SliceAllowed /\ Allows(separator, source.separated)
    [] source.kind = "constants" -> ~source.restricted /\ ConstantsAllowed(separator, bound)

Rows(separator) ==
  CASE source.kind = "table" -> Restricted(LiveRelation(separator))
    [] source.kind = "constants" -> Constants(separator)
    [] OTHER -> Slice(separator)

-----------------------------------------------------------------------------
SourcesInit ==
  /\ settings \in Separators /\ session \in Sessions
  /\ source \in Statements /\ base \in Bases
  /\ step = "Text" /\ state = Is("none") /\ answer = {}

Prepare ==
  /\ step = "Text"
  /\ step' = IF Allowed(Resolve(FALSE), FALSE) THEN "Prepared" ELSE "Unprepared"
  /\ UNCHANGED <<settings, session, source, base, state, answer>>

Compile ==
  /\ step = "Prepared"
  /\ state' = Resolve(TRUE)
  /\ step' = IF Allowed(Resolve(TRUE), TRUE) THEN "Compiled" ELSE "Refused"
  /\ UNCHANGED <<settings, session, source, base, answer>>

Read ==
  /\ step = "Compiled"
  /\ answer' = Rows(state)
  /\ step' = "Answered"
  /\ UNCHANGED <<settings, session, source, base, state>>

SourcesNext == Prepare \/ Compile \/ Read

-----------------------------------------------------------------------------
(* What a source means.                                                     *)

\* The area a session works in, every one without separation and none when
\* nothing says which.
Area ==
  CASE settings.conditional /\ session.condition = "false" -> EmptyArea
    [] settings.use /\ session.use = "false" -> IF settings.independent THEN Unset ELSE Everywhere
    [] session.value # Unset -> session.value
    [] ~settings.independent /\ ~(settings.use /\ settings.value)
         /\ settings.type # "reference" -> EmptyArea
    [] OTHER -> Unset

Known == /\ settings.parsed
         /\ settings.conditional => session.condition # "unset"
         /\ settings.use /\ ~(settings.conditional /\ session.condition = "false") => session.use # "unset"
OwnRow(separated, row) == ~separated \/ Area = Everywhere \/ row.area = Area

Visible == Restricted(UNION {{r \in t.rows : OwnRow(t.separated, r)} : t \in Tables})

Later(a, b) == IF source.kind = "SliceLast" THEN a.period > b.period ELSE a.period < b.period
Eligible == {r \in Visible : /\ source.condition => r.holds
                             /\ source.bound # 0 => r.period = source.bound
                                  \/ Later([period |-> source.bound], r)}

\* A statement that is answered reads the rows of the area its session works
\* in and no others, and only when the session says which area that is; a
\* slice is the record no eligible record supersedes, ties included
\* (resolve_statement_separators, separator_predicates, compile_live_relation,
\* compile_source_relation, finalize_constants_relation).
AnswersOwnArea ==
  step = "Answered" =>
    CASE source.kind = "table" ->
           /\ answer = Visible
           /\ (\E t \in Tables : t.separated) => Known /\ Area # Unset
      [] source.kind = "constants" ->
           \A c \in source.used :
             LET own == {r \in base.constants[c].rows : OwnRow(base.constants[c].separated, r)}
             IN /\ base.constants[c].separated => Known /\ Area \notin {Unset, Everywhere}
                /\ Cardinality(own) <= 1 => answer[c] \in {r.value : r \in own} \cup
                                             (IF own = {} THEN {Null} ELSE {})
      [] OTHER ->
           /\ source.separated => Known /\ Area # Unset
           /\ ~source.extended =>
                answer = {r \in Eligible : ~\E k \in Eligible : /\ k.dim = r.dim /\ k.area = r.area
                                                                /\ Later(k, r)}

\* What preparation refuses no value of the session would have admitted
\* (Preparation runs unbound and must not fail on value-dependent checks,
\* src/query/core/resolve.rs).
PreparationIsSilent == step = "Unprepared" => ~Allowed(Resolve(TRUE), TRUE)

\* A session reads its own area, and is refused only where no session is.
SessionSeesItsArea == AnswersOwnArea /\ PreparationIsSilent

\* A slice takes active records only
\* (docs/query-language-support.md: "только активные записи").
SliceIsActive ==
  step = "Answered" /\ source.kind \in {"SliceLast", "SliceFirst"} => \A r \in answer : r.active
=============================================================================
