------------------------------ MODULE RowChecks ------------------------------
(***************************************************************************)
(* Ordinary row checks.  A query without РАЗРЕШЕННЫЕ must answer all its   *)
(* rows or fail: the statement over current balances is compiled twice,    *)
(* once under the decision and once under its opposite, and both run as    *)
(* one statement, so that the rows and the evidence that some are          *)
(* forbidden are of one moment.                                            *)
(*                                                                         *)
(* src/query/core/codegen/ordinary.rs, entry.rs, select.rs                 *)
(***************************************************************************)
EXTENDS Integers, Sequences, Functions, FiniteSetsExt

CONSTANTS Statements,   \* statements tried
          Given,        \* answers of the application tried: sequences
          Movements     \* contents of the register tried: sequences of rows

\* A dimension of a register may be NULL in no row but an extension's.
Dimensions == {"stock", "goods"}
Null == "null"

(* What an answer may say; two about the register are refused before the    *)
(* statement is compiled (check_decision_uniqueness).                       *)
RowsAreTyped ==
  /\ \A rows \in Movements : rows \in Seq([stock : STRING, goods : STRING, amount : Int])
  /\ \A g \in Given :
       /\ g \in Seq([verdict : {"allowed", "denied", "equal", "joined"}, own : BOOLEAN,
                     field : Dimensions, value : STRING])
       /\ \A i, k \in DOMAIN g : g[i].own /\ g[k].own => i = k

VARIABLES asked,        \* the statement compiled, and the answers it has
          register,     \* the register when it runs
          row_answer    \* what came back

Nowhere == [statement |-> << >>, given |-> << >>]
Plain == [checked |-> FALSE, ok |-> TRUE, rows |-> {}, marker |-> FALSE]
Unsupported == [Plain EXCEPT !.ok = FALSE]

-----------------------------------------------------------------------------
(* The opposite of an answer: everything it keeps from the statement.       *)

\* НЕ ЕСТЬNULL((f = v), ЛОЖЬ): a comparison with NULL keeps no row, so the
\* opposite keeps it.
Keeps(answer, row) ==
  CASE answer.verdict = "allowed" -> TRUE
    [] answer.verdict = "denied" -> FALSE
    [] answer.verdict \in {"equal", "joined"} -> row[answer.field] # Null /\ row[answer.field] = answer.value
    [] answer.verdict = "opposite" -> ~(row[answer.field] # Null /\ row[answer.field] = answer.value)

Invert(answer) ==
  [answer EXCEPT !.verdict = CASE @ = "allowed" -> "denied"
                               [] @ = "denied" -> "allowed"
                               [] @ = "equal" -> "opposite"]

\* One equality of a dimension with a value, without an alias or a join.
Invertible(answer) == answer.own /\ answer.verdict # "joined"

\* The form of the statement whose check is measured: one SELECT over the
\* current balances of a register, direct fields, at most one equality.
Measured(statement) ==
  /\ statement.kind = "balance" /\ ~statement.period
  /\ ~statement.joins /\ ~statement.filter /\ ~statement.totals

-----------------------------------------------------------------------------
(* Balances: movements folded by dimensions, an empty balance left out.     *)

Key(i) == [d \in Dimensions |-> register[i][d]]

Fold(places) ==
  LET amount == [i \in DOMAIN register |-> register[i].amount]
      sum(k) == SumFunctionOnSet(amount, {i \in places : Key(i) = k})
  IN {[key |-> k, amount |-> sum(k)] : k \in {x \in {Key(i) : i \in places} : sum(x) # 0}}

\* Dimensions the statement does not name are summed away; with none left
\* there is one row, of nothing when there was no balance.
Narrow(balances, by) ==
  LET key(b) == [d \in by |-> b.key[d]]
      of(k) == {b \in balances : key(b) = k}
      none == [d \in by |-> Null]
  IN IF by = Dimensions THEN balances
     ELSE {[key |-> k, amount |-> IF of(k) = {} THEN 0
                                  ELSE FoldSet(LAMBDA b, n : n + b.amount, 0, of(k))] :
             k \in {key(b) : b \in balances} \cup IF by = {} THEN {none} ELSE {}}

\* The rows of the register a part of the statement reads.
Selected(statement, answer) ==
  {i \in DOMAIN register :
     /\ statement.where # "none" => register[i].goods = statement.where
     /\ Keeps(answer, register[i])}

\* The relation keeps the dimensions the statement names; the probe, all.
Data(statement, answer) == Narrow(Fold(Selected(statement, answer)), statement.fields)
\* A mutant: the probe is narrowed as the data is.
ProbeNarrowed(statement, answer) ==
  {b \in Narrow(Fold(Selected(statement, Invert(answer))), statement.fields) : b.amount # 0}
Probe(statement, answer) == Fold(Selected(statement, Invert(answer)))

\* The rows, unless a forbidden one exists; then the marker alone.
Checked(statement, answer) ==
  LET forbidden == Probe(statement, answer) # {}
  IN [checked |-> TRUE, ok |-> TRUE, marker |-> forbidden,
      rows |-> IF forbidden THEN {} ELSE Data(statement, answer)]

\* compile_checked: nothing to check for allowed statements and for answers
\* that forbid nothing.
Compile(statement, given) ==
  LET about == {i \in DOMAIN given : given[i].own}
      restricted == \E i \in DOMAIN given : given[i].verdict # "allowed"
      answer == IF about = {} THEN [verdict |-> "allowed", own |-> TRUE] ELSE given[Min(about)]
  IN CASE statement.allowed -> [Plain EXCEPT !.rows = Data(statement, answer)]
       [] ~statement.allowed /\ statement.mode # "Restricted" -> Unsupported
       [] ~statement.allowed /\ statement.mode = "Restricted" /\ ~restricted ->
            [Plain EXCEPT !.rows = Data(statement, answer)]
       [] ~statement.allowed /\ statement.mode = "Restricted" /\ restricted ->
            IF Measured(statement) /\ (\A i \in DOMAIN given : Invertible(given[i])) /\ about # {}
              THEN Checked(statement, answer) ELSE Unsupported

-----------------------------------------------------------------------------
RowsInit == asked = Nowhere /\ register = << >> /\ row_answer = Plain

Ask ==
  /\ asked = Nowhere
  /\ \E s \in Statements, g \in Given : asked' = [statement |-> s, given |-> g]
  /\ \E r \in Movements : register' = r
  /\ UNCHANGED row_answer

Run ==
  /\ asked # Nowhere /\ row_answer = Plain
  /\ row_answer' = [Compile(asked.statement, asked.given) EXCEPT !.checked = TRUE]
  /\ UNCHANGED <<asked, register>>

RowsNext == Ask \/ Run

RowsSpec == RowsInit /\ [][RowsNext]_<<asked, register, row_answer>>

-----------------------------------------------------------------------------
Free == [verdict |-> "allowed", own |-> TRUE]

\* What the user may not see among the balances the statement is about, at
\* the grain the register keeps them.
Hidden(statement, given) ==
  {b \in Fold(Selected(statement, Free)) :
     \E i \in DOMAIN given : given[i].own /\ ~Keeps(given[i], b.key)}

\* A statement that does not say РАЗРЕШЕННЫЕ answers exactly what it would
\* answer to a user without restrictions, or nothing but the mark of a
\* forbidden row, and the mark exactly when such a balance exists: two
\* forbidden balances that add up to nothing are still forbidden
\* (compile_checked, forbidden_balance_probe).
AllRowsOrNone ==
  row_answer.checked /\ row_answer.ok /\ ~asked.statement.allowed =>
    LET hidden == Hidden(asked.statement, asked.given)
    IN /\ row_answer.marker <=> hidden # {}
       /\ row_answer.rows = IF hidden # {} THEN {} ELSE Data(asked.statement, Free)
=============================================================================
