----------------------------- MODULE NamedTables -----------------------------
(***************************************************************************)
(* What a package of query statements promises its author: temporary       *)
(* tables are names for rows.  ПОМЕСТИТЬ gives a new name its rows,        *)
(* ДОБАВИТЬ adds rows to a name, УНИЧТОЖИТЬ forgets it, and a package       *)
(* changes them all or, refused, none.                                     *)
(*                                                                         *)
(* A table placed by compile_batch is a view: its rows are live until they *)
(* are read.  compile_materialized_batch captures rows when they are       *)
(* placed, one statement after another, while the base changes.            *)
(***************************************************************************)
EXTENDS Naturals, Sequences, SequencesExt

CONSTANTS
  Names,        \* spellings of table names
  Fold,         \* Fold[n]: the name a spelling stands for
  Statements,   \* [kind, name, from]: what a package is made of
  MaxStatements \* the longest package

VARIABLES
  tables,       \* the rows of each table: a function of the folded names
  open,         \* a package being captured: <<[tables, rest, rows]>>, or <<>>
  source,       \* the version of the base table
  answer        \* what the last package answered: [ok, rows]

(* The table of the base, and its row when it is read only on execution.    *)
Base == "Base"
Live == 0

Packages == UNION {[1..n -> Statements] : n \in 1..MaxStatements}

Refused        == [ok |-> FALSE, rows |-> <<>>]
Answered(rows) == [ok |-> TRUE, rows |-> rows]

With(t, key, rows) == [k \in DOMAIN t \cup {key} |-> IF k = key THEN rows ELSE t[k]]

Without(t, key) == [k \in DOMAIN t \ {key} |-> t[k]]

Known(t, st) == \A i \in DOMAIN st.from : st.from[i] = Base \/ Fold[st.from[i]] \in DOMAIN t

(* The rows a statement selects, when the base shows this row.              *)
Selected(t, st, row) ==
  FlattenSeq([i \in DOMAIN st.from |->
                IF st.from[i] = Base THEN <<row>> ELSE t[Fold[st.from[i]]]])

WellFormed(t, st) ==
  /\ Known(t, st)
  /\ st.kind \in {"append", "drop"} => Fold[st.name] \in DOMAIN t
  /\ st.kind = "place" => Fold[st.name] \notin DOMAIN t

After(t, st, row) ==
  CASE st.kind = "select" -> t
    [] st.kind = "drop"   -> Without(t, Fold[st.name])
    [] st.kind = "place"  -> With(t, Fold[st.name], Selected(t, st, row))
    [] st.kind = "append" ->
         [t EXCEPT ![Fold[st.name]] = @ \o Selected(t, st, row)]

(* The tables after each statement of a package of views.                   *)
Views(t, package) ==
  LET after[i \in 0..Len(package)] ==
        IF i = 0 THEN t ELSE After(after[i - 1], package[i], Live)
  IN after

Init ==
  /\ tables = <<>> /\ open = <<>> /\ source = 1 /\ answer = Answered(<<>>)

(* A refused package leaves every table as it was.                          *)
Refuse ==
  /\ answer' = Refused /\ open' = <<>> /\ UNCHANGED <<tables, source>>

(* A package of views changes its tables in one step.                        *)
Package ==
  LET before == tables
      after  == tables'
      given  == answer' IN
  /\ open = <<>> /\ UNCHANGED <<open, source>> /\ given.ok
  /\ \E package \in Packages :
       LET views == Views(before, package)
           n     == Len(package) IN
       /\ \A i \in 1..n : WellFormed(views[i - 1], package[i])
       /\ after = views[n]
       /\ given = Answered(Selected(views[n - 1], package[n], Live))

Begin ==
  /\ open = <<>> /\ open' # <<>>
  /\ LET begun == open'[1] IN
     begun.rest \in Packages /\ begun.tables = tables /\ begun.rows = <<>>
  /\ UNCHANGED <<tables, source, answer>>

(* One statement of a captured package: what it places is read now, what it *)
(* only selects is read when the caller executes it.                        *)
Capture ==
  /\ open # <<>> /\ open[1].rest # <<>>
  /\ LET t == open[1].tables
         st == Head(open[1].rest)
         row == IF st.kind = "select" THEN Live ELSE source
         last == Tail(open[1].rest) = <<>> IN
     /\ WellFormed(t, st)
     /\ st.kind # "select" => ~Contains(Selected(t, st, row), Live)
     /\ open' = <<[tables |-> After(t, st, row), rest |-> Tail(open[1].rest),
                   rows |-> IF last THEN Selected(t, st, row) ELSE <<>>]>>
  /\ UNCHANGED <<tables, source, answer>>

Commit ==
  /\ open # <<>> /\ open[1].rest = <<>>
  /\ tables' = open[1].tables /\ answer' = Answered(open[1].rows) /\ open' = <<>>
  /\ UNCHANGED source

Change == source' > source /\ UNCHANGED <<tables, open, answer>>

Forget == open = <<>> /\ tables' = <<>> /\ UNCHANGED <<open, source, answer>>

Next ==
  \/ Refuse \/ Package \/ Begin \/ Capture \/ Commit \/ Change \/ Forget

vars == <<tables, open, source, answer>>

Spec == Init /\ [][Next]_vars
=============================================================================
