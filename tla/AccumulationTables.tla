-------------------------- MODULE AccumulationTables --------------------------
(* The virtual tables of an accumulation register of balances, as the SQL   *)
(* that virtual_tables.rs, windowed.rs and balance_temporal.rs generate     *)
(* computes them: Остатки (Balance) from stored totals and a correction,    *)
(* Обороты (Turnovers) and ОстаткиИОбороты (BalanceAndTurnovers) from the   *)
(* movements, and the last step that sums away what the statement does not  *)
(* read.                                                                    *)
(*                                                                          *)
(* The state is the register in the database, which the 1C platform changes *)
(* and this program only reads; the tables are operators on it.  A relation *)
(* is a set of rows [key, sum]: the columns it is grouped by and the sums   *)
(* of its resources.  A key tells the rows of a relation apart.  The server *)
(* has window frames (SqlDialect::running_sums).                            *)
EXTENDS Integers, Sequences, FiniteSets, FiniteSetsExt, Functions

CONSTANTS
  Dimensions,    \* the dimensions of the register, data separators included
  LastMoment,    \* moments are 0 .. LastMoment
  Units,         \* calendar units, finest first
  BeginOf,       \* unit -> moment -> the moment its calendar period begins at
  Candidates,    \* the movements the platform may record (a bound)
  MaxMovements,  \* of them in the register at once (a bound)
  Anchors,       \* the moments totals may be stored at, besides Far
  Cuts,          \* the boundaries Остатки is asked for
  Requests,      \* the readings of Обороты and ОстаткиИОбороты
  Null

Far == LastMoment + 1          \* the platform's moment of the current totals
UnitNames == {Units[i] : i \in DOMAIN Units}
WholeMoment == <<0, 0>>        \* no recorder, before all of them

ASSUME MomentsAssumption == LastMoment \in Nat
ASSUME CalendarAssumption ==
  \A u \in UnitNames, t \in 0 .. LastMoment :
     BeginOf[u][t] \in 0 .. t /\ BeginOf[u][BeginOf[u][t]] = BeginOf[u][t]

\* Income is RecordKind 0. A recorder is its type number and identifier.
Movement ==
  [period : 0 .. LastMoment, recorder : Nat \X Nat, line : Nat,
   dims : [Dimensions -> STRING], income : BOOLEAN, amount : Int,
   active : BOOLEAN]

ASSUME CandidatesAssumption == Candidates \subseteq Movement
ASSUME AnchorsAssumption == Anchors \subseteq 0 .. LastMoment
\* A cut is a moment, the recorder it stands at (WholeMoment: none)
\* and whether that position belongs to it.
CutPoint ==
  [date : 0 .. LastMoment, recorder : Nat \X Nat, including : BOOLEAN]
ASSUME CutsAssumption == Cuts \subseteq CutPoint
\* The calendar's levels, the finest first.
ASSUME UnitsAssumption ==
  /\ Units \in Seq(STRING)
  /\ \A i, j \in DOMAIN Units : Units[i] = Units[j] => i = j
\* Dimensions, split fields and periodicities have names of their own.
ASSUME NamesAssumption ==
  /\ Dimensions \cap {"Period", "Recorder", "LineNo", "inside", "balance"} = {}
  /\ Dimensions \cap UnitNames = {}
  /\ UnitNames \cap {"Whole", "Recorder", "Record", "Auto", "Period", "LineNo",
                     "inside", "balance"} = {}
ASSUME NullAssumption == Null \notin Int /\ Null \notin Movement /\ Null \notin CutPoint

VARIABLES movements, anchors
vars == <<movements, anchors>>

Init == movements = {} /\ anchors = {Far}

-----------------------------------------------------------------------------
(* What the platform does to the register. *)

\* A document records a movement; its key is the recorder and the line.
Record(m) ==
  /\ Cardinality(movements) < MaxMovements
  /\ \A n \in movements : <<n.recorder, n.line>> # <<m.recorder, m.line>>
  /\ movements' = movements \cup {m}
  /\ UNCHANGED anchors

\* The movements of a document are switched on or off together.
SwitchActivity(r) ==
  /\ \E m \in movements : m.recorder = r
  /\ movements' =
       {IF m.recorder = r THEN [m EXCEPT !.active = ~m.active] ELSE m :
          m \in movements}
  /\ UNCHANGED anchors

Clear(r) ==
  /\ \E m \in movements : m.recorder = r
  /\ movements' = {m \in movements : m.recorder # r}
  /\ UNCHANGED anchors

\* The totals are kept up to date with the movements; here they gain a moment.
StoreTotals(a) ==
  /\ a \notin anchors
  /\ anchors' = anchors \cup {a}
  /\ UNCHANGED movements

Next ==
  \/ \E m \in Candidates : Record(m)
  \/ \E m \in movements : SwitchActivity(m.recorder)
  \/ \E m \in movements : Clear(m.recorder)
  \/ \E a \in Anchors : StoreTotals(a)

Spec == Init /\ [][Next]_vars

-----------------------------------------------------------------------------
(* Rows and their grouping. *)

Active == {m \in movements : m.active}

\* Receipts carry record kind 0 and expenses 1.
Signed(m) == IF m.income THEN m.amount ELSE -m.amount

\* The split fields of Авто: the record period, its calendar levels, the
\* recorder and the line number.
AutoFields == {"Period", "Recorder", "LineNo"} \cup UnitNames

Field(m, f) ==
  CASE f \in Dimensions -> m.dims[f]
    [] f = "Period"     -> m.period
    [] f = "Recorder"   -> m.recorder
    [] f = "LineNo"     -> m.line
    [] f \in UnitNames  -> BeginOf[f][m.period]

\* SELECT the key and the sums of the columns GROUP BY the key; `of` tells
\* rows apart that are equal in both.
GroupBy(rows, columns) ==
  LET of(column) == [r \in rows |-> r.sum[column]] IN
  {[key |-> k,
    sum |-> [c \in columns |->
               SumFunctionOnSet(of(c), {r \in rows : r.key = k})]] :
     k \in {r.key : r \in rows}}

\* What a periodicity splits a table by.
SplitFields(periodicity) ==
  CASE periodicity = "Whole"       -> {}
    [] periodicity = "Recorder"    -> {"Period", "Recorder"}
    [] periodicity = "Record"      -> {"Period", "Recorder", "LineNo"}
    [] periodicity = "Auto"        -> AutoFields
    [] periodicity \in UnitNames   -> {periodicity}

\* Dimensions, and under Авто split fields, the statement does not read are
\* summed away; the split of a fixed periodicity always stays. Where nothing
\* stays there is no GROUP BY: one row, of nulls when nothing is summed.
Finalize(rows, periodicity, used, columns) ==
  LET auto == periodicity = "Auto"
      optional == Dimensions \cup (IF auto THEN AutoFields ELSE {})
      kept == (optional \cap used)
                \cup (IF auto THEN {} ELSE SplitFields(periodicity)) IN
  IF optional \subseteq used THEN rows
  ELSE IF kept = {} /\ rows = {}
  THEN {[key |-> [f \in {} |-> Null], sum |-> [c \in columns |-> Null]]}
  ELSE GroupBy({[key |-> Restrict(r.key, kept), sum |-> r.sum, of |-> r.key] :
                  r \in rows}, columns)

-----------------------------------------------------------------------------
(* Остатки. *)

\* The totals stored at moment a hold the movements strictly before it, one
\* row per combination; rows that came to zero are kept.
TotalsAt(a) == {m \in Active : m.period < a}
Stored == {a \in anchors : TotalsAt(a) # {}}

Totals(a) ==
  GroupBy({[key |-> m.dims, sum |-> [balance |-> Signed(m)], of |-> m] :
             m \in TotalsAt(a)}, {"balance"})

\* Bug: recorders are told apart by their identifiers only.
BeforeByIdentifier(m, cut) ==
  LET passes(x, y) == IF cut.including THEN x <= y ELSE x < y IN
  IF cut.recorder = WholeMoment THEN passes(m.period, cut.date)
  ELSE \/ m.period < cut.date
       \/ m.period = cut.date /\ passes(m.recorder[2], cut.recorder[2])

\* Cut.before: the movements on this side of the cut.
Before(m, cut) ==
  LET passes(x, y) == IF cut.including THEN x <= y ELSE x < y IN
  IF cut.recorder = WholeMoment THEN passes(m.period, cut.date)
  ELSE \/ m.period < cut.date
       \/ /\ m.period = cut.date
          /\ \/ m.recorder[1] < cut.recorder[1]
             \/ /\ m.recorder[1] = cut.recorder[1]
                /\ passes(m.recorder[2], cut.recorder[2])

\* The last totals at or before the cut, else the last there are.
Anchor(cut) ==
  LET low == {a \in Stored : a <= cut.date} IN
  IF low # {} THEN Max(low) ELSE Max(Stored)

\* Bug: a movement at the moment of the anchor is taken to be in its totals.
AddedAfterAnchor(a, cut) ==
  {m \in Active : a <= cut.date /\ m.period > a /\ Before(m, cut)}

\* The movements that correct the totals of an anchor: those between an
\* earlier anchor and the cut, or between the cut and a later anchor.
Added(a, cut) ==
  {m \in Active : a <= cut.date /\ m.period >= a /\ Before(m, cut)}

TakenBack(a, cut) ==
  {m \in Active : a > cut.date /\ ~Before(m, cut) /\ m.period < a}

\* Groups whose balance is zero are dropped, at the grain of all dimensions.
NonZero(rows) == {r \in rows : r.sum.balance # 0}

HistoricalBalance(cut) ==
  LET a == Anchor(cut)
      sign == IF a <= cut.date THEN 1 ELSE -1
      parts ==
        {[key |-> r.key, sum |-> r.sum, of |-> Null] : r \in Totals(a)}
        \cup
        {[key |-> m.dims, sum |-> [balance |-> sign * Signed(m)], of |-> m] :
           m \in Added(a, cut) \cup TakenBack(a, cut)}
  IN IF Stored = {} THEN {} ELSE NonZero(GroupBy(parts, {"balance"}))

CurrentBalance == IF Stored = {} THEN {} ELSE NonZero(Totals(Max(Stored)))

Balance(cut, used) ==
  Finalize(IF cut = Null THEN CurrentBalance ELSE HistoricalBalance(cut),
           "Whole", used, {"balance"})

-----------------------------------------------------------------------------
(* Обороты and ОстаткиИОбороты. An absent begin is the moment 0, an absent  *)
(* end is Far; a request reads the fields in used, a balance column among   *)
(* them or not.                                                             *)

Flows == {"receipt", "expense", "turnover"}
Columns == Flows \cup {"opening", "closing"}

Flow(m) ==
  [receipt |-> IF m.income THEN m.amount ELSE 0,
   expense |-> IF m.income THEN 0 ELSE m.amount,
   turnover |-> Signed(m)]

Turnovers(q) ==
  LET inside == {m \in Active : q.begin <= m.period /\ m.period < q.end}
      fields == Dimensions \cup SplitFields(q.periodicity)
  IN Finalize(GroupBy({[key |-> [f \in fields |-> Field(m, f)], sum |-> Flow(m),
                        of |-> m] : m \in inside}, Flows),
              q.periodicity, q.used, Flows)

Inside(m, q) == m.period >= q.begin

\* What a request may ask for: its interval, its periodicity, what is read.
Reading ==
  [begin : 0 .. Far, end : 0 .. Far,
   periodicity : {"Whole", "Recorder", "Record", "Auto"} \cup UnitNames,
   used : SUBSET (Dimensions \cup AutoFields \cup {"balance"})]
ASSUME RequestsAssumption == Requests \subseteq Reading

\* The relation without windows. Only a fixed periodicity leaves out the
\* movements before the interval: without one, and under Авто, they are read
\* to build the opening balance of the whole interval.
PlainRows(q) ==
  LET fixed == q.periodicity \notin {"Whole", "Auto"}
      read == {m \in Active : m.period < q.end /\ (fixed => Inside(m, q))}
      fields == Dimensions \cup SplitFields(q.periodicity)
      value(m) ==
        [c \in Columns |->
           CASE c \in Flows   -> IF Inside(m, q) THEN Flow(m)[c] ELSE 0
             [] c = "opening" -> IF Inside(m, q) THEN 0 ELSE Signed(m)
             [] c = "closing" -> Signed(m)]
  IN GroupBy({[key |-> [f \in fields |-> Field(m, f)], sum |-> value(m),
               of |-> m] : m \in read}, Columns)

\* The grain the split fields read under Авто ask for.
GrainOf(used) ==
  LET levels == {i \in DOMAIN Units : Units[i] \in used} IN
  IF "LineNo" \in used THEN "Record"
  ELSE IF {"Recorder", "Period"} \cap used # {} THEN "Recorder"
  ELSE IF levels # {} THEN Units[Min(levels)]
  ELSE "Whole"

Grain(q) == IF q.periodicity = "Auto" THEN GrainOf(q.used) ELSE q.periodicity

\* What the buckets of a grain are grouped by: the keys of the grain and,
\* under Авто, the calendar levels of the bucket that are not finer.
BucketFields(q, grain) ==
  LET levels == {Units[i] : i \in {j \in DOMAIN Units :
                   \A k \in DOMAIN Units : Units[k] = grain => j >= k}}
  IN Dimensions \cup {"Period", "inside"} \cup SplitFields(grain)
       \cup (IF q.periodicity = "Auto" THEN levels ELSE {})

\* The movements before the interval are one bucket, which sorts first.
BucketField(m, q, grain, f) ==
  LET period == IF ~Inside(m, q) THEN 0
                ELSE IF grain \in UnitNames THEN BeginOf[grain][m.period]
                ELSE m.period
  IN CASE f \in Dimensions -> m.dims[f]
       [] f = "inside"     -> IF Inside(m, q) THEN 1 ELSE 0
       [] f = "Period"     -> period
       [] f = "Recorder"   -> IF Inside(m, q) THEN m.recorder ELSE WholeMoment
       [] f = "LineNo"     -> IF Inside(m, q) THEN m.line ELSE 0
       [] f \in UnitNames  -> BeginOf[f][period]

\* Bug: buckets are ordered by their moments only.
PositionByPeriod(key, grain) == <<key.inside, key.Period>>

\* ORDER BY of the window, a tuple compared from the left.
Position(key, grain) ==
  <<key.inside, key.Period>>
    \o (IF grain \in {"Recorder", "Record"} THEN key.Recorder ELSE <<>>)
    \o (IF grain = "Record" THEN <<key.LineNo>> ELSE <<>>)

LexLess(s, t) ==
  \E i \in DOMAIN s : s[i] < t[i] /\ \A j \in 1 .. i - 1 : s[j] = t[j]

\* The relation with windows: the balances of a bucket are the sums of the
\* buckets of the same dimensions before it, and up to it. The bucket before
\* the interval is dropped after the windows are taken.
WindowedRows(q, grain) ==
  LET read == {m \in Active : m.period < q.end}
      fields == BucketFields(q, grain)
      buckets ==
        GroupBy({[key |-> [f \in fields |-> BucketField(m, q, grain, f)],
                  sum |-> Flow(m), of |-> m] : m \in read}, Flows)
      earlier(b) ==
        {e \in buckets : /\ \A d \in Dimensions : e.key[d] = b.key[d]
                         /\ LexLess(Position(e.key, grain), Position(b.key, grain))}
      opening(b) == SumFunction([e \in earlier(b) |-> e.sum.turnover])
  IN {[key |-> b.key,
       sum |-> [c \in Columns |->
                  CASE c \in Flows   -> b.sum[c]
                    [] c = "opening" -> opening(b)
                    [] c = "closing" -> opening(b) + b.sum.turnover]] :
        b \in {e \in buckets : e.key.inside = 1}}

\* The variant of the grain is taken when a balance column is read.
BalanceAndTurnovers(q) ==
  LET rows == IF "balance" \in q.used /\ Grain(q) # "Whole"
              THEN WindowedRows(q, Grain(q)) ELSE PlainRows(q)
  IN Finalize(rows, q.periodicity, q.used, Columns)

-----------------------------------------------------------------------------
(* Properties. *)

\* The register holds at most one movement per recorder and line, and the
\* current totals are always there: what the tables rely on.
TypeOK ==
  /\ movements \subseteq Movement
  /\ \A m, n \in movements :
       <<m.recorder, m.line>> = <<n.recorder, n.line>> => m = n
  /\ Far \in anchors /\ anchors \subseteq 0 .. Far

\* Whatever totals Остатки starts from and wherever it cuts, the movements in
\* the totals and the correction together are those before the cut, each read
\* once: nothing added that the totals have, nothing taken back that they lack.
ReadsEachMovementOnce ==
  \A a \in anchors, cut \in Cuts :
     /\ (TotalsAt(a) \ TakenBack(a, cut)) \cup Added(a, cut)
          = {m \in Active : Before(m, cut)}
     /\ TotalsAt(a) \cap Added(a, cut) = {}
     /\ TakenBack(a, cut) \subseteq TotalsAt(a)

\* The balance of a combination of some dimensions over some movements, read
\* directly; the reference of the next properties.
BalanceOver(set, key) ==
  SumFunctionOnSet([m \in set |-> Signed(m)],
                   {m \in set : \A d \in DOMAIN key : m.dims[d] = key[d]})

\* The movements up to a cut in the order of the register: moment, then the
\* type and the identifier of the recorder.
OrderedBefore(cut) ==
  LET place(m) == IF cut.recorder = WholeMoment THEN <<m.period>>
                  ELSE <<m.period>> \o m.recorder
      end == IF cut.recorder = WholeMoment THEN <<cut.date>>
             ELSE <<cut.date>> \o cut.recorder
  IN {m \in Active : LexLess(place(m), end) \/ (cut.including /\ place(m) = end)}

NonZeroBalances(rows, column) ==
  {<<r.key, r.sum[column]>> : r \in {x \in rows : x.sum[column] \notin {0, Null}}}

\* Остатки answers, for every subset of the dimensions, the non-zero sums of
\* the movements before its cut, or of all of them without one; read at all
\* its dimensions it shows no zero row, read at none of them exactly one row.
BalanceOfMovements ==
  \A used \in SUBSET Dimensions, cut \in Cuts \cup {Null} :
     LET set == IF cut = Null THEN Active ELSE OrderedBefore(cut)
         keys == {Restrict(m.dims, used) : m \in set}
     IN /\ NonZeroBalances(Balance(cut, used), "balance")
             = {<<k, BalanceOver(set, k)>> :
                  k \in {x \in keys : BalanceOver(set, x) # 0}}
        /\ used = Dimensions => \A r \in Balance(cut, used) : r.sum.balance # 0
        /\ used = {} /\ Dimensions # {} => Cardinality(Balance(cut, used)) = 1

\* The two tables that know balances agree: what ОстаткиИОбороты opens and
\* closes an interval with is what Остатки answers at its ends.
BalancesAgree ==
  \A used \in SUBSET Dimensions, begin, end \in 0 .. LastMoment :
     LET at(t) == [date |-> t, recorder |-> WholeMoment, including |-> FALSE]
         rows == BalanceAndTurnovers(
                   [begin |-> begin, end |-> end, periodicity |-> "Whole",
                    used |-> used \cup {"balance"}])
     IN begin <= end =>
          /\ NonZeroBalances(rows, "opening") = NonZeroBalances(Balance(at(begin), used), "balance")
          /\ NonZeroBalances(rows, "closing") = NonZeroBalances(Balance(at(end), used), "balance")

\* Both tables tell the balance the movements have.
BalancesHold == BalanceOfMovements /\ BalancesAgree

\* A row of a split table opens with the balance of its dimensions before the
\* period, recorder or record it stands for, no earlier than the interval, and
\* closes with the balance after it; a field the row does not have does not
\* order anything.
RunningBalance(q) ==
  \A r \in BalanceAndTurnovers(q) :
     LET has(f) == f \in DOMAIN r.key
         period == IF Grain(q) \in UnitNames THEN Grain(q) ELSE "Period"
         place(value) ==
           <<value[period]>>
             \o (IF has("Recorder") THEN value["Recorder"] ELSE <<>>)
             \o (IF has("LineNo") THEN <<value["LineNo"]>> ELSE <<>>)
         at(m) == place([f \in AutoFields |-> Field(m, f)])
         key == Restrict(r.key, Dimensions \cap DOMAIN r.key)
         read == {m \in Active : m.period < q.end}
         before == {m \in read : \/ m.period < q.begin
                                 \/ LexLess(at(m), place(r.key))}
         through == before \cup {m \in read : at(m) = place(r.key)}
     IN /\ r.sum.opening = BalanceOver(before, key)
        /\ r.sum.closing = BalanceOver(through, key)

\* Every dimension and the whole key of the grain are read.
ReadsWholeKey(q) ==
  /\ Dimensions \subseteq q.used
  /\ q.periodicity = "Auto" => SplitFields(Grain(q)) \subseteq q.used

RunningBalances ==
  \A q \in Requests :
     "balance" \in q.used /\ Grain(q) # "Whole" /\ ReadsWholeKey(q)
       => RunningBalance(q)

\* The same of a table read by fewer dimensions than the register has.
RunningBalancesOfUsedDimensions ==
  \A q \in Requests :
     "balance" \in q.used /\ Grain(q) # "Whole" => RunningBalance(q)

\* The periods of the grain lie within those of the other levels read.
LevelsNest(q) ==
  Grain(q) \in UnitNames =>
    \A u \in UnitNames \cap q.used, t \in 0 .. LastMoment :
       BeginOf[u][BeginOf[Grain(q)][t]] = BeginOf[u][t]

\* Обороты and a split ОстаткиИОбороты, with its balance columns read and so
\* from windows, answer the same rows with the same turnovers, where the levels
\* read lie within each other.  (Without balance columns PlainRows answers Авто,
\* with rows of the periods before the interval too; and a bucket of a week is
\* of one month, the month it begins in.)
TurnoversAgree ==
  \A q \in Requests :
     LET shown == (q.used \cap (Dimensions \cup SplitFields(q.periodicity)))
                    \cup (IF q.periodicity = "Auto" THEN {}
                          ELSE SplitFields(q.periodicity))
         rows(table) ==
           {<<Restrict(r.key, shown), [c \in Flows |-> r.sum[c]]>> : r \in table}
     IN "balance" \in q.used /\ Grain(q) # "Whole" /\ LevelsNest(q)
          => rows(Turnovers(q)) = rows(BalanceAndTurnovers(q))

\* A split table tells the turnovers of its rows and the balances around them.
SplitsAgree == RunningBalances /\ TurnoversAgree
=============================================================================
