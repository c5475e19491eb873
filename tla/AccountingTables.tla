--------------------------- MODULE AccountingTables ---------------------------
(* The virtual tables of an accounting register with correspondence, as the *)
(* SQL of codegen/accounting.rs computes them.  A record has a debit and a  *)
(* credit side; Обороты, Остатки and ОстаткиИОбороты fold each record into  *)
(* one row per side, after which they are the tables of AccumulationTables  *)
(* with the debit side as receipt, ОборотыДтКт groups the records as they   *)
(* are, and ДвиженияССубконто shows them.                                   *)
(*                                                                          *)
(* The register has a balance dimension (Org) and a non-balance one         *)
(* (Currency), a balance resource (sum) and a non-balance one (quantity),   *)
(* and Levels extra dimensions a side, each a kind and a value.  A list of  *)
(* kinds names the extra dimensions to read; Positional reads them in the   *)
(* account's own order, as does a list the compiler cannot see.             *)
EXTENDS Integers, Sequences, SequencesExt, FiniteSetsExt, Functions, TLC

CONSTANTS
  LastMoment, Units, BeginOf,   \* as in AccumulationTables
  Levels,        \* extra dimensions a side keeps
  Entries,       \* the records the platform may post (a bound)
  MaxRecords,    \* of them in the register at once (a bound)
  Lists,         \* the lists of kinds asked for, Positional among them
  Conditions,    \* conditions asked for: a field and its value, or Null
  Positional, Null

VARIABLE records

Sides == {"dt", "ct"}
Other(s) == IF s = "dt" THEN "ct" ELSE "dt"
Resources == {"sum", "quantity"}

Record ==
  [period : 0 .. LastMoment, recorder : Nat \X Nat, line : Nat,
   account : [Sides -> STRING], org : STRING, currency : [Sides -> STRING],
   sum : Int, quantity : [Sides -> Int], active : BOOLEAN,
   ext : [Sides -> [1 .. Levels -> [kind : STRING, value : STRING]]]]

-----------------------------------------------------------------------------
(* What the platform does to the register.                                  *)

Post(r) ==
  /\ Cardinality(records) < MaxRecords
  /\ \A x \in records : <<x.recorder, x.line>> # <<r.recorder, r.line>>
  /\ records' = records \cup {r}

SwitchActivity(d) ==
  records' = {IF r.recorder = d THEN [r EXCEPT !.active = ~r.active] ELSE r : r \in records}

Clear(d) == records' = {r \in records : r.recorder # d}

Init == records = {}

Next ==
  \/ \E r \in Entries : Post(r)
  \/ \E r \in records : SwitchActivity(r.recorder) \/ Clear(r.recorder)

-----------------------------------------------------------------------------
(* The sides of a record.                                                   *)

\* A field the register keeps once per record, or once per side.
SideValue(r, res, s) == IF res = "sum" THEN r.sum ELSE r.quantity[s]

\* The levels a side keeps a kind at.
LevelsOf(r, s, kind) == {l \in 1 .. Levels : r.ext[s][l].kind = kind}

\* The j-th extra dimension read: the level itself, or the first level of the
\* listed kind.
ExtValue(r, s, list, j) ==
  IF list = Positional THEN r.ext[s][j].value
  ELSE IF LevelsOf(r, s, list[j]) = {} THEN Null
  ELSE r.ext[s][Min(LevelsOf(r, s, list[j]))].value

ExtKind(r, s, list, j) ==
  IF list = Positional THEN r.ext[s][j].kind
  ELSE IF LevelsOf(r, s, list[j]) = {} THEN Null ELSE list[j]

Positions(list) == 1 .. (IF list = Positional THEN Levels ELSE Len(list))

\* Record sides that lack a listed kind are left out.
HasKinds(r, s, list) ==
  list = Positional \/ \A j \in DOMAIN list : LevelsOf(r, s, list[j]) # {}

Name(what, j) == what \o ToString(j)

ExtFields(prefix, r, s, list) ==
  LET value == prefix \o "Ext"
      kind  == prefix \o "Kind" IN
  FoldSet(LAMBDA j, f : (Name(value, j) :> ExtValue(r, s, list, j))
                          @@ (Name(kind, j) :> ExtKind(r, s, list, j)) @@ f,
          <<>>, Positions(list))

\* What one side of a record reads as, under the names of both.
SideFields(r, s, list) ==
  ("Account" :> r.account[s]) @@ ("Org" :> r.org) @@ ("Currency" :> r.currency[s])
    @@ ExtFields("", r, s, list)

\* The other side of the same record (Register::correspondence).
Correspondence(r, s, list) ==
  ("CorAccount" :> r.account[Other(s)]) @@ ("CorCurrency" :> r.currency[Other(s)])
    @@ ExtFields("Cor", r, Other(s), list)

\* A condition reads the side under the same names, but its extra dimensions
\* by position whatever kinds are listed (Register::side_fields).
Satisfies(r, s, condition) ==
  LET row == SideFields(r, s, Positional) @@ Correspondence(r, s, Positional) IN
  condition = Null \/ row[condition.field] = condition.value

-----------------------------------------------------------------------------
(* The fold.  q.list and q.corList are lists of kinds; a table without      *)
(* correspondence has corList = Null.                                       *)

\* Bug: the kinds of the correspondence are looked for on the side itself.
ReadsSideUnswapped(r, s, q) ==
  /\ HasKinds(r, s, q.list)
  /\ q.corList # Null => HasKinds(r, s, q.corList)
  /\ Satisfies(r, s, q.condition)

ReadsSide(r, s, q) ==
  /\ HasKinds(r, s, q.list)
  /\ q.corList # Null => HasKinds(r, Other(s), q.corList)
  /\ Satisfies(r, s, q.condition)

FoldedKey(r, s, q) ==
  IF q.corList = Null THEN SideFields(r, s, q.list)
  ELSE SideFields(r, s, q.list) @@ Correspondence(r, s, q.corList)

FoldedNames(q) ==
  LET ext(prefix, list) ==
        {Name(prefix \o "Ext", j) : j \in Positions(list)}
          \cup {Name(prefix \o "Kind", j) : j \in Positions(list)} IN
  {"Account", "Org", "Currency"} \cup ext("", q.list)
    \cup (IF q.corList = Null THEN {}
          ELSE {"CorAccount", "CorCurrency"} \cup ext("Cor", q.corList))

\* Bug: the credit side is not told from the debit side.
FoldDebits(q, res) ==
  {[period |-> r.period, recorder |-> r.recorder, line |-> r.line,
    dims |-> FoldedKey(r, s, q), income |-> TRUE,
    amount |-> SideValue(r, res, s), active |-> r.active, side |-> s] :
     <<r, s>> \in {x \in records \X Sides : ReadsSide(x[1], x[2], q)}}

\* UNION ALL of the debit and the credit branch, for one resource.
Fold(q, res) ==
  {[period |-> r.period, recorder |-> r.recorder, line |-> r.line,
    dims |-> FoldedKey(r, s, q), income |-> s = "dt",
    amount |-> SideValue(r, res, s), active |-> r.active, side |-> s] :
     <<r, s>> \in {x \in records \X Sides : ReadsSide(x[1], x[2], q)}}

Folded(movements, dimensions) == INSTANCE AccumulationTables WITH
  Dimensions <- dimensions, movements <- movements, anchors <- {LastMoment + 1},
  Candidates <- {}, MaxMovements <- 0, Anchors <- {}, Cuts <- {}, Requests <- {}

\* A reading has an interval, a periodicity and the fields it uses. The
\* debit turnover is the receipt and the credit turnover the expense.
Turnovers(q, res) ==
  Folded(Fold(q, res), FoldedNames(q))!Turnovers(q)

BalanceAndTurnovers(q, res) ==
  Folded(Fold(q, res), FoldedNames(q))!BalanceAndTurnovers(q)

-----------------------------------------------------------------------------
(* Остатки.  The expanded parts are taken of the balances of all dimensions *)
(* and then summed; the plain parts of the balances the statement reads.    *)

Columns == {"balance", "expandedDt", "expandedCt"}

\* CASE WHEN x > 0 THEN x ELSE 0 END: a null has no part.
DebitPart(x)  == IF x # Null /\ x > 0 THEN x ELSE 0
CreditPart(x) == IF x # Null /\ x < 0 THEN -x ELSE 0

SignedSum(fold) ==
  MapThenSumSet(LAMBDA m : IF m.income THEN m.amount ELSE -m.amount, fold)

\* Combinations whose every balance is zero are dropped (HAVING).
InnerBalances(q) ==
  LET before(res) == {m \in Fold(q, res) : m.active /\ m.period < q.end}
      keys == {m.dims : m \in before("sum")}
      balance(k) ==
        [res \in Resources |-> SignedSum({m \in before(res) : m.dims = k})]
  IN {[key |-> k, balance |-> balance(k)] :
        k \in {x \in keys : \E res \in Resources : balance(x)[res] # 0}}

Balance(q, res) ==
  LET inner == {[key |-> r.key,
                 sum |-> [c \in Columns |->
                            CASE c = "balance"    -> r.balance[res]
                              [] c = "expandedDt" -> DebitPart(r.balance[res])
                              [] c = "expandedCt" -> CreditPart(r.balance[res])]] :
                   r \in InnerBalances(q)}
  IN {[key |-> r.key,
       sum |-> r.sum @@ ("dt" :> DebitPart(r.sum.balance))
                     @@ ("ct" :> CreditPart(r.sum.balance))] :
        r \in Folded({}, FoldedNames(q))!Finalize(inner, "Whole", q.used, Columns)}

\* ОстаткиИОбороты of the whole interval, with the expanded parts of both ends.
IntervalColumns == {"opening", "receipt", "expense", "closing"} \cup
  {end \o part : end \in {"opening", "closing"}, part \in {"Dt", "Ct"}}

IntervalBalances(q, res) ==
  LET fold == {m \in Fold(q, res) : m.active /\ m.period < q.end}
      inside == {m \in fold : m.period >= q.begin}
      of(k, set) == SignedSum({m \in set : m.dims = k})
      inner ==
        {[key |-> k,
          sum |-> [c \in IntervalColumns |->
                     CASE c = "opening"   -> of(k, fold \ inside)
                       [] c = "receipt"   -> of(k, {m \in inside : m.income})
                       [] c = "expense"   -> -of(k, {m \in inside : ~m.income})
                       [] c = "closing"   -> of(k, fold)
                       [] c = "openingDt" -> DebitPart(of(k, fold \ inside))
                       [] c = "openingCt" -> CreditPart(of(k, fold \ inside))
                       [] c = "closingDt" -> DebitPart(of(k, fold))
                       [] c = "closingCt" -> CreditPart(of(k, fold))]] :
           k \in {m.dims : m \in fold}}
  IN Folded({}, FoldedNames(q))!Finalize(inner, "Whole", q.used, IntervalColumns)

-----------------------------------------------------------------------------
(* The records themselves.                                                  *)

\* ОборотыДтКт: both sides of a record are one row, each with its own list.
PairFields(r, q) ==
  ("AccountDt" :> r.account["dt"]) @@ ("AccountCt" :> r.account["ct"])
    @@ ("Org" :> r.org)
    @@ ("CurrencyDt" :> r.currency["dt"]) @@ ("CurrencyCt" :> r.currency["ct"])
    @@ ExtFields("Dt", r, "dt", q.list) @@ ExtFields("Ct", r, "ct", q.corList)

DrCrTurnovers(q) ==
  LET read == {r \in records : /\ r.active /\ q.begin <= r.period /\ r.period < q.end
                               /\ HasKinds(r, "dt", q.list)
                               /\ HasKinds(r, "ct", q.corList)}
  IN Folded({}, {})!GroupBy(
       {[key |-> Restrict(PairFields(r, q), q.used \cap DOMAIN PairFields(r, q)),
         sum |-> [turnover |-> r.sum, dt |-> r.quantity["dt"], ct |-> r.quantity["ct"]],
         of |-> r] : r \in read}, {"turnover", "dt", "ct"})

\* ДвиженияССубконто: active or not, a record is shown when either of its
\* sides satisfies the condition; Первые takes the first ones.
Place(r) == <<r.period>> \o r.recorder \o <<r.line>>

RecordsWithExtDimensions(q, top) ==
  LET shown == {r \in records : /\ q.begin <= r.period /\ r.period < q.end
                                /\ \E s \in Sides : Satisfies(r, s, q.condition)}
      before(r) == {x \in shown : Folded({}, {})!LexLess(Place(x), Place(r))}
  IN IF top = Null THEN shown ELSE {r \in shown : Cardinality(before(r)) < top}

-----------------------------------------------------------------------------
(* Properties.                                                              *)

\* A reading of all movements before `end` without conditions.
Until(end, list, corList, used) ==
  [begin |-> 0, end |-> end, periodicity |-> "Whole", used |-> used,
   list |-> list, corList |-> corList, condition |-> Null]

Moments == 0 .. LastMoment + 1
Readings == SUBSET {"Account", "Org", "Ext1"} \cup {FoldedNames(Until(0, Positional, Null, {}))}

Same(rows, column, others, other) ==
  LET shown(set, c) == {<<r.key, r.sum[c]>> : r \in {x \in set : x.sum[c] \notin {0, Null}}}
  IN shown(rows, column) = shown(others, other)

\* Double entry: at every moment the balances of a resource kept once per
\* record cancel out in every organization, and so do the expanded parts;
\* whatever is read, a balance is the difference of its parts and of its
\* expanded parts, and an interval opens and closes with the balances Остатки
\* answers at its ends.
BooksBalance ==
  /\ \A t \in Moments :
       \A r \in Balance(Until(t, Positional, Null, {"Org"}), "sum") :
          r.sum.balance = 0 /\ r.sum.expandedDt = r.sum.expandedCt
  /\ \A t \in Moments, used \in Readings, res \in Resources :
       LET rows == Balance(Until(t, Positional, Null, used), res) IN
       /\ \A r \in {x \in rows : x.sum.balance # Null} :
            /\ r.sum.balance = r.sum.dt - r.sum.ct
            /\ r.sum.balance = r.sum.expandedDt - r.sum.expandedCt
            /\ r.sum.dt = 0 \/ r.sum.ct = 0
            /\ r.sum.expandedDt >= r.sum.dt
       /\ \A b \in {x \in 0 .. LastMoment : x <= t} :
            LET q == [Until(t, Positional, Null, used) EXCEPT !.begin = b]
                interval == IntervalBalances(q, res)
                before == Balance(Until(b, Positional, Null, used), res)
            IN /\ Same(interval, "closing", rows, "balance")
               /\ Same(interval, "opening", before, "balance")
               /\ \A part \in {"Dt", "Ct"} :
                    /\ Same(interval, "closing" \o part, rows, "expanded" \o part)
                    /\ Same(interval, "opening" \o part, before, "expanded" \o part)
               /\ \A c \in {"opening", "closing", "receipt", "expense"} :
                    Same(interval, c, BalanceAndTurnovers(q, res), c)

\* A kind read by a list is the same extra dimension wherever the account
\* keeps it: the listed reading is the sum of the positional ones of that kind.
ListedAgree ==
  \A t \in Moments, res \in Resources :
    \A list \in {l \in Lists \ {Positional} : Len(l) = 1} :
      LET at(j) == Balance(Until(t, Positional, Null, {"Account", Name("Ext", j), Name("Kind", j)}), res)
          place(r, j) == [account |-> r.key.Account, value |-> r.key[Name("Ext", j)]]
          positional ==
            UNION {{[key |-> place(r, j), sum |-> [balance |-> r.sum.balance], of |-> j] :
                      r \in {x \in at(j) : x.key[Name("Kind", j)] = list[1]}} : j \in 1 .. Levels}
          listed ==
            {[key |-> place(r, 1), sum |-> [balance |-> r.sum.balance]] :
               r \in Balance(Until(t, list, Null, {"Account", "Ext1"}), res)}
      IN Same(listed, "balance",
              Folded({}, {})!GroupBy(positional, {"balance"}), "balance")

\* Обороты with the correspondent account and ОборотыДтКт see each record
\* alike: a debit row is a pair read debit side first, a credit row one read
\* credit side first, each side by the kinds listed for it.
CorrespondenceAgrees ==
  \A list, corList \in Lists :
    LET q == Until(LastMoment + 1, list, corList, {"Account", "CorAccount", "Ext1", "CorExt1"})
        pairs(first, second) ==
          DrCrTurnovers([Until(LastMoment + 1, first, second,
                               {"AccountDt", "AccountCt", "DtExt1", "CtExt1"}) EXCEPT !.begin = 0])
        debits ==
          {[key |-> ("Account" :> r.key.AccountDt) @@ ("CorAccount" :> r.key.AccountCt)
                      @@ ("Ext1" :> r.key.DtExt1) @@ ("CorExt1" :> r.key.CtExt1),
            sum |-> r.sum] : r \in pairs(list, corList)}
        credits ==
          {[key |-> ("Account" :> r.key.AccountCt) @@ ("CorAccount" :> r.key.AccountDt)
                      @@ ("Ext1" :> r.key.CtExt1) @@ ("CorExt1" :> r.key.DtExt1),
            sum |-> r.sum] : r \in pairs(corList, list)}
    IN /\ Same(Turnovers(q, "sum"), "receipt", debits, "turnover")
       /\ Same(Turnovers(q, "sum"), "expense", credits, "turnover")
       /\ Same(Turnovers(q, "quantity"), "receipt", debits, "dt")
       /\ Same(Turnovers(q, "quantity"), "expense", credits, "ct")

\* Первые shows as many records as were asked for when there are that many.
FirstRecords ==
  \A condition \in Conditions, n \in 0 .. MaxRecords :
    LET q == [Until(LastMoment + 1, Positional, Null, {}) EXCEPT !.condition = condition]
        all == RecordsWithExtDimensions(q, Null)
    IN Cardinality(RecordsWithExtDimensions(q, n)) = Min({n, Cardinality(all)})

\* What the tables make of the two sides of a record: by kind or by position,
\* folded or paired, all of them or the first.
SidesAgree == ListedAgree /\ CorrespondenceAgrees /\ FirstRecords

\* A condition sees the fields the table shows: a table under a condition on
\* one of them answers the rows of the table without it that satisfy it
\* (specs/query-repl/spec.md, Extra dimensions of the aggregating tables).
ConditionSeesShown ==
  \A list \in Lists, condition \in Conditions \ {Null} :
    LET q == Until(LastMoment + 1, list, Null, FoldedNames(Until(0, list, Null, {})))
        conditioned == Balance([q EXCEPT !.condition = condition], "sum")
    IN condition.field \in q.used =>
         conditioned = {r \in Balance(q, "sum") : r.key[condition.field] = condition.value}
=============================================================================
