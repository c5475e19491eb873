------------------------- MODULE MCAccumulationTables -------------------------
(* Four moments in two days of one month; two dimensions; three recorders of *)
(* two types, two of them at one moment, one with two lines.                 *)
EXTENDS AccumulationTables, TLC

CONSTANTS Entries, MaxRecords, Levels, Lists, Conditions, Positional
VARIABLE records

Accounting == INSTANCE AccountingTables

\* One register at a time holds movements.
MCInit == Init /\ Accounting!Init
MCNext ==
  \/ records = {} /\ Next /\ UNCHANGED records
  \/ movements = {} /\ anchors = {Far} /\ Accounting!Next /\ UNCHANGED vars
MCSpec == MCInit /\ [][MCNext]_<<vars, records>>

BooksBalance == Accounting!BooksBalance
SidesAgree == Accounting!SidesAgree
ConditionSeesShown == Accounting!ConditionSeesShown

MCUnits == <<"day", "month">>
MCBeginOf == [day |-> [t \in 0 .. 3 |-> 2 * (t \div 2)],
              month |-> [t \in 0 .. 3 |-> 0]]

Move(period, type, id, line, item, store, income, amount) ==
  [period |-> period, recorder |-> <<type, id>>, line |-> line,
   dims |-> [item |-> item, store |-> store],
   income |-> income, amount |-> amount, active |-> TRUE]

MCCandidates ==
  {Move(0, 1, 1, 1, "i", "s", TRUE, 4), Move(0, 1, 1, 2, "i", "t", TRUE, 2),
   Move(1, 1, 2, 1, "i", "s", FALSE, 4), Move(1, 2, 1, 1, "i", "s", TRUE, 1),
   Move(1, 2, 1, 2, "i", "s", TRUE, 7),
   Move(2, 1, 2, 1, "i", "t", FALSE, 2), Move(2, 2, 1, 1, "j", "s", TRUE, 3),
   Move(3, 2, 1, 1, "i", "s", FALSE, 4), Move(3, 1, 1, 1, "i", "s", TRUE, 4)}

MCCuts ==
  {[date |-> d, recorder |-> r, including |-> b] :
     d \in {1, 2}, r \in {WholeMoment, <<1, 2>>, <<2, 1>>}, b \in BOOLEAN}

Intervals == {<<0, 4>>, <<1, 4>>, <<2, 3>>}
Splits ==
  {<<"day", {}>>, <<"Recorder", {}>>, <<"Record", {}>>,
   <<"Auto", {"month"}>>, <<"Auto", {"day", "month"}>>,
   <<"Auto", {"Period", "Recorder", "day"}>>,
   <<"Auto", {"Period", "Recorder", "LineNo"}>>}

Request(interval, split, dims) ==
  [begin |-> interval[1], end |-> interval[2], periodicity |-> split[1],
   used |-> split[2] \cup dims \cup {"balance"}]

MCRequests ==
  {Request(i, s, d) : i \in Intervals, s \in Splits,
                      d \in {{"item", "store"}, {"item"}, {}}}

\* One dimension of two, by days, from the second day on.
DayRequests == {Request(<<2, 4>>, <<"Auto", {"day"}>>, {"item"})}

\* Account "a" keeps goods and then stores, "b" stores, "c" nothing; two lines
\* of one document, and a record within one account.
Nowhere == [kind |-> "none", value |-> "none"]
Goods(v) == [kind |-> "goods", value |-> v]
Store(v) == [kind |-> "store", value |-> v]

Entry(period, id, line, dt, dtExt, ct, ctExt, amount, quantity) ==
  [period |-> period, recorder |-> <<1, id>>, line |-> line,
   account |-> [dt |-> dt, ct |-> ct], org |-> "o",
   currency |-> [dt |-> "r", ct |-> "e"], sum |-> amount,
   quantity |-> [dt |-> quantity, ct |-> 2], active |-> TRUE,
   ext |-> [dt |-> dtExt, ct |-> ctExt]]

MCEntries ==
  {Entry(0, 1, 1, "a", <<Goods("g"), Store("s")>>, "b", <<Store("s"), Nowhere>>, 5, 1),
   Entry(1, 1, 2, "b", <<Store("s"), Nowhere>>, "a", <<Goods("h"), Store("t")>>, 3, 2),
   Entry(1, 2, 1, "c", <<Nowhere, Nowhere>>, "a", <<Goods("g"), Store("s")>>, 5, 2),
   Entry(2, 2, 2, "a", <<Goods("h"), Store("t")>>, "c", <<Nowhere, Nowhere>>, 3, 4),
   Entry(3, 3, 1, "a", <<Goods("s"), Store("g")>>, "a", <<Goods("g"), Store("s")>>, 2, 1)}

MCLists == {Positional, <<"store">>, <<"goods">>, <<"store", "goods">>}
MCConditions ==
  {Null, [field |-> "Account", value |-> "a"], [field |-> "Account", value |-> "c"],
   [field |-> "Ext1", value |-> "s"], [field |-> "Ext1", value |-> "g"]}
===============================================================================
