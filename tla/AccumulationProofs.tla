--------------------------- MODULE AccumulationProofs ---------------------------
(* What the tables tell, for any register, calendar, totals, cuts and        *)
(* requests: Остатки reads every movement once, both tables with balances    *)
(* tell the sums of the movements, and a split of ОстаткиИОбороты runs       *)
(* through the movements in their order with the turnovers of Обороты.       *)
(* The typing invariant carries the key of the movements; the rest is the    *)
(* arithmetic of sums and the order of tuples.                               *)
EXTENDS AccumulationTables, FiniteSums, SequenceTheorems

\* What the platform does keeps one movement per recorder and line, and the
\* current totals.
THEOREM RegisterTypeCorrect == Spec => []TypeOK
<1>1. Init => TypeOK
  BY MomentsAssumption DEF Init, TypeOK, Far
<1>2. TypeOK /\ [Next]_vars => TypeOK'
  <2> SUFFICES ASSUME TypeOK, [Next]_vars PROVE TypeOK'
    OBVIOUS
  <2> USE DEF TypeOK
  <2>1. CASE \E m \in Candidates : Record(m)
    <3>1. PICK m \in Candidates : Record(m)
      BY <2>1
    <3>2. m \in Movement
      BY CandidatesAssumption
    <3> QED
      BY <3>1, <3>2 DEF Record
  <2>2. CASE \E m \in movements : SwitchActivity(m.recorder)
    <3>1. PICK o \in movements : SwitchActivity(o.recorder)
      BY <2>2
    <3> DEFINE S(m) == IF m.recorder = o.recorder
                       THEN [m EXCEPT !.active = ~m.active] ELSE m
    <3>2. movements' = {S(m) : m \in movements} /\ anchors' = anchors
      BY <3>1 DEF SwitchActivity
    <3>3. ASSUME NEW m \in movements
          PROVE  /\ S(m) \in Movement
                 /\ S(m).recorder = m.recorder /\ S(m).line = m.line
      BY DEF Movement
    <3>4. movements' \subseteq Movement
      BY <3>2, <3>3
    <3>5. ASSUME NEW p \in movements', NEW q \in movements',
                 <<p.recorder, p.line>> = <<q.recorder, q.line>>
          PROVE  p = q
      <4>1. PICK m \in movements : p = S(m)
        BY <3>2
      <4>2. PICK n \in movements : q = S(n)
        BY <3>2
      <4>3. m.recorder = n.recorder /\ m.line = n.line
        BY <3>3, <3>5, <4>1, <4>2
      <4> QED
        BY <4>1, <4>2, <4>3
    <3> QED
      BY <3>2, <3>4, <3>5
  <2>3. CASE \E m \in movements : Clear(m.recorder)
    BY <2>3 DEF Clear
  <2>4. CASE \E a \in Anchors : StoreTotals(a)
    BY <2>4, AnchorsAssumption, MomentsAssumption DEF StoreTotals, Far
  <2>5. CASE UNCHANGED vars
    BY <2>5 DEF vars
  <2> QED
    BY <2>1, <2>2, <2>3, <2>4, <2>5 DEF Next
<1> QED
  BY <1>1, <1>2, PTL DEF Spec

\* A movement before an earlier anchor is before the cut, and one before the
\* cut is before a later anchor.
LEMMA AnchorAndCut ==
  ASSUME NEW m \in Movement, NEW cut \in CutPoint, NEW a \in 0 .. Far
  PROVE  /\ a <= cut.date /\ m.period < a => Before(m, cut)
         /\ a > cut.date /\ Before(m, cut) => m.period < a
<1>1. /\ m.period \in Int /\ a \in Int /\ cut.date \in Int
  BY MomentsAssumption DEF CutPoint, Movement, Far
<1>2. m.period < cut.date => Before(m, cut)
  BY <1>1 DEF Before
<1>3. Before(m, cut) => m.period <= cut.date
  BY <1>1 DEF Before
<1> QED
  BY <1>1, <1>2, <1>3

BeforeCut(cut) == {m \in Active : Before(m, cut)}

\* The totals of any stored moment and the correction towards any cut are the
\* movements before the cut, each read once.
LEMMA ReadAtOnce ==
  ASSUME TypeOK, NEW a \in anchors, NEW cut \in CutPoint
  PROVE  /\ (TotalsAt(a) \ TakenBack(a, cut)) \cup Added(a, cut) = BeforeCut(cut)
         /\ TotalsAt(a) \cap Added(a, cut) = {}
         /\ TakenBack(a, cut) \subseteq TotalsAt(a)
<1>1. a \in 0 .. Far /\ Active \subseteq Movement
  BY DEF TypeOK, Active
<1>2. a \in Int /\ cut.date \in Int /\ \A m \in Active : m.period \in Int
  BY <1>1, MomentsAssumption DEF CutPoint, Movement, Far
<1>3. \A m \in Active :
        /\ a <= cut.date /\ m.period < a => Before(m, cut)
        /\ a > cut.date /\ Before(m, cut) => m.period < a
  BY <1>1, AnchorAndCut
<1> HIDE DEF Active
<1> QED
  BY <1>2, <1>3 DEF TotalsAt, TakenBack, Added, BeforeCut

\* Of the register that holds them and of the cuts that are asked for.
THEOREM ReadsOnce == Spec => []ReadsEachMovementOnce
<1>1. TypeOK => ReadsEachMovementOnce
  BY ReadAtOnce, CutsAssumption DEF ReadsEachMovementOnce, BeforeCut
<1> QED
  BY <1>1, RegisterTypeCorrect, PTL

-----------------------------------------------------------------------------
(* Sums over the register exist: it is finite.                              *)
InvFinite == IsFiniteSet(movements)

THEOREM RegisterFinite == Spec => []InvFinite
<1>1. Init => InvFinite
  BY FS_EmptySet DEF Init, InvFinite
<1>2. InvFinite /\ [Next]_vars => InvFinite'
  <2> USE DEF InvFinite
  <2> SUFFICES ASSUME IsFiniteSet(movements), [Next]_vars PROVE IsFiniteSet(movements')
    OBVIOUS
  <2>1. ASSUME NEW m \in Candidates, Record(m) PROVE IsFiniteSet(movements')
    BY <2>1, FS_AddElement DEF Record
  <2>2. ASSUME NEW o \in movements, SwitchActivity(o.recorder) PROVE IsFiniteSet(movements')
    <3> DEFINE h == [m \in movements |-> IF m.recorder = o.recorder
                                         THEN [m EXCEPT !.active = ~m.active] ELSE m]
    <3>1. movements' = {h[m] : m \in movements}
      BY <2>2 DEF SwitchActivity
    <3> HIDE DEF h
    <3> QED BY <3>1, ImageFinite
  <2>3. ASSUME NEW m \in movements, Clear(m.recorder) PROVE IsFiniteSet(movements')
    BY <2>3, FS_Subset DEF Clear
  <2>4. CASE \E a \in Anchors : StoreTotals(a)
    BY <2>4 DEF StoreTotals
  <2>5. CASE UNCHANGED vars
    BY <2>5 DEF vars
  <2> QED BY <2>1, <2>2, <2>3, <2>4, <2>5 DEF Next
<1> QED
  BY <1>1, <1>2, PTL DEF Spec

-----------------------------------------------------------------------------
(* Rows, groups and balances.                                               *)

Balances == [m \in movements |-> Signed(m)]

LEMMA MovementType ==
  ASSUME TypeOK, NEW m \in movements
  PROVE  /\ m.dims \in [Dimensions -> STRING]
         /\ m.period \in 0 .. LastMoment
         /\ Signed(m) \in Int
         /\ Balances[m] = Signed(m)
BY DEF TypeOK, Movement, Signed, Balances

\* The parts of GROUP BY: a column, the rows of a key, those of a coarser key,
\* and the movements of a key of some dimensions.
Column(rows, c) == [r \in rows |-> r.sum[c]]
Group(rows, k) == {r \in rows : r.key = k}
Coarser(rows, used, k) == {r \in rows : Restrict(r.key, used) = k}
OfKey(set, used, k) == {m \in set : Restrict(m.dims, used) = k}

LEMMA GroupByIs ==
  ASSUME NEW rows, NEW columns
  PROVE  GroupBy(rows, columns) =
           {[key |-> k, sum |-> [c \in columns |-> SumFunctionOnSet(Column(rows, c), Group(rows, k))]] :
              k \in {r.key : r \in rows}}
BY Zenon DEF GroupBy, Column, Group

(* A row per key, with the sums of its group.                               *)
LEMMA GroupByRows ==
  ASSUME NEW rows, NEW columns
  PROVE  /\ \A r \in GroupBy(rows, columns) :
              /\ \E s \in rows : r.key = s.key
              /\ \A c \in columns : r.sum[c] = SumFunctionOnSet(Column(rows, c), Group(rows, r.key))
         /\ \A s \in rows : \E r \in GroupBy(rows, columns) : r.key = s.key
         /\ \A r, s \in GroupBy(rows, columns) : r.key = s.key => r = s
<1> DEFINE row(k) == [key |-> k, sum |-> [c \in columns |-> SumFunctionOnSet(Column(rows, c), Group(rows, k))]]
           keys == {r.key : r \in rows}
<1>1. GroupBy(rows, columns) = {row(k) : k \in keys}
  BY GroupByIs, Zenon
<1>2. \A k : /\ row(k).key = k
             /\ \A c \in columns : row(k).sum[c] = SumFunctionOnSet(Column(rows, c), Group(rows, k))
  OBVIOUS
<1>3. \A k \in keys : \E s \in rows : k = s.key
  OBVIOUS
<1>4. \A s \in rows : s.key \in keys
  OBVIOUS
<1> HIDE DEF row, keys
<1> QED BY <1>1, <1>2, <1>3, <1>4

(* The sum of a column over the rows of one key, however the rows came      *)
(* about, is the sum over what they came from.                              *)
LEMMA GroupSum ==
  ASSUME NEW X, IsFiniteSet(X), NEW h, NEW c, NEW f, NEW k, NEW rows, NEW of \in SUBSET X,
         \A x \in X : h[x] \in rows /\ f[x] \in Int /\ h[x].sum[c] = f[x],
         \A r \in rows : \E x \in X : r = h[x],
         \A x, y \in X : h[x] = h[y] => x = y,
         \A x \in X : x \in of <=> h[x].key = k
  PROVE  SumFunctionOnSet(Column(rows, c), Group(rows, k)) = SumFunctionOnSet(f, of)
<1> DEFINE g == Column(rows, c)
<1>1. Group(rows, k) = {h[x] : x \in of}
  BY DEF Group
<1>2. \A x \in of : f[x] \in Int /\ g[h[x]] = f[x]
  BY DEF Column
<1>3. IsFiniteSet(of) /\ \A x, y \in of : h[x] = h[y] => x = y
  BY FS_Subset
<1> HIDE DEF g
<1>4. SumFunctionOnSet(g, {h[x] : x \in of}) = SumFunctionOnSet(f, of)
  BY <1>2, <1>3, SumReindexed
<1> QED BY <1>1, <1>4 DEF g

(* The balance of a key of some dimensions.                                 *)
LEMMA BalanceOfKey ==
  ASSUME TypeOK, InvFinite, NEW set \in SUBSET movements,
         NEW U \in SUBSET Dimensions, NEW k \in [U -> STRING]
  PROVE  /\ BalanceOver(set, k) = SumFunctionOnSet(Balances, OfKey(set, U, k))
         /\ BalanceOver(set, k) \in Int
         /\ BalanceOver(set, k) # 0 => \E m \in set : Restrict(m.dims, U) = k
<1> DEFINE f == [m \in set |-> Signed(m)]
           of == OfKey(set, U, k)
<1>1. ASSUME NEW m \in set
      PROVE  m \in of <=> \A d \in DOMAIN k : m.dims[d] = k[d]
  BY MovementType DEF Restrict, OfKey
<1>2. {m \in set : \A d \in DOMAIN k : m.dims[d] = k[d]} = of
  BY <1>1 DEF OfKey
<1>3. BalanceOver(set, k) = SumFunctionOnSet(f, of)
  BY <1>2 DEF BalanceOver
<1>4. IsFiniteSet(of) /\ \A m \in of : f[m] = Balances[m] /\ f[m] \in Int
  BY FS_Subset, MovementType DEF InvFinite, OfKey
<1>5. of # {} => \E m \in set : Restrict(m.dims, U) = k
  BY DEF OfKey
<1> HIDE DEF f, of
<1>6. SumFunctionOnSet(f, of) = SumFunctionOnSet(Balances, of) /\ SumFunctionOnSet(f, of) \in Int
  BY <1>4, SumSame, SumInt
<1>7. of = {} => SumFunctionOnSet(f, of) = 0
  BY SumEmpty
<1> QED BY <1>3, <1>5, <1>6, <1>7 DEF of

(* A key of all dimensions.                                                 *)
LEMMA WholeKey ==
  ASSUME TypeOK, NEW m \in movements PROVE Restrict(m.dims, Dimensions) = m.dims
<1>1. m.dims \in [Dimensions -> STRING]
  BY MovementType
<1> QED BY <1>1 DEF Restrict

-----------------------------------------------------------------------------
(* What a relation says of a balance before anything is summed away, and    *)
(* what of it is shown.                                                     *)

\* Every row tells the balance of its key of some dimensions over the set, and
\* a key without a row has none.
TellsKeys(rows, column, set, used) ==
  /\ \A r \in rows : /\ r.key \in [used -> STRING]
                     /\ r.sum[column] = BalanceOver(set, r.key)
  /\ \A k \in [used -> STRING] :
        BalanceOver(set, k) # 0 => \E r \in rows : r.key = k

\* The same at the grain of all dimensions, with one row per key.
Tells(rows, column, set) ==
  /\ IsFiniteSet(rows)
  /\ TellsKeys(rows, column, set, Dimensions)
  /\ \A r, s \in rows : r.key = s.key => r = s

Shown(set, used) ==
  LET keys == {Restrict(m.dims, used) : m \in set} IN
  {<<k, BalanceOver(set, k)>> : k \in {x \in keys : BalanceOver(set, x) # 0}}

LEMMA BalancesShown ==
  ASSUME TypeOK, InvFinite, NEW rows, NEW column, NEW set \in SUBSET movements,
         NEW used \in SUBSET Dimensions, TellsKeys(rows, column, set, used)
  PROVE  NonZeroBalances(rows, column) = Shown(set, used)
<1>1. \A k \in [used -> STRING] :
         /\ BalanceOver(set, k) \in Int
         /\ BalanceOver(set, k) # 0 => \E m \in set : Restrict(m.dims, used) = k
  BY BalanceOfKey
<1>2. \A m \in set : Restrict(m.dims, used) \in [used -> STRING]
  BY MovementType DEF Restrict
<1>3. ASSUME NEW r \in rows, r.sum[column] \notin {0, Null}
      PROVE  <<r.key, r.sum[column]>> \in Shown(set, used)
  <2>1. r.key \in [used -> STRING] /\ r.sum[column] = BalanceOver(set, r.key)
    BY DEF TellsKeys
  <2>2. PICK m \in set : Restrict(m.dims, used) = r.key
    BY <1>1, <1>3, <2>1
  <2> QED BY <1>3, <2>1, <2>2 DEF Shown
<1>4. ASSUME NEW k \in {Restrict(m.dims, used) : m \in set}, BalanceOver(set, k) # 0
      PROVE  <<k, BalanceOver(set, k)>> \in NonZeroBalances(rows, column)
  <2>1. k \in [used -> STRING]
    BY <1>2
  <2>2. PICK r \in rows : r.key = k
    BY <1>4, <2>1 DEF TellsKeys
  <2>3. r.sum[column] = BalanceOver(set, k) /\ BalanceOver(set, k) \in Int
    BY <1>1, <2>1, <2>2 DEF TellsKeys
  <2>4. r.sum[column] \notin {0, Null}
    BY <1>4, <2>3, NullAssumption
  <2> QED BY <2>2, <2>3, <2>4 DEF NonZeroBalances
<1> QED BY <1>3, <1>4 DEF Shown, NonZeroBalances

(* What a relation tells of single combinations, it tells of sums of them.  *)
LEMMA CoarserKey ==
  ASSUME TypeOK, InvFinite, NEW set \in SUBSET movements, NEW rows, NEW column,
         Tells(rows, column, set), NEW used \in SUBSET Dimensions,
         NEW k \in [used -> STRING]
  PROVE  SumFunctionOnSet(Column(rows, column), Coarser(rows, used, k))
           = BalanceOver(set, k)
<1> DEFINE w == Column(rows, column)
           mine == Coarser(rows, used, k)
           key == [r \in rows |-> r.key]
           keys == {key[r] : r \in mine}
           dims == [m \in movements |-> m.dims]
           some == OfKey(set, used, k)
           all == {dims[m] : m \in some} \cup keys
           b == [t \in all |-> BalanceOver(set, t)]
           part == [t \in all |-> OfKey(set, Dimensions, t)]
<1>1. IsFiniteSet(mine) /\ IsFiniteSet(some) /\ mine \subseteq rows /\ some \subseteq set
  BY FS_Subset DEF Tells, InvFinite, Coarser, OfKey
<1>2. IsFiniteSet(keys) /\ IsFiniteSet(all)
  <2> DEFINE images == {dims[m] : m \in some}
  <2>1. IsFiniteSet(images) /\ IsFiniteSet(keys)
    <3> HIDE DEF mine, key, dims, some
    <3> QED BY <1>1, ImageFinite
  <2> HIDE DEF images, keys
  <2> QED BY <2>1, FS_Union DEF images
<1>3. \A r \in mine : /\ key[r] \in [Dimensions -> STRING] /\ Restrict(key[r], used) = k
                      /\ w[r] = BalanceOver(set, key[r])
  BY DEF Tells, TellsKeys, Coarser, Column
<1>4. \A m \in some : dims[m] \in [Dimensions -> STRING] /\ Restrict(dims[m], used) = k
  BY MovementType DEF OfKey
<1>5. ASSUME NEW t \in all
      PROVE  t \in [Dimensions -> STRING] /\ Restrict(t, used) = k
  <2> HIDE DEF some, dims, mine, key
  <2> QED BY <1>3, <1>4
<1>6. ASSUME NEW t \in all
      PROVE  /\ b[t] = SumFunctionOnSet(Balances, part[t]) /\ b[t] \in Int
             /\ part[t] \in SUBSET some /\ \A m \in some : m \in part[t] <=> dims[m] = t
  <2>1. t \in [Dimensions -> STRING] /\ Restrict(t, used) = k
    BY <1>5
  <2>2. \A m \in set : Restrict(m.dims, Dimensions) = m.dims /\ dims[m] = m.dims
    BY WholeKey
  <2>3. b[t] = BalanceOver(set, t) /\ part[t] = OfKey(set, Dimensions, t)
    OBVIOUS
  <2>4. part[t] \in SUBSET some /\ \A m \in some : m \in part[t] <=> dims[m] = t
    <3> HIDE DEF b, all, part, dims
    <3> QED BY <2>1, <2>2, <2>3 DEF OfKey
  <2>5. BalanceOver(set, t) = SumFunctionOnSet(Balances, OfKey(set, Dimensions, t))
           /\ BalanceOver(set, t) \in Int
    BY <2>1, BalanceOfKey
  <2> HIDE DEF b, all, part, dims
  <2> QED BY <2>3, <2>4, <2>5
<1>7. SumFunctionOnSet(b, keys) = SumFunctionOnSet(w, mine)
  <2>1. \A r \in mine : b[key[r]] = w[r] /\ w[r] \in Int
    <3>1. \A r \in mine : key[r] \in all /\ b[key[r]] = BalanceOver(set, key[r])
      OBVIOUS
    <3> HIDE DEF b, all, key, mine, w, part
    <3> QED BY <1>3, <1>6, <3>1
  <2>2. \A r, s \in mine : key[r] = key[s] => r = s
    BY <1>1 DEF Tells
  <2> HIDE DEF b, mine, key, w
  <2> QED BY <1>1, <2>1, <2>2, SumReindexed
<1>8. SumFunctionOnSet(b, all) = SumFunctionOnSet(b, keys)
  <2>1. ASSUME NEW t \in all \ keys PROVE b[t] = 0
    <3>1. t \in [Dimensions -> STRING] /\ b[t] = BalanceOver(set, t) /\ Restrict(t, used) = k
      BY <1>5
    <3>2. \A r \in rows : r.key # t
      BY <3>1 DEF Coarser
    <3> HIDE DEF b, all, keys
    <3> QED BY <3>1, <3>2 DEF Tells, TellsKeys
  <2>2. keys \in SUBSET all /\ \A t \in all : b[t] \in Int
    BY <1>6
  <2> HIDE DEF b, all, keys
  <2> QED BY <1>2, <2>1, <2>2, SumSupport
<1>9. SumFunctionOnSet(b, all) = SumFunctionOnSet(Balances, some)
  <2>1. \A m \in some : Balances[m] \in Int /\ dims[m] \in all
    BY MovementType, <1>1
  <2>2. part \in [all -> SUBSET some]
    <3>1. \A t \in all : part[t] \in SUBSET some
      BY <1>6
    <3> HIDE DEF some, all
    <3> QED BY <3>1
  <2> HIDE DEF b, all, some, dims, keys, key, part
  <2> QED BY <1>1, <1>2, <1>6, <2>1, <2>2, SumByGroups
<1>10. SumFunctionOnSet(Balances, some) = BalanceOver(set, k)
  BY BalanceOfKey
<1> QED BY <1>7, <1>8, <1>9, <1>10

\* The last step shows of a relation at the grain of all dimensions the
\* balances of those the statement reads.
LEMMA FinalizeShows ==
  ASSUME TypeOK, InvFinite, NEW set \in SUBSET movements, NEW rows,
         NEW columns, NEW column \in columns, Tells(rows, column, set), NEW used
  PROVE  NonZeroBalances(Finalize(rows, "Whole", used, columns), column)
           = Shown(set, used \cap Dimensions)
<1> DEFINE kept == Dimensions \cap used
           coarse == {[key |-> Restrict(r.key, kept), sum |-> r.sum, of |-> r.key] : r \in rows}
           answer == Finalize(rows, "Whole", used, columns)
<1>0. SplitFields("Whole") = {}
  BY NamesAssumption DEF SplitFields
<1>1. answer = IF Dimensions \subseteq used THEN rows
               ELSE IF kept = {} /\ rows = {}
               THEN {[key |-> [f \in {} |-> Null], sum |-> [c \in columns |-> Null]]}
               ELSE GroupBy(coarse, columns)
  BY <1>0 DEF Finalize
<1>2. kept \in SUBSET Dimensions /\ Dimensions \in SUBSET Dimensions /\ used \cap Dimensions = kept
  OBVIOUS
<1>3. CASE Dimensions \subseteq used
  <2>1. used \cap Dimensions = Dimensions /\ answer = rows
    BY <1>1, <1>3
  <2>2. TellsKeys(rows, column, set, Dimensions)
    BY DEF Tells
  <2> HIDE DEF answer, kept
  <2> QED BY <1>2, <2>1, <2>2, BalancesShown DEF answer
<1>4. CASE ~(Dimensions \subseteq used)
  <2> DEFINE h == [r \in rows |-> [key |-> Restrict(r.key, kept), sum |-> r.sum, of |-> r.key]]
             w == Column(rows, column)
  <2>1. \A k \in [kept -> STRING] :
           SumFunctionOnSet(w, Coarser(rows, kept, k)) = BalanceOver(set, k)
    <3> HIDE DEF kept
    <3> QED BY <1>2, CoarserKey
  <2>2. ASSUME NEW k \in [kept -> STRING], BalanceOver(set, k) # 0
        PROVE  \E r \in rows : Restrict(r.key, kept) = k
    <3>1. Coarser(rows, kept, k) # {}
      BY <2>1, <2>2, SumEmpty
    <3> QED BY <3>1 DEF Coarser
  <2>3. CASE kept = {} /\ rows = {}
    <3>1. \A k \in [kept -> STRING] : BalanceOver(set, k) = 0
      BY <2>2, <2>3
    <3>2. \A m \in set : Restrict(m.dims, kept) \in [kept -> STRING]
      BY MovementType DEF Restrict
    <3>3. Shown(set, kept) = {}
      BY <3>1, <3>2 DEF Shown
    <3>4. answer = {[key |-> [f \in {} |-> Null], sum |-> [c \in columns |-> Null]]}
      BY <1>1, <1>4, <2>3
    <3>5. NonZeroBalances(answer, column) = {}
      BY <3>4 DEF NonZeroBalances
    <3> QED BY <1>2, <3>3, <3>5
  <2>4. CASE ~(kept = {} /\ rows = {})
    <3>1. answer = GroupBy(coarse, columns)
      BY <1>1, <1>4, <2>4
    <3>2. \A r \in rows : /\ h[r] \in coarse /\ h[r].key = Restrict(r.key, kept)
                          /\ h[r].sum[column] = w[r] /\ h[r].of = r.key
      BY DEF Column
    <3>3. \A s \in coarse : \E r \in rows : s = h[r]
      OBVIOUS
    <3>4. \A r \in rows : Restrict(r.key, kept) \in [kept -> STRING] /\ w[r] \in Int
      <4>1. \A r \in rows : r.key \in [Dimensions -> STRING] /\ w[r] = BalanceOver(set, r.key)
        BY DEF Tells, TellsKeys, Column
      <4>2. \A r \in rows : w[r] \in Int
        <5> HIDE DEF w
        <5> QED BY <1>2, <4>1, BalanceOfKey
      <4> QED BY <4>1, <4>2 DEF Restrict
    <3> HIDE DEF h, w, answer, coarse, kept
    <3>5. ASSUME NEW k \in [kept -> STRING]
          PROVE  SumFunctionOnSet(Column(coarse, column), Group(coarse, k)) = BalanceOver(set, k)
      <4>1. \A r, s \in rows : h[r] = h[s] => r = s
        BY <3>2 DEF Tells
      <4>2. /\ Coarser(rows, kept, k) \in SUBSET rows
            /\ \A r \in rows : r \in Coarser(rows, kept, k) <=> h[r].key = k
        BY <3>2 DEF Coarser
      <4>3. IsFiniteSet(rows)
        BY DEF Tells
      <4>4. SumFunctionOnSet(Column(coarse, column), Group(coarse, k))
              = SumFunctionOnSet(w, Coarser(rows, kept, k))
        BY <3>2, <3>3, <3>4, <4>1, <4>2, <4>3, GroupSum
      <4> QED BY <2>1, <4>4
    <3>6. \A r \in answer : r.key \in [kept -> STRING] /\ r.sum[column] = BalanceOver(set, r.key)
      <4>1. \A r \in answer :
               /\ \E s \in coarse : r.key = s.key
               /\ r.sum[column] = SumFunctionOnSet(Column(coarse, column), Group(coarse, r.key))
        BY <3>1, GroupByRows
      <4>2. \A s \in coarse : s.key \in [kept -> STRING]
        BY <3>2, <3>3, <3>4
      <4> QED BY <3>5, <4>1, <4>2
    <3>7. ASSUME NEW k \in [kept -> STRING], BalanceOver(set, k) # 0
          PROVE  \E r \in answer : r.key = k
      <4>1. PICK s \in rows : Restrict(s.key, kept) = k
        BY <2>2, <3>7
      <4>2. h[s] \in coarse /\ h[s].key = k
        BY <3>2, <4>1
      <4> QED BY <3>1, <4>2, GroupByRows
    <3>8. TellsKeys(answer, column, set, kept)
      BY <3>6, <3>7 DEF TellsKeys
    <3>9. NonZeroBalances(answer, column) = Shown(set, kept)
      BY <1>2, <3>8, BalancesShown
    <3> QED BY <1>2, <3>9 DEF answer
  <2> QED BY <2>3, <2>4
<1> QED BY <1>3, <1>4
-----------------------------------------------------------------------------
(* The relations the tables start from.                                     *)

(* There are finitely many groups.                                          *)
LEMMA GroupByFinite ==
  ASSUME NEW read, IsFiniteSet(read), NEW h, NEW rows, NEW columns,
         \A r \in rows : \E m \in read : r = h[m]
  PROVE  IsFiniteSet(GroupBy(rows, columns))
<1> DEFINE group(k) == [key |-> k, sum |-> [c \in columns |->
                          SumFunctionOnSet(Column(rows, c), Group(rows, k))]]
           key == [r \in rows |-> r.key]
           keys == {key[r] : r \in rows}
           row == [k \in keys |-> group(k)]
           images == {h[m] : m \in read}
<1>1. GroupBy(rows, columns) = {row[k] : k \in keys}
  <2>1. keys = {r.key : r \in rows}
    OBVIOUS
  <2>2. GroupBy(rows, columns) = {group(k) : k \in {r.key : r \in rows}}
    BY GroupByIs, Zenon
  <2> HIDE DEF group, keys
  <2> QED BY <2>1, <2>2
<1>2. rows \subseteq images
  OBVIOUS
<1>3. IsFiniteSet(rows)
  <2>1. IsFiniteSet(images)
    BY ImageFinite
  <2> QED BY <1>2, <2>1, FS_Subset
<1>4. IsFiniteSet(keys)
  <2> HIDE DEF key
  <2> QED BY <1>3, ImageFinite
<1> HIDE DEF row, keys
<1> QED BY <1>1, <1>4, ImageFinite

(* Grouped by all their dimensions, movements tell the balance over those   *)
(* among them that count.                                                   *)
LEMMA GroupByTells ==
  ASSUME TypeOK, InvFinite, NEW read \in SUBSET movements, NEW set \in SUBSET read,
         NEW h, NEW rows, NEW columns, NEW c \in columns,
         \A m \in read : h[m] \in rows /\ h[m].key = m.dims,
         \A r \in rows : \E m \in read : r = h[m],
         \A m, n \in read : h[m] = h[n] => m = n,
         \A m \in set : h[m].sum[c] = Signed(m),
         \A m \in read \ set : h[m].sum[c] = 0
  PROVE  Tells(GroupBy(rows, columns), c, set)
<1> DEFINE f == [m \in read |-> IF m \in set THEN Signed(m) ELSE 0]
           answer == GroupBy(rows, columns)
<1>1. \A m \in read : /\ m.dims \in [Dimensions -> STRING] /\ Restrict(m.dims, Dimensions) = m.dims
                      /\ f[m] \in Int /\ h[m].sum[c] = f[m]
  BY MovementType, WholeKey
<1>2. ASSUME NEW k \in [Dimensions -> STRING]
      PROVE  SumFunctionOnSet(Column(rows, c), Group(rows, k)) = BalanceOver(set, k)
  <2> DEFINE of == OfKey(read, Dimensions, k)
             mine == OfKey(set, Dimensions, k)
  <2>1. /\ of \in SUBSET read /\ mine \in SUBSET of
        /\ \A m \in read : m \in of <=> h[m].key = k
        /\ IsFiniteSet(read) /\ IsFiniteSet(of) /\ IsFiniteSet(mine)
    BY <1>1, FS_Subset DEF OfKey, InvFinite
  <2>2. (\A m \in of \ mine : f[m] = 0) /\ (\A m \in mine : f[m] = Balances[m])
    BY MovementType DEF OfKey
  <2> HIDE DEF f, of, mine
  <2>3. SumFunctionOnSet(Column(rows, c), Group(rows, k)) = SumFunctionOnSet(f, of)
    BY <1>1, <2>1, GroupSum
  <2>4. SumFunctionOnSet(f, of) = SumFunctionOnSet(f, mine)
    BY <1>1, <2>1, <2>2, SumSupport
  <2>5. SumFunctionOnSet(f, mine) = SumFunctionOnSet(Balances, mine)
    BY <2>1, <2>2, SumSame
  <2>6. SumFunctionOnSet(Balances, mine) = BalanceOver(set, k)
    BY BalanceOfKey DEF mine
  <2> QED BY <2>3, <2>4, <2>5, <2>6
<1> HIDE DEF f
<1>3. \A r \in rows : \E m \in read : r.key = m.dims
  OBVIOUS
<1>4. \A r \in answer : r.key \in [Dimensions -> STRING] /\ r.sum[c] = BalanceOver(set, r.key)
  BY <1>1, <1>2, <1>3, GroupByRows
<1>5. ASSUME NEW k \in [Dimensions -> STRING], BalanceOver(set, k) # 0
      PROVE  \E r \in answer : r.key = k
  <2>1. Dimensions \in SUBSET Dimensions /\ set \in SUBSET movements
    OBVIOUS
  <2>2. PICK m \in set : Restrict(m.dims, Dimensions) = k
    BY <1>5, <2>1, BalanceOfKey
  <2>3. h[m] \in rows /\ h[m].key = k
    BY <1>1, <2>2
  <2> QED BY <2>3, GroupByRows
<1>6. IsFiniteSet(answer)
  <2>1. IsFiniteSet(read) /\ \A r \in rows : \E m \in read : r = h[m]
    BY FS_Subset DEF InvFinite
  <2> QED BY <2>1, GroupByFinite
<1>7. \A r, s \in answer : r.key = s.key => r = s
  BY GroupByRows
<1> HIDE DEF answer
<1> QED BY <1>4, <1>5, <1>6, <1>7 DEF Tells, TellsKeys, answer

(* Without its zero rows a relation tells the same.                         *)
LEMMA NonZeroTells ==
  ASSUME TypeOK, InvFinite, NEW rows, NEW set, Tells(rows, "balance", set)
  PROVE  Tells(NonZero(rows), "balance", set)
<1>1. NonZero(rows) \subseteq rows /\ \A r \in rows : r.sum["balance"] # 0 => r \in NonZero(rows)
  BY DEF NonZero
<1>2. IsFiniteSet(NonZero(rows))
  BY <1>1, FS_Subset DEF Tells
<1> QED BY <1>1, <1>2 DEF Tells, TellsKeys
-----------------------------------------------------------------------------
(* Остатки.                                                                 *)

LEMMA StoredAnchors ==
  ASSUME TypeOK
  PROVE  /\ Stored = {} => Active = {}
         /\ Stored # {} => Max(Stored) = Far /\ TotalsAt(Far) = Active
         /\ Stored # {} => \A cut \in CutPoint : Anchor(cut) \in anchors
<1>1. TotalsAt(Far) = Active
  <2>1. \A m \in movements : m.period \in 0 .. LastMoment
    BY MovementType
  <2>2. \A m \in Active : m.period < Far
    BY <2>1, MomentsAssumption DEF Active, Far
  <2> QED BY <2>2 DEF TotalsAt
<1>2. Far \in Nat /\ Stored \subseteq 0 .. Far /\ Stored \subseteq anchors
  <2>1. Far \in Nat
    BY MomentsAssumption DEF Far
  <2>2. Stored \subseteq anchors
    BY DEF Stored
  <2> QED BY <2>1, <2>2 DEF TypeOK
<1>3. Stored # {} => Far \in Stored
  <2> SUFFICES ASSUME Stored # {} PROVE Far \in Stored
    OBVIOUS
  <2>1. TotalsAt(Far) # {}
    BY <1>1 DEF Stored, TotalsAt
  <2> QED BY <2>1 DEF Stored, TypeOK
<1>4. Stored = {} => Active = {}
  BY <1>1 DEF Stored, TypeOK
<1>5. Stored # {} => Max(Stored) = Far
  <2> SUFFICES ASSUME Stored # {} PROVE Max(Stored) = Far
    OBVIOUS
  <2>1. Far \in Stored /\ \A y \in Stored : Far >= y
    BY <1>2, <1>3
  <2>2. \A x \in Stored : (\A y \in Stored : x >= y) => x = Far
    BY <1>2, <2>1
  <2> HIDE DEF Stored
  <2> QED BY <2>1, <2>2 DEF Max
<1>6. ASSUME Stored # {}, NEW cut \in CutPoint PROVE Anchor(cut) \in anchors
  <2> DEFINE low == {a \in Stored : a <= cut.date}
  <2>1. CASE low # {}
    <3>1. \E x \in low : \A y \in low : x >= y
      <4>1. low \in SUBSET (0 .. Far)
        BY <1>2
      <4> HIDE DEF low
      <4> QED BY <1>2, <2>1, <4>1, Greatest
    <3>2. Max(low) \in low
      <4> HIDE DEF low
      <4> QED BY <3>1 DEF Max
    <3> QED BY <1>2, <2>1, <3>2 DEF Anchor
  <2>2. CASE low = {}
    BY <1>2, <1>3, <1>5, <1>6, <2>2 DEF Anchor
  <2> QED BY <2>1, <2>2
<1> QED BY <1>1, <1>4, <1>5, <1>6

(* The totals of a moment tell the movements before it.                     *)
LEMMA TotalsTell ==
  ASSUME TypeOK, InvFinite, NEW a
  PROVE  Tells(Totals(a), "balance", TotalsAt(a))
<1> DEFINE h == [m \in TotalsAt(a) |-> [key |-> m.dims, sum |-> [balance |-> Signed(m)], of |-> m]]
           rows == {[key |-> m.dims, sum |-> [balance |-> Signed(m)], of |-> m] : m \in TotalsAt(a)}
           read == TotalsAt(a)
<1>1. read \in SUBSET movements
  BY DEF TotalsAt, Active
<1>2. \A m \in read : h[m] \in rows /\ h[m].key = m.dims /\ h[m].sum["balance"] = Signed(m)
                      /\ h[m].of = m
  OBVIOUS
<1>3. \A r \in rows : \E m \in read : r = h[m]
  OBVIOUS
<1>4. Totals(a) = GroupBy(rows, {"balance"})
  BY DEF Totals
<1> HIDE DEF h, rows, read
<1>5. Tells(GroupBy(rows, {"balance"}), "balance", read)
  <2>1. /\ \A m \in read : h[m] \in rows /\ h[m].key = m.dims
        /\ \A m \in read : h[m].sum["balance"] = Signed(m)
        /\ \A m \in read \ read : h[m].sum["balance"] = 0
    BY <1>2
  <2>2. \A m, n \in read : h[m] = h[n] => m = n
    BY <1>2
  <2>3. read \in SUBSET read /\ "balance" \in {"balance"}
    OBVIOUS
  <2> QED BY <1>1, <1>3, <2>1, <2>2, <2>3, GroupByTells
<1> QED BY <1>4, <1>5 DEF read

(* Nothing tells of nothing.                                                *)
LEMMA NothingTells ==
  ASSUME TypeOK, InvFinite PROVE Tells({}, "balance", {})
<1>1. IsFiniteSet({})
  BY FS_EmptySet
<1>2. \A k \in [Dimensions -> STRING] : BalanceOver({}, k) = 0
  <2>1. {} \in SUBSET movements /\ Dimensions \in SUBSET Dimensions
    OBVIOUS
  <2> QED BY <2>1, BalanceOfKey
<1> QED BY <1>1, <1>2 DEF Tells, TellsKeys

(* Without a cut: the current totals are all movements.                     *)
LEMMA CurrentTells ==
  ASSUME TypeOK, InvFinite PROVE Tells(CurrentBalance, "balance", Active)
<1>1. CASE Stored = {}
  <2>1. CurrentBalance = {} /\ Active = {}
    BY <1>1, StoredAnchors DEF CurrentBalance
  <2> QED BY <2>1, NothingTells
<1>2. CASE Stored # {}
  <2>1. CurrentBalance = NonZero(Totals(Far)) /\ TotalsAt(Far) = Active
    BY <1>2, StoredAnchors DEF CurrentBalance
  <2> QED BY <2>1, TotalsTell, NonZeroTells
<1> QED BY <1>1, <1>2

\* What the totals of the anchor and the correction say together.
LEMMA CorrectedBalance ==
  ASSUME TypeOK, InvFinite, NEW a \in anchors, NEW cut \in CutPoint,
         NEW k \in [Dimensions -> STRING]
  PROVE  LET sign == IF a <= cut.date THEN 1 ELSE -1 IN
         BalanceOver(TotalsAt(a), k)
             + sign * BalanceOver(Added(a, cut) \cup TakenBack(a, cut), k)
           = BalanceOver(BeforeCut(cut), k)
<1> DEFINE added == Added(a, cut)
           taken == TakenBack(a, cut)
           stored == TotalsAt(a)
           before == BeforeCut(cut)
           Of(S) == OfKey(S, Dimensions, k)
           Sum(S) == SumFunctionOnSet(Balances, Of(S))
<1>1. /\ added \in SUBSET movements /\ taken \in SUBSET movements
      /\ stored \in SUBSET movements /\ before \in SUBSET movements
      /\ added \cup taken \in SUBSET movements
  BY DEF Added, TakenBack, TotalsAt, BeforeCut, Active
<1>2. Dimensions \in SUBSET Dimensions
  OBVIOUS
<1>3. \A S \in SUBSET movements :
         /\ BalanceOver(S, k) = Sum(S) /\ Sum(S) \in Int
         /\ IsFiniteSet(Of(S)) /\ \A m \in Of(S) : Balances[m] \in Int
  <2> SUFFICES ASSUME NEW S \in SUBSET movements
               PROVE  /\ BalanceOver(S, k) = Sum(S) /\ Sum(S) \in Int
                      /\ IsFiniteSet(Of(S)) /\ \A m \in Of(S) : Balances[m] \in Int
    OBVIOUS
  <2>1. BalanceOver(S, k) = Sum(S) /\ BalanceOver(S, k) \in Int
    BY <1>2, BalanceOfKey
  <2>2. IsFiniteSet(Of(S)) /\ \A m \in Of(S) : Balances[m] \in Int
    BY MovementType, FS_Subset DEF OfKey, InvFinite
  <2> QED BY <2>1, <2>2
<1>4. /\ (stored \ taken) \cup added = before
      /\ stored \cap added = {}
      /\ taken \subseteq stored
  BY ReadAtOnce
<1>5. CASE a <= cut.date
  <2>1. taken = {}
    BY <1>5, MomentsAssumption DEF TakenBack, CutPoint, TypeOK, Far
  <2>2. Of(before) = Of(stored) \cup Of(added) /\ Of(stored) \cap Of(added) = {}
    BY <1>4, <2>1 DEF OfKey
  <2>3. Sum(before) = Sum(stored) + Sum(added)
    <3> HIDE DEF added, stored, before, Of
    <3> QED BY <1>1, <1>3, <2>2, SumUnion
  <2>4. added \cup taken = added
    BY <2>1
  <2> HIDE DEF added, stored, before, taken, Sum
  <2>5. 1 * Sum(added) = Sum(added)
    BY <1>1, <1>3
  <2> QED BY <1>1, <1>3, <1>5, <2>3, <2>4, <2>5 DEF added, stored, before, taken
<1>6. CASE ~(a <= cut.date)
  <2>1. added = {}
    BY <1>6 DEF Added
  <2>2. Of(stored) = Of(before) \cup Of(taken) /\ Of(before) \cap Of(taken) = {}
    BY <1>4, <2>1 DEF OfKey
  <2>3. Sum(stored) = Sum(before) + Sum(taken)
    <3> HIDE DEF taken, stored, before, Of
    <3> QED BY <1>1, <1>3, <2>2, SumUnion
  <2>4. added \cup taken = taken
    BY <2>1
  <2> HIDE DEF added, stored, before, taken, Sum
  <2>5. Sum(stored) + (-1) * Sum(taken) = Sum(before)
    BY <1>1, <1>3, <2>3
  <2> QED BY <1>1, <1>3, <1>6, <2>4, <2>5 DEF added, stored, before, taken
<1> QED BY <1>5, <1>6
(* Towards a cut: the corrected totals tell the movements before it.        *)
LEMMA HistoricalTells ==
  ASSUME TypeOK, InvFinite, NEW cut \in CutPoint
  PROVE  Tells(HistoricalBalance(cut), "balance", BeforeCut(cut))
<1>1. CASE Stored = {}
  <2>1. HistoricalBalance(cut) = {} /\ BeforeCut(cut) = {}
    BY <1>1, StoredAnchors DEF HistoricalBalance, BeforeCut
  <2> QED BY <2>1, NothingTells
<1>2. CASE Stored # {}
  <2> DEFINE a == Anchor(cut)
             sign == IF a <= cut.date THEN 1 ELSE -1
             totals == Totals(a)
             read == Added(a, cut) \cup TakenBack(a, cut)
             stored == [r \in totals |-> [key |-> r.key, sum |-> r.sum, of |-> Null]]
             moved == [m \in read |-> [key |-> m.dims, sum |-> [balance |-> sign * Signed(m)], of |-> m]]
             P1 == {[key |-> r.key, sum |-> r.sum, of |-> Null] : r \in totals}
             P2 == {[key |-> m.dims, sum |-> [balance |-> sign * Signed(m)], of |-> m] : m \in read}
             parts == P1 \cup P2
             whole == GroupBy(parts, {"balance"})
  <2>1. a \in anchors
    BY <1>2, StoredAnchors
  <2>2. HistoricalBalance(cut) = NonZero(whole)
    BY <1>2 DEF HistoricalBalance
  <2>3. Tells(totals, "balance", TotalsAt(a))
    BY TotalsTell
  <2>4. /\ TotalsAt(a) \in SUBSET movements /\ read \in SUBSET movements
        /\ BeforeCut(cut) \in SUBSET movements /\ Dimensions \in SUBSET Dimensions
    BY DEF TotalsAt, Added, TakenBack, Active, BeforeCut
  <2>5. \A r \in totals : /\ stored[r] \in P1 /\ stored[r].key = r.key /\ stored[r].of = Null
                          /\ stored[r].sum["balance"] = r.sum["balance"]
    OBVIOUS
  <2>6. \A p \in P1 : \E r \in totals : p = stored[r]
    OBVIOUS
  <2>7. \A m \in read : /\ moved[m] \in P2 /\ moved[m].key = m.dims /\ moved[m].of = m
                        /\ moved[m].sum["balance"] = sign * Signed(m)
    OBVIOUS
  <2>8. \A p \in P2 : \E m \in read : p = moved[m]
    OBVIOUS
  <2>9. sign \in {1, -1}
    OBVIOUS
  <2>10. \A r \in totals : r.key \in [Dimensions -> STRING] /\ r.sum["balance"] \in Int
    <3>1. \A r \in totals : r.key \in [Dimensions -> STRING]
                              /\ r.sum["balance"] = BalanceOver(TotalsAt(a), r.key)
      BY <2>3 DEF Tells, TellsKeys
    <3>2. \A k \in [Dimensions -> STRING] : BalanceOver(TotalsAt(a), k) \in Int
      BY <2>4, BalanceOfKey
    <3> HIDE DEF totals, a
    <3> QED BY <3>1, <3>2
  <2>11. P1 \cap P2 = {}
    <3>1. \A m \in read : m # Null
      BY <2>4, NullAssumption DEF TypeOK
    <3> HIDE DEF P1, P2, stored, moved, read, totals
    <3> QED BY <2>5, <2>6, <2>7, <2>8, <3>1
  <2> HIDE DEF a, sign, totals, read, stored, moved, P1, P2, parts, whole
  <2>12. IsFiniteSet(P1) /\ IsFiniteSet(P2) /\ IsFiniteSet(totals) /\ IsFiniteSet(read)
    <3>1. IsFiniteSet(totals) /\ IsFiniteSet(read)
      BY <2>3, <2>4, FS_Subset DEF Tells, InvFinite
    <3>2. P1 = {stored[r] : r \in totals} /\ P2 = {moved[m] : m \in read}
      BY <2>5, <2>6, <2>7, <2>8
    <3> QED BY <3>1, <3>2, ImageFinite
  <2>13. ASSUME NEW k \in [Dimensions -> STRING]
         PROVE  SumFunctionOnSet(Column(parts, "balance"), Group(parts, k)) = BalanceOver(BeforeCut(cut), k)
    <3> DEFINE w == Column(parts, "balance")
               G1 == Group(P1, k)
               G2 == Group(P2, k)
    <3>1. SumFunctionOnSet(w, G1) = BalanceOver(TotalsAt(a), k)
      <4> DEFINE f == Column(totals, "balance")
                 of == Coarser(totals, Dimensions, k)
      <4>1. of \in SUBSET totals /\ \A r \in totals : r \in of <=> stored[r].key = k
        <5>1. \A r \in totals : Restrict(r.key, Dimensions) = r.key
          BY <2>10 DEF Restrict
        <5> QED BY <2>5, <5>1 DEF Coarser
      <4>2. \A r \in totals : f[r] \in Int /\ stored[r].sum["balance"] = f[r]
        BY <2>5, <2>10 DEF Column
      <4>3. \A r, s \in totals : stored[r] = stored[s] => r = s
        BY <2>3, <2>5 DEF Tells
      <4>4. SumFunctionOnSet(f, of) = BalanceOver(TotalsAt(a), k)
        BY <2>3, <2>4, CoarserKey
      <4> HIDE DEF f, of
      <4>5. SumFunctionOnSet(Column(P1, "balance"), G1) = SumFunctionOnSet(f, of)
        BY <2>5, <2>6, <2>12, <4>1, <4>2, <4>3, GroupSum
      <4>6. SumFunctionOnSet(w, G1) = SumFunctionOnSet(Column(P1, "balance"), G1)
        <5>1. IsFiniteSet(G1)
          BY <2>12, FS_Subset DEF Group
        <5>2. \A p \in G1 : w[p] = Column(P1, "balance")[p]
          BY DEF Group, Column, parts
        <5> HIDE DEF w, G1
        <5> QED BY <5>1, <5>2, SumSame
      <4> QED BY <4>4, <4>5, <4>6
    <3>2. SumFunctionOnSet(w, G2) = sign * BalanceOver(read, k)
      <4> DEFINE f == [m \in read |-> sign * Signed(m)]
                 of == OfKey(read, Dimensions, k)
      <4>1. of \in SUBSET read /\ \A m \in read : m \in of <=> moved[m].key = k
        <5>1. \A m \in read : Restrict(m.dims, Dimensions) = m.dims
          BY <2>4, WholeKey
        <5> QED BY <2>7, <5>1 DEF OfKey
      <4>2. \A m \in read : /\ Balances[m] \in Int /\ f[m] \in Int
                            /\ moved[m].sum["balance"] = f[m]
                            /\ f[m] = IF sign = 1 THEN Balances[m] ELSE -Balances[m]
        <5>1. \A m \in read : Signed(m) \in Int /\ Balances[m] = Signed(m)
          BY <2>4, MovementType
        <5> QED BY <2>7, <2>9, <5>1
      <4>3. \A m, n \in read : moved[m] = moved[n] => m = n
        BY <2>7
      <4>4. IsFiniteSet(of)
        BY <2>12, <4>1, FS_Subset
      <4>5. BalanceOver(read, k) = SumFunctionOnSet(Balances, of) /\ BalanceOver(read, k) \in Int
        BY <2>4, BalanceOfKey
      <4> HIDE DEF f, of
      <4>6. SumFunctionOnSet(f, of) = sign * BalanceOver(read, k)
        <5>1. CASE sign = 1
          <6>1. SumFunctionOnSet(f, of) = SumFunctionOnSet(Balances, of)
            BY <4>1, <4>2, <4>4, <5>1, SumSame
          <6> QED BY <4>5, <5>1, <6>1
        <5>2. CASE sign = -1
          <6>1. \A m \in of : Balances[m] \in Int /\ f[m] = -Balances[m]
            BY <4>1, <4>2, <5>2
          <6>2. SumFunctionOnSet(f, of) = -SumFunctionOnSet(Balances, of)
            BY <4>4, <6>1, SumNegated
          <6> QED BY <4>5, <5>2, <6>2
        <5> QED BY <2>9, <5>1, <5>2
      <4>7. SumFunctionOnSet(Column(P2, "balance"), G2) = SumFunctionOnSet(f, of)
        BY <2>7, <2>8, <2>12, <4>1, <4>2, <4>3, GroupSum
      <4>8. SumFunctionOnSet(w, G2) = SumFunctionOnSet(Column(P2, "balance"), G2)
        <5>1. IsFiniteSet(G2)
          BY <2>12, FS_Subset DEF Group
        <5>2. \A p \in G2 : w[p] = Column(P2, "balance")[p]
          BY DEF Group, Column, parts
        <5> HIDE DEF w, G2
        <5> QED BY <5>1, <5>2, SumSame
      <4> QED BY <4>6, <4>7, <4>8
    <3>3. SumFunctionOnSet(w, G1 \cup G2) = SumFunctionOnSet(w, G1) + SumFunctionOnSet(w, G2)
      <4>1. IsFiniteSet(G1) /\ IsFiniteSet(G2) /\ G1 \cap G2 = {}
        BY <2>11, <2>12, FS_Subset DEF Group
      <4>2. \A p \in P1 \cup P2 : w[p] \in Int
        <5>1. \A m \in read : sign * Signed(m) \in Int
          BY <2>4, <2>9, MovementType
        <5>2. \A p \in P1 \cup P2 : p.sum["balance"] \in Int
          BY <2>5, <2>6, <2>7, <2>8, <2>10, <5>1
        <5> QED BY <5>2 DEF Column, parts
      <4>3. \A p \in G1 \cup G2 : w[p] \in Int
        BY <4>2 DEF Group
      <4> HIDE DEF w, G1, G2
      <4> QED BY <4>1, <4>3, SumUnion
    <3>4. Group(parts, k) = G1 \cup G2
      BY DEF Group, parts
    <3>5. BalanceOver(TotalsAt(a), k) + sign * BalanceOver(read, k) = BalanceOver(BeforeCut(cut), k)
      BY <2>1, CorrectedBalance DEF sign, read
    <3> QED BY <3>1, <3>2, <3>3, <3>4, <3>5
  <2>14. \A p \in parts : p.key \in [Dimensions -> STRING]
    <3>1. \A m \in read : m.dims \in [Dimensions -> STRING]
      BY <2>4, MovementType
    <3> QED BY <2>5, <2>6, <2>7, <2>8, <2>10, <3>1 DEF parts
  <2>15. TellsKeys(whole, "balance", BeforeCut(cut), Dimensions)
    <3>1. \A r \in whole : r.key \in [Dimensions -> STRING]
                             /\ r.sum["balance"] = BalanceOver(BeforeCut(cut), r.key)
      BY <2>13, <2>14, GroupByRows DEF whole
    <3>2. ASSUME NEW k \in [Dimensions -> STRING], BalanceOver(BeforeCut(cut), k) # 0
          PROVE  \E r \in whole : r.key = k
      <4>1. Group(parts, k) # {}
        BY <2>13, <3>2, SumEmpty
      <4>2. PICK p \in parts : p.key = k
        BY <4>1 DEF Group
      <4> QED BY <4>2, GroupByRows DEF whole
    <3> QED BY <3>1, <3>2 DEF TellsKeys
  <2>16. IsFiniteSet(whole)
    <3> DEFINE same == [p \in parts |-> p]
    <3>1. IsFiniteSet(parts) /\ \A p \in parts : \E q \in parts : p = same[q]
      BY <2>12, FS_Union DEF parts
    <3> HIDE DEF same
    <3> QED BY <3>1, GroupByFinite DEF whole
  <2>17. \A r, s \in whole : r.key = s.key => r = s
    BY GroupByRows DEF whole
  <2>18. Tells(whole, "balance", BeforeCut(cut))
    BY <2>15, <2>16, <2>17 DEF Tells
  <2> QED BY <2>2, <2>18, NonZeroTells
<1> QED BY <1>1, <1>2

LEMMA Triple ==
  ASSUME NEW a \in Int, NEW b \in Int, NEW c \in Int
  PROVE  <<a>> \o <<b, c>> = <<a, b, c>>
<1>1. /\ <<a>> \in Seq(Int) /\ <<b, c>> \in Seq(Int) /\ <<a, b, c>> \in Seq(Int)
      /\ Len(<<a>>) = 1 /\ Len(<<b, c>>) = 2 /\ Len(<<a, b, c>>) = 3
  OBVIOUS
<1>2. /\ <<a>> \o <<b, c>> \in Seq(Int) /\ Len(<<a>> \o <<b, c>>) = 3
      /\ \A k \in 1 .. 3 : (<<a>> \o <<b, c>>)[k] = IF k <= 1 THEN <<a>>[k] ELSE <<b, c>>[k - 1]
  BY <1>1, ConcatProperties
<1>3. \A k \in 1 .. 3 : (<<a>> \o <<b, c>>)[k] = <<a, b, c>>[k]
  BY <1>2
<1> QED BY <1>1, <1>2, <1>3, SeqEqual

(* The order of the register, told as tuples.                               *)
LEMMA OrderIsBefore ==
  ASSUME TypeOK, NEW cut \in CutPoint PROVE OrderedBefore(cut) = BeforeCut(cut)
<1> DEFINE place(m) == IF cut.recorder = WholeMoment THEN <<m.period>>
                       ELSE <<m.period>> \o m.recorder
           end == IF cut.recorder = WholeMoment THEN <<cut.date>>
                  ELSE <<cut.date>> \o cut.recorder
<1>1. ASSUME NEW m \in Active
      PROVE  (LexLess(place(m), end) \/ (cut.including /\ place(m) = end)) <=> Before(m, cut)
  <2>1. /\ m.period \in Int /\ cut.date \in Int /\ cut.including \in BOOLEAN
        /\ m.recorder \in Nat \X Nat /\ cut.recorder \in Nat \X Nat
    BY MomentsAssumption DEF Active, TypeOK, Movement, CutPoint
  <2>2. PICK t \in Nat, i \in Nat : m.recorder = <<t, i>>
    BY <2>1
  <2>3. PICK u \in Nat, j \in Nat : cut.recorder = <<u, j>>
    BY <2>1
  <2>4. CASE cut.recorder = WholeMoment
    <3>1. place(m) = <<m.period>> /\ end = <<cut.date>>
      BY <2>4
    <3>2. LexLess(<<m.period>>, <<cut.date>>) <=> m.period < cut.date
      BY <2>1 DEF LexLess
    <3>3. <<m.period>> = <<cut.date>> <=> m.period = cut.date
      OBVIOUS
    <3> QED BY <2>1, <2>4, <3>1, <3>2, <3>3 DEF Before
  <2>5. CASE cut.recorder # WholeMoment
    <3>1. place(m) = <<m.period, t, i>> /\ end = <<cut.date, u, j>>
      <4>1. place(m) = <<m.period>> \o <<t, i>> /\ end = <<cut.date>> \o <<u, j>>
        BY <2>2, <2>3, <2>5
      <4>2. ASSUME NEW a \in Int, NEW b \in Nat, NEW c \in Nat
            PROVE  <<a>> \o <<b, c>> = <<a, b, c>>
        BY Triple
      <4> QED BY <4>1, <4>2, <2>1
    <3>2. LexLess(<<m.period, t, i>>, <<cut.date, u, j>>)
            <=> \/ m.period < cut.date
                \/ m.period = cut.date /\ t < u
                \/ m.period = cut.date /\ t = u /\ i < j
      <4> DEFINE p == <<m.period, t, i>>
                 q == <<cut.date, u, j>>
                 At(n) == p[n] < q[n] /\ \A l \in 1 .. n - 1 : p[l] = q[l]
      <4>1. /\ DOMAIN p = {1, 2, 3} /\ p[1] = m.period /\ p[2] = t /\ p[3] = i
            /\ q[1] = cut.date /\ q[2] = u /\ q[3] = j
        OBVIOUS
      <4>2. 1 .. 1 - 1 = {} /\ 1 .. 2 - 1 = {1} /\ 1 .. 3 - 1 = {1, 2}
        OBVIOUS
      <4>3. LexLess(p, q) <=> \E n \in DOMAIN p : At(n)
        BY DEF LexLess
      <4> HIDE DEF p, q
      <4>4. /\ At(1) <=> m.period < cut.date
            /\ At(2) <=> t < u /\ m.period = cut.date
            /\ At(3) <=> i < j /\ m.period = cut.date /\ t = u
        BY <4>1, <4>2
      <4> HIDE DEF At
      <4>5. LexLess(p, q) <=> At(1) \/ At(2) \/ At(3)
        BY <4>1, <4>3
      <4> QED BY <4>4, <4>5 DEF p, q
    <3>3. <<m.period, t, i>> = <<cut.date, u, j>> <=> m.period = cut.date /\ t = u /\ i = j
      OBVIOUS
    <3>4. m.recorder[1] = t /\ m.recorder[2] = i /\ cut.recorder[1] = u /\ cut.recorder[2] = j
      BY <2>2, <2>3
    <3>5. Before(m, cut) <=>
             \/ m.period < cut.date
             \/ /\ m.period = cut.date
                /\ t < u \/ (t = u /\ (IF cut.including THEN i <= j ELSE i < j))
      BY <2>5, <3>4 DEF Before
    <3> HIDE DEF place, end
    <3> QED BY <2>1, <3>1, <3>2, <3>3, <3>5
  <2> QED BY <2>4, <2>5
<1>2. OrderedBefore(cut) = {m \in Active : LexLess(place(m), end) \/ (cut.including /\ place(m) = end)}
  BY DEF OrderedBefore
<1> HIDE DEF place, end
<1> QED BY <1>1, <1>2 DEF BeforeCut

\* What Остатки starts from, and what of the movements it is about.
BalanceRows(cut) == IF cut = Null THEN CurrentBalance ELSE HistoricalBalance(cut)
BalanceSet(cut) == IF cut = Null THEN Active ELSE BeforeCut(cut)

LEMMA BalanceTells ==
  ASSUME TypeOK, InvFinite, NEW cut \in CutPoint \cup {Null}
  PROVE  /\ Tells(BalanceRows(cut), "balance", BalanceSet(cut))
         /\ \A r \in BalanceRows(cut) : r.sum["balance"] # 0
         /\ BalanceSet(cut) \in SUBSET movements
<1>1. BalanceSet(cut) \in SUBSET movements
  BY DEF BalanceSet, BeforeCut, Active
<1>2. \A r \in BalanceRows(cut) : r.sum["balance"] # 0
  BY DEF BalanceRows, CurrentBalance, HistoricalBalance, NonZero
<1>3. Tells(BalanceRows(cut), "balance", BalanceSet(cut))
  <2>1. CASE cut = Null
    BY <2>1, CurrentTells DEF BalanceRows, BalanceSet
  <2>2. CASE cut # Null
    BY <2>2, HistoricalTells DEF BalanceRows, BalanceSet
  <2> QED BY <2>1, <2>2
<1> QED BY <1>1, <1>2, <1>3

LEMMA BalanceShows ==
  ASSUME TypeOK, InvFinite, NEW cut \in CutPoint \cup {Null}, NEW used
  PROVE  NonZeroBalances(Balance(cut, used), "balance") = Shown(BalanceSet(cut), used \cap Dimensions)
<1>1. Balance(cut, used) = Finalize(BalanceRows(cut), "Whole", used, {"balance"})
  BY DEF Balance, BalanceRows
<1> QED BY <1>1, BalanceTells, FinalizeShows

(* Read at no dimension, a relation is one row.                             *)
LEMMA FinalizeOne ==
  ASSUME NEW rows, NEW columns, Dimensions # {}
  PROVE  Cardinality(Finalize(rows, "Whole", {}, columns)) = 1
<1> DEFINE coarse == {[key |-> Restrict(r.key, {}), sum |-> r.sum, of |-> r.key] : r \in rows}
           answer == Finalize(rows, "Whole", {}, columns)
<1>1. SplitFields("Whole") = {}
  BY NamesAssumption DEF SplitFields
<1>2. answer = IF rows = {}
               THEN {[key |-> [f \in {} |-> Null], sum |-> [c \in columns |-> Null]]}
               ELSE GroupBy(coarse, columns)
  BY <1>1 DEF Finalize
<1>3. \E x : answer = {x}
  <2>1. CASE rows = {}
    BY <1>2, <2>1
  <2>2. CASE rows # {}
    <3>1. answer = GroupBy(coarse, columns)
      BY <1>2, <2>2
    <3>2. \A s \in coarse : s.key = Restrict(s.of, {})
      OBVIOUS
    <3>3. \A s, t \in coarse : s.key = t.key
      BY <3>2 DEF Restrict
    <3>4. PICK s \in coarse : TRUE
      BY <2>2
    <3> HIDE DEF coarse, answer
    <3>5. PICK x \in answer : x.key = s.key
      BY <3>1, <3>4, GroupByRows
    <3>6. \A y \in answer : y = x
      BY <3>1, <3>3, <3>5, GroupByRows
    <3> QED BY <3>5, <3>6
  <2> QED BY <2>1, <2>2
<1> QED BY <1>3, FS_Singleton

\* Остатки answers the sums of the movements, whatever its cut and whatever
\* dimensions it is read by.
LEMMA BalancesOfMovements == ASSUME TypeOK, InvFinite PROVE BalanceOfMovements
<1> SUFFICES ASSUME NEW used \in SUBSET Dimensions, NEW cut \in Cuts \cup {Null}
             PROVE  LET set == IF cut = Null THEN Active ELSE OrderedBefore(cut) IN
                    /\ NonZeroBalances(Balance(cut, used), "balance") = Shown(set, used)
                    /\ used = Dimensions => \A r \in Balance(cut, used) : r.sum.balance # 0
                    /\ used = {} /\ Dimensions # {} => Cardinality(Balance(cut, used)) = 1
  BY DEF BalanceOfMovements, Shown
<1>1. cut \in CutPoint \cup {Null}
  BY CutsAssumption
<1>2. (IF cut = Null THEN Active ELSE OrderedBefore(cut)) = BalanceSet(cut)
  BY <1>1, OrderIsBefore DEF BalanceSet
<1>3. used \cap Dimensions = used
  OBVIOUS
<1>4. NonZeroBalances(Balance(cut, used), "balance") = Shown(BalanceSet(cut), used)
  BY <1>1, <1>3, BalanceShows
<1>5. Balance(cut, used) = Finalize(BalanceRows(cut), "Whole", used, {"balance"})
  BY DEF Balance, BalanceRows
<1>6. used = Dimensions => \A r \in Balance(cut, used) : r.sum["balance"] # 0
  <2>1. used = Dimensions => Balance(cut, used) = BalanceRows(cut)
    BY <1>5 DEF Finalize
  <2> QED BY <1>1, <2>1, BalanceTells
<1>7. used = {} /\ Dimensions # {} => Cardinality(Balance(cut, used)) = 1
  BY <1>5, FinalizeOne
<1> QED BY <1>2, <1>4, <1>6, <1>7

-----------------------------------------------------------------------------
(* ОстаткиИОбороты without a split.                                         *)

\* It opens with the movements before the interval and closes with those
\* before its end.
LEMMA WholeTells ==
  ASSUME TypeOK, InvFinite, NEW q, q.periodicity = "Whole",
         q.begin \in Int, q.end \in Int, q.begin <= q.end
  PROVE  /\ Tells(PlainRows(q), "opening", {m \in Active : m.period < q.begin})
         /\ Tells(PlainRows(q), "closing", {m \in Active : m.period < q.end})
<1> DEFINE read == {m \in Active : m.period < q.end}
           before == {m \in Active : m.period < q.begin}
           value(m) ==
             [c \in Columns |->
                CASE c \in Flows   -> IF Inside(m, q) THEN Flow(m)[c] ELSE 0
                  [] c = "opening" -> IF Inside(m, q) THEN 0 ELSE Signed(m)
                  [] c = "closing" -> Signed(m)]
           row(m) == [key |-> [f \in Dimensions |-> Field(m, f)], sum |-> value(m), of |-> m]
           rows == {row(m) : m \in read}
           h == [m \in read |-> row(m)]
<1>1. PlainRows(q) = GroupBy(rows, Columns)
  <2>1. SplitFields("Whole") = {}
    BY NamesAssumption DEF SplitFields
  <2>2. {m \in Active : m.period < q.end /\ (q.periodicity \notin {"Whole", "Auto"} => Inside(m, q))} = read
    OBVIOUS
  <2>3. Dimensions \cup SplitFields(q.periodicity) = Dimensions
    BY <2>1
  <2> QED BY <2>2, <2>3, Zenon DEF PlainRows
<1>2. read \in SUBSET movements /\ before \in SUBSET read
  <2>1. \A m \in Active : m \in movements /\ m.period \in Int
    BY MovementType, MomentsAssumption DEF Active
  <2> QED BY <2>1
<1>3. ASSUME NEW m \in read PROVE [f \in Dimensions |-> Field(m, f)] = m.dims
  <2>1. \A f \in Dimensions : Field(m, f) = m.dims[f]
    BY NamesAssumption DEF Field
  <2>2. m.dims \in [Dimensions -> STRING]
    BY <1>2, MovementType
  <2> QED BY <2>1, <2>2
<1>4. ASSUME NEW m \in read
      PROVE  /\ value(m)["opening"] = IF m \in before THEN Signed(m) ELSE 0
             /\ value(m)["closing"] = Signed(m)
  <2>1. Inside(m, q) <=> m \notin before
    <3>1. m.period \in Int /\ m \in Active
      BY <1>2, MovementType, MomentsAssumption
    <3> QED BY <3>1 DEF Inside
  <2>2. /\ value(m)["opening"] = IF Inside(m, q) THEN 0 ELSE Signed(m)
        /\ value(m)["closing"] = Signed(m)
    BY DEF Columns, Flows
  <2> QED BY <2>1, <2>2
<1>5. \A m \in read : /\ h[m] \in rows /\ h[m].key = m.dims
                      /\ h[m].sum = value(m) /\ h[m].of = m
  BY <1>3
<1>6. \A r \in rows : \E m \in read : r = h[m]
  OBVIOUS
<1>7. "opening" \in Columns /\ "closing" \in Columns
  BY DEF Columns
<1> HIDE DEF h, rows, row, value
<1>8. \A m, n \in read : h[m] = h[n] => m = n
  BY <1>5
<1>9. Tells(GroupBy(rows, Columns), "opening", before)
  <2>1. \A m \in before : h[m].sum["opening"] = Signed(m)
    BY <1>2, <1>4, <1>5
  <2>2. \A m \in read \ before : h[m].sum["opening"] = 0
    BY <1>4, <1>5
  <2> HIDE DEF read, before
  <2>3. \A m \in read : h[m] \in rows /\ h[m].key = m.dims
    BY <1>5
  <2>4. read \in SUBSET movements /\ before \in SUBSET read
    BY <1>2
  <2> QED BY <2>4, <1>6, <1>7, <1>8, <2>1, <2>2, <2>3, GroupByTells
<1>10. Tells(GroupBy(rows, Columns), "closing", read)
  <2>1. \A m \in read : h[m].sum["closing"] = Signed(m)
    BY <1>4, <1>5
  <2> HIDE DEF read, before
  <2>2. read \in SUBSET read /\ \A m \in read \ read : h[m].sum["closing"] = 0
    OBVIOUS
  <2>3. \A m \in read : h[m] \in rows /\ h[m].key = m.dims
    BY <1>5
  <2> QED BY <1>2, <1>6, <1>7, <1>8, <2>1, <2>2, <2>3, GroupByTells
<1> QED BY <1>1, <1>9, <1>10

\* The balances of the two tables are the same.
LEMMA TablesAgree == ASSUME TypeOK, InvFinite PROVE BalancesAgree
<1> DEFINE at(t) == [date |-> t, recorder |-> WholeMoment, including |-> FALSE]
           rows(begin, end, used) ==
             BalanceAndTurnovers([begin |-> begin, end |-> end, periodicity |-> "Whole",
                                  used |-> used \cup {"balance"}])
<1> SUFFICES ASSUME NEW used \in SUBSET Dimensions, NEW begin \in 0 .. LastMoment,
                    NEW end \in 0 .. LastMoment, begin <= end
             PROVE  /\ NonZeroBalances(rows(begin, end, used), "opening")
                         = NonZeroBalances(Balance(at(begin), used), "balance")
                    /\ NonZeroBalances(rows(begin, end, used), "closing")
                         = NonZeroBalances(Balance(at(end), used), "balance")
  BY DEF BalancesAgree
<1> DEFINE q == [begin |-> begin, end |-> end, periodicity |-> "Whole",
                 used |-> used \cup {"balance"}]
           Until(t) == {m \in Active : m.period < t}
<1>1. /\ q.begin = begin /\ q.end = end /\ q.periodicity = "Whole"
      /\ q.used = used \cup {"balance"} /\ begin \in Int /\ end \in Int
  BY MomentsAssumption
<1>2. rows(begin, end, used) = Finalize(PlainRows(q), "Whole", q.used, Columns)
  <2>1. Grain(q) = "Whole"
    BY <1>1 DEF Grain
  <2> HIDE DEF q
  <2>2. BalanceAndTurnovers(q) = Finalize(PlainRows(q), q.periodicity, q.used, Columns)
    BY <2>1 DEF BalanceAndTurnovers
  <2>3. q.periodicity = "Whole"
    BY <1>1
  <2> QED BY <2>2, <2>3 DEF q
<1>3. q.used \cap Dimensions = used
  BY <1>1, NamesAssumption
<1>4. \A t \in 0 .. LastMoment : Until(t) \in SUBSET movements
  BY DEF Active
<1>5. ASSUME NEW t \in 0 .. LastMoment
      PROVE  NonZeroBalances(Balance(at(t), used), "balance") = Shown(Until(t), used)
  <2>1. at(t) \in CutPoint
    BY DEF CutPoint, WholeMoment
  <2>2. at(t) # Null
    BY <2>1, NullAssumption
  <2>3. BalanceSet(at(t)) = Until(t)
    BY <2>2 DEF BalanceSet, BeforeCut, Before
  <2>4. used \cap Dimensions = used
    OBVIOUS
  <2> HIDE DEF at, Until
  <2> QED BY <2>1, <2>3, <2>4, BalanceShows
<1>6. Tells(PlainRows(q), "opening", Until(begin)) /\ Tells(PlainRows(q), "closing", Until(end))
  <2> HIDE DEF q
  <2> QED BY <1>1, WholeTells
<1>7. "opening" \in Columns /\ "closing" \in Columns
  BY DEF Columns
<1>8. /\ NonZeroBalances(rows(begin, end, used), "opening") = Shown(Until(begin), used)
      /\ NonZeroBalances(rows(begin, end, used), "closing") = Shown(Until(end), used)
  <2> HIDE DEF q, Until, rows
  <2> QED BY <1>2, <1>3, <1>4, <1>6, <1>7, FinalizeShows
<1> QED BY <1>5, <1>8

\* Остатки and ОстаткиИОбороты tell the balance the movements have, for any
\* register, totals, cut and choice of dimensions.
THEOREM BalancesAlwaysHold == Spec => []BalancesHold
<1>1. TypeOK /\ InvFinite => BalancesHold
  BY BalancesOfMovements, TablesAgree DEF BalancesHold
<1> QED
  BY <1>1, RegisterTypeCorrect, RegisterFinite, PTL

-----------------------------------------------------------------------------
(* Relations grouped by a key of the movements.                             *)

\* A flow of a movement, and the movements of a set that have a key.
Values(c) == [m \in movements |-> Flow(m)[c]]
Mine(set, K, k) == {m \in set : K[m] = k}

\* One row per key the movements of the set have, with the sums of its flows.
Keyed(rows, set, K) ==
  /\ \A r \in rows : \E m \in set : r.key = K[m]
  /\ \A m \in set : \E r \in rows : r.key = K[m]
  /\ \A r, s \in rows : r.key = s.key => r = s
Summed(rows, set, K) ==
  \A r \in rows : \A c \in Flows :
     r.sum[c] = SumFunctionOnSet(Values(c), Mine(set, K, r.key))
Sums(rows, set, K) ==
  IsFiniteSet(rows) /\ Keyed(rows, set, K) /\ Summed(rows, set, K)

LEMMA FlowType ==
  ASSUME TypeOK, NEW m \in movements, NEW c \in Flows
  PROVE  Values(c)[m] = Flow(m)[c] /\ Flow(m)[c] \in Int
BY DEF TypeOK, Movement, Signed, Values, Flow, Flows

(* The sum of a flow over rows is the sum over the movements of their keys. *)
LEMMA SumOverRows ==
  ASSUME TypeOK, InvFinite, NEW rows, NEW set \in SUBSET movements, NEW K,
         Sums(rows, set, K), NEW c \in Flows, NEW T \in SUBSET rows, NEW S \in SUBSET set,
         \A m \in set : m \in S <=> \E r \in T : r.key = K[m]
  PROVE  SumFunctionOnSet(Column(rows, c), T) = SumFunctionOnSet(Values(c), S)
<1> DEFINE h == [m \in S |-> CHOOSE r \in T : r.key = K[m]]
           part == [r \in T |-> Mine(set, K, r.key)]
           f == Values(c)
           g == Column(rows, c)
<1>1. \A m \in S : h[m] \in T /\ h[m].key = K[m]
  <2>1. ASSUME NEW m \in S PROVE h[m] \in T /\ h[m].key = K[m]
    <3>1. \E r \in T : r.key = K[m]
      OBVIOUS
    <3>2. h[m] = CHOOSE r \in T : r.key = K[m]
      OBVIOUS
    <3> HIDE DEF h
    <3> QED BY <3>1, <3>2
  <2> QED BY <2>1
<1>2. \A r \in T : part[r] = Mine(set, K, r.key) /\ g[r] = r.sum[c]
  BY DEF Column
<1>3. IsFiniteSet(T) /\ IsFiniteSet(S)
  BY FS_Subset DEF Sums, InvFinite
<1>4. \A m \in S : f[m] \in Int /\ h[m] \in T
  <2> HIDE DEF h
  <2> QED BY <1>1, FlowType
<1> HIDE DEF h, part, g, f
<1>5. ASSUME NEW r \in T
      PROVE  part[r] \in SUBSET S /\ \A m \in S : m \in part[r] <=> h[m] = r
  <2>1. \A s \in T : s.key = r.key => s = r
    BY DEF Sums, Keyed
  <2>2. \A m \in set : m \in part[r] <=> K[m] = r.key
    BY <1>2 DEF Mine
  <2>3. part[r] \in SUBSET S
    BY <1>2 DEF Mine
  <2> QED BY <1>1, <2>1, <2>2, <2>3
<1>6. part \in [T -> SUBSET S]
  <2>1. part = [r \in T |-> part[r]]
    BY DEF part
  <2> QED BY <1>5, <2>1
<1>7. \A r \in T : g[r] = SumFunctionOnSet(f, part[r])
  BY <1>2 DEF Sums, Summed, f
<1>8. SumFunctionOnSet(g, T) = SumFunctionOnSet(f, S)
  BY <1>3, <1>4, <1>5, <1>6, <1>7, SumByGroups
<1> QED BY <1>8 DEF g, f

(* Movements grouped by a key.                                              *)
LEMMA Grouped ==
  ASSUME TypeOK, InvFinite, NEW set \in SUBSET movements, NEW K, NEW h, NEW rows,
         NEW columns, Flows \subseteq columns,
         \A m \in set : h[m] \in rows /\ h[m].key = K[m],
         \A m \in set : \A c \in Flows : h[m].sum[c] = Values(c)[m],
         \A r \in rows : \E m \in set : r = h[m],
         \A m, n \in set : h[m] = h[n] => m = n
  PROVE  Sums(GroupBy(rows, columns), set, K)
<1> DEFINE answer == GroupBy(rows, columns)
<1>1. IsFiniteSet(set)
  BY FS_Subset DEF InvFinite
<1>2. IsFiniteSet(answer)
  BY <1>1, GroupByFinite
<1>3. /\ \A r \in answer : \E s \in rows : r.key = s.key
      /\ \A r \in answer : \A c \in columns :
            r.sum[c] = SumFunctionOnSet(Column(rows, c), Group(rows, r.key))
      /\ \A s \in rows : \E r \in answer : r.key = s.key
      /\ \A r, s \in answer : r.key = s.key => r = s
  BY GroupByRows
<1> HIDE DEF answer
<1>4. Keyed(answer, set, K)
  BY <1>3 DEF Keyed
<1>5. ASSUME NEW c \in Flows, NEW k
      PROVE  SumFunctionOnSet(Column(rows, c), Group(rows, k)) = SumFunctionOnSet(Values(c), Mine(set, K, k))
  <2> DEFINE f == Values(c)
             of == Mine(set, K, k)
  <2>1. of \in SUBSET set /\ \A m \in set : m \in of <=> h[m].key = k
    BY DEF Mine
  <2>2. \A m \in set : f[m] \in Int /\ h[m].sum[c] = f[m] /\ h[m] \in rows
    BY FlowType
  <2> HIDE DEF f, of
  <2>3. SumFunctionOnSet(Column(rows, c), Group(rows, k)) = SumFunctionOnSet(f, of)
    BY <1>1, <2>1, <2>2, GroupSum
  <2> QED BY <2>3 DEF f, of
<1>6. Summed(answer, set, K)
  BY <1>3, <1>5 DEF Summed
<1> QED BY <1>2, <1>4, <1>6 DEF Sums, answer

(* Rows grouped again by a part of their key.                               *)
LEMMA Regrouped ==
  ASSUME TypeOK, InvFinite, NEW set \in SUBSET movements, NEW K, NEW L, NEW rows,
         Sums(rows, set, K), NEW kept, \A m \in set : Restrict(K[m], kept) = L[m],
         NEW columns, Flows \subseteq columns
  PROVE  Sums(GroupBy({[key |-> Restrict(r.key, kept), sum |-> r.sum, of |-> r.key] : r \in rows},
                      columns), set, L)
<1> DEFINE coarse == {[key |-> Restrict(r.key, kept), sum |-> r.sum, of |-> r.key] : r \in rows}
           h == [r \in rows |-> [key |-> Restrict(r.key, kept), sum |-> r.sum, of |-> r.key]]
           answer == GroupBy(coarse, columns)
<1>1. \A r \in rows : /\ h[r] \in coarse /\ h[r].key = Restrict(r.key, kept)
                      /\ h[r].sum = r.sum /\ h[r].of = r.key
  OBVIOUS
<1>2. \A s \in coarse : \E r \in rows : s = h[r]
  OBVIOUS
<1> HIDE DEF coarse, h
<1>3. \A r, s \in rows : h[r] = h[s] => r = s
  BY <1>1 DEF Sums, Keyed
<1>4. IsFiniteSet(rows)
  BY DEF Sums
<1>5. IsFiniteSet(answer)
  BY <1>2, <1>4, GroupByFinite
<1>6. /\ \A r \in answer : \E s \in coarse : r.key = s.key
      /\ \A r \in answer : \A c \in columns :
            r.sum[c] = SumFunctionOnSet(Column(coarse, c), Group(coarse, r.key))
      /\ \A s \in coarse : \E r \in answer : r.key = s.key
      /\ \A r, s \in answer : r.key = s.key => r = s
  BY GroupByRows
<1> HIDE DEF answer
<1>7. \A s \in coarse : \E m \in set : s.key = L[m]
  BY <1>1, <1>2 DEF Sums, Keyed
<1>8. \A m \in set : \E s \in coarse : s.key = L[m]
  BY <1>1 DEF Sums, Keyed
<1>9. Keyed(answer, set, L)
  BY <1>6, <1>7, <1>8 DEF Keyed
<1>10. ASSUME NEW c \in Flows, NEW k
       PROVE  SumFunctionOnSet(Column(coarse, c), Group(coarse, k)) = SumFunctionOnSet(Values(c), Mine(set, L, k))
  <2> DEFINE w == Column(rows, c)
             of == Coarser(rows, kept, k)
             S == Mine(set, L, k)
  <2>1. of \in SUBSET rows /\ \A r \in rows : r \in of <=> h[r].key = k
    BY <1>1 DEF Coarser
  <2>2. S \in SUBSET set /\ \A m \in set : m \in S <=> \E r \in of : r.key = K[m]
    BY DEF Mine, Coarser, Sums, Keyed
  <2>3. \A r \in rows : w[r] = r.sum[c]
    BY DEF Column
  <2>4. \A r \in rows : w[r] \in Int
    <3>1. \A r \in rows : w[r] = SumFunctionOnSet(Values(c), Mine(set, K, r.key))
      BY <2>3 DEF Sums, Summed
    <3>2. ASSUME NEW T \in SUBSET set PROVE SumFunctionOnSet(Values(c), T) \in Int
      <4>1. IsFiniteSet(T) /\ \A m \in T : Values(c)[m] \in Int
        BY FS_Subset, FlowType DEF InvFinite
      <4> QED BY <4>1, SumInt
    <3>3. \A r \in rows : Mine(set, K, r.key) \in SUBSET set
      BY DEF Mine
    <3> QED BY <3>1, <3>2, <3>3
  <2>5. \A r \in rows : h[r] \in coarse /\ h[r].sum[c] = w[r]
    BY <1>1, <2>3
  <2> HIDE DEF w, of, S
  <2>6. SumFunctionOnSet(Column(coarse, c), Group(coarse, k)) = SumFunctionOnSet(w, of)
    BY <1>2, <1>3, <1>4, <2>1, <2>4, <2>5, GroupSum
  <2>7. SumFunctionOnSet(w, of) = SumFunctionOnSet(Values(c), S)
    BY <2>1, <2>2, SumOverRows DEF w
  <2> QED BY <2>6, <2>7 DEF S
<1>11. Summed(answer, set, L)
  BY <1>6, <1>10 DEF Summed
<1> QED BY <1>5, <1>9, <1>11 DEF Sums, answer, coarse

-----------------------------------------------------------------------------
(* What the last step makes of them.                                        *)

\* The dimensions and the split fields a request shows.
Optional(q) == Dimensions \cup (IF q.periodicity = "Auto" THEN AutoFields ELSE {})
Kept(q) ==
  (Optional(q) \cap q.used)
    \cup (IF q.periodicity = "Auto" THEN {} ELSE SplitFields(q.periodicity))

\* The turnovers of rows, and of the movements of a set by a key.
Answer(rows, shown) ==
  {<<Restrict(r.key, shown), [c \in Flows |-> r.sum[c]]>> : r \in rows}
Told(set, L) ==
  {<<L[m], [c \in Flows |-> SumFunctionOnSet(Values(c), Mine(set, L, L[m]))]>> : m \in set}

LEMMA SumsTell ==
  ASSUME NEW set, NEW K, NEW L, NEW rows, Sums(rows, set, K), NEW shown,
         \A m \in set : Restrict(K[m], shown) = L[m],
         \A m, n \in set : L[m] = L[n] => K[m] = K[n]
  PROVE  Answer(rows, shown) = Told(set, L)
<1> DEFINE told(m) == <<L[m], [c \in Flows |-> SumFunctionOnSet(Values(c), Mine(set, L, L[m]))]>>
           row(r) == <<Restrict(r.key, shown), [c \in Flows |-> r.sum[c]]>>
<1>1. ASSUME NEW r \in rows, NEW m \in set, r.key = K[m] PROVE row(r) = told(m)
  <2>1. Restrict(r.key, shown) = L[m]
    BY <1>1
  <2>2. Mine(set, L, L[m]) = Mine(set, K, r.key)
    <3>1. \A n \in set : L[n] = L[m] <=> K[n] = K[m]
      OBVIOUS
    <3> QED BY <1>1, <3>1 DEF Mine
  <2>3. \A c \in Flows : r.sum[c] = SumFunctionOnSet(Values(c), Mine(set, L, L[m]))
    BY <2>2 DEF Sums, Summed
  <2> QED BY <2>1, <2>3
<1>2. \A r \in rows : \E m \in set : r.key = K[m]
  BY DEF Sums, Keyed
<1>3. \A m \in set : \E r \in rows : r.key = K[m]
  BY DEF Sums, Keyed
<1>4. Answer(rows, shown) = {row(r) : r \in rows} /\ Told(set, L) = {told(m) : m \in set}
  BY DEF Answer, Told
<1> HIDE DEF row, told
<1> QED BY <1>1, <1>2, <1>3, <1>4

Finalized(rows, q, columns) == Finalize(rows, q.periodicity, q.used, columns)

\* The answer of a request over a set of movements, told by what it shows of
\* them; the row of nulls where nothing is shown of none.
Answered(q, set, L) ==
  IF Kept(q) = {} /\ set = {} THEN {<<[f \in {} |-> Null], [c \in Flows |-> Null]>>}
  ELSE Told(set, L)

\* What it shows of a key, which is all that counts in the key where nothing
\* is summed away.
Shows(q, set, K, L) ==
  /\ \A m \in set : Restrict(K[m], Kept(q)) = L[m]
  /\ Optional(q) \subseteq q.used =>
       /\ Kept(q) # {}
       /\ \A m, n \in set : L[m] = L[n] => K[m] = K[n]

LEMMA FinalizeTells ==
  ASSUME TypeOK, InvFinite, NEW set \in SUBSET movements, NEW K, NEW L, NEW rows,
         Sums(rows, set, K), NEW q, NEW columns, Flows \subseteq columns,
         Shows(q, set, K, L)
  PROVE  Answer(Finalized(rows, q, columns), Kept(q)) = Answered(q, set, L)
<1> DEFINE answer == Finalized(rows, q, columns)
           coarse == {[key |-> Restrict(r.key, Kept(q)), sum |-> r.sum, of |-> r.key] : r \in rows}
           null == [key |-> [f \in {} |-> Null], sum |-> [c \in columns |-> Null]]
<1>1. answer = IF Optional(q) \subseteq q.used THEN rows
               ELSE IF Kept(q) = {} /\ rows = {} THEN {null}
               ELSE GroupBy(coarse, columns)
  BY DEF Finalized, Finalize, Optional, Kept
<1>2. rows = {} <=> set = {}
  BY DEF Sums, Keyed
<1> HIDE DEF answer, null
<1>3. CASE Optional(q) \subseteq q.used
  <2>1. answer = rows /\ Kept(q) # {}
    BY <1>1, <1>3 DEF Shows
  <2>2. Answer(rows, Kept(q)) = Told(set, L)
    BY <1>3, SumsTell DEF Shows
  <2> QED BY <2>1, <2>2 DEF Answered, answer
<1>4. CASE ~(Optional(q) \subseteq q.used) /\ Kept(q) = {} /\ rows = {}
  <2>1. answer = {null}
    BY <1>1, <1>4
  <2>2. /\ Restrict(null.key, Kept(q)) = [f \in {} |-> Null]
        /\ [c \in Flows |-> null.sum[c]] = [c \in Flows |-> Null]
    BY <1>4 DEF Restrict, null
  <2>3. Answer(answer, Kept(q)) = {<<[f \in {} |-> Null], [c \in Flows |-> Null]>>}
    <3>1. Answer(answer, Kept(q)) = {<<Restrict(null.key, Kept(q)), [c \in Flows |-> null.sum[c]]>>}
      BY <2>1 DEF Answer
    <3> QED BY <2>2, <3>1
  <2> QED BY <1>2, <1>4, <2>3 DEF Answered, answer
<1>5. CASE ~(Optional(q) \subseteq q.used) /\ ~(Kept(q) = {} /\ rows = {})
  <2>1. answer = GroupBy(coarse, columns)
    BY <1>1, <1>5
  <2>2. Sums(answer, set, L)
    BY <2>1, Regrouped DEF Shows
  <2>3. \A m \in set : Restrict(L[m], Kept(q)) = L[m]
    BY DEF Restrict, Shows
  <2>4. Answer(answer, Kept(q)) = Told(set, L)
    BY <2>2, <2>3, SumsTell
  <2> QED BY <1>2, <1>5, <2>4 DEF Answered, answer
<1> QED BY <1>3, <1>4, <1>5

-----------------------------------------------------------------------------
(* Turnovers.                                                               *)

\* What a request shows of a movement.
ShownOf(q) == [m \in movements |-> [f \in Kept(q) |-> Field(m, f)]]
Within(q) == {m \in Active : q.begin <= m.period /\ m.period < q.end}

LEMMA KeptIn ==
  ASSUME NEW q \in Reading
  PROVE  /\ Kept(q) \subseteq Dimensions \cup SplitFields(q.periodicity)
         /\ Optional(q) \subseteq q.used => Kept(q) = Dimensions \cup SplitFields(q.periodicity)
<1>1. q.periodicity = "Auto" => SplitFields(q.periodicity) = AutoFields
  BY NamesAssumption DEF SplitFields
<1> QED BY <1>1 DEF Kept, Optional

LEMMA SplitShows ==
  ASSUME NEW q \in Reading, Grain(q) # "Whole", Optional(q) \subseteq q.used
  PROVE  Kept(q) # {}
<1>1. CASE q.periodicity = "Auto"
  <2>1. "Period" \in Optional(q)
    BY <1>1 DEF Optional, AutoFields
  <2> QED BY <2>1 DEF Kept
<1>2. CASE q.periodicity # "Auto"
  <2>1. q.periodicity \in {"Recorder", "Record"} \cup UnitNames
    BY <1>2 DEF Grain, Reading
  <2>2. SplitFields(q.periodicity) # {}
    BY <2>1, NamesAssumption DEF SplitFields
  <2> QED BY <1>2, <2>2 DEF Kept
<1> QED BY <1>1, <1>2

LEMMA TurnoversTell ==
  ASSUME TypeOK, InvFinite, NEW q \in Reading, Grain(q) # "Whole"
  PROVE  Answer(Turnovers(q), Kept(q)) = Answered(q, Within(q), ShownOf(q))
<1> DEFINE set == Within(q)
           fields == Dimensions \cup SplitFields(q.periodicity)
           key(m) == [f \in fields |-> Field(m, f)]
           h == [m \in movements |-> [key |-> key(m), sum |-> Flow(m), of |-> m]]
           rows == {[key |-> key(m), sum |-> Flow(m), of |-> m] : m \in set}
           K == [m \in movements |-> key(m)]
           L == ShownOf(q)
<1>1. Turnovers(q) = Finalized(GroupBy(rows, Flows), q, Flows)
  BY Zenon DEF Turnovers, Within, Finalized
<1>2. set \in SUBSET movements
  BY DEF Within, Active
<1>3. \A m \in set : /\ h[m] \in rows /\ h[m].key = K[m] /\ h[m].of = m
                      /\ h[m].sum = Flow(m) /\ K[m] = key(m)
  BY <1>2
<1>4. \A r \in rows : \E m \in set : r = h[m]
  BY <1>2
<1>5. \A m \in set : \A c \in Flows : h[m].sum[c] = Values(c)[m]
  BY <1>2, <1>3, FlowType
<1>6. \A m \in set : Restrict(K[m], Kept(q)) = L[m]
  BY <1>2, <1>3, KeptIn DEF Restrict, ShownOf
<1>7. Optional(q) \subseteq q.used => \A m, n \in set : L[m] = L[n] => K[m] = K[n]
  BY <1>2, <1>3, KeptIn DEF ShownOf
<1>8. Optional(q) \subseteq q.used => Kept(q) # {}
  BY SplitShows
<1> HIDE DEF set, h, rows, K, L, key
<1>9. \A m, n \in set : h[m] = h[n] => m = n
  BY <1>3
<1>10. Sums(GroupBy(rows, Flows), set, K)
  <2>1. \A m \in set : h[m] \in rows /\ h[m].key = K[m]
    BY <1>3
  <2>2. set \in SUBSET movements /\ Flows \subseteq Flows
    BY <1>2
  <2> QED BY <1>4, <1>5, <1>9, <2>1, <2>2, Grouped
<1>11. Answer(Finalized(GroupBy(rows, Flows), q, Flows), Kept(q)) = Answered(q, set, L)
  <2>1. Flows \subseteq Flows
    OBVIOUS
  <2>2. Shows(q, set, K, L)
    BY <1>6, <1>7, <1>8 DEF Shows
  <2> DEFINE grouped == GroupBy(rows, Flows)
  <2>3. Sums(grouped, set, K)
    BY <1>10
  <2> HIDE DEF grouped
  <2>4. Answer(Finalized(grouped, q, Flows), Kept(q)) = Answered(q, set, L)
    BY <1>2, <2>1, <2>2, <2>3, FinalizeTells
  <2> QED BY <2>4 DEF grouped
<1> QED BY <1>1, <1>11 DEF set, L

-----------------------------------------------------------------------------
(* The relation with windows.                                               *)

ReadOf(q) == {m \in Active : m.period < q.end}
BucketKey(q) ==
  [m \in movements |-> [f \in BucketFields(q, Grain(q)) |-> BucketField(m, q, Grain(q), f)]]
BucketPeriod(m, q) ==
  IF ~Inside(m, q) THEN 0
  ELSE IF Grain(q) \in UnitNames THEN BeginOf[Grain(q)][m.period]
  ELSE m.period

LEMMA LeastLevel ==
  ASSUME NEW T \in SUBSET DOMAIN Units, T # {}
  PROVE  Min(T) \in T /\ \A i \in T : Min(T) <= i
<1>1. DOMAIN Units \subseteq Nat
  BY UnitsAssumption
<1>2. T \subseteq Nat
  BY <1>1
<1>3. PICK x \in T : \A y \in T : x <= y
  BY <1>2, Smallest
<1>4. Min(T) = CHOOSE z \in T : \A y \in T : z <= y
  BY DEF Min
<1> QED BY <1>3, <1>4

LEMMA GrainNames ==
  ASSUME NEW q \in Reading
  PROVE  Grain(q) \in {"Whole", "Recorder", "Record"} \cup UnitNames
<1>1. CASE q.periodicity = "Auto"
  <2> DEFINE levels == {i \in DOMAIN Units : Units[i] \in q.used}
  <2>1. CASE levels # {}
    <3>1. Min(levels) \in levels
      BY <2>1, LeastLevel
    <3> QED BY <1>1, <3>1 DEF Grain, GrainOf, UnitNames
  <2>2. CASE levels = {}
    BY <1>1, <2>2 DEF Grain, GrainOf
  <2> QED BY <2>1, <2>2
<1>2. CASE q.periodicity # "Auto"
  BY <1>2 DEF Grain, Reading
<1> QED BY <1>1, <1>2

(* The parts of a bucket's key.                                             *)
LEMMA KeyParts ==
  ASSUME NEW q \in Reading, NEW m \in movements
  PROVE  /\ \A d \in Dimensions : BucketKey(q)[m][d] = m.dims[d]
         /\ BucketKey(q)[m]["inside"] = IF Inside(m, q) THEN 1 ELSE 0
         /\ BucketKey(q)[m]["Period"] = BucketPeriod(m, q)
         /\ Grain(q) \in {"Recorder", "Record"} =>
               BucketKey(q)[m]["Recorder"] = IF Inside(m, q) THEN m.recorder ELSE WholeMoment
         /\ Grain(q) = "Record" =>
               BucketKey(q)[m]["LineNo"] = IF Inside(m, q) THEN m.line ELSE 0
         /\ \A u \in UnitNames \cap BucketFields(q, Grain(q)) :
               BucketKey(q)[m][u] = BeginOf[u][BucketPeriod(m, q)]
<1>1. \A f \in BucketFields(q, Grain(q)) : BucketKey(q)[m][f] = BucketField(m, q, Grain(q), f)
  BY DEF BucketKey
<1>2. /\ Dimensions \cup {"Period", "inside"} \subseteq BucketFields(q, Grain(q))
      /\ Grain(q) \in {"Recorder", "Record"} => "Recorder" \in BucketFields(q, Grain(q))
      /\ Grain(q) = "Record" => "LineNo" \in BucketFields(q, Grain(q))
  BY NamesAssumption DEF BucketFields, SplitFields
<1>3. /\ \A d \in Dimensions : BucketField(m, q, Grain(q), d) = m.dims[d]
      /\ BucketField(m, q, Grain(q), "inside") = IF Inside(m, q) THEN 1 ELSE 0
      /\ BucketField(m, q, Grain(q), "Period") = BucketPeriod(m, q)
      /\ BucketField(m, q, Grain(q), "Recorder") = IF Inside(m, q) THEN m.recorder ELSE WholeMoment
      /\ BucketField(m, q, Grain(q), "LineNo") = IF Inside(m, q) THEN m.line ELSE 0
      /\ \A u \in UnitNames : BucketField(m, q, Grain(q), u) = BeginOf[u][BucketPeriod(m, q)]
  BY NamesAssumption DEF BucketField, BucketPeriod
<1> QED BY <1>1, <1>2, <1>3

\* The fields there are.
LEMMA BucketHas ==
  ASSUME NEW q \in Reading, NEW f \in BucketFields(q, Grain(q))
  PROVE  /\ f \in Dimensions \cup UnitNames \cup {"Period", "inside", "Recorder", "LineNo"}
         /\ f = "Recorder" => Grain(q) \in {"Recorder", "Record"}
         /\ f = "LineNo" => Grain(q) = "Record"
<1> DEFINE levels == {Units[i] : i \in {j \in DOMAIN Units :
                        \A k \in DOMAIN Units : Units[k] = Grain(q) => j >= k}}
<1>1. levels \subseteq UnitNames
  BY DEF UnitNames
<1>2. f \in Dimensions \cup {"Period", "inside"} \cup SplitFields(Grain(q)) \cup levels
  BY DEF BucketFields
<1> HIDE DEF levels
<1>3. SplitFields(Grain(q)) =
        CASE Grain(q) = "Whole" -> {}
          [] Grain(q) = "Recorder" -> {"Period", "Recorder"}
          [] Grain(q) = "Record" -> {"Period", "Recorder", "LineNo"}
          [] OTHER -> {Grain(q)}
  BY GrainNames, NamesAssumption DEF SplitFields
<1> QED BY <1>1, <1>2, <1>3, GrainNames, NamesAssumption

(* Movements of an interval are of one bucket when their dimensions and     *)
(* what orders them at the grain are the same.                              *)
LEMMA SameKey ==
  ASSUME TypeOK, NEW q \in Reading, NEW m \in Within(q), NEW n \in Within(q),
         m.dims = n.dims, BucketPeriod(m, q) = BucketPeriod(n, q),
         Grain(q) \in {"Recorder", "Record"} => m.recorder = n.recorder,
         Grain(q) = "Record" => m.line = n.line
  PROVE  BucketKey(q)[m] = BucketKey(q)[n]
<1>1. m \in movements /\ n \in movements /\ Inside(m, q) /\ Inside(n, q)
  BY MovementType, MomentsAssumption DEF Within, Active, Inside, Reading
<1>2. ASSUME NEW f \in BucketFields(q, Grain(q))
      PROVE  BucketKey(q)[m][f] = BucketKey(q)[n][f]
  <2>1. CASE f \in Dimensions
    BY <1>1, <2>1, KeyParts
  <2>2. CASE f \in UnitNames
    BY <1>1, <2>2, KeyParts
  <2>3. CASE f \in {"Period", "inside"}
    BY <1>1, <2>3, KeyParts
  <2>4. CASE f \in {"Recorder", "LineNo"}
    BY <1>1, <2>4, KeyParts, BucketHas
  <2> QED BY <2>1, <2>2, <2>3, <2>4, BucketHas
<1>3. /\ BucketKey(q)[m] = [f \in BucketFields(q, Grain(q)) |-> BucketKey(q)[m][f]]
      /\ BucketKey(q)[n] = [f \in BucketFields(q, Grain(q)) |-> BucketKey(q)[n][f]]
  BY <1>1 DEF BucketKey
<1> QED BY <1>2, <1>3

(* The buckets, and the rows that windows make of them.                     *)
Buckets(q) ==
  GroupBy({[key |-> [f \in BucketFields(q, Grain(q)) |-> BucketField(m, q, Grain(q), f)],
            sum |-> Flow(m), of |-> m] : m \in ReadOf(q)}, Flows)
Precedes(q, k, l) ==
  (\A d \in Dimensions : k[d] = l[d]) /\ LexLess(Position(k, Grain(q)), Position(l, Grain(q)))
Earlier(q, b) == {e \in Buckets(q) : Precedes(q, e.key, b.key)}
Opening(q, b) == SumFunction([e \in Earlier(q, b) |-> e.sum.turnover])
Windowed(q, b) ==
  [key |-> b.key,
   sum |-> [c \in Columns |->
              CASE c \in Flows   -> b.sum[c]
                [] c = "opening" -> Opening(q, b)
                [] c = "closing" -> Opening(q, b) + b.sum.turnover]]

LEMMA WindowedIs ==
  ASSUME NEW q
  PROVE  WindowedRows(q, Grain(q)) = {Windowed(q, b) : b \in {e \in Buckets(q) : e.key.inside = 1}}
BY Zenon DEF WindowedRows, Windowed, Opening, Earlier, Precedes, Buckets, ReadOf

LEMMA BucketsSum ==
  ASSUME TypeOK, InvFinite, NEW q \in Reading
  PROVE  Sums(Buckets(q), ReadOf(q), BucketKey(q))
<1> DEFINE set == ReadOf(q)
           K == BucketKey(q)
           key(m) == [f \in BucketFields(q, Grain(q)) |-> BucketField(m, q, Grain(q), f)]
           h == [m \in movements |-> [key |-> key(m), sum |-> Flow(m), of |-> m]]
           rows == {[key |-> key(m), sum |-> Flow(m), of |-> m] : m \in set}
<1>1. Buckets(q) = GroupBy(rows, Flows)
  BY Zenon DEF Buckets
<1>2. set \in SUBSET movements
  BY DEF ReadOf, Active
<1>3. \A m \in set : K[m] = key(m)
  BY <1>2 DEF BucketKey
<1>4. \A m \in set : h[m] \in rows /\ h[m].key = key(m) /\ h[m].of = m /\ h[m].sum = Flow(m)
  BY <1>2
<1>5. \A r \in rows : \E m \in set : r = h[m]
  BY <1>2
<1>6. \A m \in set : \A c \in Flows : h[m].sum[c] = Values(c)[m]
  BY <1>2, <1>4, FlowType
<1> HIDE DEF set, h, rows, K, key
<1>7. \A m \in set : h[m] \in rows /\ h[m].key = K[m]
  BY <1>3, <1>4
<1>8. \A m, n \in set : h[m] = h[n] => m = n
  BY <1>4
<1>9. Flows \subseteq Flows
  OBVIOUS
<1>10. Sums(GroupBy(rows, Flows), set, K)
  BY <1>2, <1>5, <1>6, <1>7, <1>8, <1>9, Grouped
<1> QED BY <1>1, <1>10 DEF set, K

LEMMA WindowedSums ==
  ASSUME TypeOK, InvFinite, NEW q \in Reading
  PROVE  Sums(WindowedRows(q, Grain(q)), Within(q), BucketKey(q))
<1> DEFINE rows == WindowedRows(q, Grain(q))
           inner == {b \in Buckets(q) : b.key.inside = 1}
           K == BucketKey(q)
           w == [b \in inner |-> Windowed(q, b)]
<1>1. Sums(Buckets(q), ReadOf(q), K)
  BY BucketsSum
<1>2. rows = {w[b] : b \in inner}
  BY WindowedIs
<1>3. \A b \in inner : /\ w[b].key = b.key
                        /\ \A c \in Flows : w[b].sum[c] = b.sum[c]
  <2>1. ASSUME NEW b \in inner, NEW c \in Flows PROVE w[b].sum[c] = b.sum[c]
    <3>1. c \in Columns /\ w[b] = Windowed(q, b)
      BY DEF Columns
    <3>2. Windowed(q, b).sum[c] = b.sum[c]
      <4>1. c \notin {"opening", "closing"}
        BY DEF Flows
      <4> QED BY <3>1, <4>1 DEF Windowed
    <3> QED BY <3>1, <3>2
  <2>2. \A b \in inner : w[b].key = b.key
    BY DEF Windowed
  <2> QED BY <2>1, <2>2
<1>4. IsFiniteSet(inner)
  BY <1>1, FS_Subset DEF Sums
<1>5. \A m \in ReadOf(q) : m \in Within(q) <=> K[m]["inside"] = 1
  <2>1. ASSUME NEW m \in ReadOf(q) PROVE m \in Within(q) <=> K[m]["inside"] = 1
    <3>1. m \in movements /\ m \in Active /\ m.period \in Int /\ q.begin \in Int /\ m.period < q.end
      BY MovementType, MomentsAssumption DEF ReadOf, Active, Reading, Far
    <3>2. K[m]["inside"] = IF Inside(m, q) THEN 1 ELSE 0
      BY <3>1, KeyParts
    <3> QED BY <3>1, <3>2 DEF Within, Inside
  <2> QED BY <2>1
<1>6. Within(q) \in SUBSET ReadOf(q)
  BY DEF Within, ReadOf
<1>7. \A b \in inner : b \in Buckets(q) /\ b.key["inside"] = 1
  OBVIOUS
<1>8. \A b \in Buckets(q) : b.key["inside"] = 1 => b \in inner
  OBVIOUS
<1> HIDE DEF inner, w, K, rows
<1>9. IsFiniteSet(rows)
  BY <1>2, <1>4, ImageFinite
<1>10. Keyed(rows, Within(q), K)
  <2>1. \A b \in inner : \E m \in Within(q) : b.key = K[m]
    BY <1>1, <1>5, <1>7 DEF Sums, Keyed
  <2>2. \A m \in Within(q) : \E b \in inner : b.key = K[m]
    BY <1>1, <1>5, <1>6, <1>8 DEF Sums, Keyed
  <2>3. \A a, b \in inner : a.key = b.key => a = b
    BY <1>1, <1>7 DEF Sums, Keyed
  <2> QED BY <1>2, <1>3, <2>1, <2>2, <2>3 DEF Keyed
<1>11. ASSUME NEW b \in inner PROVE Mine(ReadOf(q), K, b.key) = Mine(Within(q), K, b.key)
  BY <1>5, <1>6, <1>7 DEF Mine
<1>12. Summed(rows, Within(q), K)
  <2>1. \A b \in inner : \A c \in Flows :
           b.sum[c] = SumFunctionOnSet(Values(c), Mine(ReadOf(q), K, b.key))
    BY <1>1, <1>7 DEF Sums, Summed
  <2> QED BY <1>2, <1>3, <1>11, <2>1 DEF Summed
<1> QED BY <1>9, <1>10, <1>12 DEF Sums, rows, K

(* The fields a request keeps are those of its grain.                       *)
LEMMA GrainOfFields ==
  ASSUME NEW q \in Reading, q.periodicity = "Auto"
  PROVE  /\ "LineNo" \in q.used => Grain(q) = "Record"
         /\ {"Recorder", "Period"} \cap q.used # {} => Grain(q) \in {"Recorder", "Record"}
         /\ \A i \in DOMAIN Units :
              Units[i] \in q.used => \A k \in DOMAIN Units : Units[k] = Grain(q) => i >= k
         /\ Grain(q) \in UnitNames => Grain(q) \in q.used
<1> DEFINE levels == {i \in DOMAIN Units : Units[i] \in q.used}
<1>1. Grain(q) = IF "LineNo" \in q.used THEN "Record"
                 ELSE IF {"Recorder", "Period"} \cap q.used # {} THEN "Recorder"
                 ELSE IF levels # {} THEN Units[Min(levels)] ELSE "Whole"
  BY DEF Grain, GrainOf
<1>2. levels # {} => Min(levels) \in levels /\ \A i \in levels : Min(levels) <= i
  BY LeastLevel
<1>3. \A i \in DOMAIN Units : Units[i] \in UnitNames
  BY DEF UnitNames
<1>4. \A i, j \in DOMAIN Units : Units[i] = Units[j] => i = j
  BY UnitsAssumption
<1>5. "Record" \notin UnitNames /\ "Recorder" \notin UnitNames /\ "Whole" \notin UnitNames
  BY NamesAssumption
<1>6. \A i \in levels : i \in DOMAIN Units /\ Units[i] \in q.used
  OBVIOUS
<1>7. \A i \in DOMAIN Units : Units[i] \in q.used => i \in levels
  OBVIOUS
<1>8. \A i \in DOMAIN Units : i \in Nat
  BY UnitsAssumption
<1> HIDE DEF levels
<1>9. ASSUME NEW i \in DOMAIN Units, Units[i] \in q.used,
             NEW k \in DOMAIN Units, Units[k] = Grain(q)
      PROVE  i >= k
  <2>1. i \in levels /\ Grain(q) \in UnitNames
    BY <1>3, <1>7, <1>9
  <2>2. Grain(q) = Units[Min(levels)]
    BY <1>1, <1>5, <2>1
  <2>3. k = Min(levels)
    BY <1>2, <1>4, <1>6, <1>9, <2>1, <2>2
  <2> QED BY <1>2, <1>6, <1>8, <2>1, <2>3
<1>10. Grain(q) \in UnitNames => Grain(q) \in q.used
  BY <1>1, <1>2, <1>5, <1>6
<1> QED BY <1>1, <1>9, <1>10

LEMMA KeptFields ==
  ASSUME NEW q \in Reading, Grain(q) # "Whole", NEW f \in Kept(q)
  PROVE  /\ f \in Dimensions \cup UnitNames \cup {"Period", "Recorder", "LineNo"}
         /\ f \in {"Period", "Recorder"} => Grain(q) \in {"Recorder", "Record"}
         /\ f = "LineNo" => Grain(q) = "Record"
         /\ f \in UnitNames => f = Grain(q) \/ f \in q.used
         /\ f \in BucketFields(q, Grain(q))
<1>1. CASE q.periodicity = "Auto"
  <2>1. f \in (Dimensions \cup AutoFields) /\ f \in q.used
    BY <1>1 DEF Kept, Optional
  <2>2. f \in Dimensions \cup UnitNames \cup {"Period", "Recorder", "LineNo"}
    BY <2>1 DEF AutoFields
  <2>3. /\ f \in {"Period", "Recorder"} => Grain(q) \in {"Recorder", "Record"}
        /\ f = "LineNo" => Grain(q) = "Record"
    BY <1>1, <2>1, GrainOfFields
  <2>4. CASE f \in UnitNames
    <3>1. PICK i \in DOMAIN Units : f = Units[i]
      BY <2>4 DEF UnitNames
    <3>2. \A k \in DOMAIN Units : Units[k] = Grain(q) => i >= k
      BY <1>1, <2>1, <3>1, GrainOfFields
    <3>3. f \in BucketFields(q, Grain(q))
      BY <1>1, <3>1, <3>2 DEF BucketFields
    <3> QED BY <2>1, <2>2, <2>3, <2>4, <3>3
  <2>5. CASE f \notin UnitNames
    <3>1. CASE f = "Period" \/ f \in Dimensions
      BY <2>1, <2>2, <2>3, <2>5, <3>1 DEF BucketFields
    <3>2. CASE f \in {"Recorder", "LineNo"}
      <4>1. f \in SplitFields(Grain(q))
        BY <2>3, <3>2, NamesAssumption DEF SplitFields
      <4>2. f \in BucketFields(q, Grain(q))
        BY <4>1 DEF BucketFields
      <4> QED BY <2>1, <2>2, <2>3, <2>5, <4>2
    <3> QED BY <2>2, <2>5, <3>1, <3>2
  <2> QED BY <2>4, <2>5
<1>2. CASE q.periodicity # "Auto"
  <2>1. Grain(q) = q.periodicity /\ Grain(q) \in {"Recorder", "Record"} \cup UnitNames
    BY <1>2, GrainNames DEF Grain
  <2>2. f \in Dimensions \cup SplitFields(Grain(q))
    BY <1>2, <2>1, KeptIn
  <2>3. f \in BucketFields(q, Grain(q))
    BY <2>2 DEF BucketFields
  <2>4. CASE Grain(q) \in UnitNames
    <3>1. SplitFields(Grain(q)) = {Grain(q)}
      BY <2>4, NamesAssumption DEF SplitFields
    <3> QED BY <2>2, <2>3, <2>4, <3>1, NamesAssumption
  <2>5. CASE Grain(q) \in {"Recorder", "Record"}
    <3>1. /\ SplitFields(Grain(q)) \subseteq {"Period", "Recorder", "LineNo"}
          /\ "LineNo" \in SplitFields(Grain(q)) => Grain(q) = "Record"
      BY <2>5, NamesAssumption DEF SplitFields
    <3> QED BY <2>2, <2>3, <2>5, <3>1, NamesAssumption
  <2> QED BY <2>1, <2>4, <2>5
<1> QED BY <1>1, <1>2

LEMMA FieldIs ==
  ASSUME NEW m
  PROVE  /\ \A d \in Dimensions : Field(m, d) = m.dims[d]
         /\ Field(m, "Period") = m.period
         /\ Field(m, "Recorder") = m.recorder
         /\ Field(m, "LineNo") = m.line
         /\ \A u \in UnitNames : Field(m, u) = BeginOf[u][m.period]
<1>1. /\ \A d \in Dimensions : d \notin UnitNames /\ d \notin {"Period", "Recorder", "LineNo"}
      /\ \A u \in UnitNames : u \notin {"Period", "Recorder", "LineNo"}
      /\ \A f \in {"Period", "Recorder", "LineNo"} : f \notin Dimensions
  BY NamesAssumption
<1>2. \A d \in Dimensions : Field(m, d) = m.dims[d]
  BY <1>1 DEF Field
<1>3. \A u \in UnitNames : Field(m, u) = BeginOf[u][m.period]
  BY <1>1 DEF Field
<1>4. /\ Field(m, "Period") = m.period /\ Field(m, "Recorder") = m.recorder
      /\ Field(m, "LineNo") = m.line
  BY <1>1 DEF Field
<1> QED BY <1>2, <1>3, <1>4

\* A bucket's key shows of its movements what a request keeps.
LEMMA KeysShow ==
  ASSUME TypeOK, NEW q \in Reading, Grain(q) # "Whole", LevelsNest(q)
  PROVE  Shows(q, Within(q), BucketKey(q), ShownOf(q))
<1> DEFINE K == BucketKey(q)
           L == ShownOf(q)
<1>1. ASSUME NEW m \in Within(q)
      PROVE  /\ m \in movements /\ Inside(m, q) /\ m.period \in 0 .. LastMoment
             /\ BucketPeriod(m, q) = IF Grain(q) \in UnitNames THEN BeginOf[Grain(q)][m.period]
                                     ELSE m.period
  BY MovementType, MomentsAssumption DEF Within, Active, Inside, Reading, BucketPeriod
<1>2. ASSUME NEW m \in Within(q), NEW f \in Kept(q) PROVE K[m][f] = Field(m, f)
  <2>1. CASE f \in Dimensions
    BY <1>1, <2>1, KeyParts, FieldIs
  <2>2. CASE f \in UnitNames
    <3>1. f \notin Dimensions /\ f \notin {"Period", "Recorder", "LineNo"}
      BY <2>2, NamesAssumption
    <3>2. K[m][f] = BeginOf[f][BucketPeriod(m, q)]
      BY <1>1, <2>2, KeptFields, KeyParts
    <3>3. BeginOf[f][BucketPeriod(m, q)] = BeginOf[f][m.period]
      <4>1. CASE Grain(q) \in UnitNames /\ f = Grain(q)
        BY <1>1, <4>1, CalendarAssumption
      <4>2. CASE Grain(q) \in UnitNames /\ f # Grain(q)
        BY <1>1, <2>2, <4>2, KeptFields DEF LevelsNest
      <4>3. CASE Grain(q) \notin UnitNames
        BY <1>1, <4>3
      <4> QED BY <4>1, <4>2, <4>3
    <3> QED BY <2>2, <3>2, <3>3, FieldIs
  <2>3. CASE f \in {"Period", "Recorder", "LineNo"}
    <3>1. f \notin Dimensions /\ f \notin UnitNames
      BY <2>3, NamesAssumption
    <3>2. Grain(q) \in {"Recorder", "Record"} /\ Grain(q) \notin UnitNames
      BY <2>3, KeptFields, NamesAssumption
    <3>3. CASE f = "Period"
      BY <1>1, <3>2, <3>3, KeyParts, FieldIs
    <3>4. CASE f = "Recorder"
      BY <1>1, <3>2, <3>4, KeyParts, FieldIs
    <3>5. CASE f = "LineNo"
      <4>1. Grain(q) = "Record"
        BY <3>5, KeptFields
      <4> QED BY <1>1, <3>5, <4>1, KeyParts, FieldIs
    <3> QED BY <2>3, <3>3, <3>4, <3>5
  <2> QED BY <2>1, <2>2, <2>3, KeptFields
<1>3. ASSUME NEW m \in Within(q)
      PROVE  Restrict(K[m], Kept(q)) = L[m] /\ \A f \in Kept(q) : L[m][f] = Field(m, f)
  <2>1. L[m] = [f \in Kept(q) |-> Field(m, f)]
    BY <1>1 DEF ShownOf
  <2>2. Restrict(K[m], Kept(q)) = [f \in Kept(q) |-> K[m][f]]
    BY DEF Restrict
  <2> HIDE DEF K, L
  <2> QED BY <1>2, <2>1, <2>2
<1>4. ASSUME Optional(q) \subseteq q.used, NEW m \in Within(q), NEW n \in Within(q), L[m] = L[n]
      PROVE  K[m] = K[n]
  <2>1. Kept(q) = Dimensions \cup SplitFields(q.periodicity)
    BY <1>4, KeptIn
  <2>2. \A f \in Kept(q) : Field(m, f) = Field(n, f)
    BY <1>3, <1>4
  <2>3. m.dims = n.dims
    <3>1. \A d \in Dimensions : m.dims[d] = n.dims[d]
      BY <2>1, <2>2, FieldIs
    <3>2. m.dims \in [Dimensions -> STRING] /\ n.dims \in [Dimensions -> STRING]
      BY <1>1, MovementType
    <3> QED BY <3>1, <3>2
  <2>4. SplitFields(Grain(q)) \subseteq Kept(q)
    <3>1. CASE q.periodicity = "Auto"
      <4>1. "LineNo" \in q.used /\ SplitFields(q.periodicity) = AutoFields
        BY <1>4, <3>1, NamesAssumption DEF Optional, AutoFields, SplitFields
      <4>2. Grain(q) = "Record"
        BY <3>1, <4>1, GrainOfFields
      <4> QED BY <2>1, <4>1, <4>2, NamesAssumption DEF SplitFields, AutoFields
    <3>2. CASE q.periodicity # "Auto"
      BY <2>1, <3>2 DEF Grain
    <3> QED BY <3>1, <3>2
  <2>5. CASE Grain(q) \in UnitNames
    <3>1. Field(m, Grain(q)) = Field(n, Grain(q))
      BY <2>2, <2>4, <2>5, NamesAssumption DEF SplitFields
    <3>2. \A x \in movements : Field(x, Grain(q)) = BeginOf[Grain(q)][x.period]
      BY <2>5, FieldIs
    <3>3. BucketPeriod(m, q) = BucketPeriod(n, q) /\ Grain(q) \notin {"Recorder", "Record"}
      BY <1>1, <2>5, <3>1, <3>2, NamesAssumption
    <3> QED BY <2>3, <3>3, SameKey
  <2>6. CASE Grain(q) \in {"Recorder", "Record"}
    <3>1. /\ {"Period", "Recorder"} \subseteq Kept(q)
          /\ Grain(q) = "Record" => "LineNo" \in Kept(q)
      BY <2>4, <2>6, NamesAssumption DEF SplitFields
    <3>3. m.period = n.period /\ m.recorder = n.recorder
      <4>1. "Period" \in Kept(q) /\ "Recorder" \in Kept(q)
        BY <3>1
      <4>2. Field(m, "Period") = Field(n, "Period") /\ Field(m, "Recorder") = Field(n, "Recorder")
        BY <2>2, <4>1
      <4> QED BY <4>2, FieldIs
    <3>5. Grain(q) = "Record" => m.line = n.line
      <4>1. Grain(q) = "Record" => Field(m, "LineNo") = Field(n, "LineNo")
        BY <2>2, <3>1
      <4> QED BY <4>1, FieldIs
    <3>4. BucketPeriod(m, q) = BucketPeriod(n, q)
      BY <1>1, <3>3
    <3> QED BY <2>3, <3>3, <3>4, <3>5, SameKey
  <2> QED BY <2>5, <2>6, GrainNames
<1>5. Optional(q) \subseteq q.used => Kept(q) # {}
  BY SplitShows
<1> QED BY <1>3, <1>4, <1>5 DEF Shows

\* The two tables answer the same rows with the same turnovers.
LEMMA SameTurnovers == ASSUME TypeOK, InvFinite PROVE TurnoversAgree
<1> DEFINE shown(q) == (q.used \cap (Dimensions \cup SplitFields(q.periodicity)))
                         \cup (IF q.periodicity = "Auto" THEN {} ELSE SplitFields(q.periodicity))
<1>a. TurnoversAgree =
        \A q \in Requests :
          "balance" \in q.used /\ Grain(q) # "Whole" /\ LevelsNest(q)
            => Answer(Turnovers(q), shown(q)) = Answer(BalanceAndTurnovers(q), shown(q))
  BY Zenon DEF TurnoversAgree, Answer
<1>b. ASSUME NEW q \in Requests PROVE shown(q) = Kept(q)
  <2>1. q.periodicity = "Auto" => SplitFields(q.periodicity) = AutoFields
    BY NamesAssumption DEF SplitFields
  <2> QED BY <2>1 DEF Kept, Optional
<1> HIDE DEF shown
<1> SUFFICES ASSUME NEW q \in Requests, "balance" \in q.used, Grain(q) # "Whole", LevelsNest(q)
             PROVE  Answer(Turnovers(q), Kept(q)) = Answer(BalanceAndTurnovers(q), Kept(q))
  BY <1>a, <1>b
<1>1. q \in Reading
  BY RequestsAssumption
<1>2. BalanceAndTurnovers(q) = Finalized(WindowedRows(q, Grain(q)), q, Columns)
  BY DEF BalanceAndTurnovers, Finalized
<1>3. Within(q) \in SUBSET movements /\ Flows \subseteq Columns
  BY DEF Within, Active, Columns
<1>4. Sums(WindowedRows(q, Grain(q)), Within(q), BucketKey(q))
  BY <1>1, WindowedSums
<1>5. Shows(q, Within(q), BucketKey(q), ShownOf(q))
  BY <1>1, KeysShow
<1>6. Answer(BalanceAndTurnovers(q), Kept(q)) = Answered(q, Within(q), ShownOf(q))
  BY <1>2, <1>3, <1>4, <1>5, FinalizeTells
<1> QED BY <1>1, <1>6, TurnoversTell

-----------------------------------------------------------------------------
(* Running balances: the order of the buckets.                              *)

LEMMA LexCons ==
  ASSUME NEW a \in Int, NEW b \in Int, NEW s \in Seq(Int), NEW t \in Seq(Int), Len(s) = Len(t)
  PROVE  LexLess(<<a>> \o s, <<b>> \o t) <=> a < b \/ (a = b /\ LexLess(s, t))
<1> DEFINE u == <<a>> \o s
           v == <<b>> \o t
           n == Len(s)
<1>1. <<a>> \in Seq(Int) /\ <<b>> \in Seq(Int) /\ Len(<<a>>) = 1 /\ Len(<<b>>) = 1 /\ n \in Nat
  OBVIOUS
<1>2. u \in Seq(Int) /\ v \in Seq(Int) /\ Len(u) = n + 1 /\ Len(v) = n + 1
  BY <1>1, ConcatProperties
<1>3. u[1] = a /\ v[1] = b /\ \A i \in 1 .. n : u[i + 1] = s[i] /\ v[i + 1] = t[i]
  <2>1. /\ \A i \in 1 .. n + 1 : u[i] = IF i <= 1 THEN <<a>>[i] ELSE s[i - 1]
        /\ \A i \in 1 .. n + 1 : v[i] = IF i <= 1 THEN <<b>>[i] ELSE t[i - 1]
    BY <1>1, ConcatProperties
  <2> HIDE DEF u, v, n
  <2>2. u[1] = a /\ v[1] = b
    <3>1. 1 \in 1 .. n + 1 /\ 1 <= 1 /\ <<a>>[1] = a /\ <<b>>[1] = b
      BY <1>1
    <3> QED BY <2>1, <3>1
  <2>3. ASSUME NEW i \in 1 .. n PROVE u[i + 1] = s[i] /\ v[i + 1] = t[i]
    <3>1. i + 1 \in 1 .. n + 1 /\ ~(i + 1 <= 1) /\ (i + 1) - 1 = i
      BY <1>1
    <3>2. u[i + 1] = s[(i + 1) - 1] /\ v[i + 1] = t[(i + 1) - 1]
      BY <2>1, <3>1
    <3> QED BY <3>1, <3>2
  <2> QED BY <2>2, <2>3
<1>4. DOMAIN u = 1 .. n + 1 /\ DOMAIN s = 1 .. n
  BY <1>2, LenProperties
<1> HIDE DEF u, v, n
<1>5. ASSUME LexLess(u, v) PROVE a < b \/ (a = b /\ LexLess(s, t))
  <2>1. PICK i \in 1 .. n + 1 : u[i] < v[i] /\ \A j \in 1 .. i - 1 : u[j] = v[j]
    BY <1>4, <1>5 DEF LexLess
  <2>2. CASE i = 1
    BY <1>3, <2>1, <2>2
  <2>3. CASE i # 1
    <3>1. a = b
      BY <1>1, <1>3, <2>1, <2>3
    <3>2. i - 1 \in 1 .. n /\ s[i - 1] = u[i] /\ t[i - 1] = v[i]
      <4>1. i - 1 \in 1 .. n /\ (i - 1) + 1 = i
        BY <1>1, <2>3
      <4> QED BY <1>3, <4>1
    <3>3. ASSUME NEW j \in 1 .. (i - 1) - 1 PROVE s[j] = t[j]
      <4>1. j \in 1 .. n /\ j + 1 \in 1 .. i - 1
        BY <1>1, <3>2
      <4> QED BY <1>3, <2>1, <4>1
    <3> QED BY <1>4, <2>1, <3>1, <3>2, <3>3 DEF LexLess
  <2> QED BY <2>2, <2>3
<1>6. ASSUME a < b PROVE LexLess(u, v)
  <2>1. 1 \in DOMAIN u /\ 1 .. 1 - 1 = {}
    BY <1>1, <1>4
  <2> QED BY <1>3, <1>6, <2>1 DEF LexLess
<1>7. ASSUME a = b, LexLess(s, t) PROVE LexLess(u, v)
  <2>1. PICK i \in 1 .. n : s[i] < t[i] /\ \A j \in 1 .. i - 1 : s[j] = t[j]
    BY <1>4, <1>7 DEF LexLess
  <2>2. i + 1 \in DOMAIN u /\ u[i + 1] < v[i + 1]
    BY <1>1, <1>3, <1>4, <2>1
  <2>3. ASSUME NEW j \in 1 .. (i + 1) - 1 PROVE u[j] = v[j]
    <3>1. CASE j = 1
      BY <1>3, <1>7, <3>1
    <3>2. CASE j # 1
      <4>1. j - 1 \in 1 .. n /\ j - 1 \in 1 .. i - 1 /\ (j - 1) + 1 = j
        BY <1>1, <3>2
      <4>2. u[j] = s[j - 1] /\ v[j] = t[j - 1]
        BY <1>3, <4>1
      <4> QED BY <2>1, <4>1, <4>2
    <3> QED BY <3>1, <3>2
  <2> QED BY <2>2, <2>3 DEF LexLess
<1> QED BY <1>5, <1>6, <1>7 DEF u, v

\* What orders the movements of an interval at a grain.
PlaceOf(g, period, recorder, line) ==
  <<period>> \o (IF g \in {"Recorder", "Record"} THEN recorder ELSE <<>>)
             \o (IF g = "Record" THEN <<line>> ELSE <<>>)
PlaceLength(g) == IF g = "Record" THEN 4 ELSE IF g = "Recorder" THEN 3 ELSE 1
PlaceAt(q, m) ==
  PlaceOf(Grain(q), IF Grain(q) \in UnitNames THEN BeginOf[Grain(q)][m.period] ELSE m.period,
          m.recorder, m.line)

LEMMA PlaceType ==
  ASSUME NEW g, NEW period \in Int, NEW recorder \in Nat \X Nat, NEW line \in Int
  PROVE  /\ PlaceOf(g, period, recorder, line) \in Seq(Int)
         /\ Len(PlaceOf(g, period, recorder, line)) = PlaceLength(g)
<1> DEFINE A == IF g \in {"Recorder", "Record"} THEN recorder ELSE <<>>
           B == IF g = "Record" THEN <<line>> ELSE <<>>
<1>1. /\ <<period>> \in Seq(Int) /\ Len(<<period>>) = 1
      /\ A \in Seq(Int) /\ Len(A) = IF g \in {"Recorder", "Record"} THEN 2 ELSE 0
      /\ B \in Seq(Int) /\ Len(B) = IF g = "Record" THEN 1 ELSE 0
  <2>1. PICK x \in Nat, y \in Nat : recorder = <<x, y>>
    OBVIOUS
  <2>2. /\ <<x, y>> \in Seq(Int) /\ Len(<<x, y>>) = 2
        /\ <<line>> \in Seq(Int) /\ Len(<<line>>) = 1
        /\ <<>> \in Seq(Int) /\ Len(<<>>) = 0
    OBVIOUS
  <2> QED BY <2>1, <2>2
<1> DEFINE C == <<period>> \o A
<1> HIDE DEF A, B
<1>2. C \in Seq(Int) /\ Len(C) = 1 + Len(A)
  BY <1>1, ConcatProperties
<1> HIDE DEF C
<1>3. C \o B \in Seq(Int) /\ Len(C \o B) = 1 + Len(A) + Len(B)
  <2>1. C \in Seq(Int) /\ B \in Seq(Int)
    BY <1>1, <1>2
  <2>2. C \o B \in Seq(Int) /\ Len(C \o B) = Len(C) + Len(B)
    BY <2>1, ConcatProperties
  <2> QED BY <1>2, <2>2
<1>4. PlaceOf(g, period, recorder, line) = C \o B
  BY DEF PlaceOf, A, B, C
<1>5. 1 + Len(A) + Len(B) = PlaceLength(g)
  <2>1. CASE g = "Record"
    BY <1>1, <2>1 DEF PlaceLength
  <2>2. CASE g = "Recorder"
    BY <1>1, <2>2 DEF PlaceLength
  <2>3. CASE g \notin {"Record", "Recorder"}
    BY <1>1, <2>3 DEF PlaceLength
  <2> QED BY <2>1, <2>2, <2>3
<1> QED BY <1>3, <1>4, <1>5

LEMMA Pair ==
  ASSUME NEW a \in Int, NEW b \in Int PROVE <<a>> \o <<b>> = <<a, b>>
<1>1. /\ <<a>> \in Seq(Int) /\ <<b>> \in Seq(Int) /\ <<a, b>> \in Seq(Int)
      /\ Len(<<a>>) = 1 /\ Len(<<b>>) = 1 /\ Len(<<a, b>>) = 2
  OBVIOUS
<1>2. /\ <<a>> \o <<b>> \in Seq(Int) /\ Len(<<a>> \o <<b>>) = 2
      /\ \A k \in 1 .. 2 : (<<a>> \o <<b>>)[k] = IF k <= 1 THEN <<a>>[k] ELSE <<b>>[k - 1]
  BY <1>1, ConcatProperties
<1>3. \A k \in 1 .. 2 : (<<a>> \o <<b>>)[k] = <<a, b>>[k]
  BY <1>2
<1> QED BY <1>1, <1>2, <1>3, SeqEqual

LEMMA Quadruple ==
  ASSUME NEW a \in Int, NEW b \in Int, NEW c \in Int, NEW d \in Int
  PROVE  <<a, b, c>> \o <<d>> = <<a, b, c, d>>
<1>1. /\ <<a, b, c>> \in Seq(Int) /\ <<d>> \in Seq(Int) /\ <<a, b, c, d>> \in Seq(Int)
      /\ Len(<<a, b, c>>) = 3 /\ Len(<<d>>) = 1 /\ Len(<<a, b, c, d>>) = 4
  OBVIOUS
<1>2. /\ <<a, b, c>> \o <<d>> \in Seq(Int) /\ Len(<<a, b, c>> \o <<d>>) = 4
      /\ \A k \in 1 .. 4 : (<<a, b, c>> \o <<d>>)[k] = IF k <= 3 THEN <<a, b, c>>[k] ELSE <<d>>[k - 3]
  BY <1>1, ConcatProperties
<1>3. \A k \in 1 .. 4 : (<<a, b, c>> \o <<d>>)[k] = <<a, b, c, d>>[k]
  BY <1>2
<1> QED BY <1>1, <1>2, <1>3, SeqEqual

PlaceTuple(g, p, x, y, l) ==
  IF g = "Record" THEN <<p, x, y, l>> ELSE IF g = "Recorder" THEN <<p, x, y>> ELSE <<p>>

LEMMA PlaceForm ==
  ASSUME NEW g, NEW p \in Int, NEW x \in Nat, NEW y \in Nat, NEW l \in Int
  PROVE  PlaceOf(g, p, <<x, y>>, l) = PlaceTuple(g, p, x, y, l)
<1>1. /\ \A t \in Seq(Int) : t \o <<>> = t
      /\ <<p>> \in Seq(Int) /\ <<p, x, y>> \in Seq(Int)
  BY ConcatEmptySeq
<1>2. CASE g = "Record"
  <2>1. PlaceOf(g, p, <<x, y>>, l) = (<<p>> \o <<x, y>>) \o <<l>>
    BY <1>2 DEF PlaceOf
  <2>2. <<p>> \o <<x, y>> = <<p, x, y>> /\ <<p, x, y>> \o <<l>> = <<p, x, y, l>>
    BY Triple, Quadruple
  <2> QED BY <1>2, <2>1, <2>2, Zenon DEF PlaceTuple
<1>3. CASE g = "Recorder"
  BY <1>1, <1>3, Triple DEF PlaceOf, PlaceTuple
<1>4. CASE g \notin {"Record", "Recorder"}
  BY <1>1, <1>4 DEF PlaceOf, PlaceTuple
<1> QED BY <1>2, <1>3, <1>4

(* The place in the order is what a bucket is told by.                      *)
LEMMA SamePlace ==
  ASSUME NEW g, NEW p \in Int, NEW q \in Int, NEW r \in Nat \X Nat, NEW s \in Nat \X Nat,
         NEW l \in Int, NEW n \in Int
  PROVE  PlaceOf(g, p, r, l) = PlaceOf(g, q, s, n)
           <=> /\ p = q
               /\ g \in {"Recorder", "Record"} => r = s
               /\ g = "Record" => l = n
<1>1. PICK a \in Nat, b \in Nat : r = <<a, b>>
  OBVIOUS
<1>2. PICK c \in Nat, d \in Nat : s = <<c, d>>
  OBVIOUS
<1>3. PlaceOf(g, p, r, l) = PlaceTuple(g, p, a, b, l)
  BY <1>1, PlaceForm
<1>4. PlaceOf(g, q, s, n) = PlaceTuple(g, q, c, d, n)
  BY <1>2, PlaceForm
<1> QED BY <1>1, <1>2, <1>3, <1>4 DEF PlaceTuple

(* A bucket stands in the order where its movements do; the one before the  *)
(* interval stands first.                                                   *)
LEMMA PositionIs ==
  ASSUME NEW i \in Int, NEW p \in Int, NEW r \in Nat \X Nat, NEW l \in Int, NEW g, NEW key,
         key.inside = i, key.Period = p,
         g \in {"Recorder", "Record"} => key.Recorder = r,
         g = "Record" => key.LineNo = l
  PROVE  Position(key, g) = <<i>> \o PlaceOf(g, p, r, l)
<1> DEFINE A == IF g \in {"Recorder", "Record"} THEN r ELSE <<>>
           B == IF g = "Record" THEN <<l>> ELSE <<>>
<1>1. Position(key, g) = (<<i, p>> \o A) \o B /\ PlaceOf(g, p, r, l) = (<<p>> \o A) \o B
  BY DEF Position, PlaceOf
<1>2. /\ <<i>> \in Seq(Int) /\ <<p>> \in Seq(Int) /\ <<i, p>> = <<i>> \o <<p>>
      /\ A \in Seq(Int) /\ B \in Seq(Int)
  <2>1. PICK x \in Nat, y \in Nat : r = <<x, y>>
    OBVIOUS
  <2>2. /\ <<x, y>> \in Seq(Int) /\ <<l>> \in Seq(Int) /\ <<>> \in Seq(Int)
        /\ <<i>> \in Seq(Int) /\ <<p>> \in Seq(Int)
    OBVIOUS
  <2>5. <<i, p>> = <<i>> \o <<p>>
    BY Pair
  <2> QED BY <2>1, <2>2, <2>5
<1> HIDE DEF A, B
<1> DEFINE C == <<p>> \o A
<1>3. C \in Seq(Int)
  BY <1>2, ConcatProperties
<1>4. (<<i>> \o <<p>>) \o A = <<i>> \o C
  BY <1>2, ConcatAssociative
<1>5. Position(key, g) = (<<i>> \o C) \o B /\ PlaceOf(g, p, r, l) = C \o B
  BY <1>1, <1>2, <1>4, Zenon
<1> HIDE DEF C
<1>6. (<<i>> \o C) \o B = <<i>> \o (C \o B)
  <2>1. <<i>> \in Seq(Int) /\ C \in Seq(Int) /\ B \in Seq(Int)
    BY <1>2, <1>3
  <2> QED BY <2>1, ConcatAssociative
<1> QED BY <1>5, <1>6

LEMMA RowOrder ==
  ASSUME TypeOK, NEW q \in Reading, NEW m \in Within(q), NEW n \in ReadOf(q)
  PROVE  LexLess(Position(BucketKey(q)[n], Grain(q)), Position(BucketKey(q)[m], Grain(q)))
           <=> n.period < q.begin \/ LexLess(PlaceAt(q, n), PlaceAt(q, m))
<1> DEFINE g == Grain(q)
           in(x) == IF Inside(x, q) THEN 1 ELSE 0
           rec(x) == IF Inside(x, q) THEN x.recorder ELSE WholeMoment
           line(x) == IF Inside(x, q) THEN x.line ELSE 0
           place(x) == PlaceOf(g, BucketPeriod(x, q), rec(x), line(x))
<1>1. /\ m \in movements /\ Inside(m, q) /\ m \in ReadOf(q)
      /\ n \in movements /\ q.begin \in Int
  BY MovementType, MomentsAssumption DEF Within, ReadOf, Active, Inside, Reading, Far
<1>2. ASSUME NEW x \in ReadOf(q)
      PROVE  /\ Position(BucketKey(q)[x], g) = <<in(x)>> \o place(x)
             /\ place(x) \in Seq(Int) /\ Len(place(x)) = PlaceLength(g) /\ in(x) \in {0, 1}
             /\ Inside(x, q) <=> ~(x.period < q.begin)
             /\ Inside(x, q) => place(x) = PlaceAt(q, x)
  <2>1. x \in movements /\ x.recorder \in Nat \X Nat /\ x.line \in Nat /\ x.period \in 0 .. LastMoment
    BY DEF ReadOf, Active, TypeOK, Movement
  <2>2. BucketPeriod(x, q) \in Int
    BY <2>1, MomentsAssumption, CalendarAssumption DEF BucketPeriod
  <2>3. rec(x) \in Nat \X Nat /\ line(x) \in Int /\ in(x) \in {0, 1} /\ in(x) \in Int
    BY <2>1 DEF WholeMoment
  <2>4. /\ BucketKey(q)[x]["inside"] = in(x) /\ BucketKey(q)[x]["Period"] = BucketPeriod(x, q)
        /\ g \in {"Recorder", "Record"} => BucketKey(q)[x]["Recorder"] = rec(x)
        /\ g = "Record" => BucketKey(q)[x]["LineNo"] = line(x)
    BY <2>1, KeyParts
  <2>5. Inside(x, q) <=> ~(x.period < q.begin)
    BY <1>1, <2>1, MomentsAssumption DEF Inside
  <2>6. Inside(x, q) => place(x) = PlaceAt(q, x)
    BY DEF PlaceAt, BucketPeriod
  <2> HIDE DEF g, in, rec, line
  <2>7. Position(BucketKey(q)[x], g) = <<in(x)>> \o place(x)
    BY <2>2, <2>3, <2>4, PositionIs
  <2>8. place(x) \in Seq(Int) /\ Len(place(x)) = PlaceLength(g)
    BY <2>2, <2>3, PlaceType
  <2> QED BY <2>3, <2>5, <2>6, <2>7, <2>8
<1>3. in(m) = 1 /\ (n.period < q.begin => in(n) = 0) /\ (~(n.period < q.begin) => in(n) = 1)
  BY <1>1, <1>2
<1> HIDE DEF g, in, place
<1>4. LexLess(Position(BucketKey(q)[n], g), Position(BucketKey(q)[m], g))
        <=> in(n) < in(m) \/ (in(n) = in(m) /\ LexLess(place(n), place(m)))
  <2>1. /\ place(n) \in Seq(Int) /\ place(m) \in Seq(Int) /\ Len(place(n)) = Len(place(m))
        /\ in(n) \in Int /\ in(m) \in Int
    <3>1. \A x \in ReadOf(q) : /\ place(x) \in Seq(Int) /\ Len(place(x)) = PlaceLength(g)
                              /\ in(x) \in {0, 1}
      BY <1>2
    <3>2. n \in ReadOf(q) /\ m \in ReadOf(q)
      BY <1>1
    <3> QED BY <3>1, <3>2
  <2>2. LexLess(<<in(n)>> \o place(n), <<in(m)>> \o place(m))
          <=> in(n) < in(m) \/ (in(n) = in(m) /\ LexLess(place(n), place(m)))
    BY <2>1, LexCons
  <2> QED BY <1>1, <1>2, <2>2
<1>5. ~(n.period < q.begin) => place(n) = PlaceAt(q, n)
  BY <1>2
<1>6. place(m) = PlaceAt(q, m)
  BY <1>1, <1>2
<1> QED BY <1>3, <1>4, <1>5, <1>6 DEF g

LEMMA InsideKey ==
  ASSUME TypeOK, NEW q \in Reading, NEW m \in ReadOf(q)
  PROVE  /\ m \in Within(q) <=> BucketKey(q)[m]["inside"] = 1
         /\ m \in Within(q) <=> ~(m.period < q.begin)
         /\ m \in movements
<1>1. m \in movements /\ m \in Active /\ m.period \in Int /\ q.begin \in Int /\ m.period < q.end
  BY MovementType, MomentsAssumption DEF ReadOf, Active, Reading, Far
<1>2. BucketKey(q)[m]["inside"] = IF Inside(m, q) THEN 1 ELSE 0
  BY <1>1, KeyParts
<1> QED BY <1>1, <1>2 DEF Within, Inside

LEMMA LexIrreflexive == ASSUME NEW s \in Seq(Int) PROVE ~LexLess(s, s)
<1>1. \A i \in DOMAIN s : s[i] \in Int
  BY LenProperties
<1> QED BY <1>1 DEF LexLess

LEMMA PlaceAtType ==
  ASSUME TypeOK, NEW q \in Reading, NEW m \in movements
  PROVE  /\ (IF Grain(q) \in UnitNames THEN BeginOf[Grain(q)][m.period] ELSE m.period) \in Int
         /\ m.recorder \in Nat \X Nat /\ m.line \in Int
         /\ PlaceAt(q, m) \in Seq(Int)
<1>1. m.recorder \in Nat \X Nat /\ m.line \in Int /\ m.period \in 0 .. LastMoment
  BY DEF TypeOK, Movement
<1>2. (IF Grain(q) \in UnitNames THEN BeginOf[Grain(q)][m.period] ELSE m.period) \in Int
  BY <1>1, MomentsAssumption, CalendarAssumption
<1> QED BY <1>1, <1>2, PlaceType DEF PlaceAt

\* The movements a row opens and closes with.
BeforeRow(q, m) ==
  {n \in ReadOf(q) : n.period < q.begin \/ LexLess(PlaceAt(q, n), PlaceAt(q, m))}
ThroughRow(q, m) == BeforeRow(q, m) \cup {n \in ReadOf(q) : PlaceAt(q, n) = PlaceAt(q, m)}

\* The movements of a bucket's dimensions in the buckets before it and in it.
LEMMA BucketsBefore ==
  ASSUME TypeOK, NEW q \in Reading, NEW m \in Within(q)
  PROVE  LET K == BucketKey(q)
             earlier == {n \in ReadOf(q) : Precedes(q, K[n], K[m])}
             mine == Mine(ReadOf(q), K, K[m])
         IN /\ OfKey(BeforeRow(q, m), Dimensions, m.dims) = earlier
            /\ OfKey(ThroughRow(q, m), Dimensions, m.dims) = earlier \cup mine
            /\ earlier \cap mine = {}
<1> DEFINE K == BucketKey(q)
           earlier == {n \in ReadOf(q) : Precedes(q, K[n], K[m])}
           mine == Mine(ReadOf(q), K, K[m])
<1>1. m \in ReadOf(q) /\ m \in movements
  BY DEF Within, ReadOf, Active
<1>2. ASSUME NEW n \in ReadOf(q)
      PROVE  /\ n \in movements
             /\ (\A d \in Dimensions : K[n][d] = K[m][d]) <=> Restrict(n.dims, Dimensions) = m.dims
             /\ Precedes(q, K[n], K[m])
                  <=> /\ Restrict(n.dims, Dimensions) = m.dims
                      /\ n.period < q.begin \/ LexLess(PlaceAt(q, n), PlaceAt(q, m))
             /\ K[n] = K[m]
                  <=> /\ Restrict(n.dims, Dimensions) = m.dims
                      /\ ~(n.period < q.begin) /\ PlaceAt(q, n) = PlaceAt(q, m)
  <2>1. n \in movements
    BY DEF ReadOf, Active
  <2>2. (\A d \in Dimensions : K[n][d] = K[m][d]) <=> Restrict(n.dims, Dimensions) = m.dims
    <3>1. \A d \in Dimensions : K[n][d] = n.dims[d] /\ K[m][d] = m.dims[d]
      BY <1>1, <2>1, KeyParts
    <3>2. /\ n.dims \in [Dimensions -> STRING] /\ m.dims \in [Dimensions -> STRING]
          /\ Restrict(n.dims, Dimensions) = n.dims
      BY <1>1, <2>1, MovementType, WholeKey
    <3> HIDE DEF K
    <3> QED BY <3>1, <3>2
  <2>3. Precedes(q, K[n], K[m])
          <=> /\ Restrict(n.dims, Dimensions) = m.dims
              /\ n.period < q.begin \/ LexLess(PlaceAt(q, n), PlaceAt(q, m))
    BY <2>2, RowOrder DEF Precedes
  <2>4. ASSUME K[n] = K[m]
        PROVE  /\ Restrict(n.dims, Dimensions) = m.dims
               /\ ~(n.period < q.begin) /\ PlaceAt(q, n) = PlaceAt(q, m)
    <3>1. n \in Within(q) /\ ~(n.period < q.begin) /\ Inside(n, q) /\ Inside(m, q)
      BY <1>1, <2>4, InsideKey, MovementType, MomentsAssumption DEF Within, Inside, Reading
    <3>2. BucketPeriod(n, q) = BucketPeriod(m, q)
      BY <1>1, <2>1, <2>4, KeyParts
    <3>3. /\ Grain(q) \in {"Recorder", "Record"} => n.recorder = m.recorder
          /\ Grain(q) = "Record" => n.line = m.line
      BY <1>1, <2>1, <2>4, <3>1, KeyParts
    <3>4. PlaceAt(q, n) = PlaceAt(q, m)
      BY <1>1, <2>1, <3>1, <3>2, <3>3, PlaceAtType, SamePlace DEF PlaceAt, BucketPeriod
    <3> QED BY <2>2, <2>4, <3>1, <3>4
  <2>5. ASSUME Restrict(n.dims, Dimensions) = m.dims, ~(n.period < q.begin),
               PlaceAt(q, n) = PlaceAt(q, m)
        PROVE  K[n] = K[m]
    <3>1. n \in Within(q) /\ Inside(n, q) /\ Inside(m, q) /\ n.dims = m.dims
      BY <1>1, <2>1, <2>5, InsideKey, WholeKey, MovementType, MomentsAssumption
      DEF Within, Inside, Reading
    <3>2. /\ (IF Grain(q) \in UnitNames THEN BeginOf[Grain(q)][n.period] ELSE n.period)
               = (IF Grain(q) \in UnitNames THEN BeginOf[Grain(q)][m.period] ELSE m.period)
          /\ Grain(q) \in {"Recorder", "Record"} => n.recorder = m.recorder
          /\ Grain(q) = "Record" => n.line = m.line
      <4> DEFINE at(x) == IF Grain(q) \in UnitNames THEN BeginOf[Grain(q)][x.period] ELSE x.period
                 g == Grain(q)
      <4>1. /\ at(n) \in Int /\ n.recorder \in Nat \X Nat /\ n.line \in Int
            /\ at(m) \in Int /\ m.recorder \in Nat \X Nat /\ m.line \in Int
        BY <1>1, <2>1, PlaceAtType
      <4>2. PlaceOf(g, at(n), n.recorder, n.line) = PlaceOf(g, at(m), m.recorder, m.line)
        BY <2>5 DEF PlaceAt
      <4> HIDE DEF at, g
      <4>3. /\ at(n) = at(m)
            /\ g \in {"Recorder", "Record"} => n.recorder = m.recorder
            /\ g = "Record" => n.line = m.line
        BY <4>1, <4>2, SamePlace
      <4> QED BY <4>3 DEF at, g
    <3>3. BucketPeriod(n, q) = BucketPeriod(m, q)
      BY <3>1, <3>2 DEF BucketPeriod
    <3> QED BY <3>1, <3>2, <3>3, SameKey
  <2> QED BY <2>1, <2>2, <2>3, <2>4, <2>5
<1>3. ~LexLess(PlaceAt(q, m), PlaceAt(q, m))
  BY <1>1, PlaceAtType, LexIrreflexive
<1>4. OfKey(BeforeRow(q, m), Dimensions, m.dims) = earlier
  BY <1>2 DEF OfKey, BeforeRow
<1>5. OfKey(ThroughRow(q, m), Dimensions, m.dims) = earlier \cup mine
  BY <1>2 DEF OfKey, BeforeRow, ThroughRow, Mine
<1>6. earlier \cap mine = {}
  BY <1>2, <1>3 DEF Mine
<1> QED BY <1>4, <1>5, <1>6

Runs(q, m, sum) ==
  /\ sum["opening"] = BalanceOver(BeforeRow(q, m), m.dims)
  /\ sum["closing"] = BalanceOver(ThroughRow(q, m), m.dims)

(* Every row of the windows runs over the movements before it, and its own. *)
LEMMA RowsRun ==
  ASSUME TypeOK, InvFinite, NEW q \in Reading, NEW w \in WindowedRows(q, Grain(q))
  PROVE  \E m \in Within(q) : w.key = BucketKey(q)[m] /\ Runs(q, m, w.sum)
<1> DEFINE K == BucketKey(q)
           set == ReadOf(q)
<1>1. PICK b \in Buckets(q) : b.key["inside"] = 1 /\ w = Windowed(q, b)
  BY WindowedIs
<1>2. /\ w.key = b.key
      /\ w.sum["opening"] = Opening(q, b)
      /\ w.sum["closing"] = Opening(q, b) + b.sum["turnover"]
  <2>1. "opening" \in Columns /\ "closing" \in Columns /\ "opening" \notin Flows /\ "closing" \notin Flows
    BY DEF Columns, Flows
  <2> QED BY <1>1, <2>1 DEF Windowed
<1>3. Sums(Buckets(q), set, K)
  BY BucketsSum
<1>4. PICK m \in set : b.key = K[m]
  BY <1>3 DEF Sums, Keyed
<1>5. m \in Within(q) /\ m \in movements
  BY <1>1, <1>4, InsideKey
<1> DEFINE rows == Buckets(q)
           T == Earlier(q, b)
           S == {n \in set : Precedes(q, K[n], K[m])}
           mine == Mine(set, K, K[m])
           f == Values("turnover")
<1>6. set \in SUBSET movements /\ T \in SUBSET rows /\ S \in SUBSET set /\ mine \in SUBSET set
  BY DEF ReadOf, Active, Earlier, Mine
<1>7. "turnover" \in Flows
  BY DEF Flows
<1>8. f = Balances
  <2>1. \A x \in movements : Flow(x)["turnover"] = Signed(x)
    BY DEF Flow
  <2> QED BY <2>1 DEF Values, Balances
<1>9. ASSUME NEW n \in set PROVE n \in S <=> \E r \in T : r.key = K[n]
  <2>1. \E r \in rows : r.key = K[n]
    BY <1>3 DEF Sums, Keyed
  <2> QED BY <1>4, <2>1 DEF Earlier
<1>10. Opening(q, b) = SumFunctionOnSet(Column(rows, "turnover"), T)
  <2> DEFINE g == [e \in T |-> e.sum["turnover"]]
  <2>1. Opening(q, b) = SumFunctionOnSet(g, DOMAIN g) /\ DOMAIN g = T
    BY DEF Opening, SumFunction
  <2>2. IsFiniteSet(T)
    BY <1>3, <1>6, FS_Subset DEF Sums
  <2>3. \A e \in T : g[e] = Column(rows, "turnover")[e]
    BY <1>6 DEF Column
  <2> HIDE DEF g, T
  <2>4. SumFunctionOnSet(g, T) = SumFunctionOnSet(Column(rows, "turnover"), T)
    BY <2>2, <2>3, SumSame
  <2> QED BY <2>1, <2>4
<1>11. SumFunctionOnSet(Column(rows, "turnover"), T) = SumFunctionOnSet(f, S)
  <2> HIDE DEF rows, T, S, K, set, f
  <2>1. SumFunctionOnSet(Column(rows, "turnover"), T) = SumFunctionOnSet(Values("turnover"), S)
    BY <1>3, <1>6, <1>7, <1>9, SumOverRows DEF rows
  <2> QED BY <2>1 DEF f
<1>12. b.sum["turnover"] = SumFunctionOnSet(f, mine)
  BY <1>3, <1>4, <1>7 DEF Sums, Summed
<1>13. /\ OfKey(BeforeRow(q, m), Dimensions, m.dims) = S
       /\ OfKey(ThroughRow(q, m), Dimensions, m.dims) = S \cup mine
       /\ S \cap mine = {}
  BY <1>5, BucketsBefore
<1>14. /\ BeforeRow(q, m) \in SUBSET movements /\ ThroughRow(q, m) \in SUBSET movements
       /\ m.dims \in [Dimensions -> STRING]
  BY <1>5, <1>6, MovementType DEF BeforeRow, ThroughRow
<1> HIDE DEF S, mine, f, set, K, rows, T
<1>15. /\ BalanceOver(BeforeRow(q, m), m.dims) = SumFunctionOnSet(Balances, S)
       /\ BalanceOver(ThroughRow(q, m), m.dims) = SumFunctionOnSet(Balances, S \cup mine)
  BY <1>13, <1>14, BalanceOfKey
<1>16. SumFunctionOnSet(Balances, S \cup mine)
         = SumFunctionOnSet(Balances, S) + SumFunctionOnSet(Balances, mine)
  <2>1. IsFiniteSet(S) /\ IsFiniteSet(mine)
    BY <1>6, FS_Subset DEF InvFinite
  <2>2. \A x \in S \cup mine : Balances[x] \in Int
    BY <1>6, MovementType
  <2> QED BY <1>13, <2>1, <2>2, SumUnion
<1>17. /\ w.sum["opening"] = SumFunctionOnSet(Balances, S)
       /\ w.sum["closing"] = SumFunctionOnSet(Balances, S) + SumFunctionOnSet(Balances, mine)
  BY <1>2, <1>8, <1>10, <1>11, <1>12
<1>18. Runs(q, m, w.sum)
  BY <1>15, <1>16, <1>17 DEF Runs
<1> QED BY <1>2, <1>4, <1>5, <1>18 DEF K

(* Where the whole key of the grain is read, the last step sums nothing.    *)
LEMMA WholeKeyKept ==
  ASSUME NEW q \in Reading, Grain(q) # "Whole", ReadsWholeKey(q)
  PROVE  /\ Dimensions \cup SplitFields(Grain(q)) \subseteq Kept(q)
         /\ Kept(q) \subseteq BucketFields(q, Grain(q))
         /\ Dimensions \cup SplitFields(Grain(q)) \subseteq BucketFields(q, Grain(q))
         /\ Kept(q) # {}
<1>1. SplitFields(Grain(q)) # {} /\ SplitFields(Grain(q)) \subseteq AutoFields
  <2>1. Grain(q) \in {"Recorder", "Record"} \cup UnitNames
    BY GrainNames
  <2>2. CASE Grain(q) \in {"Recorder", "Record"}
    BY <2>2, NamesAssumption DEF SplitFields, AutoFields
  <2>3. CASE Grain(q) \in UnitNames
    BY <2>3, NamesAssumption DEF SplitFields, AutoFields
  <2> QED BY <2>1, <2>2, <2>3
<1>2. Dimensions \cup SplitFields(Grain(q)) \subseteq Kept(q)
  <2>1. CASE q.periodicity = "Auto"
    BY <1>1, <2>1 DEF ReadsWholeKey, Kept, Optional
  <2>2. CASE q.periodicity # "Auto"
    BY <2>2 DEF ReadsWholeKey, Kept, Optional, Grain
  <2> QED BY <2>1, <2>2
<1>3. Kept(q) \subseteq BucketFields(q, Grain(q))
  BY KeptFields
<1> QED BY <1>1, <1>2, <1>3

LEMMA KeptTells ==
  ASSUME TypeOK, NEW q \in Reading, Grain(q) # "Whole", ReadsWholeKey(q),
         NEW m \in Within(q), NEW n \in Within(q),
         Restrict(BucketKey(q)[m], Kept(q)) = Restrict(BucketKey(q)[n], Kept(q))
  PROVE  BucketKey(q)[m] = BucketKey(q)[n]
<1> DEFINE K == BucketKey(q)
<1>1. ASSUME NEW f \in Dimensions \cup SplitFields(Grain(q)) PROVE K[m][f] = K[n][f]
  <2>1. f \in Kept(q)
    BY WholeKeyKept
  <2>2. Restrict(K[m], Kept(q))[f] = K[m][f] /\ Restrict(K[n], Kept(q))[f] = K[n][f]
    BY <2>1 DEF Restrict
  <2> QED BY <2>2
<1>2. /\ m \in movements /\ n \in movements /\ Inside(m, q) /\ Inside(n, q)
      /\ m.period \in 0 .. LastMoment /\ n.period \in 0 .. LastMoment
  BY MovementType, MomentsAssumption DEF Within, Active, Inside, Reading
<1>3. m.dims = n.dims
  <2>1. \A d \in Dimensions : m.dims[d] = n.dims[d]
    BY <1>1, <1>2, KeyParts
  <2>2. m.dims \in [Dimensions -> STRING] /\ n.dims \in [Dimensions -> STRING]
    BY <1>2, MovementType
  <2> QED BY <2>1, <2>2
<1>4. CASE Grain(q) \in UnitNames
  <2>1. Grain(q) \in SplitFields(Grain(q)) /\ Grain(q) \notin {"Recorder", "Record"}
    BY <1>4, NamesAssumption DEF SplitFields
  <2>2. Grain(q) \in BucketFields(q, Grain(q))
    BY <2>1, WholeKeyKept
  <2>3. /\ K[m][Grain(q)] = BeginOf[Grain(q)][BucketPeriod(m, q)]
        /\ K[n][Grain(q)] = BeginOf[Grain(q)][BucketPeriod(n, q)]
    BY <1>2, <1>4, <2>2, KeyParts
  <2>4. /\ BucketPeriod(m, q) = BeginOf[Grain(q)][m.period]
        /\ BucketPeriod(n, q) = BeginOf[Grain(q)][n.period]
    BY <1>2, <1>4 DEF BucketPeriod
  <2>5. BucketPeriod(m, q) = BucketPeriod(n, q)
    BY <1>1, <1>2, <1>4, <2>1, <2>3, <2>4, CalendarAssumption
  <2> QED BY <1>3, <2>1, <2>5, SameKey
<1>5. CASE Grain(q) \in {"Recorder", "Record"}
  <2>1. /\ "Period" \in SplitFields(Grain(q)) /\ "Recorder" \in SplitFields(Grain(q))
        /\ Grain(q) = "Record" => "LineNo" \in SplitFields(Grain(q))
    BY <1>5, NamesAssumption DEF SplitFields
  <2>2. BucketPeriod(m, q) = BucketPeriod(n, q)
    <3>1. K[m]["Period"] = K[n]["Period"]
      BY <1>1, <2>1
    <3> QED BY <1>2, <3>1, KeyParts
  <2>3. m.recorder = n.recorder
    <3>1. K[m]["Recorder"] = K[n]["Recorder"]
      BY <1>1, <2>1
    <3> QED BY <1>2, <1>5, <3>1, KeyParts
  <2>4. Grain(q) = "Record" => m.line = n.line
    <3>1. Grain(q) = "Record" => K[m]["LineNo"] = K[n]["LineNo"]
      BY <1>1, <2>1
    <3> QED BY <1>2, <3>1, KeyParts
  <2> QED BY <1>3, <2>2, <2>3, <2>4, SameKey
<1> QED BY <1>4, <1>5, GrainNames

LEMMA SumOne == ASSUME NEW f, NEW x, f[x] \in Int PROVE SumFunctionOnSet(f, {x}) = f[x]
<1>1. SumFunctionOnSet(f, {} \cup {x}) = f[x] + SumFunctionOnSet(f, {})
  <2>1. IsFiniteSet({}) /\ (\A y \in {} : f[y] \in Int) /\ x \notin {}
    BY FS_EmptySet
  <2> QED BY <2>1, SumAdd
<1>2. {} \cup {x} = {x} /\ SumFunctionOnSet(f, {}) = 0
  BY SumEmpty
<1> QED BY <1>1, <1>2

\* A row shows, of a movement's bucket, at least the whole key of the grain.
RowOf(q, m, key) ==
  /\ Dimensions \cup SplitFields(Grain(q)) \subseteq DOMAIN key
  /\ DOMAIN key \subseteq BucketFields(q, Grain(q))
  /\ \A f \in DOMAIN key : key[f] = BucketKey(q)[m][f]

LEMMA RowsRead ==
  ASSUME TypeOK, InvFinite, NEW q \in Reading, "balance" \in q.used, Grain(q) # "Whole",
         ReadsWholeKey(q), NEW r \in BalanceAndTurnovers(q)
  PROVE  \E m \in Within(q) : RowOf(q, m, r.key) /\ Runs(q, m, r.sum)
<1> DEFINE rows == WindowedRows(q, Grain(q))
           K == BucketKey(q)
           kept == Kept(q)
           coarse == {[key |-> Restrict(s.key, kept), sum |-> s.sum, of |-> s.key] : s \in rows}
           h == [s \in rows |-> [key |-> Restrict(s.key, kept), sum |-> s.sum, of |-> s.key]]
<1>1. BalanceAndTurnovers(q) =
        IF Optional(q) \subseteq q.used THEN rows ELSE GroupBy(coarse, Columns)
  <2>1. BalanceAndTurnovers(q) = Finalize(rows, q.periodicity, q.used, Columns)
    BY DEF BalanceAndTurnovers
  <2>2. kept # {}
    BY WholeKeyKept
  <2> QED BY <2>1, <2>2 DEF Finalize, Optional, Kept
<1>2. /\ Dimensions \cup SplitFields(Grain(q)) \subseteq kept
      /\ kept \subseteq BucketFields(q, Grain(q))
      /\ Dimensions \cup SplitFields(Grain(q)) \subseteq BucketFields(q, Grain(q))
  BY WholeKeyKept
<1>3. \A m \in Within(q) : m \in movements
  BY DEF Within, Active
<1>4. CASE Optional(q) \subseteq q.used
  <2>1. r \in rows
    BY <1>1, <1>4
  <2>2. PICK m \in Within(q) : r.key = K[m] /\ Runs(q, m, r.sum)
    BY <2>1, RowsRun
  <2>3. DOMAIN K[m] = BucketFields(q, Grain(q))
    BY <1>3 DEF BucketKey
  <2>4. RowOf(q, m, r.key)
    BY <1>2, <2>2, <2>3 DEF RowOf
  <2> QED BY <2>2, <2>4
<1>5. CASE ~(Optional(q) \subseteq q.used)
  <2>1. r \in GroupBy(coarse, Columns)
    BY <1>1, <1>5
  <2>2. \A s \in rows : /\ h[s] \in coarse /\ h[s].key = Restrict(s.key, kept)
                        /\ h[s].sum = s.sum /\ h[s].of = s.key
    OBVIOUS
  <2>3. \A x \in coarse : \E s \in rows : x = h[s]
    OBVIOUS
  <2> HIDE DEF coarse, h, rows
  <2>4. /\ \E x \in coarse : r.key = x.key
        /\ \A c \in Columns : r.sum[c] = SumFunctionOnSet(Column(coarse, c), Group(coarse, r.key))
    BY <2>1, GroupByRows
  <2>5. PICK w \in rows : r.key = h[w].key
    BY <2>3, <2>4
  <2>6. PICK m \in Within(q) : w.key = K[m] /\ Runs(q, m, w.sum)
    BY RowsRun DEF rows
  <2>7. \A s, t \in rows : s.key = t.key => s = t
    <3>1. Sums(WindowedRows(q, Grain(q)), Within(q), BucketKey(q))
      BY WindowedSums
    <3> QED BY <3>1 DEF Sums, Keyed, rows
  <2>8. ASSUME NEW s \in rows, h[s].key = r.key PROVE s = w
    <3>1. PICK n \in Within(q) : s.key = K[n]
      BY RowsRun DEF rows
    <3>2. Restrict(K[n], kept) = Restrict(K[m], kept)
      BY <2>2, <2>5, <2>6, <2>8, <3>1
    <3>3. K[n] = K[m]
      BY <3>2, KeptTells
    <3> QED BY <2>6, <2>7, <3>1, <3>3
  <2>9. Group(coarse, r.key) = {h[w]}
    BY <2>2, <2>3, <2>5, <2>8 DEF Group
  <2>10. w.sum["opening"] \in Int /\ w.sum["closing"] \in Int
    <3>1. /\ BeforeRow(q, m) \in SUBSET movements /\ ThroughRow(q, m) \in SUBSET movements
          /\ m.dims \in [Dimensions -> STRING]
      BY <1>3, MovementType DEF BeforeRow, ThroughRow, ReadOf, Active
    <3>2. BalanceOver(BeforeRow(q, m), m.dims) \in Int /\ BalanceOver(ThroughRow(q, m), m.dims) \in Int
      BY <3>1, BalanceOfKey
    <3> QED BY <2>6, <3>2 DEF Runs
  <2>11. \A c \in {"opening", "closing"} : r.sum[c] = w.sum[c]
    <3>1. ASSUME NEW c \in {"opening", "closing"} PROVE r.sum[c] = w.sum[c]
      <4>1. c \in Columns /\ Column(coarse, c)[h[w]] = w.sum[c] /\ w.sum[c] \in Int
        BY <2>2, <2>10 DEF Columns, Column
      <4>2. SumFunctionOnSet(Column(coarse, c), {h[w]}) = w.sum[c]
        BY <4>1, SumOne
      <4> QED BY <2>4, <2>9, <4>1, <4>2
    <3> QED BY <3>1
  <2>12. Runs(q, m, r.sum)
    BY <2>6, <2>11 DEF Runs
  <2>13. r.key = [f \in kept |-> K[m][f]]
    BY <2>2, <2>5, <2>6 DEF Restrict
  <2>14. RowOf(q, m, r.key)
    BY <1>2, <2>13 DEF RowOf
  <2> QED BY <2>12, <2>14
<1> QED BY <1>4, <1>5

LEMMA RowBalances ==
  ASSUME TypeOK, InvFinite, NEW q \in Reading, "balance" \in q.used, Grain(q) # "Whole",
         ReadsWholeKey(q)
  PROVE  RunningBalance(q)
<1> SUFFICES ASSUME NEW r \in BalanceAndTurnovers(q)
             PROVE  LET has(f) == f \in DOMAIN r.key
                        period == IF Grain(q) \in UnitNames THEN Grain(q) ELSE "Period"
                        place(value) ==
                          <<value[period]>>
                            \o (IF has("Recorder") THEN value["Recorder"] ELSE <<>>)
                            \o (IF has("LineNo") THEN <<value["LineNo"]>> ELSE <<>>)
                        at(m) == place([f \in AutoFields |-> Field(m, f)])
                        key == Restrict(r.key, Dimensions \cap DOMAIN r.key)
                        read == {m \in Active : m.period < q.end}
                        before == {m \in read : \/ m.period < q.begin
                                                \/ LexLess(at(m), place(r.key))}
                        through == before \cup {m \in read : at(m) = place(r.key)}
                    IN /\ r.sum["opening"] = BalanceOver(before, key)
                       /\ r.sum["closing"] = BalanceOver(through, key)
  BY DEF RunningBalance
<1> DEFINE has(f) == f \in DOMAIN r.key
           period == IF Grain(q) \in UnitNames THEN Grain(q) ELSE "Period"
           place(value) ==
             <<value[period]>>
               \o (IF has("Recorder") THEN value["Recorder"] ELSE <<>>)
               \o (IF has("LineNo") THEN <<value["LineNo"]>> ELSE <<>>)
           at(n) == place([f \in AutoFields |-> Field(n, f)])
           key == Restrict(r.key, Dimensions \cap DOMAIN r.key)
           read == {n \in Active : n.period < q.end}
           before == {n \in read : n.period < q.begin \/ LexLess(at(n), place(r.key))}
           through == before \cup {n \in read : at(n) = place(r.key)}
           K == BucketKey(q)
           start(n) == IF Grain(q) \in UnitNames THEN BeginOf[Grain(q)][n.period] ELSE n.period
<1>1. PICK m \in Within(q) : RowOf(q, m, r.key) /\ Runs(q, m, r.sum)
  BY RowsRead
<1>2. m \in movements /\ Inside(m, q) /\ m.period \in 0 .. LastMoment
  BY MovementType, MomentsAssumption DEF Within, Active, Inside, Reading
<1>3. \A f \in DOMAIN r.key : r.key[f] = K[m][f]
  BY <1>1 DEF RowOf
<1>4. /\ has("Recorder") <=> Grain(q) \in {"Recorder", "Record"}
      /\ has("LineNo") <=> Grain(q) = "Record"
      /\ period \in DOMAIN r.key
      /\ Dimensions \subseteq DOMAIN r.key
  <2>1. /\ Grain(q) \in {"Recorder", "Record"} => {"Period", "Recorder"} \subseteq SplitFields(Grain(q))
        /\ Grain(q) = "Record" => "LineNo" \in SplitFields(Grain(q))
        /\ Grain(q) \in UnitNames => Grain(q) \in SplitFields(Grain(q))
    BY NamesAssumption DEF SplitFields
  <2>2. \A f \in DOMAIN r.key : /\ f = "Recorder" => Grain(q) \in {"Recorder", "Record"}
                                /\ f = "LineNo" => Grain(q) = "Record"
    BY <1>1, BucketHas DEF RowOf
  <2>3. Dimensions \cup SplitFields(Grain(q)) \subseteq DOMAIN r.key
    BY <1>1 DEF RowOf
  <2>4. Grain(q) \in {"Recorder", "Record"} \cup UnitNames
    BY GrainNames
  <2>5. Grain(q) \in {"Recorder", "Record"} => "Period" \in DOMAIN r.key /\ has("Recorder")
    BY <2>1, <2>3
  <2>6. Grain(q) = "Record" => has("LineNo")
    BY <2>1, <2>3
  <2>7. Grain(q) \in UnitNames => Grain(q) \in DOMAIN r.key
    BY <2>1, <2>3
  <2>8. period \in DOMAIN r.key
    BY <2>4, <2>5, <2>7
  <2> QED BY <2>2, <2>3, <2>5, <2>6, <2>8
<1>5. key = m.dims
  <2>1. \A d \in Dimensions : r.key[d] = m.dims[d]
    BY <1>2, <1>3, <1>4, KeyParts
  <2>2. m.dims \in [Dimensions -> STRING] /\ Dimensions \cap DOMAIN r.key = Dimensions
    BY <1>2, <1>4, MovementType
  <2>3. key = [d \in Dimensions |-> r.key[d]]
    BY <2>2 DEF Restrict
  <2> QED BY <2>1, <2>2, <2>3
<1>6. place(r.key) = PlaceAt(q, m)
  <2>1. r.key[period] = start(m)
    <3>1. CASE Grain(q) \in UnitNames
      <4>1. Grain(q) \in BucketFields(q, Grain(q))
        BY <1>1, <1>4, <3>1 DEF RowOf
      <4>2. r.key[period] = BeginOf[Grain(q)][BucketPeriod(m, q)]
        BY <1>2, <1>3, <1>4, <3>1, <4>1, KeyParts
      <4>3. BucketPeriod(m, q) = BeginOf[Grain(q)][m.period]
        BY <1>2, <3>1 DEF BucketPeriod
      <4> QED BY <1>2, <3>1, <4>2, <4>3, CalendarAssumption
    <3>2. CASE Grain(q) \notin UnitNames
      BY <1>2, <1>3, <1>4, <3>2, KeyParts DEF BucketPeriod
    <3> QED BY <3>1, <3>2
  <2>2. has("Recorder") => r.key["Recorder"] = m.recorder
    BY <1>2, <1>3, <1>4, KeyParts
  <2>3. has("LineNo") => r.key["LineNo"] = m.line
    BY <1>2, <1>3, <1>4, KeyParts
  <2> HIDE DEF period, K
  <2> QED BY <1>4, <2>1, <2>2, <2>3 DEF PlaceAt, PlaceOf
<1>7. ASSUME NEW n \in movements PROVE at(n) = PlaceAt(q, n)
  <2> DEFINE v == [f \in AutoFields |-> Field(n, f)]
  <2>1. v[period] = start(n) /\ v["Recorder"] = n.recorder /\ v["LineNo"] = n.line
    BY FieldIs DEF AutoFields
  <2> HIDE DEF v, period
  <2>2. place(v) = PlaceAt(q, n)
    BY <1>4, <2>1 DEF PlaceAt, PlaceOf
  <2> QED BY <2>2 DEF v
<1>8. \A n \in read : n \in movements
  BY DEF Active
<1>9. before = BeforeRow(q, m) /\ through = ThroughRow(q, m)
  <2>1. read = ReadOf(q)
    BY DEF ReadOf
  <2> HIDE DEF at, place, read
  <2> QED BY <1>6, <1>7, <1>8, <2>1 DEF BeforeRow, ThroughRow
<1>10. r.sum["opening"] = BalanceOver(before, key) /\ r.sum["closing"] = BalanceOver(through, key)
  BY <1>1, <1>5, <1>9, Zenon DEF Runs
<1> QED BY <1>10, Zenon

\* Of any register, calendar and request.
THEOREM SplitsAlwaysAgree == Spec => []SplitsAgree
<1>1. TypeOK /\ InvFinite => SplitsAgree
  <2> SUFFICES ASSUME TypeOK, InvFinite PROVE SplitsAgree
    OBVIOUS
  <2>1. RunningBalances
    BY RequestsAssumption, RowBalances DEF RunningBalances
  <2> QED BY <2>1, SameTurnovers DEF SplitsAgree
<1> QED
  BY <1>1, RegisterTypeCorrect, RegisterFinite, PTL
=================================================================================
