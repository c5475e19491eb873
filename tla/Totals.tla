-------------------------------- MODULE Totals --------------------------------
(***************************************************************************)
(* ИТОГИ: the rows of a statement and the totals of its control points, in *)
(* the order of the platform's linear traversal.  The compiler writes one  *)
(* SELECT per level, unites them and orders the union by ranks and flags;  *)
(* the model evaluates those SELECTs.                                      *)
(*                                                                         *)
(* src/query/core/codegen/totals.rs                                        *)
(***************************************************************************)
EXTENDS Integers, FiniteSets, Sequences, SequencesExt

CONSTANTS Clauses,      \* the clauses tried: points, fields, overall
          Contents,     \* the rows of the statement, in its order
          Catalogs      \* the catalog of the references: element -> parent

VARIABLES clause,       \* what is written after ИТОГИ
          rows,         \* the numbered rows of the statement
          catalog,      \* the parents of the live catalog
          stage,        \* Text, Refused, Compiled, Answered
          points,       \* the positions of the control points
          hierarchy,    \* [index, only]; index 0 without a hierarchy
          aggregates,   \* per result column its aggregate
          result        \* the rows of the answer

Null == -1
Empty == 0                                    \* the empty reference
Flat == [index |-> 0, only |-> FALSE]

\* The result columns: a string, a reference to one hierarchical catalog, a
\* date, a number.
Columns == <<"A", "Ref", "B", "Amount">>
Kinds == <<"string", "reference", "date", "number">>
Absent == 0
ResolveColumn(name) ==
  IF name \in ToSet(Columns) THEN CHOOSE p \in DOMAIN Columns : Columns[p] = name ELSE Absent

-----------------------------------------------------------------------------
(* The clause.                                                              *)

PointAllowed(point) ==
  LET p == ResolveColumn(point.name)
  IN /\ p # Absent
     /\ point.periods # "none" => Kinds[p] = "date" /\ point.periods = "dates"
     /\ point.hierarchy # "none" => Kinds[p] = "reference"

\* A point repeated with ИЕРАРХИЯ replaces the plain one right before it.
ResolvePoints(written) ==
  LET AddPoint(found, point) ==
        LET p == ResolveColumn(point.name)
            drop == point.hierarchy # "none" /\ found.points # << >> /\ Last(found.points) = p
            before == IF drop THEN Front(found.points) ELSE found.points
        IN [points |-> Append(before, p),
            hierarchy |-> IF point.hierarchy = "none" THEN found.hierarchy
                          ELSE [index |-> Len(before) + 1, only |-> point.hierarchy = "only"]]
  IN FoldLeft(AddPoint, [points |-> << >>, hierarchy |-> Flat], written)

PointsAllowed(written) ==
  /\ \A i \in DOMAIN written : PointAllowed(written[i])
  /\ Cardinality({i \in DOMAIN written : written[i].hierarchy # "none"}) <= 1

\* The column an aggregate is written into: its alias, or its argument.
FieldTarget(field) ==
  IF field.alias # "none" THEN ResolveColumn(field.alias)
  ELSE IF field.bare THEN ResolveColumn(field.argument) ELSE Absent

FieldAllowed(field) ==
  LET target == FieldTarget(field)
      source == ResolveColumn(field.argument)
  IN /\ source # Absent /\ target # Absent
     /\ IF field.bare /\ field.kind \in {"min", "max"}
          THEN Kinds[source] = Kinds[target]
          ELSE Kinds[target] \in {"number", "string"}

\* A later field of one column replaces the earlier one.
ResolveFields(fields) ==
  [p \in DOMAIN Columns |->
     LET of == {i \in DOMAIN fields : FieldTarget(fields[i]) = p}
     IN IF of = {} THEN [kind |-> "none", argument |-> Absent]
        ELSE LET last == fields[Max(of)]
             IN [kind |-> last.kind, argument |-> ResolveColumn(last.argument)]]

Compile ==
  /\ stage = "Text"
  /\ LET found == ResolvePoints(clause.points)
         allowed == /\ PointsAllowed(clause.points)
                    /\ clause.points # << >> \/ clause.overall
                    /\ \A i \in DOMAIN clause.fields : FieldAllowed(clause.fields[i])
     IN IF allowed
          THEN /\ stage' = "Compiled"
               /\ points' = found.points /\ hierarchy' = found.hierarchy
               /\ aggregates' = ResolveFields(clause.fields)
          ELSE stage' = "Refused" /\ UNCHANGED <<points, hierarchy, aggregates>>
  /\ UNCHANGED <<clause, rows, catalog, result>>

-----------------------------------------------------------------------------
(* The recursive tables of a hierarchical point.                            *)

Hierarchical == hierarchy.index # 0
Numbers == DOMAIN rows

\* The key of a row: its reference, or the parent of it.
Key(r) ==
  LET ref == rows[r].Ref
  IN IF ~hierarchy.only THEN ref ELSE IF ref \in DOMAIN catalog THEN catalog[ref] ELSE Empty

\* The ancestors of a key; the catalog has no row of the empty reference.
RECURSIVE Ancestors(_)
Ancestors(key) ==
  IF key \notin DOMAIN catalog \/ catalog[key] = Empty THEN << >>
  ELSE <<catalog[key]>> \o Ancestors(catalog[key])

Beneath(node) == {r \in Numbers : Key(r) = node \/ node \in ToSet(Ancestors(Key(r)))}
Nodes == {Key(r) : r \in Numbers} \cup UNION {ToSet(Ancestors(Key(r))) : r \in Numbers}
Rank(node) == Min(Beneath(node))
Depth(node) == Len(Ancestors(node))
Hier(node) == IF \E r \in Numbers : node \in ToSet(Ancestors(Key(r))) THEN 1 ELSE 0

\* The path nests under the parent when the parent is a node as well.
RECURSIVE Path(_)
Path(node) ==
  LET parent == IF node \in DOMAIN catalog THEN catalog[node] ELSE Null
  IN (IF parent \in Nodes \ {Null} THEN Path(parent) ELSE << >>) \o <<Rank(node)>>

-----------------------------------------------------------------------------
(* The branches of the union.                                               *)

\* Joining the nodes keeps the rows whose key is not NULL.
Joined == {r \in Numbers : Key(r) # Null}
SourceOf(depth) == IF Hierarchical /\ depth >= hierarchy.index THEN Joined ELSE Numbers

Value(r, index) == IF index = hierarchy.index THEN Key(r) ELSE rows[r][Columns[points[index]]]

AggregateOf(aggregate, of) ==
  LET values == {rows[r][Columns[aggregate.argument]] : r \in of} \ {Null}
  IN CASE aggregate.kind = "none" -> Null
       [] aggregate.kind = "count" ->
            Cardinality({r \in of : rows[r][Columns[aggregate.argument]] # Null})
       [] aggregate.kind = "max" -> IF values = {} THEN Null ELSE Max(values)
       [] aggregate.kind = "sum" ->
            FoldSet(LAMBDA r, s : s + rows[r][Columns[aggregate.argument]], 0, of)

\* The cells of a total over rows, its control points showing their values.
Cells(of, shown) ==
  [p \in DOMAIN Columns |->
     LET at == {i \in DOMAIN shown : points[i] = p}
     IN IF at = {} THEN AggregateOf(aggregates[p], of) ELSE shown[Min(at)]]

\* Groups of a level follow the first appearance of their own value among
\* the rows a branch reads.
Appears(branch, index, r) == Min({k \in branch : rows[k][Columns[points[index]]]
                                                  = rows[r][Columns[points[index]]]})

Flag(index, depth) ==
  IF index = hierarchy.index
    THEN (IF index < depth THEN 2 ELSE IF index = depth THEN 1 ELSE 0)
    ELSE IF index < depth THEN 1 ELSE 0

\* The sort keys: a rank or a path and a flag per point, then the number.
Keys(branch, depth, r, number) ==
  FlattenSeq([index \in DOMAIN points |->
    << IF index > depth THEN (IF index = hierarchy.index THEN << >> ELSE <<0>>)
       ELSE IF index = hierarchy.index THEN Path(Key(r))
       ELSE <<Appears(branch, index, r)>>,
       <<Flag(index, depth)>> >>]) \o <<<<number>>>>

Offset == IF clause.overall THEN 1 ELSE 0

\* A mutant: rows keyed by a folder stand beside the folder's own total.
KeyDepthOfNode(r) == IF Hierarchical THEN Depth(Key(r)) ELSE 0

KeyDepth(r) == IF Hierarchical THEN Depth(Key(r)) + Hier(Key(r)) ELSE 0

OverallBranch ==
  IF clause.overall /\ rows # << >>
    THEN {[cells |-> Cells(Numbers, << >>), level |-> 0, keys |-> Keys({}, 0, 0, 0)]}
    ELSE {}

\* One row per group of the values of the first points.
GroupBranch(depth) ==
  LET read == SourceOf(depth)
      same(r) == {k \in read : \A i \in 1..depth : Value(k, i) = Value(r, i)}
      keyed == Hierarchical /\ depth >= hierarchy.index
  IN {[cells |-> Cells(same(r), [i \in 1..depth |-> Value(r, i)]),
       level |-> depth - 1 + Offset + IF keyed THEN KeyDepth(r) ELSE 0,
       keys |-> Keys(read, depth, r, 0)] : r \in read}

\* One row per folder that has rows beneath, in each enclosing group.
HierarchyBranch ==
  LET depth == hierarchy.index
      folders == {n \in Nodes \ {Null} : Hier(n) = 1}
      read == UNION {Beneath(n) : n \in folders}
      same(n, r) == {k \in Beneath(n) : \A i \in 1..(depth - 1) : Value(k, i) = Value(r, i)}
      row(n, r) ==
        [cells |-> Cells(same(n, r), [i \in 1..depth |-> IF i = depth THEN n ELSE Value(r, i)]),
         level |-> depth - 1 + Offset + Depth(n),
         keys |-> FlattenSeq([i \in DOMAIN points |->
                    << IF i < depth THEN <<Appears(read, i, r)>>
                       ELSE IF i = depth THEN Path(n) ELSE <<0>>,
                       <<IF i < depth THEN 1 ELSE 0>> >>]) \o <<<<0>>>>]
  IN UNION {{row(n, r) : r \in Beneath(n)} : n \in folders}

DetailBranch ==
  LET depth == Len(points) + 1
      read == SourceOf(depth)
  IN {[cells |-> [p \in DOMAIN Columns |-> rows[r][Columns[p]]],
       level |-> Len(points) + Offset + KeyDepth(r),
       keys |-> Keys(read, depth, r, r)] : r \in read}

Union ==
  OverallBranch \cup UNION {GroupBranch(d) : d \in DOMAIN points}
    \cup (IF Hierarchical THEN HierarchyBranch ELSE {}) \cup DetailBranch

\* The order of the union: ranks compare as numbers and paths as strings of
\* equally long segments, so both as sequences of numbers.
Before(a, b) ==
  \E i \in 1..(Len(a) + 1) : /\ \A k \in 1..(i - 1) : k <= Len(b) /\ a[k] = b[k]
                             /\ i <= Len(b)
                             /\ i <= Len(a) => a[i] < b[i]
Precedes(a, b) ==
  \E i \in DOMAIN a.keys : /\ \A k \in 1..(i - 1) : a.keys[k] = b.keys[k]
                           /\ Before(a.keys[i], b.keys[i])

Answer ==
  /\ stage = "Compiled"
  /\ LET union == Union
         place == [row \in union |-> Cardinality({other \in union : Precedes(other, row)})]
     IN result' = [i \in 1..Cardinality(union) |->
                     LET row == CHOOSE row \in union : place[row] = i - 1
                     IN [cells |-> row.cells, level |-> row.level]]
  /\ stage' = "Answered"
  /\ UNCHANGED <<clause, rows, catalog, points, hierarchy, aggregates>>

TotalsInit ==
  /\ clause \in Clauses /\ rows \in Contents /\ catalog \in Catalogs
  /\ stage = "Text" /\ points = << >> /\ hierarchy = Flat /\ aggregates = << >> /\ result = << >>

TotalsNext == Compile \/ Answer

-----------------------------------------------------------------------------
(* The linear traversal: every group in the order its value first appears,  *)
(* every total before the rows it covers, a folder before its children.     *)

FirstOf(of, index) == Min({k \in Numbers : \E r \in of : Value(k, index) = Value(r, index)})
Folder(node) == Hierarchical /\ \E r \in Numbers : node \in ToSet(Ancestors(Key(r)))

\* Sets of rows in the order of their first appearance in the statement.
InOrder(sets, First(_)) ==
  LET place == [s \in sets |-> Cardinality({t \in sets : First(t) < First(s)})]
  IN [i \in 1..Cardinality(sets) |-> CHOOSE s \in sets : place[s] = i - 1]

Total(of, shown, level) == <<[cells |-> Cells(of, shown), level |-> level]>>

RECURSIVE Traversal(_, _, _), Visit(_, _, _, _)
Traversal(of, shown, level) ==
  LET index == Len(shown) + 1
      groups == {{k \in of : Value(k, index) = Value(r, index)} : r \in of}
      first(group) == FirstOf(group, index)
      inside(group) ==
        LET value == Value(CHOOSE r \in group : TRUE, index)
        IN Total(group, Append(shown, value), level)
             \o Traversal(group, Append(shown, value), level + 1)
      nodes == {Key(r) : r \in of} \cup UNION {ToSet(Ancestors(Key(r))) : r \in of}
      roots == {n \in nodes : Ancestors(n) = << >>}
      trees == InOrder(roots, Rank)
  IN IF index > Len(points)
       THEN [i \in 1..Cardinality(of) |->
               LET r == CHOOSE r \in of : Cardinality({k \in of : k < r}) = i - 1
               IN [cells |-> [p \in DOMAIN Columns |-> rows[r][Columns[p]]], level |-> level]]
     ELSE IF index = hierarchy.index
       THEN FlattenSeq([i \in DOMAIN trees |-> Visit(trees[i], of, shown, level)])
     ELSE LET ordered == InOrder(groups, first)
          IN FlattenSeq([i \in DOMAIN ordered |-> inside(ordered[i])])

\* A folder: its own total, the rows keyed by it, then its children.
Visit(node, of, shown, level) ==
  LET own == {r \in of : Key(r) = node}
      inner == IF Folder(node) THEN level + 1 ELSE level
      nodes == {Key(r) : r \in of} \cup UNION {ToSet(Ancestors(Key(r))) : r \in of}
      children == InOrder({n \in nodes : Ancestors(n) # << >> /\ Head(Ancestors(n)) = node}, Rank)
  IN (IF Folder(node) THEN Total(of \cap Beneath(node), Append(shown, node), level) ELSE << >>)
       \o (IF own = {} THEN << >>
           ELSE Total(own, Append(shown, node), inner) \o Traversal(own, Append(shown, node), inner + 1))
       \o FlattenSeq([i \in DOMAIN children |-> Visit(children[i], of, shown, inner)])

Expected ==
  IF clause.overall /\ rows # << >>
    THEN Total(Numbers, << >>, 0) \o Traversal(Numbers, << >>, 1)
    ELSE Traversal(Numbers, << >>, 0)

\* What the branches of a hierarchy lose: rows without a reference, the place
\* of a folder whose enclosing group begins with a row of no folder, the
\* order of the roots once the empty reference is a node itself.
Misplaced ==
  /\ Hierarchical
  /\ \/ Joined # Numbers
     \/ Empty \in Nodes /\ \E n \in DOMAIN catalog \cap Nodes : catalog[n] = Empty /\ Rank(n) < Rank(Empty)
     \/ hierarchy.index > 1 /\ \E r \in Numbers : ~Folder(Key(r)) /\ Ancestors(Key(r)) = << >>

\* The answer is the linear traversal of the statement's rows: no row lost or
\* twice, every total the sum of the rows it covers and right before them,
\* its level the number of totals around it (wrap_totals, hierarchy_ctes).
AnswersTraversal == stage = "Answered" /\ ~Misplaced => result = Expected

\* A total precedes the rows it covers, groups following the first appearance
\* of their value (the header of src/query/core/codegen/totals.rs).
TotalsPrecede == stage = "Answered" => result = Expected
=============================================================================
