------------------------------- MODULE Joins -------------------------------
(***************************************************************************)
(* The sources of a statement: the joins of its text, flattened by the     *)
(* parser into one chain, checked, and rendered with the data-separator    *)
(* predicates of the tables placed in ON, in WHERE or inside a relation.   *)
(* A base is shared by several areas; a statement belongs to one of them.  *)
(*                                                                         *)
(* src/query/core/parser.rs, codegen/select.rs, sources.rs, separators.rs  *)
(***************************************************************************)
EXTENDS Integers, FiniteSets, Sequences, SequencesExt

CONSTANTS Texts,        \* the source descriptions tried: <<first, joins>>
          Contents,     \* the contents a physical table may have
          States        \* the states of the separator: Value, Disabled, ...

VARIABLES text,         \* what the statement writes after ИЗ
          separator,    \* the state of the data separator
          step,         \* Text, Refused, Compiled, Executing, Answered
          chain,        \* the flat joins
          tables,       \* what the base holds, per source
          answer        \* the joined rows

Own == "own"                          \* the area of the statement

\* A source is a plain table without the separator's column, a separated
\* table, or a table and its extension: one column between the two.
NullRow == [area |-> "none", key |-> 0]

-----------------------------------------------------------------------------
(* The parser: a join written inside another's source.                      *)

RECURSIVE Flat(_)
Flat(join) ==
  <<[kind |-> join.kind, on |-> join.on]>> \o FlattenSeq([i \in DOMAIN join.nested |-> Flat(join.nested[i])])

\* A mutant: an inner join inside a left one is flattened too.
FlattensInner(outer, inner) == outer # "right" /\ inner \in {"inner", "left"}

\* Whether the joins nested in a source may be written one after another.
Flattens(outer, inner) ==
  \/ outer \in {"inner", "cross"} /\ inner \in {"inner", "left"}
  \/ outer = "left" /\ inner = "left"

RECURSIVE GroupAllowed(_)
GroupAllowed(join) ==
  \A i \in DOMAIN join.nested : /\ Flattens(join.kind, join.nested[i].kind)
                                /\ GroupAllowed(join.nested[i])

\* The number of the comma-listed element a source belongs to.
ElementOf(joins, position) ==
  Cardinality({i \in 1..(position - 1) : joins[i].kind = "cross"})

\* A condition reads the joined source and earlier ones of its element; a
\* FULL JOIN is anchored by an equality of fields of two sources.
ConditionAllowed(joins, i) ==
  LET on == joins[i].on
  IN /\ on.with <= i
     /\ on.equal => ElementOf(joins, on.with) = ElementOf(joins, i + 1)
     /\ joins[i].kind = "full" => on.equal

-----------------------------------------------------------------------------
(* The separator.                                                           *)

\* A disabled separator filters nothing; a forbidden or a missing one refuses
\* the table that declares its column, and no other.
Readable(shapes) ==
  separator \in {"Value", "Disabled"} \/ \A s \in Range(shapes) : s = "plain"

\* The relation of a live table: an extension's branches are filtered inside.
Relation(i) ==
  IF text.shapes[i] = "extended" /\ separator = "Value"
    THEN {r \in tables[i] : r.area \in {Own, "shared"}}
    ELSE tables[i]

\* The predicate left for the statement to place, over one joined row.
Separated(i) == text.shapes[i] = "separated" /\ separator = "Value"
Keeps(row, i) == Separated(i) => row[i].area = Own

\* The joins whose ON carries the predicate of the source at a position,
\* 0 when WHERE does.
Placement(joins, position) ==
  LET own == position - 1
      extending == {i \in position..Len(joins) :
                      /\ joins[i].kind \in {"right", "full"}
                      /\ \A k \in position..i : joins[k].kind # "cross"}
  IN IF own > 0 /\ joins[own].kind \in {"inner", "left", "full"} THEN own
     ELSE IF extending = {} THEN 0
     ELSE CHOOSE i \in extending : \A k \in extending : i <= k

-----------------------------------------------------------------------------
(* The statement, as the servers evaluate it.                               *)

Extend(row, i, r) == [row EXCEPT ![i] = r]
Blank == [i \in DOMAIN text.shapes |-> NullRow]

\* The fields of a missing row are NULL, and equal nothing.
Holds(on, position, row) ==
  IF on.equal THEN /\ row[position] # NullRow /\ row[on.with] # NullRow
                   /\ row[position].key = row[on.with].key
              ELSE TRUE

\* Both sides are sets of rows; Merge puts the fields of one side on the other.
Merge(l, r, right) == [i \in DOMAIN l |-> IF i \in right THEN r[i] ELSE l[i]]

Join(kind, left, right, places, Matches(_)) ==
  LET pairs == {p \in left \X right : Matches(Merge(p[1], p[2], places))}
      inner == {Merge(p[1], p[2], places) : p \in pairs}
      lefts == {l \in left : \A p \in pairs : p[1] # l}
      rights == {r \in right : \A p \in pairs : p[2] # r}
  IN CASE kind = "inner" -> inner
       [] kind = "left"  -> inner \cup lefts
       [] kind = "right" -> inner \cup rights
       [] kind = "full"  -> inner \cup lefts \cup rights
       [] kind = "cross" -> {Merge(l, r, places) : l \in left, r \in right}

RowsAt(i) == {Extend(Blank, i, r) : r \in Relation(i)}

\* One element of the list: its source and the joins up to the next comma.
RECURSIVE Element(_, _, _)
Element(joins, first, last) ==
  IF last = first THEN RowsAt(first)
  ELSE LET j == joins[last - 1]
           matches(row) ==
             /\ Holds(j.on, last, row)
             /\ \A p \in 1..(Len(joins) + 1) :
                  Placement(joins, p) = last - 1 => Keeps(row, p)
       IN Join(j.kind, Element(joins, first, last - 1), RowsAt(last), {last}, matches)

\* A comma-listed element joins as a whole.
RECURSIVE Statement(_, _)
Statement(joins, last) ==
  LET first == Max({1} \cup {i \in 2..last : joins[i - 1].kind = "cross"})
      element == Element(joins, first, last)
      every(row) == TRUE
  IN IF first = 1 THEN element
     ELSE Join("cross", Statement(joins, first - 1), element, first..last, every)

Rows(joins) ==
  {row \in Statement(joins, Len(joins) + 1) :
     \A p \in 1..(Len(joins) + 1) : Placement(joins, p) = 0 => Keeps(row, p)}

-----------------------------------------------------------------------------
(* The statement is parsed, compiled and executed.                          *)

JoinsInit ==
  /\ text \in Texts
  /\ separator \in States
  /\ step = "Text" /\ chain = << >> /\ tables = << >> /\ answer = {}

Parse ==
  /\ step = "Text"
  /\ LET joins == FlattenSeq([i \in DOMAIN text.joins |-> Flat(text.joins[i])])
         allowed == /\ \A i \in DOMAIN text.joins : GroupAllowed(text.joins[i])
                    /\ \A i \in DOMAIN joins : ConditionAllowed(joins, i)
                    /\ Readable(text.shapes)
     IN /\ step' = IF allowed THEN "Compiled" ELSE "Refused"
        /\ chain' = IF allowed THEN joins ELSE << >>
  /\ UNCHANGED <<text, separator, tables, answer>>

Execute ==
  /\ step = "Compiled"
  /\ \E base \in [DOMAIN text.shapes -> Contents] :
       tables' = [i \in DOMAIN base |->
                    {[r EXCEPT !.area = IF text.shapes[i] = "plain" THEN "shared" ELSE @] :
                       r \in base[i]}]
  /\ step' = "Executing"
  /\ UNCHANGED <<text, separator, chain, answer>>

Answer ==
  /\ step = "Executing"
  /\ answer' = Rows(chain)
  /\ step' = "Answered"
  /\ UNCHANGED <<text, separator, chain, tables>>

JoinsNext == Parse \/ Execute \/ Answer

-----------------------------------------------------------------------------
(* What the text says: its tree, over the rows of the statement's area.     *)

Visible(i) ==
  {Extend(Blank, i, r) : r \in {r \in tables[i] :
                                  separator = "Value" => r.area \in {Own, "shared"}}}

RECURSIVE Size(_)
Size(join) == 1 + FoldLeft(LAMBDA n, j : n + Size(j), 0, join.nested)

\* The rows of a source and of the joins written inside it, the source being
\* the one at a position.
RECURSIVE Tree(_, _, _)
Tree(left, joins, position) ==
  IF joins = << >> THEN left
  ELSE LET j == Head(joins)
           size == Size(j)
           inside == Tree(Visible(position), j.nested, position + 1)
           matches(row) == Holds(j.on, position, row)
       IN Tree(Join(j.kind, left, inside, position..(position + size - 1), matches),
               Tail(joins), position + size)

\* Commas bind weaker than joins: the elements are read one by one.
RECURSIVE Elements(_, _)
Elements(joins, position) ==
  LET comma == {i \in DOMAIN joins : joins[i].kind = "cross"}
      next == IF comma = {} THEN Len(joins) + 1 ELSE CHOOSE i \in comma : \A k \in comma : i <= k
      element == Tree(Visible(position), SubSeq(joins, 1, next - 1), position + 1)
      size == FoldLeft(LAMBDA n, j : n + Size(j), 1, SubSeq(joins, 1, next - 1))
      every(row) == TRUE
  IN IF comma = {} THEN element
     ELSE Join("cross", element, Elements(SubSeq(joins, next + 1, Len(joins)), position + size),
               (position + size)..Len(text.shapes), every)

Answered == step = "Answered"

\* A FULL JOIN preserves both of its sides, whatever its ON says.
FullOverSeparated ==
  \E i \in DOMAIN chain :
     /\ chain[i].kind = "full"
     /\ \E p \in 1..(Len(chain) + 1) : Separated(p) /\ Placement(chain, p) = i

\* A group of left joins whose inner condition holds for a missing row.
LooseGroup(join) ==
  /\ join.kind = "left"
  /\ \E i \in DOMAIN join.nested : join.nested[i].kind = "left" /\ ~join.nested[i].on.equal

\* A statement answers the tree its author wrote, over the rows of its area
\* alone, whatever the joins are flattened to and wherever the predicates of
\* the separator were placed (check_join_group, place_separator_predicates,
\* compile_native_join).
AnswersTheText ==
  Answered /\ ~FullOverSeparated /\ (\A i \in DOMAIN text.joins : ~LooseGroup(text.joins[i]))
    => answer = Elements(text.joins, 1)

\* No row of another area survives as an unmatched row
\* (openspec/specs/query-compilation/spec.md, "Filter every separated table").
NoForeignArea ==
  Answered /\ separator = "Value" =>
    \A row \in answer : \A i \in DOMAIN row : row[i].area \in {Own, "shared", "none"}
=============================================================================
