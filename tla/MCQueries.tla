------------------------------- MODULE MCQueries -------------------------------
(* Model values for the compiler of queries: packages and their temporary  *)
(* tables, joins, totals, tables and slices under data separation,         *)
(* dereferences, comparisons.  A behaviour is a behaviour of one of them.  *)
EXTENDS TempTables

CONSTANTS Subjects,                              \* the parts explored
          JoinTexts, JoinContents, JoinStates,
          TotalsClauses, TotalsContents, TotalsCatalogs,
          Separations, SourceSessions, SourceTables, SourceBases,
          DerefFields, DerefKinds, DerefStatements, DerefContents,
          Identifiers, Comparisons

VARIABLES subject,
          step, reply, content, statement,
          text, separator, chain, tables,
          clause, rows, catalog, stage, points, hierarchy, aggregates, result,
          settings, session, from, base, state,
          outer, inner,
          comparison, pick, form

J == INSTANCE Joins WITH Texts <- JoinTexts, Contents <- JoinContents,
       States <- JoinStates, answer <- reply
T == INSTANCE Totals WITH Clauses <- TotalsClauses,
       Contents <- TotalsContents, Catalogs <- TotalsCatalogs
S == INSTANCE Sources WITH Separators <- Separations, source <- from,
       Sessions <- SourceSessions, Statements <- SourceTables,
       Bases <- SourceBases, answer <- reply
D == INSTANCE Dereference WITH Fields <- DerefFields, KindOf <- DerefKinds,
       Live <- DOMAIN DerefFields, MaxTargets <- 3,
       Statements <- DerefStatements, Contents <- DerefContents, answer <- reply
C == INSTANCE Comparisons WITH answer <- reply

joins  == <<text, separator, chain, tables>>
totals == <<clause, rows, catalog, stage, points, hierarchy, aggregates, result>>
source_tables == <<settings, session, from, base, state>>
paths == <<statement, outer, inner>>
equality == <<comparison, pick, form>>

None == "none"
\* The variables of the parts a behaviour is not about.
NoJoins ==
  /\ text = None /\ separator = None /\ chain = None /\ tables = None
NoTotals ==
  /\ clause = None /\ rows = None /\ catalog = None /\ stage = None
  /\ points = None /\ hierarchy = None /\ aggregates = None /\ result = None
NoSources ==
  /\ settings = None /\ session = None /\ from = None /\ base = None
  /\ state = None
NoPaths ==
  /\ statement = None /\ outer = None /\ inner = None
NoEquality ==
  /\ comparison = None /\ pick = None /\ form = None

MCInit ==
  /\ subject \in Subjects
  /\ Init
  /\ \/ subject = "packages" /\ step = None /\ reply = None /\ content = None
        /\ NoJoins /\ NoTotals /\ NoSources /\ NoPaths /\ NoEquality
     \/ subject = "joins" /\ J!JoinsInit /\ content = None
        /\ NoTotals /\ NoSources /\ NoPaths /\ NoEquality
     \/ subject = "totals" /\ T!TotalsInit /\ step = None /\ reply = None
        /\ content = None /\ NoJoins /\ NoSources /\ NoPaths /\ NoEquality
     \/ subject = "sources" /\ S!SourcesInit /\ content = None
        /\ NoJoins /\ NoTotals /\ NoPaths /\ NoEquality
     \/ subject = "paths" /\ D!DerefInit
        /\ NoJoins /\ NoTotals /\ NoSources /\ NoEquality
     \/ subject = "equality" /\ C!CompareInit
        /\ NoJoins /\ NoTotals /\ NoSources /\ NoPaths

MCNext ==
  /\ UNCHANGED subject
  /\ \/ /\ subject = "packages" /\ Next
        /\ UNCHANGED <<step, reply, content, joins, totals, source_tables, paths, equality>>
     \/ /\ subject = "joins" /\ J!JoinsNext
        /\ UNCHANGED <<vars, content, totals, source_tables, paths, equality>>
     \/ /\ subject = "totals" /\ T!TotalsNext
        /\ UNCHANGED <<vars, step, reply, content, joins, source_tables, paths, equality>>
     \/ /\ subject = "sources" /\ S!SourcesNext
        /\ UNCHANGED <<vars, content, joins, totals, paths, equality>>
     \/ /\ subject = "paths" /\ D!DerefNext
        /\ UNCHANGED <<vars, joins, totals, source_tables, equality>>
     \/ /\ subject = "equality" /\ C!CompareNext
        /\ UNCHANGED <<vars, joins, totals, source_tables, paths>>

MCSpec ==
  MCInit /\ [][MCNext]_<<vars, subject, step, reply, content, joins, totals,
                         source_tables, paths, equality>>

\* Packages alone, with the restrictions and decisions a caller supplies.
MCSpecSupplied ==
  MCInit /\ [][NextSupplied /\ UNCHANGED <<subject, step, reply, content, joins, totals,
                                         source_tables, paths, equality>>]_vars

(* The properties of the parts, under the names their modules give them.    *)
AnswersTheText == subject = "joins" => J!AnswersTheText
NoForeignArea == subject = "joins" => J!NoForeignArea
AnswersTraversal == subject = "totals" => T!AnswersTraversal
TotalsPrecede == subject = "totals" => T!TotalsPrecede
SessionSeesItsArea == subject = "sources" => S!SessionSeesItsArea
SliceIsActive == subject = "sources" => S!SliceIsActive
PathsMeanValues == subject = "paths" => D!PathsMeanValues
EnclosingRowIsRead == subject = "paths" => D!EnclosingRowIsRead
EqualityMeansSame == subject = "equality" => C!EqualityMeansSame

-----------------------------------------------------------------------------
(* Packages: two tables, one of them with two spellings, two statements.    *)
MCNames == {"vt", "VT", "wt"}
MCFold  == [n \in MCNames |-> IF n = "wt" THEN "wt" ELSE "vt"]

Stmt(kind, name, reads) == [kind |-> kind, name |-> name, from |-> reads]

MCStatements ==
  {Stmt("place", "vt", <<Base>>), Stmt("place", "wt", <<"VT", Base>>),
   Stmt("place", "VT", <<"wt">>),
   Stmt("append", "VT", <<Base>>), Stmt("append", "wt", <<"vt">>),
   Stmt("append", "vt", <<"wt", "vt">>),
   Stmt("drop", "VT", <<>>), Stmt("drop", "wt", <<>>),
   Stmt("select", "vt", <<"wt", "vt">>)}

Symmetry == Permutations(Snapshots)

-----------------------------------------------------------------------------
(* Joins: three sources, listed or nested, of every kind of join.           *)
NoOn == [equal |-> FALSE, with |-> 0]
Ons(position) == {NoOn} \cup {[equal |-> TRUE, with |-> w] : w \in 1..(position - 1)}
JoinAt(position) ==
  {[kind |-> k, on |-> o, nested |-> <<>>] :
     k \in {"inner", "left", "right", "full"}, o \in Ons(position)}
  \cup {[kind |-> "cross", on |-> NoOn, nested |-> <<>>]}
Listed == {<<a, b>> : a \in JoinAt(2), b \in JoinAt(3)}
Nested ==
  {<<[a EXCEPT !.nested = <<b>>]>> : a \in {j \in JoinAt(2) : j.kind # "cross"},
     b \in {j \in JoinAt(3) : j.kind # "cross" /\ j.on.with # 1}}
MCShapes == {"plain", "separated", "extended"}
MCJoinTexts ==
  {[shapes |-> s, joins |-> j] :
     s \in {<<a, b, c>> : a \in MCShapes, b \in {"separated", "plain"}, c \in MCShapes},
     j \in Listed \cup Nested}
Joined(area, key) == [area |-> area, key |-> key]
MCJoinContents ==
  {{Joined("other", 1)}, {Joined("own", 1), Joined("other", 1)}, {Joined("own", 2)}}

-----------------------------------------------------------------------------
(* Totals: one to three control points over rows of a catalog of three.     *)
Point(name) == [name |-> name, periods |-> "none", hierarchy |-> "none"]
Levels(name, h) == [name |-> name, periods |-> "none", hierarchy |-> h]
Agg(kind, argument, alias) == [kind |-> kind, argument |-> argument, alias |-> alias, bare |-> TRUE]
Sum == <<Agg("sum", "Amount", "none")>>
ClauseOf(p, f, o) == [points |-> p, fields |-> f, overall |-> o]

PointLists ==
  {<<>>, <<Point("A")>>, <<Point("A"), Point("B")>>, <<Point("B"), Point("A"), Point("A")>>,
   <<Levels("Ref", "all")>>, <<Levels("Ref", "only")>>,
   <<Point("A"), Levels("Ref", "all")>>, <<Point("Ref"), Levels("Ref", "all"), Point("A")>>,
   <<Levels("Ref", "only"), Point("A")>>, <<Point("A"), Levels("Ref", "only"), Point("B")>>,
   <<Levels("A", "all")>>, <<Levels("Ref", "all"), Levels("Ref", "only")>>,
   <<[Point("B") EXCEPT !.periods = "dates"]>>, <<[Point("B") EXCEPT !.periods = "other"]>>,
   <<Point("C")>>}
FieldLists ==
  {Sum, <<Agg("count", "Ref", "none"), Agg("max", "B", "none"), Agg("sum", "Amount", "A")>>,
   <<Agg("sum", "Amount", "none"), Agg("count", "B", "Amount")>>,
   <<Agg("max", "A", "Ref")>>, <<Agg("sum", "Amount", "C")>>}
MCTotalsClauses ==
  {ClauseOf(p, Sum, TRUE) : p \in PointLists}
  \cup {ClauseOf(p, Sum, FALSE) : p \in {<<>>, <<Point("A")>>, <<Point("A"), Levels("Ref", "all")>>}}
  \cup {ClauseOf(<<Point("A")>>, f, TRUE) : f \in FieldLists}
Item(a, ref, b) == [A |-> a, Ref |-> ref, B |-> b]
Numbered(s) ==
  [i \in DOMAIN s |-> [A |-> s[i].A, Ref |-> s[i].Ref, B |-> s[i].B, Amount |-> 2 ^ (i - 1)]]
Items == {Item(1, 1, 1), Item(1, 3, 2), Item(2, 2, 1), Item(2, 0, 1), Item(1, -1, 2)}
MCTotalsContents ==
  {Numbered(s) : s \in {<<>>} \cup [1..2 -> Items \ {Item(2, 2, 1)}] \cup [1..3 -> Items \ {Item(2, 0, 1), Item(1, -1, 2)}]}
MCTotalsCatalogs == {(1 :> 0 @@ 2 :> 1 @@ 3 :> 2), (1 :> 0 @@ 2 :> 1 @@ 3 :> 0)}

-----------------------------------------------------------------------------
(* Tables and slices: two areas, rows of which one is inactive, one of      *)
(* which an access decision lets through, one a condition holds for.        *)
Held(d, a, p, t, ok, h) ==
  [dim |-> d, area |-> a, period |-> p, active |-> t, allowed |-> ok, holds |-> h]
Pool ==
  {Held(1, 1, 1, TRUE, TRUE, TRUE), Held(1, 1, 2, TRUE, TRUE, FALSE), Held(1, 1, 2, FALSE, TRUE, TRUE),
   Held(1, 2, 2, TRUE, TRUE, TRUE), Held(1, 0, 1, TRUE, FALSE, TRUE), Held(2, 1, 1, TRUE, FALSE, TRUE)}
Unread ==
  [parsed |-> FALSE, use |-> FALSE, value |-> FALSE, independent |-> FALSE,
   conditional |-> FALSE, type |-> "number"]
MCSeparations ==
  {Unread} \cup [parsed : {TRUE}, use : BOOLEAN, value : BOOLEAN, independent : BOOLEAN,
                 conditional : BOOLEAN, type : {"number", "boolean", "reference"}]
MCSourceSessions ==
  [use : {"unset", "true", "false"}, value : {-1, 1}, condition : {"unset", "true", "false"}]
Table(kind) ==
  [kind |-> kind, separated |-> TRUE, extended |-> FALSE, extensionSeparated |-> FALSE,
   restricted |-> FALSE, bound |-> 0, condition |-> FALSE, register |-> TRUE,
   periodic |-> TRUE, roles |-> "known", used |-> {}]
MCSourceTables ==
  {Table("table"), [Table("table") EXCEPT !.separated = FALSE],
   [Table("table") EXCEPT !.extended = TRUE, !.restricted = TRUE],
   [Table("table") EXCEPT !.extended = TRUE, !.extensionSeparated = TRUE],
   Table("SliceLast"), [Table("SliceFirst") EXCEPT !.bound = 2], [Table("SliceLast") EXCEPT !.bound = 1],
   [Table("SliceLast") EXCEPT !.condition = TRUE, !.restricted = TRUE],
   [Table("SliceLast") EXCEPT !.roles = "unknown"], [Table("SliceLast") EXCEPT !.register = FALSE],
   [Table("constants") EXCEPT !.used = {"A", "B"}], [Table("constants") EXCEPT !.used = {"B"}],
   [Table("constants") EXCEPT !.used = {"B"}, !.restricted = TRUE]}
Value(area, v) == [area |-> area, value |-> v]
MCSourceBases ==
  {[table |-> t,
    extension |-> {Held(3, 1, 1, TRUE, TRUE, TRUE), Held(3, 2, 1, TRUE, TRUE, TRUE)},
    constants |-> [A |-> [separated |-> TRUE, rows |-> {Value(1, 7), Value(2, 9)}],
                   B |-> [separated |-> FALSE, rows |-> {Value(1, 5)}]]] :
     t \in {{Held(1, 1, 2, TRUE, TRUE, FALSE), p, q} :
             p \in {Held(1, 2, 2, TRUE, TRUE, TRUE), Held(1, 0, 1, TRUE, FALSE, TRUE)},
             q \in Pool \ {Held(1, 0, 1, TRUE, FALSE, TRUE)}}}

-----------------------------------------------------------------------------
(* Dereferences: four objects, fixed and composite references to each other. *)
Plain(type) == [is |-> "plain", type |-> type, target |-> "none", targets |-> <<>>]
Fixed(object) == [is |-> "fixed", type |-> "reference", target |-> object, targets |-> <<>>]
Composite(objects) == [is |-> "composite", type |-> "reference", target |-> "none", targets |-> objects]
MCDerefFields ==
  [Order  |-> [ID |-> Plain("id"), Owner |-> Fixed("Person"), Payer |-> Fixed("Person"),
               Basis |-> Composite(<<"Bill", "Deal">>), Any |-> Composite(<<>>)],
   Bill   |-> [ID |-> Plain("id"), Owner |-> Fixed("Person"), Mark |-> Plain("string"),
               Basis |-> Composite(<<"Bill", "Deal">>)],
   Deal   |-> [ID |-> Plain("id"), Owner |-> Fixed("Deal"), Mark |-> Plain("number"),
               Size |-> Plain("number"), Basis |-> Fixed("Bill")],
   Person |-> [ID |-> Plain("id"), Boss |-> Fixed("Person"), Name |-> Plain("string")]]
MCDerefKinds == [Order |-> "Document", Bill |-> "Document", Deal |-> "Catalog", Person |-> "Catalog"]

Whole(object, alias) == [object |-> object, alias |-> alias, pruned |-> FALSE]
Pruned(object, alias) == [object |-> object, alias |-> alias, pruned |-> TRUE]
Reading(sources, reads) == [sources |-> sources, reads |-> reads]
Single(sources, reads) == [outer |-> Reading(<<>>, <<>>), inner |-> Reading(sources, reads)]
Paths ==
  {<<"Owner", "Name">>, <<"Payer", "Name">>, <<"Owner", "Boss", "Name">>, <<"O", "Owner">>,
   <<"O", "Owner", "Boss", "Name">>, <<"O", "Payer", "Boss", "Name">>, <<"O", "Basis", "Owner">>,
   <<"Basis", "Mark">>, <<"O", "Basis", "Size">>, <<"O", "Basis", "Owner", "Name">>,
   <<"O", "Basis", "Basis", "Size">>, <<"O", "Basis", "Basis">>, <<"Any", "Size">>,
   <<"O", "Any", "Basis", "Mark">>, <<"O", "Any", "Owner">>, <<"Order", "Owner", "Name">>,
   <<"Document", "Order", "Owner", "Boss">>, <<"Basis">>, <<"Name">>, <<"O", "Basis", "Owner", "Boss">>}
MCDerefStatements ==
  {Single(<<Whole("Order", a)>>, <<p, q>>) : a \in {"O", "none"}, p, q \in Paths}
  \cup {Single(<<Whole("Order", "O"), Whole("Person", a)>>, <<p, q>>) : a \in {"Owner", "P", "none"},
         p \in {<<"Owner", "Name">>, <<"O", "Owner", "Name">>, <<"Name">>},
         q \in {<<"Person", "Boss", "Name">>, <<"Boss", "Name">>, <<"Payer", "Boss">>}}
  \cup {Single(<<Whole("Order", "__left_ref1"), Whole("Person", "P")>>,
               <<<<"Owner", "Name">>, <<"Boss", "Name">>>>)}
  \cup {[outer |-> Reading(<<Whole("Order", a)>>, <<p>>), inner |-> Reading(ss, <<q, r>>)] :
         a \in {"O", "none"}, p \in {<<"Owner", "Name">>, <<"Payer", "Name">>},
         ss \in {<<Whole("Deal", "D")>>, <<Whole("Deal", "O")>>, <<Whole("Deal", "none")>>,
                 <<Whole("Order", "none")>>, <<Whole("Deal", "D"), Whole("Person", "P")>>},
         q \in {<<"O", "Owner">>, <<"Order", "Payer">>, <<"O", "Owner", "Name">>, <<"Payer", "Name">>},
         r \in {<<"Owner", "Size">>, <<"Size">>, <<"D", "Basis", "Mark">>}}
  \cup {[outer |-> Reading(<<Pruned("Order", "O")>>, <<<<"Owner">>>>),
         inner |-> Reading(<<Whole("Deal", "D")>>, <<q>>)] : q \in {<<"O", "Owner">>, <<"O", "Payer">>}}
Id(i) == [id |-> i]
Text(v) == [v |-> v]
To(type, i) == [type |-> type, id |-> i]
MCDerefContents ==
  {[Order |-> {[ID |-> Id(1), Owner |-> Id(1), Payer |-> Id(2), Basis |-> b, Any |-> a]},
    Bill |-> {[ID |-> Id(1), Owner |-> Id(2), Mark |-> Text("m"), Basis |-> To("Deal", 1)]},
    Deal |-> {[ID |-> Id(1), Owner |-> Id(1), Mark |-> Text("7"), Size |-> Text("5"), Basis |-> Id(1)]},
    Person |-> {[ID |-> Id(1), Boss |-> Id(2), Name |-> Text("n1")],
                [ID |-> Id(2), Boss |-> Id(3), Name |-> Text("n2")]}] :
     b \in {To("Bill", 1), To("Deal", 1), To("Deal", 2)}, a \in {To("Deal", 1), To("Person", 1)}}

-----------------------------------------------------------------------------
(* Comparisons: every form of a side beside those its declarations admit,   *)
(* in each place a comparison may be written.                               *)
Side(is, side) == [is |-> is, side |-> side]
SideOf(is, of, side) == [is |-> is, of |-> of, side |-> side]
Const(is, type, v) == [is |-> is, value |-> [type |-> type, v |-> v]]
MCIdentifiers == [A |-> {0, 1}, B |-> {0, 2}]
Sides(side) ==
  {SideOf("fixed", "A", side), SideOf("one", "A", side)}
  \cup {Side(i, side) : i \in {"payload", "pair", "many", "string", "number"}}
Constants ==
  {Const("typed", "A", 0), Const("typed", "A", 1), Const("typed", "B", 2), Const("typed", "B", 0),
   Const("wide", "B", 2), Const("bare", "A", 1), Const("literal", "string", 1),
   Const("literal", "number", 0), [is |-> "undefined"], [is |-> "unbound"]}
Cases ==
  {[is |-> "case", then |-> a, else |-> b] :
     a \in {SideOf("fixed", "A", "l"), Side("string", "l"), Side("payload", "l")},
     b \in {SideOf("fixed", "A", "c"), Side("pair", "c"), Side("string", "c"), [is |-> "unbound"]}}
Compare(place, negated, left, items) ==
  [place |-> place, negated |-> negated, left |-> left, items |-> items]

\* The sides that meet in the forms the compiler has for them.
Beside ==
  [fixed |-> {"fixed", "one", "string", "undefined", "unbound", "bare", "wide", "typed own"},
   payload |-> {"payload", "pair", "many", "undefined", "unbound", "wide"},
   pair |-> {"payload", "pair", "many", "typed", "wide", "bare", "undefined", "unbound", "literal"},
   many |-> {"fixed", "payload", "pair", "one", "string", "number", "typed", "wide", "bare",
             "literal", "undefined", "unbound"},
   one |-> {"fixed", "payload", "pair", "many", "string", "number", "typed", "wide", "bare",
            "literal", "undefined", "unbound"},
   string |-> {"string", "number", "literal", "undefined", "unbound", "many"},
   number |-> {"string", "number", "literal", "undefined", "unbound"}]
Meeting(l, r) ==
  IF r.is = "typed" /\ l.is = "fixed"
  THEN IF r.value.type = l.of THEN "typed own" ELSE "typed other" ELSE r.is
Meets(l, r) == Meeting(l, r) \in Beside[l.is]

MCComparisons ==
  {c \in {Compare("where", n, l, <<r>>) :
            n \in BOOLEAN, l \in Sides("l"), r \in Sides("r") \cup Constants} : Meets(c.left, c.items[1])}
  \cup {Compare("case", n, l, <<r>>) : n \in BOOLEAN,
         l \in {c \in Cases : c.then.is = "fixed" /\ c.else.is # "pair"},
         r \in {SideOf("fixed", "A", "r"), Side("string", "r"), Const("typed", "A", 1),
               Const("literal", "string", 1), [is |-> "unbound"]}}
  \cup {Compare("where", n, l, <<r>>) : n \in BOOLEAN,
         l \in {c \in Cases : {c.then.is, c.else.is} \cap {"pair", "payload"} # {}},
         r \in {Side("payload", "r"), Side("pair", "r")}}
  \cup {c \in {Compare("list", n, l, <<r, q>>) : n \in BOOLEAN,
                l \in Sides("l") \ {Side("payload", "l")}, r \in Constants,
                q \in {Const("typed", "A", 1), Const("typed", "B", 0), Const("wide", "B", 2),
                      Const("literal", "string", 1)}} :
           \A i \in 1..2 :
             /\ Meets(c.left, c.items[i])
             /\ c.left.is \in {"many", "one"} \/ c.items[i].is \notin {"undefined", "unbound", "bare"}}
  \cup {Compare("list", n, Side("many", "l"), <<r, Const("literal", "string", 1)>>) :
         n \in BOOLEAN, r \in {SideOf("fixed", "A", "r"), Side("string", "r"), Side("number", "r")}}
  \cup {c \in {Compare(p, n, l, <<r>>) :
                n \in BOOLEAN, p \in {"query", "tuple"}, l \in Sides("l"), r \in Sides("r")} :
           c.place = "tuple" =>
             /\ c.items[1].is # "many" \/ c.left.is \in {"many", "payload", "pair"}
             /\ ~(c.left.is = "many" /\ c.items[1].is = "one")}
  \cup {c \in {Compare("join", FALSE, l, <<r>>) : l \in Sides("l"), r \in Sides("r")} :
           ~(c.left.is = "many" /\ c.items[1].is = "many")}
  \cup {Compare("section", n, l, <<Side("pair", "r")>>) : n \in BOOLEAN, l \in Sides("l")}
  \cup {Compare("refs", n, l, <<[is |-> "object", of |-> t]>>) :
         n \in BOOLEAN, l \in Sides("l") \ {SideOf("one", "A", "l")}, t \in {"A", "B"}}
  \cup {Compare("type", n, l, <<[is |-> "object", of |-> t]>>) :
         n \in BOOLEAN, l \in Sides("l"), t \in {"A", "B", "string", "undefined", "null"}}

\* A reference of 16 bytes beside one of 20.
WidthComparisons ==
  {Compare("where", n, SideOf("fixed", "A", "l"), <<Side("pair", "r")>>) : n \in BOOLEAN}
================================================================================
