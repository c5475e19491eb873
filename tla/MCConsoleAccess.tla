--------------------------- MODULE MCConsoleAccess ---------------------------
(* Model values for access: the console's commands over the stores, a table *)
(* under the restrictions of several roles, the decisions of an application *)
(* about a batch, and the row checks of an ordinary statement.  A behaviour *)
(* is a behaviour of one of them.                                           *)
EXTENDS ApplicationAccess, TLC

CONSTANTS Subjects,
          GivenRoles, Templates, Sessions, TableRows, Joined, TemplateDepth

VARIABLES subject,
          session, joined, roles

R == INSTANCE Restrictions WITH Roles <- GivenRoles

restrictions == <<session, joined, roles>>

\* The roles of a behaviour that is not about them.
NoRestrictions == session = "none" /\ joined = "none" /\ roles = "none"

MCInit ==
  /\ subject \in Subjects
  /\ Init /\ D!DecisionsInit /\ O!RowsInit
  /\ IF subject = "roles" THEN R!AccessInit ELSE NoRestrictions

MCNext ==
  /\ UNCHANGED subject
  /\ \/ subject = "console" /\ Next /\ UNCHANGED <<restrictions, decisions, checks>>
     \/ subject = "roles" /\ R!AccessNext /\ UNCHANGED <<vars, decisions, checks>>
     \/ subject = "decisions" /\ D!DecisionsNext /\ UNCHANGED <<vars, restrictions, checks>>
     \/ subject = "rows" /\ O!RowsNext /\ UNCHANGED <<vars, restrictions, decisions>>
     \* a compilation ends; the console alone must always have a step
     \/ subject # "console" /\ UNCHANGED <<vars, restrictions, decisions, checks>>

MCSpec == MCInit /\ [][MCNext]_<<vars, subject, restrictions, decisions, checks>>

(* The properties of the parts, under the names their modules give them.    *)
AccessAddsUp == subject = "roles" => R!AccessAddsUp
AnyRoleAllows == subject = "roles" => R!AnyRoleAllows
TablesPlacedRestricted == D!TablesPlacedRestricted

-----------------------------------------------------------------------------
(* A base of three users and five roles: the rights of two roles are in     *)
(* Config, of two in an extension, of one nowhere; three objects, a role that *)
(* grants by default, two whose restrictions join other tables, and every  *)
(* kind of entry.                                                           *)
MCUsers == {"anna", "boris", "vera"}
MCRoles == {"sales", "full", "stock", "audit", "gone"}

MCRolesOf ==
  "anna" :> <<"sales", "stock">> @@ "boris" :> <<"stock", "gone", "audit">> @@
  "vera" :> <<"sales", "full">>

MCPlace ==
  "sales" :> "config" @@ "full" :> "config" @@ "stock" :> "extension" @@
  "audit" :> "extension" @@ "gone" :> "nowhere"

MCEntries ==
  "sales" :> [o \in {"goods", "firms", "banks"} |-> "restricted"] @@
  "full"  :> ("goods" :> "denied" @@ "firms" :> "silent") @@
  "stock" :> ("goods" :> "restricted" @@ "firms" :> "barred" @@ "banks" :> "granted") @@
  "audit" :> ("goods" :> "restricted" @@ "firms" :> "restricted" @@ "banks" :> "silent") @@
  "gone"  :> <<>>

MCReads ==
  "sales" :> {"User"} @@ "full" :> {} @@ "stock" :> {"Templates"} @@
  "audit" :> {"User", "Templates"} @@ "gone" :> {}

MCObjects == {"goods", "firms", "banks"}
MCRestricted == {[object |-> "goods", section |-> b] : b \in BOOLEAN}

-----------------------------------------------------------------------------
(* Roles of one table: every shape of a restriction's text, several of them *)
(* in one role, and every mixture of a table's and a field's rights.        *)
Word(w) == [k |-> "word", w |-> w]
Directive(d) == [k |-> d]
Test(e) == [k |-> "test", e |-> e]
Call(name, args) == [k |-> "call", name |-> name, args |-> args]
Parameter(n) == [k |-> "parameter", n |-> n]
P(name) == [op |-> "session", name |-> name]
String(s) == [op |-> "value", v |-> [kind |-> "string", v |-> s]]
Choice(test, yes, no) ==
  <<Directive("if"), Test(test), Directive("then")>> \o yes
    \o <<Directive("else")>> \o no \o <<Directive("end")>>
Chained(test, yes, other, then, no) ==
  <<Directive("if"), Test(test), Directive("then")>> \o yes
    \o <<Directive("elsif"), Test(other), Directive("then")>> \o then
    \o <<Directive("else")>> \o no \o <<Directive("end")>>
Words(list) == [i \in DOMAIN list |-> Word(list[i])]
Mine == Words(<<"mine">>)
Message == Words(<<"message">>)
True == Words(<<"true">>)
False == Words(<<"false">>)
If(test, yes) == <<Directive("if"), Test(test), Directive("then")>> \o yes

MCTemplates ==
  [Own |-> Mine,
   Pick |-> Choice(P("p"), <<Parameter(1)>>, <<Parameter(2)>>),
   Loop |-> Choice(P("p"), Mine, <<Call("Loop", <<>>)>>),
   Deep |-> <<Call("Pick", <<<<Parameter(1)>>, Message>>)>>]
RestrictionTexts ==
  {Mine,
   Words(<<"table", "as", "A", "where", "mine">>),
   Words(<<"table", "from", "table", "as", "B", "where", "true">>),
   Words(<<"table", "from", "other", "where", "true">>),
   Words(<<"table", "inner", "where", "joined">>),
   Words(<<"table", "left", "where", "missing">>),
   <<Word("where"), Call("Pick", <<Mine, False>>)>>,
   <<Call("Loop", <<>>)>>,
   <<Call("Deep", <<True>>)>>,
   Chained(P("p"), Mine, P("q"), True, Message),
   Chained([op |-> "or", left |-> P("p"), right |-> P("q")], Mine, [op |-> "not", of |-> P("p")], False, Mine),
   Choice([op |-> "equal", left |-> P("s"), right |-> String("x")], Choice(P("p"), Mine, Message), False),
   If(P("p"), Mine),
   Mine \o <<Directive("end")>>,
   If(P("p"), Mine) \o <<Directive("end")>> \o Choice(P("q"), True, Mine)}

Bool(b) == [kind |-> "bool", v |-> b]
Str(s) == [kind |-> "string", v |-> s]
MCSessions ==
  {[p |-> Bool(a), q |-> Bool(b), s |-> Str("x")] : a, b \in BOOLEAN}
  \cup {[p |-> Bool(TRUE)], [q |-> Bool(TRUE), s |-> [kind |-> "empty", v |-> "none"]],
        [p |-> Str("x"), q |-> Bool(FALSE), s |-> Str("y")]}
Role(read, default, texts, member, isKnown) ==
  [read |-> read, default |-> default, restrictions |-> texts, member |-> member, known |-> isKnown]
MCGivenRoles ==
  {Role("granted", FALSE, <<t>>, "none", TRUE) : t \in RestrictionTexts}
  \cup {Role("granted", FALSE, <<Mine, t>>, "allowed", TRUE) : t \in RestrictionTexts}
  \cup {Role(r, d, <<>>, m, TRUE) : r \in {"granted", "refused", "unlisted"}, d \in BOOLEAN,
                                   m \in {"none", "allowed", "refused", "listed", "nested"}}
  \cup {Role("granted", FALSE, <<>>, "none", FALSE)}
MCTableRows == {[key |-> 1, mine |-> TRUE], [key |-> 2, mine |-> FALSE]}
Other(key, ok, own) == [key |-> key, ok |-> ok, own |-> own]
MCJoined ==
  {{}, {Other(1, TRUE, TRUE)}, {Other(2, TRUE, FALSE)}, {Other(2, TRUE, TRUE), Other(2, FALSE, TRUE)}}

-----------------------------------------------------------------------------
(* Batches of one or two statements, every kind of read, one or two answers. *)
Target(object, part) == [object |-> object, part |-> part]
A == Target("A", "none")
B == Target("B", "none")
Goods == Target("A", "Goods")
GoodsLower == Target("A", "goods")
ReadOf(kind, target) == [kind |-> kind, target |-> target]
Temporary(name) == [kind |-> "temporary", name |-> name]
Stm(keyword, reads, into, append) == [keyword |-> keyword, reads |-> reads, into |-> into, append |-> append]
MCSpelled == [none |-> "none", Goods |-> "goods", goods |-> "goods"]
MCTexts == [plain |-> <<>>, reads |-> <<ReadOf("source", B), ReadOf("descent", B)>>,
            placed |-> <<Temporary("vt")>>]
ReadLists ==
  {<<ReadOf("source", A)>>, <<ReadOf("source", A), ReadOf("reference", B)>>,
   <<ReadOf("source", Goods), ReadOf("payload", B)>>, <<Temporary("vt")>>,
   <<ReadOf("source", A), ReadOf("descent", B)>>}
MCBatches ==
  {<<Stm(k, r, i[1], i[2])>> : k \in BOOLEAN, r \in ReadLists,
                               i \in {<<"none", FALSE>>, <<"vt", FALSE>>, <<"vt", TRUE>>}}
  \cup {<<Stm(FALSE, <<ReadOf("source", A)>>, "none", FALSE),
          Stm(k, <<ReadOf("source", Goods), ReadOf("reference", B)>>, "none", FALSE)>> : k \in BOOLEAN}
  \cup {<<Stm(k, <<ReadOf("source", A)>>, "vt", FALSE),
          Stm(FALSE, <<Temporary("vt"), ReadOf("source", Goods)>>, "none", FALSE)>> : k \in BOOLEAN}
Given(list, verdict, target, text) == [list |-> list, verdict |-> verdict, target |-> target, text |-> text]
OneAnswer ==
  {Given("decision", "allowed", t, "plain") : t \in {A, B, GoodsLower}}
  \cup {Given("decision", "denied", A, "plain"), Given("decision", "condition", A, "reads"),
        Given("restriction", "condition", B, "placed"), Given("restriction", "condition", Goods, "reads")}
MCAnswers == {<<>>} \cup {<<a>> : a \in OneAnswer} \cup {<<a, b>> : a, b \in OneAnswer}

-----------------------------------------------------------------------------
(* A balance read in both modes, by every choice of fields, over registers  *)
(* of one or two rows.                                                      *)
RowStatement(mode, allowed, reads, where, joins) ==
  [mode |-> mode, allowed |-> allowed, kind |-> "balance", period |-> FALSE, joins |-> joins,
   filter |-> FALSE, totals |-> FALSE, fields |-> reads, where |-> where]
MCRowStatements ==
  {RowStatement(m, a, f, w, j) : m \in {"Statement", "Restricted"}, a \in BOOLEAN,
     f \in SUBSET {"stock", "goods"}, w \in {"none", "g1"}, j \in BOOLEAN}
RowAnswer(verdict, own, field) ==
  [verdict |-> verdict, own |-> own, field |-> field, value |-> IF field = "stock" THEN "s1" ELSE "g1"]
MCRowAnswers ==
  {<<>>} \cup {<<RowAnswer(v, o, d)>> : v \in {"allowed", "denied", "equal", "joined"},
                                       o \in BOOLEAN, d \in {"stock", "goods"}}
Record(s, g, n) == [stock |-> s, goods |-> g, amount |-> n]
Records(amounts) == {Record(s, g, n) : s \in {"s1", "s2", "null"}, g \in {"g1", "g2"}, n \in amounts}
MCMovements ==
  {<<a>> : a \in Records({-1, 1})} \cup {<<a, b>> : a \in Records({-1, 1}), b \in Records({1})}
=============================================================================
