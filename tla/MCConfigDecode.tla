--------------------------- MODULE MCConfigDecode ---------------------------
(* Model values for what is read of a base before any query: the Config     *)
(* table as it is decoded, the metadata as it is resolved, the resources    *)
(* read on demand into a cache, and the extensions.  A behaviour is a       *)
(* behaviour of one of them.                                                *)
EXTENDS ConfigDecode, Resolution, MetadataCache, Extensions

CONSTANT Subjects

VARIABLE subject   \* what a behaviour is about

metadata == <<base, snapshot, asked, offered>>
cached   == <<stored, changes, layout, reading, held, inputs, cache, facts, reply, admitted>>
extended == <<installed, updates, keys, grouped, catalogOf, pending, index, rowsOf, rights>>

(* A base holds finitely many resources of parts, of which one is named     *)
(* "root" and names another by an identifier (indexed.rs:164-167); a caller *)
(* asks for names.                                                          *)
ASSUME CacheAssumption ==
  /\ \A limit \in {CountLimit, ByteLimit, ResourceLimit, TotalLimit} : limit \in Nat
  /\ \A s \in Stores :
       /\ IsFiniteSet(s.tables)
       /\ \A r \in s.tables : r.parts \in Seq(Nat) /\ r.decoded \in Nat
       /\ s.root # "root"
  /\ \A names \in Requests : names \in Seq(DOMAIN Trim)

(* A root lists resources by name and key (pipeline.rs:609-660); the marks  *)
(* of what was not read or not found are no keys, and no list of rows.      *)
ASSUME ExtensionsAssumption ==
  /\ {"", NoRights, NotFound} \cap DOMAIN Content = {} /\ Unread # <<>>
  /\ \A k \in DOMAIN Content :
       Content[k].is = "root" => Content[k].lists \in Seq([name : STRING, key : DOMAIN Content])
  /\ \A b \in Infobases :
       /\ b.rows \in Seq([name : STRING, order : Int, root : STRING])
       /\ b.kept \subseteq DOMAIN Content /\ b.blobs \in Seq(STRING)

-----------------------------------------------------------------------------
(* A table of five resources in three batches, two of which the pipeline    *)
(* holds: one resource of two bytes, or two in one batch, and at most one   *)
(* that is no plain metadata.                                               *)
MCNames    == 1..5
MCObjects  == <<2, 1>>
MCOwner    == <<3, 0, 0, 0, 0>>
MCSelected == {1, 2, 4, 5}

Larger    == {{n} : n \in Names} \cup {{1, 2}}
Sizes     == {[n \in Names |-> IF n \in larger THEN 2 ELSE 1] : larger \in Larger}
OneOdd    == {[n \in Names |-> IF n = odd THEN text ELSE "good"] : odd \in Names, text \in Texts}

NoMetadata == base = NotYet /\ snapshot = NotYet /\ asked = NotYet /\ offered = NotYet

\* A read the caller has given up.
NoRead ==
  /\ store = [plan |-> "stream", rows |-> <<>>, text |-> <<>>]
  /\ rows = <<>> /\ current = <<>> /\ retained = <<>> /\ feed = <<>> /\ chunk = <<>>
  /\ ended = TRUE /\ jobs = <<>> /\ free = InFlightBytes /\ yielded = <<>>
  /\ outcome = "dropped" /\ answer = <<>>

NoCache ==
  /\ stored = Unread /\ changes = Unread /\ layout = Unread /\ reading = Unread /\ held = Unread
  /\ inputs = Unread /\ cache = Unread /\ facts = Unread /\ reply = Unread /\ admitted = Unread

NoExtensions ==
  /\ installed = Unread /\ updates = Unread /\ keys = Unread /\ grouped = Unread /\ catalogOf = Unread
  /\ pending = Unread /\ index = Unread /\ rowsOf = Unread /\ rights = Unread

MCInit ==
  /\ subject \in Subjects
  /\ IF subject = "config"     THEN InitWith(Sizes, OneOdd) ELSE NoRead
  /\ IF subject = "metadata"   THEN ResolutionInit ELSE NoMetadata
  /\ IF subject = "cache"      THEN CacheInit ELSE NoCache
  /\ IF subject = "extensions" THEN ExtensionsInit ELSE NoExtensions

MCNext ==
  \/ subject = "config" /\ Next /\ UNCHANGED <<subject, metadata, cached, extended>>
  \/ subject = "metadata" /\ ResolutionNext /\ UNCHANGED <<subject, vars, cached, extended>>
  \/ subject = "cache" /\ CacheNext /\ UNCHANGED <<subject, vars, metadata, extended>>
  \/ subject = "extensions" /\ ExtensionsNext /\ UNCHANGED <<subject, vars, metadata, cached>>

FairSpec == MCInit /\ [][MCNext]_<<vars, subject, metadata, cached, extended>> /\ Fairness

(* The properties of the metadata, in the behaviours about them.            *)
SnapshotTellsTheBase == subject = "metadata" => SnapshotOfTheBase
MirrorsCountAsDeclared == subject = "metadata" => MirrorsAreDeclared

(* metadata_cache.rs:92-97, pipeline.rs:603-609: two ways to read the same  *)
(* resources tell the same of them: the cache and a resolution from         *)
(* nothing, the extensions as acquired and as the access layer reads them.  *)
ReadersAgree ==
  /\ subject = "cache" => CacheAgrees
  /\ subject = "extensions" => ExtensionsHold

(* pipeline.rs:1144-1148, indexed.rs:124-125: what is read on demand keeps  *)
(* its limits as what is decoded in bulk does, whatever the totals said.    *)
ReadsKeepLimits ==
  /\ LimitsHold
  /\ subject = "cache" => ReadIsBounded

-----------------------------------------------------------------------------
(* Two bases: a catalog with a section, an enumeration and a change table   *)
(* beside a document whose field has one of several types; an accounting    *)
(* register with its chart, a constant and a data separator.                *)
MainTable(alias, number) == [alias |-> alias, number |-> number, sub |-> <<>>, ext |-> 0]
Part(table, kind, number) == [table EXCEPT !.sub = <<kind, number>>]
Field(number, side, part) == [name |-> "Fld", number |-> number, side |-> side, part |-> part]
Standard(name) == [name |-> name, number |-> 0, side |-> "", part |-> ""]
Code == Standard("Code")
Live(table, columns) == [table |-> table, columns |-> columns]
Declaration(table, columns) ==
  [table |-> table, columns |-> [i \in DOMAIN columns |->
     [column |-> [columns[i] EXCEPT !.part = ""],
      targets |-> IF columns[i].part = "" THEN <<>> ELSE <<Unnamed>>]]]
Entry(guid, alias, number) == [guid |-> guid, alias |-> alias, number |-> number]
Described(guid, resource, name) ==
  [guid |-> guid, resource |-> resource, name |-> name, value |-> FALSE, types |-> {}]

Trade(types) ==
  [entries |->
     <<Entry("o1", "Reference", 10), Entry("a1", "Fld", 12), Entry("o2", "Document", 11),
       Entry("a2", "Fld", 13), Entry("s1", "VT", 5), Entry("a3", "Fld", 15),
       Entry("o1", "ReferenceChngR", 20), Entry("nil", "CommonSettings", 0), Entry("o6", "Enum", 19)>>,
   descriptors |->
     <<Described("o1", "o1", "Item"), Described("a1", "o1", "Size"),
       [Described("a2", "o2", "Item") EXCEPT !.types = types], Described("o2", "o2", "Order"),
       Described("s1", "o1", "Rows"), Described("a3", "o1", "Count"), Described("o6", "o6", "Color"),
       [Described("v1", "o6", "Red") EXCEPT !.value = TRUE]>>,
   tables |->
     <<Live(MainTable("Reference", 10), <<Code, Field(12, "", "")>>),
       Live(MainTable("Document", 11), <<Code, Field(13, "", "RRef")>>),
       Live(Part(MainTable("Reference", 10), "VT", 5), <<Standard("LineNo"), Field(15, "", "")>>),
       Live(MainTable("ReferenceChngR", 20), <<Standard("Node"), Field(12, "", "")>>)>>]

Books ==
  [entries |->
     <<Entry("o1", "Acc", 10), Entry("a1", "Fld", 12), Entry("o2", "AccRg", 11), Entry("a2", "Fld", 13),
       Entry("o2", "AccRgED", 21), Entry("o3", "Const", 30), Entry("o3", "Fld", 31),
       Entry("z", "DataSeparationUse", 1), Entry("z", "Fld", 32), Entry("e", "ExtDim", 5)>>,
   descriptors |->
     <<Described("o1", "o1", "Plan"), Described("a1", "o1", "Size"), Described("a2", "o2", "Money"),
       Described("o2", "o2", "Ledger"), Described("o3", "o3", "Main"), Described("z", "z", "Area")>>,
   tables |->
     <<Live(MainTable("Acc", 10), <<Code, Field(12, "", ""), Field(32, "", "")>>),
       Live(MainTable("AccRg", 11), <<Code, Field(13, "Dt", ""), Field(13, "Ct", "")>>),
       Live(MainTable("AccRgED", 21), <<Standard("Kind")>>),
       Live(MainTable("Const", 30), <<Field(31, "", ""), Field(32, "", "")>>),
       Live(Part(MainTable("Acc", 10), "ExtDim", 5), <<Standard("DimKind"), Field(32, "", "")>>)>>]

Plain ==
  {Books} \cup {Trade(types) : types \in
     {{}, {[is |-> "object", guid |-> "o1"]},
      {[is |-> "category", kind |-> "Catalog"], [is |-> "object", guid |-> "o2"]},
      {[is |-> "object", guid |-> "o1"], [is |-> "defined"]}}}

(* The k-th extension adds one field to one of the first two tables: a new  *)
(* one, a reference, one the base has, or one with a taken number; its      *)
(* table repeats the base's columns or not, and SchemaStorage lists it or   *)
(* not.                                                                     *)
Adopted(plain, k) ==
  {<<"x" \o ToString(k), 14 + 10 * k, "Extra" \o ToString(k), Unnamed>>,
   <<"x" \o ToString(k), 24, "Extra" \o ToString(k), MainTable(plain.entries[1].alias, 10)>>,
   <<"a1", 12, "Size", Unnamed>>,
   <<"x" \o ToString(k), 13, "Extra" \o ToString(k), Unnamed>>}
Additions(plain, k) ==
  {a \in {[field |-> [guid |-> f[1], number |-> f[2], name |-> f[3], target |-> f[4]],
           on |-> i, declared |-> d, repeats |-> w] :
            f \in Adopted(plain, k), i \in {1, 2}, d \in BOOLEAN, w \in BOOLEAN} :
     a.field.guid = "a1" => a.on = 1}

Variant(plain, a, k) ==
  LET origin == plain.tables[a.on]
      added == Field(a.field.number, "", IF a.field.target = Unnamed THEN "" ELSE "RRef")
  IN  Live([origin.table EXCEPT !.ext = k],
           IF ~a.repeats THEN <<added>>
           ELSE IF Contains(origin.columns, added) THEN origin.columns
           ELSE Append(origin.columns, added))
Extension(plain, a, k) ==
  LET table == Variant(plain, a, k)
      known == Declaration(table.table, table.columns)
      named(c) == IF c.column.number = a.field.number /\ a.field.target # Unnamed
                  THEN [c EXCEPT !.targets = <<a.field.target>>] ELSE c
  IN  [fields |-> <<a.field>>,
       schema |-> IF ~a.declared THEN <<>>
                  ELSE <<[known EXCEPT !.columns = [i \in DOMAIN @ |-> named(@[i])]]>>]

(* A base with its extensions, of which one table is not there.             *)
Extended(plain, additions, gone) ==
  [entries |-> plain.entries, descriptors |-> plain.descriptors,
   schema |-> [i \in DOMAIN plain.tables |-> Declaration(plain.tables[i].table, plain.tables[i].columns)],
   extensions |-> [k \in DOMAIN additions |-> Extension(plain, additions[k], k)],
   live |-> (ToSet(plain.tables) \ {plain.tables[gone]})
              \cup {Variant(plain, additions[k], k) : k \in DOMAIN additions},
   predefined |-> <<[owner |-> "o1", source |-> "Catalog", guid |-> "v2", name |-> "Size"],
                    [owner |-> "o1", source |-> "ChartOfAccounts", guid |-> "v3", name |-> "Size"]>>,
   separations |-> {"z"}]

OneExtension ==
  UNION {UNION {{Extended(p, <<>>, g), Extended(p, <<a>>, g)} : a \in Additions(p, 1)} :
           p \in Plain, g \in 3..4}
TwoExtensions ==
  UNION {{Extended(p, <<a, b>>, 4) :
            a \in {x \in Additions(p, 1) : ~x.repeats}, b \in {x \in Additions(p, 2) : x.repeats}} :
           p \in {Books, Trade({})}}

MCBases == OneExtension \cup TwoExtensions

-----------------------------------------------------------------------------
(* A configuration of four resources: a root, the descriptor it names, a    *)
(* separator bound to a session parameter, and that parameter.  An update   *)
(* leaves the separator larger and unreadable, without a descriptor of its  *)
(* own, or the parameter damaged.                                           *)
Holds(name, parts, decoded, broken, describes) ==
  [name |-> name, parts |-> parts, decoded |-> decoded, broken |-> broken, describes |-> describes]
Own(guid, readable, uses) == [object |-> guid, readable |-> readable, uses |-> uses]

MCGuids    == {"d", "z", "p"}
MCOpaque   == {"root"}
MCTrim     == [n \in {"root", "d", "z", "p", "z ", ""} |-> IF n = "z " THEN "z" ELSE n]
MCRequests == {<<>>, <<"">>, <<"z ", "p", "z">>, <<"d", "z">>, <<"d", "z", "p", "root">>}

Configuration(z, p, root, separators) ==
  [tables |-> {Holds("root", <<1>>, 0, FALSE, {}), Holds("d", <<1>>, 1, FALSE, {Own("d", TRUE, {})}), z, p},
   root |-> root, separators |-> separators, schema |-> root = "d",
   structures |-> IF root = "d" THEN <<p>> ELSE <<z, z>>]
Bound    == Holds("z", <<1>>, 1, FALSE, {Own("z", TRUE, {"p"})})
Grown    == Holds("z", <<1, 2>>, 2, FALSE, {Own("z", FALSE, {})})
Foreign  == Holds("z", <<2>>, 2, FALSE, {})
Sound    == Holds("p", <<1>>, 1, FALSE, {Own("p", TRUE, {})})
Spoilt   == Holds("p", <<2>>, 1, TRUE, {})

MCStores ==
  {Configuration(Bound, Sound, "d", {"z"}), Configuration(Grown, Spoilt, "z", {}),
   Configuration(Foreign, Sound, "d", {"z"})}

-----------------------------------------------------------------------------
(* Two extensions, each in two versions, which both name a resource "m": a  *)
(* role with rights, a role that says it has none, a declared object with   *)
(* and without a header, a damaged description; rows with no key, a         *)
(* negative order or an empty root, and keys that are gone.                 *)
Root(pairs, configuration) ==
  [is |-> "root", configuration |-> configuration,
   lists |-> [i \in DOMAIN pairs |-> [name |-> pairs[i][1], key |-> pairs[i][2]]]]
Description(headers, empty) == [is |-> "description", headers |-> headers, empty |-> empty]

MCContent ==
  "A1" :> Root(<<<<"m", "ma">>, <<"r1", "d1">>, <<"r1.0", "g1">>, <<"c", "ca">>>>, "c") @@
  "A2" :> Root(<<<<"m", "mb">>, <<"r1", "d1">>, <<"r1.0", "g2">>, <<"c", "cb">>>>, "c") @@
  "B1" :> Root(<<<<"m", "mb">>, <<"r2", "d2">>, <<"e", "ce">>>>, "e") @@
  "B2" :> Root(<<<<"m", "bad">>, <<"r2", "d2">>, <<"r2.0", "g3">>, <<"e", "ce">>>>, "e") @@
  "E"  :> Root(<<>>, "") @@
  "ma" :> Description({}, FALSE) @@ "mb" :> Description({"x"}, FALSE) @@
  "d1" :> Description({"r1"}, FALSE) @@ "d2" :> Description({"r2"}, TRUE) @@
  "g1" :> [is |-> "rights"] @@ "g2" :> [is |-> "rights"] @@ "g3" :> [is |-> "rights"] @@
  "ca" :> [is |-> "configuration", declares |-> {"r1"}] @@
  "cb" :> [is |-> "configuration", declares |-> {"r1", "o"}] @@
  "ce" :> [is |-> "configuration", declares |-> {"r2"}] @@
  "bad" :> [is |-> "damaged"]

Installed(a, order, b, gone, blobs) ==
  [rows |-> <<[name |-> "A", order |-> 0, root |-> a], [name |-> "B", order |-> order, root |-> b]>>,
   kept |-> UNION {{k} \cup {MCContent[k].lists[i].key : i \in DOMAIN MCContent[k].lists} :
                     k \in {a, b} \ {"short"}} \ gone,
   blobs |-> blobs]

MCInfobases ==
  {Installed(a, 1, b, {}, <<"fields", "empty">>) : a \in {"A1", "A2"}, b \in {"B1", "B2"}}
    \cup {Installed("A1", 1, "B1", {k}, <<"fields", "malformed">>) : k \in {"A1", "g1", "d2"}}
    \cup {Installed("A1", -1, "B1", {}, <<>>), Installed("short", 1, "B1", {}, <<>>),
           Installed("A1", 1, "E", {}, <<>>)}

MCRoles      == {"r1", "r2"}
MCRightsName == "r1" :> "r1.0" @@ "r2" :> "r2.0"
=============================================================================
