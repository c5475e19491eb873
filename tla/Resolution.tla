----------------------------- MODULE Resolution -----------------------------
(***************************************************************************)
(* How an information base becomes a metadata snapshot, and how the        *)
(* snapshot answers a query's FROM: the DBNames map extended with what the *)
(* configuration extensions add, the Config descriptors, SchemaStorage and *)
(* the live catalog (src/src/metadata/resolve.rs, db_names.rs,             *)
(* extension.rs), then the fields a source offers to the compiler          *)
(* (src/src/query/core/resolve.rs).                                        *)
(*                                                                         *)
(* A table is [alias, number, sub, ext]: `_Reference10_VT12X1` is          *)
(* ["Reference", 10, <<"VT", 12>>, 1].  A column is [name, number, side,   *)
(* part]: `_Fld14DtRRef` is ["Fld", 14, "Dt", "RRef"].                     *)
(***************************************************************************)
EXTENDS Integers, SequencesExt

CONSTANT Bases   \* what the acquisition read: the inputs of one resolution

VARIABLES base,      \* the base being resolved
          snapshot,  \* the resolved snapshot, or NotYet
          asked,     \* the source a query names, or NotYet
          offered     \* the fields the source offers, or an error

resolutionVars == <<base, snapshot, asked, offered>>

NotYet == [is |-> "not yet"]
NoName == "none"
NilGuid == "nil"
Unnamed == [alias |-> "unnamed", number |-> 0, sub |-> <<>>, ext |-> 0]

Canonical(t) == [t EXCEPT !.ext = 0]

-----------------------------------------------------------------------------
(* DBNames *)

Kinds == [Reference |-> "Catalog", Document |-> "Document", Enum |-> "Enumeration",
          Acc |-> "ChartOfAccounts", Const |-> "Constant", CKinds |-> "ChartOfCalculationTypes",
          AccRg |-> "AccountingRegister",
          ReferenceChngR |-> "ChangeRegistration", AccRgED |-> "AccountingExtraDimensions",
          ExtDim |-> "ExtraDimension", BaseCK |-> "CalculationKindDependency",
          CommonSettings |-> "ResolveOnlyService"]

\* MetadataKind::from_alias knows the alias.
IsObject(e) == e.alias \in DOMAIN Kinds

IsService(kind) == kind \in {"ChangeRegistration", "AccountingExtraDimensions", "ExtraDimension",
                             "CalculationKindDependency", "ResolveOnlyService"}

\* The GUIDs a `Fld` number is known under.
FieldGuids(entries, n) == {e.guid : e \in {f \in ToSet(entries) : f.alias = "Fld" /\ f.number = n}}

\* The numbers of the fields of a data-separation GUID.
Separators(entries) ==
  {e.number : e \in {f \in ToSet(entries) :
     /\ f.alias = "Fld"
     /\ \E use \in ToSet(entries) : use.alias = "DataSeparationUse" /\ use.guid = f.guid}}

\* DbNames::extend_from: an entry of an extension joins the map unless its
\* field number is taken; by another GUID, that is a conflict.
ExtendFrom(names, entry) ==
  LET known == FieldGuids(names.entries, entry.number)
  IN  IF entry.alias # "Fld" \/ known = {}
      THEN [names EXCEPT !.entries = Append(@, entry)]
      ELSE IF entry.guid \in known THEN names
           ELSE [names EXCEPT !.conflicts = @ \cup {[number |-> entry.number, guid |-> entry.guid]}]

-----------------------------------------------------------------------------
(* Extensions merged into the base, in order *)

\* extension_metadata_from_restructure: the fields a restructure resource
\* lists become DBNames entries, descriptors of their own and, for a
\* reference, a target kept by the field's number.
FieldEntries(extension) ==
  [i \in 1..Len(extension.fields) |->
     [guid |-> extension.fields[i].guid, alias |-> "Fld", number |-> extension.fields[i].number]]

FieldDescriptors(extension) ==
  [i \in 1..Len(extension.fields) |->
     LET f == extension.fields[i]
     IN  [guid |-> f.guid, resource |-> f.guid, name |-> f.name, value |-> FALSE, types |-> {}]]

\* The first of two pairs for one number stays.
Noted(known, pairs) ==
  FoldLeft(LAMBDA acc, p : IF \E k \in acc : k[1] = p[1] THEN acc ELSE acc \cup {p}, known, pairs)

\* One extension of resolve_metadata_parts.
MergeExtension(merged, extension) ==
  LET entries == FieldEntries(extension)
      fresh == {e.number : e \in {f \in ToSet(entries) : FieldGuids(merged.names.entries, f.number) = {}}}
      targets == SelectSeq(extension.fields, LAMBDA f : f.target # Unnamed)
      known == {d.guid : d \in ToSet(merged.descriptors)}
  IN  [merged EXCEPT
         !.names = FoldLeft(ExtendFrom, @, entries),
         !.origins = @ \cup fresh,
         !.descriptors = @ \o SelectSeq(FieldDescriptors(extension), LAMBDA d : d.guid \notin known),
         !.targets = Noted(@, [i \in 1..Len(targets) |-> <<targets[i].number, targets[i].target>>]),
         !.schema = @ \o extension.schema]

Merged(b) ==
  FoldLeft(MergeExtension,
    [names |-> [entries |-> b.entries, conflicts |-> {}], origins |-> {}, targets |-> {},
     descriptors |-> b.descriptors, schema |-> b.schema], b.extensions)

-----------------------------------------------------------------------------
(* Objects *)

DescriptorOf(m, guid) == {d \in ToSet(m.descriptors) : d.guid = guid}
NameOf(m, guid) == IF DescriptorOf(m, guid) = {} THEN NoName ELSE (CHOOSE d \in DescriptorOf(m, guid) : TRUE).name

Positions(s, Test(_)) == {i \in 1..Len(s) : Test(s[i])}
Least(positions) == CHOOSE i \in positions : \A j \in positions : i <= j

\* PhysicalTableIndex::table_for_entry: a primary object's table is its
\* alias and number; a service table is the first declaration named by the
\* alias, by the alias and number, or by the inline extra dimensions.
TablesOf(m, e) ==
  LET plain == [alias |-> e.alias, number |-> e.number, sub |-> <<>>, ext |-> 0]
      declared == Positions(m.schema, LAMBDA d :
                    \/ d.table \in {plain, [plain EXCEPT !.number = 0]}
                    \/ e.alias = "ExtDim" /\ d.table.sub = <<"ExtDim", e.number>>)
  IN  IF ~IsService(Kinds[e.alias]) THEN {plain}
      ELSE IF declared = {} THEN {} ELSE {m.schema[Least(declared)].table}

\* The DBNames entries that become objects: every distinct service entry,
\* and the first primary entry of a GUID.
KeptEntry(m, i) ==
  LET entries == m.names.entries
      e == entries[i]
  IN  /\ IsObject(e) /\ e.guid # NilGuid
      /\ \A j \in 1..(i - 1) : entries[j] # e
      /\ IsService(Kinds[e.alias]) \/
           \A j \in 1..(i - 1) : ~(IsObject(entries[j]) /\ ~IsService(Kinds[entries[j].alias]) /\ entries[j].guid = e.guid)
      /\ TablesOf(m, e) # {}

EntryObjects(m, live) ==
  LET entries == m.names.entries
      kept == SelectSeq([i \in 1..Len(entries) |-> i], LAMBDA i : KeptEntry(m, i))
  IN  [k \in 1..Len(kept) |->
        LET e == entries[kept[k]]
            table == CHOOSE t \in TablesOf(m, e) : TRUE
            kind == Kinds[e.alias]
            name == NameOf(m, e.guid)
        IN  [guid |-> e.guid, kind |-> kind, table |-> table,
             name |-> IF name = NoName /\ IsService(kind) THEN e.alias ELSE name,
             live |-> table \in {t.table : t \in live}]]

Primary(o) == ~IsService(o.kind)

\* A service object belongs to the primary object of its GUID, or to the
\* one its declaration names as the owner.
OwnerOf(m, objects, o) ==
  LET same == {p.guid : p \in {q \in ToSet(objects) : Primary(q) /\ q.guid = o.guid}}
      declarations == Positions(m.schema, LAMBDA d : d.table = o.table)
      parent == [o.table EXCEPT !.sub = <<>>]
      byTable == {p.guid : p \in {q \in ToSet(objects) : Primary(q) /\ q.table = parent}}
  IN  IF Primary(o) THEN {}
      ELSE IF same # {} THEN same
           ELSE IF declarations # {} /\ o.table.sub # <<>> THEN byTable ELSE {}

\* The inline dependency tables of a chart of calculation types no entry names.
Dependencies(m, objects, live) ==
  LET rest == SelectSeq(m.schema, LAMBDA d :
                /\ d.table.sub # <<>> /\ d.table.sub[1] \in {"BaseCK", "LeadingCK", "DisplacedCK"}
                /\ d.table \notin {o.table : o \in ToSet(objects)}
                /\ \E o \in ToSet(objects) : Primary(o) /\ o.table = [d.table EXCEPT !.sub = <<>>])
  IN  [i \in 1..Len(rest) |->
        LET owner == CHOOSE o \in ToSet(objects) : Primary(o) /\ o.table = [rest[i].table EXCEPT !.sub = <<>>]
        IN  [guid |-> owner.guid, kind |-> "CalculationKindDependency", name |-> rest[i].table.sub[1],
             table |-> rest[i].table, live |-> rest[i].table \in {t.table : t \in live}, owner |-> {owner.guid}]]

ResolveObjects(m, live) ==
  LET objects == EntryObjects(m, live)
      owned == [k \in 1..Len(objects) |-> objects[k] @@ [owner |-> OwnerOf(m, objects, objects[k])]]
  IN  owned \o Dependencies(m, owned, live)

-----------------------------------------------------------------------------
(* Fields *)

IsCustom(column) == column.name = "Fld"

\* index_schema_field_owners: the tables that declare a column of the field,
\* and the base table of every extension table that does.
Owners(m, n) ==
  LET declaring == {d.table : d \in {e \in ToSet(m.schema) :
                      \E c \in ToSet(e.columns) : IsCustom(c.column) /\ c.column.number = n}}
  IN  declaring \cup {Canonical(t) : t \in declaring}

\* The target a declaration names first, or the one the extension recorded.
TargetOf(m, n) ==
  LET declared == FoldLeft(LAMBDA acc, d : acc \o SelectSeq(d.columns, LAMBDA c :
                             IsCustom(c.column) /\ c.column.number = n /\ c.targets # <<>>), <<>>, m.schema)
      recorded == {p[2] : p \in {q \in m.targets : q[1] = n}}
  IN  IF declared # <<>> THEN {declared[1].targets[1]} ELSE recorded

\* The tables the type description of a field names: complete, or none.
DeclaredTables(m, objects, guid) ==
  LET types == UNION {d.types : d \in DescriptorOf(m, guid)}
      tablesOf(type) == {o.table : o \in {p \in ToSet(objects) :
         /\ Primary(p)
         /\ CASE type.is = "object" -> p.guid = type.guid
              [] type.is = "category" -> p.kind = type.kind
              [] OTHER -> FALSE}}
  IN  IF \E type \in types : type.is = "defined" \/ (type.is = "object" /\ tablesOf(type) = {})
      THEN {} ELSE UNION {tablesOf(type) : type \in types}

\* resolve_fields: one field for each `Fld` entry.
ResolveFields(m, objects) ==
  LET entries == SelectSeq(m.names.entries, LAMBDA e : e.alias = "Fld")
  IN  [i \in 1..Len(entries) |->
        LET n == entries[i].number
        IN  [guid |-> entries[i].guid, name |-> NameOf(m, entries[i].guid), number |-> n,
             owners |-> Owners(m, n), added |-> n \in m.origins, target |-> TargetOf(m, n),
             separator |-> n \in Separators(m.names.entries),
             tables |-> DeclaredTables(m, objects, entries[i].guid)]]

-----------------------------------------------------------------------------
(* Values and findings *)

\* An enumeration's values are the child descriptors of its resource; a
\* predefined value belongs to an object of the kind its resource serves.
ResolveValues(b, m, objects) ==
  LET kindOf(guid) == {o.kind : o \in {p \in ToSet(objects) : Primary(p) /\ p.guid = guid}}
      children == SelectSeq(m.descriptors, LAMBDA d :
                    d.value /\ d.resource # d.guid /\ "Enumeration" \in kindOf(d.resource))
      stored == SelectSeq(b.predefined, LAMBDA v : v.source \in kindOf(v.owner))
  IN  [i \in 1..Len(children) |->
         [owner |-> children[i].resource, guid |-> children[i].guid, name |-> children[i].name]]
      \o [i \in 1..Len(stored) |-> [owner |-> stored[i].owner, guid |-> stored[i].guid, name |-> stored[i].name]]

F(is, about) == [is |-> is, about |-> about]

\* build_resolution_report and the separators of resolve_fields.
Findings(b, m, fields) ==
  LET declared == {d.table : d \in ToSet(m.schema)}
      live == {t.table : t \in b.live}
      entries == ToSet(m.names.entries)
      primary == {e \in entries : IsObject(e) /\ e.guid # NilGuid /\ ~IsService(Kinds[e.alias])}
      repeated(s, Test(_)) == {s[i].guid : i \in {j \in 1..Len(s) : Test(s[j]) /\
                                 \E k \in 1..(j - 1) : Test(s[k]) /\ s[k].guid = s[j].guid}}
  IN  {F("number conflict", c) : c \in m.names.conflicts}
      \cup {F("descriptor missing", e.guid) : e \in {p \in primary : DescriptorOf(m, p.guid) = {}}}
      \cup {F("service table missing", e.guid) : e \in {s \in entries :
               IsObject(s) /\ s.guid # NilGuid /\ IsService(Kinds[s.alias]) /\ TablesOf(m, s) = {}}}
      \cup {F("duplicate", g) : g \in repeated(m.names.entries, LAMBDA e : e \in primary)
                                     \cup repeated(m.descriptors, LAMBDA d : TRUE)}
      \cup {F("not live", t) : t \in declared \ live}
      \cup {F("not declared", t) : t \in live \ declared}
      \cup {F("separator settings missing", f.guid) : f \in {g \in ToSet(fields) : g.separator /\ g.guid \notin b.separations}}

ResolveMetadata(b) ==
  LET m == Merged(b)
      objects == ResolveObjects(m, b.live)
      fields == ResolveFields(m, objects)
  IN  [is |-> "snapshot", names |-> m.names, descriptors |-> m.descriptors, schema |-> m.schema,
       live |-> b.live, objects |-> objects, fields |-> fields,
       values |-> ResolveValues(b, m, objects), findings |-> Findings(b, m, fields)]

-----------------------------------------------------------------------------
(* The lookups of a snapshot: one value, none, or ambiguous *)

Slot(values) == IF values = {} THEN [is |-> "missing"]
                ELSE IF \E v \in values : values = {v} THEN [is |-> "found", value |-> CHOOSE v \in values : TRUE]
                ELSE [is |-> "ambiguous"]

ObjectId(s, kind, name) ==
  LET positions == Positions(s.objects, LAMBDA o : o.kind = kind /\ o.name = name)
      slot == Slot(positions)
  IN  IF slot.is = "found" THEN [slot EXCEPT !.value = s.objects[@].guid] ELSE slot

ObjectIdByPhysicalTable(s, table) == Slot({o.guid : o \in {p \in ToSet(s.objects) : p.table = table}})
ObjectIdByDatabaseType(s, n) ==
  Slot({o.guid : o \in {p \in ToSet(s.objects) : Primary(p) /\ p.table.number = n}})

\* The object that keeps a table in owners_by_table: the last one resolved.
TableOwner(s, table) ==
  LET positions == Positions(s.objects, LAMBDA o : o.table = table)
  IN  IF positions = {} THEN {} ELSE {s.objects[CHOOSE i \in positions : \A j \in positions : j <= i].guid}

AttributeId(s, owner, name) ==
  LET slot == Slot(Positions(s.fields, LAMBDA f :
                f.name = name /\ \E t \in f.owners : owner \in TableOwner(s, t)))
  IN  IF slot.is = "found" THEN [slot EXCEPT !.value = s.fields[@].guid] ELSE slot

PredefinedValue(s, owner, name) ==
  LET slot == Slot(Positions(s.values, LAMBDA v : v.owner = owner /\ v.name = name))
  IN  IF slot.is = "found" THEN [slot EXCEPT !.value = s.values[@].guid] ELSE slot

-----------------------------------------------------------------------------
(* The fields of a source *)

Logical(column) == [column EXCEPT !.part = ""]
Variants(s, table) == {t \in s.live : t.table.ext > 0 /\ Canonical(t.table) = table}
LiveTable(s, table) == {t \in s.live : t.table = table}
SchemaTable(s, table) == SelectSeq(s.schema, LAMBDA d : d.table = table)
Columns(declarations) == IF declarations = <<>> THEN <<>> ELSE declarations[1].columns
Added(s) == SelectSeq(s.fields, LAMBDA f : f.added)

ByExtension(tables) == SetToSortSeq(tables, LAMBDA t, u : t.table.ext < u.table.ext)

\* One stored column, with the table it is stored in.
StoredIn(t) == [i \in 1..Len(t.columns) |-> [column |-> t.columns[i], table |-> t.table]]

\* merged_extension_projection: a variant's column the variant declares, or
\* an extension's field, joins the canonical table's unless it has its name.
MergedLive(s, live) ==
  LET adds(t, c) == \/ \E d \in ToSet(Columns(SchemaTable(s, t.table))) : d.column = Logical(c)
                    \/ IsCustom(c) /\ c.side = "" /\ \E f \in ToSet(Added(s)) : f.number = c.number
      take(acc, t) == acc \o SelectSeq(StoredIn(t), LAMBDA x :
                        adds(t, x.column) /\ \A have \in ToSet(acc) : have.column # x.column)
  IN  FoldLeft(take, StoredIn(live), ByExtension(Variants(s, live.table)))

\* The declarations of those columns: the variants' too, and the reference
\* targets extensions recorded by field number.
MergedSchema(s, live, columns) ==
  LET joined(acc, more) == acc \o SelectSeq(more, LAMBDA d : \A have \in ToSet(acc) : have.column # d.column)
      declared == FoldLeft(joined, Columns(SchemaTable(s, live.table)),
                    [i \in 1..Len(ByExtension(Variants(s, live.table))) |->
                       Columns(SchemaTable(s, ByExtension(Variants(s, live.table))[i].table))])
      recorded(c) == IF ~IsCustom(c) \/ c.side # "" THEN {}
                     ELSE LET known == SelectSeq(Added(s), LAMBDA f : f.number = c.number /\ f.target # {})
                          IN  IF known = <<>> THEN {} ELSE known[1].target
      extra == SelectSeq(columns, LAMBDA x : recorded(Logical(x.column)) # {})
  IN  joined(declared, [i \in 1..Len(extra) |->
        [column |-> Logical(extra[i].column), targets |-> SetToSeq(recorded(Logical(extra[i].column)))]])

\* As a lookup that forgot the extensions' fields would have it.
CustomFieldOwned(s, table, n) ==
  LET owned == SelectSeq(s.fields, LAMBDA f : f.number = n /\ table \in f.owners)
  IN  IF owned # <<>> THEN {owned[1]} ELSE {}

\* The custom field a column belongs to: the field its table owns, else an
\* extension's, known by its number alone.
CustomField(s, table, n) ==
  LET owned == SelectSeq(s.fields, LAMBDA f : f.number = n /\ table \in f.owners)
      added == SelectSeq(Added(s), LAMBDA f : f.number = n)
  IN  IF owned # <<>> THEN {owned[1]} ELSE IF added # <<>> THEN {added[1]} ELSE {}

\* project_queryable_fields: one field for each logical column; a column of
\* one side of an accounting register keeps the name but not the identity.
Project(s, table, columns, declarations) ==
  LET field(logical) ==
        LET custom == IF IsCustom(logical) THEN CustomField(s, table, logical.number) ELSE {}
            declared == SelectSeq(declarations, LAMBDA d : d.column = logical)
            named == IF declared = <<>> THEN {} ELSE ToSet(declared[1].targets)
            described == IF logical.side # "" \/ ~IsCustom(logical) THEN {}
                         ELSE UNION {f.tables : f \in {g \in custom : table \in g.owners}}
        IN  [column |-> logical,
             name |-> IF custom = {} THEN NoName ELSE (CHOOSE f \in custom : TRUE).name,
             id |-> IF logical.side # "" THEN {} ELSE {f.guid : f \in custom},
             from |-> {x.table : x \in {y \in ToSet(columns) : Logical(y.column) = logical}},
             targets |-> IF named \subseteq {Unnamed} /\ described # {} THEN described ELSE named]
  IN  {field(Logical(x.column)) : x \in ToSet(columns)}

Failed(why) == [is |-> "error", why |-> why]
Fields(table, fields) == [is |-> "fields", table |-> table, fields |-> fields]

\* CompilationCatalog::fields, queryable_fields: the canonical table and its
\* extension variants.
ObjectFields(s, table) ==
  IF LiveTable(s, table) = {} THEN Failed("not live")
  ELSE LET live == CHOOSE t \in LiveTable(s, table) : TRUE
           columns == MergedLive(s, live)
       IN  Fields(table, Project(s, table, columns, MergedSchema(s, live, columns)))

\* fields_for_table: one stored table by itself.
TableFields(s, live) == Fields(live.table, Project(s, live.table, StoredIn(live), Columns(SchemaTable(s, live.table))))

\* constant_value_field_names: a constant's own field is named Value.
Renamed(o, fields) ==
  IF o.kind # "Constant" \/ fields.is = "error" THEN fields
  ELSE [fields EXCEPT !.fields = {IF f.name = o.name THEN [f EXCEPT !.name = "Value"] ELSE f : f \in @}]

\* The only one, none, or ambiguous.
Only(declared) == IF declared = <<>> THEN [is |-> "missing"]
                  ELSE IF Len(declared) = 1 THEN [is |-> "found", value |-> declared[1].table]
                  ELSE [is |-> "ambiguous"]

\* resolve_service_table_part: the change table linked to the object, the
\* one inline table of its kind, or the extra dimensions of a register.
ServiceTables(s, o, part) ==
  LET linked(kind) == SelectSeq(s.objects, LAMBDA q : q.kind = kind /\ q.owner = {o.guid})
      dimensions == linked("AccountingExtraDimensions")
  IN  CASE part = "Changes" -> Only(linked("ChangeRegistration"))
        [] part = "ExtDimensions" -> Only(IF dimensions = <<>> THEN <<>> ELSE <<dimensions[1]>>)
        [] OTHER -> Only(SelectSeq(s.schema, LAMBDA d :
                      d.table.sub # <<>> /\ [d.table EXCEPT !.sub = <<>>] = o.table /\ d.table.sub[1] = part))

ServiceParts == {"Changes", "ExtDimensions", "BaseCK", "LeadingCK", "DisplacedCK", "ExtDim"}

ServiceFields(s, o, part) ==
  LET slot == ServiceTables(s, o, part)
  IN  IF slot.is # "found" THEN Failed(slot.is)
      ELSE IF LiveTable(s, slot.value) = {} THEN Failed("not live")
      ELSE IF SchemaTable(s, slot.value) = <<>> THEN Failed("not declared")
      ELSE TableFields(s, CHOOSE t \in LiveTable(s, slot.value) : TRUE)

\* A tabular section: its descriptor, its one DBNames entry, and the variant
\* both the live catalog and SchemaStorage have, the canonical one first.
SectionFields(s, o, part) ==
  LET descriptors == SelectSeq(s.descriptors, LAMBDA d : d.resource = o.guid /\ d.name = part)
      numbers == {e.number : e \in {f \in ToSet(s.names.entries) : f.alias = "VT" /\ f.guid = descriptors[1].guid}}
      physical(n) == [o.table EXCEPT !.sub = <<"VT", n>>]
      both(n) == {t \in s.live : Canonical(t.table) = physical(n) /\ SchemaTable(s, t.table) # <<>>}
  IN  IF o.kind \notin {"Catalog", "Document", "ChartOfAccounts", "ChartOfCalculationTypes"} THEN Failed("no sections")
      ELSE IF Len(descriptors) # 1 THEN Failed(IF descriptors = <<>> THEN "missing" ELSE "ambiguous")
      ELSE IF Slot(numbers).is # "found" THEN Failed(Slot(numbers).is)
      ELSE LET n == Slot(numbers).value
           IN  IF both(n) = {} THEN Failed("not live") ELSE TableFields(s, ByExtension(both(n))[1])

NoPart == "no part"

\* find_metadata_object_at and resolve_source_metadata.
SourceFields(s, q) ==
  LET found == SelectSeq(s.objects, LAMBDA o : o.kind = q.kind /\ o.name = q.name)
  IN  IF Len(found) # 1 THEN Failed(IF found = <<>> THEN "missing" ELSE "ambiguous")
      ELSE LET o == found[1]
           IN  IF q.part = NoPart
               THEN IF IsService(o.kind) THEN Failed("no direct spelling")
                    ELSE Renamed(o, ObjectFields(s, o.table))
               ELSE IF q.part \in ServiceParts THEN ServiceFields(s, o, q.part)
               ELSE SectionFields(s, o, q.part)

\* constant_value_fields: the constants table has the value field of each
\* live constant, under the constant's name.
ConstantsFields(s) ==
  LET constants == {o \in ToSet(s.objects) : o.kind = "Constant" /\ o.live}
      number(o) == SelectSeq(s.fields, LAMBDA f : f.guid = o.guid /\ ~f.separator)
      valued == {o \in constants : number(o) # <<>>}
      value(o) == {f \in ObjectFields(s, o.table).fields :
                     f.column = [name |-> "Fld", number |-> number(o)[1].number, side |-> "", part |-> ""]}
  IN  Fields(Unnamed, UNION {value(o) : o \in valued})

-----------------------------------------------------------------------------
(* Steps *)

Sources == LET objects == ToSet(snapshot.objects)
               parts == {NoPart} \cup ServiceParts \cup {d.name : d \in ToSet(snapshot.descriptors)}
           IN  {[is |-> "source", kind |-> o.kind, name |-> o.name, part |-> p] : o \in objects, p \in parts}
               \cup {[is |-> "constants"]}

ResolutionInit == base \in Bases /\ snapshot = NotYet /\ asked = NotYet /\ offered = NotYet

ResolveSnapshot == /\ snapshot = NotYet
           /\ snapshot' = ResolveMetadata(base)
           /\ UNCHANGED <<base, asked, offered>>

LookUp == /\ snapshot # NotYet /\ asked = NotYet
       /\ \E q \in Sources :
            /\ asked' = q
            /\ offered' = IF q.is = "constants" THEN ConstantsFields(snapshot) ELSE SourceFields(snapshot, q)
       /\ UNCHANGED <<base, snapshot>>

ResolutionDone == asked # NotYet /\ UNCHANGED resolutionVars

ResolutionNext == ResolveSnapshot \/ LookUp \/ ResolutionDone

-----------------------------------------------------------------------------
(* What the base holds, said of its tables and of who wrote them *)

\* The attributes a number stands for in a table: in a variant, the field
\* its extension added; otherwise the base's.
WrittenBy(table, n) ==
  LET own == IF table.ext \in 1..Len(base.extensions)
             THEN {f.guid : f \in {g \in ToSet(base.extensions[table.ext].fields) : g.number = n}} ELSE {}
  IN  IF own # {} THEN own ELSE {e.guid : e \in {f \in ToSet(base.entries) : f.alias = "Fld" /\ f.number = n}}

\* A number two GUIDs claim names nothing in a variant.
Claims(n) == {e.guid : e \in {f \in ToSet(base.entries) : f.alias = "Fld" /\ f.number = n}}
             \cup UNION {{f.guid : f \in {g \in ToSet(x.fields) : g.number = n}} : x \in ToSet(base.extensions)}
Disputed(table, n) == table.ext > 0 /\ \E g, h \in Claims(n) : g # h

Titles(guid) == {d.name : d \in {e \in ToSet(base.descriptors) : e.guid = guid}}
                \cup UNION {{f.name : f \in {g \in ToSet(x.fields) : g.guid = guid}} : x \in ToSet(base.extensions)}

StoredAttributes(tables) ==
  UNION {UNION {{<<g, t.table>> : g \in WrittenBy(t.table, c.number)}
           : c \in {d \in ToSet(t.columns) : IsCustom(d) /\ ~Disputed(t.table, d.number)}}
           : t \in {u \in base.live : u.table \in tables}}

\* The tables a value of the attribute can refer to.
Admits(guid) ==
  LET types == UNION {d.types : d \in {e \in ToSet(base.descriptors) : e.guid = guid}}
      added == {f \in UNION {ToSet(x.fields) : x \in ToSet(base.extensions)} : f.guid = guid /\ f.target # Unnamed}
      meant(o) == \E type \in types : \/ type.is = "object" /\ type.guid = o.guid
                                      \/ type.is = "category" /\ type.kind = o.kind
  IN  {f.target : f \in added} \cup
      IF [is |-> "defined"] \in types THEN {}
      ELSE {o.table : o \in {p \in ToSet(snapshot.objects) : Primary(p) /\ meant(p)}}

\* The tables whose columns a source reads: an object's, with its variants.
Read == IF asked.part = NoPart THEN {t.table : t \in {u \in base.live : Canonical(u.table) = offered.table}}
        ELSE {offered.table}

\* A field a query names holds the attribute of that name, and every
\* attribute the tables of the source store is a field of it, with the tables
\* its values refer to: resolution neither gives a column another
\* attribute's name nor drops one, in the base's own tables or in those of an
\* extension.
FieldsAreStored ==
  asked.is = "source" /\ offered.is = "fields" =>
    LET stored == StoredAttributes(Read)
        custom == {f \in offered.fields : IsCustom(f.column) /\ \E t \in f.from : ~Disputed(t, f.column.number)}
    IN  /\ \A f \in custom : f.name # NoName =>
             \E x \in stored : /\ x[2] \in f.from /\ f.id \in {{x[1]}, {}}
                               /\ f.name \in Titles(x[1]) \cup {"Value"}
        /\ \A x \in stored : Titles(x[1]) # {} =>
             \E f \in custom : f.name \in Titles(x[1]) \cup {"Value"} /\ (f.column.side = "" => f.id = {x[1]})
                            /\ (Admits(x[1]) # {} => f.targets = Admits(x[1]))

\* Every identity a lookup of the snapshot answers is the one the base gives:
\* a name finds an attribute that bears it and is declared in a table of the
\* owner, a type number the object stored under it, a value its own owner's;
\* where the base has two answers, the lookup has none.
LookupsTellTheBase ==
  snapshot # NotYet =>
    LET objects == {o \in ToSet(snapshot.objects) : Primary(o)}
        declares(guid, n) == \E d \in ToSet(snapshot.schema) :
          /\ \E o \in ToSet(snapshot.objects) : o.guid = guid /\ o.table \in {d.table, Canonical(d.table)}
          /\ \E c \in ToSet(d.columns) : IsCustom(c.column) /\ c.column.number = n
        bearers(o, name) == {e.guid : e \in {f \in ToSet(snapshot.names.entries) :
                               f.alias = "Fld" /\ name \in Titles(f.guid) /\ declares(o.guid, f.number)}}
        holders(o, name) == {v \in ToSet(snapshot.values) : v.owner = o.guid /\ v.name = name}
    IN  \A o \in objects :
          /\ {ObjectIdByDatabaseType(snapshot, o.table.number), ObjectIdByPhysicalTable(snapshot, o.table)}
               \subseteq {[is |-> "found", value |-> o.guid], [is |-> "ambiguous"]}
          /\ o.name # NoName => ObjectId(snapshot, o.kind, o.name) \in
               {[is |-> "found", value |-> o.guid], [is |-> "ambiguous"]}
          /\ \A d \in ToSet(snapshot.descriptors) :
               LET found == AttributeId(snapshot, o.guid, d.name)
                   value == PredefinedValue(snapshot, o.guid, d.name)
               IN  /\ bearers(o, d.name) = {} <=> found.is = "missing"
                   /\ found.is = "found" => bearers(o, d.name) = {found.value}
                   /\ value.is = "found" => {v.guid : v \in holders(o, d.name)} = {value.value}

\* What queries and lookups are told of a base is what the base holds.
SnapshotOfTheBase == FieldsAreStored /\ LookupsTellTheBase

\* An extension's table that mirrors a declared table of the base is not
\* reported as undeclared (openspec/specs/onec-metadata/spec.md:525).
MirrorsAreDeclared ==
  snapshot # NotYet => \A t \in base.live :
    Canonical(t.table) \in {d.table : d \in ToSet(base.schema)} => F("not declared", t.table) \notin snapshot.findings

=============================================================================
