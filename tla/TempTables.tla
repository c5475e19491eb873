------------------------------ MODULE TempTables ------------------------------
(***************************************************************************)
(* Temporary tables of the query compiler (temp_tables.rs, batch.rs): the  *)
(* server never sees one.  A table is a common table expression "vt<id>",  *)
(* every placement adds a definition under a new id, and a statement gets  *)
(* the WITH list of the definitions it depends on.                         *)
(*                                                                         *)
(* compile_batch compiles a whole package in one call;                     *)
(* compile_materialized_batch calls the host between statements, and the   *)
(* base may change meanwhile.  The manager survives packages, and with     *)
(* them the snapshot of the metadata may be reloaded.                      *)
(*                                                                         *)
(* The SQL of a definition is what it takes rows from: other definitions,  *)
(* the base, or captured rows.                                             *)
(***************************************************************************)
EXTENDS Naturals, Sequences, FiniteSets, SequencesExt, FiniteSetsExt, TLC

CONSTANTS
  Names, Fold,        \* spellings of names; names_equal compares what they fold to
  Statements,         \* the statements packages are made of: [kind, name, from]
  MaxStatements,      \* Parser::MAX_STATEMENTS
  MaxDefinitions,     \* TempTablesManager::MAX_DEFINITIONS
  Snapshots,          \* fingerprints a reload of the metadata may give
  NoSnapshot,
  MaxSource,          \* bound: versions of the base table
  MaxCaptures         \* bound: captured appends to one table

ASSUME TempTablesAssumption ==
  /\ MaxStatements \in Nat \ {0} /\ MaxDefinitions \in Nat
  /\ MaxSource \in Nat \ {0} /\ MaxCaptures \in Nat
  /\ NoSnapshot \notin Snapshots

VARIABLES
  manager,    \* TempTablesManager: [entries, nextId, binding]
  package,    \* the materialized package being compiled, or <<>>
  snapshot,   \* fingerprint of the metadata in use
  source,     \* the version of the base table
  answer      \* what the last package answered: [ok, rows]

vars == <<manager, package, snapshot, source, answer>>

Base == "Base"

(* A statement names a table and takes rows from tables and the base; one   *)
(* that drops a table takes none.                                           *)
ASSUME StatementsAssumption ==
  \A st \in Statements :
    /\ st.kind \in {"place", "append", "drop", "select"}
    /\ st.name \in Names /\ st.from \in Seq(Names \cup {Base})
    /\ st.kind = "drop" => st.from = <<>>

(* What a relation takes rows from: definition `table`, or, when it is 0,   *)
(* a row of the base read on execution (0) or captured at a version.        *)
Live    == 0
Row(v)  == [table |-> 0, row |-> v]
Ref(id) == [table |-> id, row |-> 0]

Refused        == [ok |-> FALSE, rows |-> <<>>]
Answered(rows) == [ok |-> TRUE, rows |-> rows]

Packages == UNION {[1..n -> Statements] : n \in 1..MaxStatements}

-----------------------------------------------------------------------------
(* TempTablesManager.                                                       *)

New == [entries |-> <<>>, nextId |-> 0, binding |-> NoSnapshot]

SameName(a, b) == Fold[a] = Fold[b]

VisibleAt(m, name) ==
  {i \in DOMAIN m.entries : m.entries[i].visible /\ SameName(m.entries[i].name, name)}

Exists(m, name) == VisibleAt(m, name) # {}

Visible(m, name) == m.entries[Max(VisibleAt(m, name))]

Entry(m, id) == m.entries[CHOOSE i \in DOMAIN m.entries : m.entries[i].id = id]

IsEmpty(m) == \A i \in DOMAIN m.entries : ~m.entries[i].visible

(* check_binding.                                                           *)
Usable(m) == m.binding \in {NoSnapshot, snapshot}

Hide(m, name) ==
  [m EXCEPT !.entries = [i \in DOMAIN m.entries |->
     [m.entries[i] EXCEPT !.visible = @ /\ ~SameName(m.entries[i].name, name)]]]

CanPush(m) == Len(m.entries) < MaxDefinitions

Push(m, name, body, deps, captured) ==
  [entries |-> Append(m.entries,
                 [name |-> name, id |-> m.nextId + 1, body |-> body, deps |-> deps,
                  visible |-> TRUE, captured |-> captured]),
   nextId  |-> m.nextId + 1,
   binding |-> IF m.binding = NoSnapshot THEN snapshot ELSE m.binding]

-----------------------------------------------------------------------------
(* One statement: what it selects and which definitions it uses.            *)

Resolves(m, st) == \A i \in DOMAIN st.from : st.from[i] = Base \/ Exists(m, st.from[i])

Body(m, st) ==
  [i \in DOMAIN st.from |->
     IF st.from[i] = Base THEN Row(Live) ELSE Ref(Visible(m, st.from[i]).id)]

Used(m, st) ==
  UNION {LET e == Visible(m, st.from[i]) IN {e.id} \cup e.deps :
           i \in {i \in DOMAIN st.from : st.from[i] # Base}}

(* Mutant: only the previous definition itself is remembered.               *)
AppendedDepsShallow(previous, used) == used \cup {previous.id}

AppendedDeps(previous, used) == used \cup {previous.id} \cup previous.deps

(* The statement compiles with the tables of this manager.                  *)
Compiles(m, st) ==
  /\ Resolves(m, st)
  /\ st.kind \in {"append", "drop"} => Exists(m, st.name)
  /\ st.kind = "place" => ~Exists(m, st.name)
  /\ st.kind \in {"place", "append"} => CanPush(m)

(* The SQL a statement returns: its WITH list and what it reads.            *)
Query(with, body) == [with |-> with, body |-> body]

NoRows == Query({}, <<>>)

(* place_statement and drop_table: the manager after the statement, and     *)
(* the query it returns when it is the last.                                *)
PlacedView(m, st) ==
  LET pushed == Push(m, st.name, Body(m, st), Used(m, st), FALSE) IN
  [manager |-> pushed,
   query |-> Query(Used(m, st) \cup {pushed.nextId}, <<Ref(pushed.nextId)>>)]

(* Mutant: an append counts the rows that were there before.                *)
AppendedRowsAll(m, st) ==
  LET previous == Visible(m, st.name) IN
  Query(Used(m, st) \cup {previous.id} \cup previous.deps,
        <<Ref(previous.id)>> \o Body(m, st))

AppendedRows(m, st) == Query(Used(m, st), Body(m, st))

AppendedView(m, st) ==
  LET previous == Visible(m, st.name) IN
  [manager |-> Push(Hide(m, previous.name), previous.name,
                    <<Ref(previous.id)>> \o Body(m, st),
                    AppendedDeps(previous, Used(m, st)), FALSE),
   query |-> AppendedRows(m, st)]

Dropped(m, st) ==
  [manager |-> Hide(m, Visible(m, st.name).name), query |-> NoRows]

Compiled(m, st) ==
  CASE st.kind = "place"  -> PlacedView(m, st)
    [] st.kind = "append" -> AppendedView(m, st)
    [] st.kind = "drop"   -> Dropped(m, st)
    [] st.kind = "select" -> [manager |-> m, query |-> Query(Used(m, st), Body(m, st))]

(* The statements of a package one after another, up to the first that      *)
(* does not compile.                                                        *)
Attempt(m, st) ==
  IF Compiles(m, st)
  THEN [stuck |-> FALSE, manager |-> Compiled(m, st).manager, query |-> Compiled(m, st).query]
  ELSE [stuck |-> TRUE, manager |-> m, query |-> NoRows]

Progress(m, statements) ==
  LET done[i \in 0..Len(statements)] ==
        IF i = 0 THEN [stuck |-> FALSE, manager |-> m, query |-> NoRows]
        ELSE IF done[i - 1].stuck THEN done[i - 1]
        ELSE Attempt(done[i - 1].manager, statements[i])
  IN done[Len(statements)]

-----------------------------------------------------------------------------
(* What SQL with this WITH list answers: definitions are read in their      *)
(* order, and one that is not in the list cannot be.                        *)

Missing == "missing"

(* A relation below `upTo` reads the earlier definitions of the list.       *)
Atom(atom, with, upTo, earlier, base) ==
  IF atom.table = 0 THEN <<IF atom.row = Live THEN base ELSE atom.row>>
  ELSE IF atom.table \in with /\ atom.table < upTo THEN earlier[atom.table]
  ELSE <<Missing>>

Rows(body, with, upTo, earlier, base) ==
  FlattenSeq([i \in DOMAIN body |-> Atom(body[i], with, upTo, earlier, base)])

Denote(m, query, base) ==
  LET defined[id \in 1..m.nextId] ==
        Rows(Entry(m, id).body, query.with, id, defined, base)
  IN Rows(query.body, query.with, m.nextId + 1, defined, base)

-----------------------------------------------------------------------------
Init ==
  /\ manager = New /\ package = <<>> /\ snapshot \in Snapshots
  /\ source = 1 /\ answer = Answered(<<>>)

Refuse ==
  /\ answer' = Refused /\ package' = <<>> /\ UNCHANGED <<manager, snapshot, source>>

(* compile_batch.  What the caller supplies beside the text (access         *)
(* decisions) is checked for use after the package was compiled.            *)
CompileBatch(statements, suppliedUnused) ==
  /\ package = <<>>
  /\ LET done == Progress(manager, statements) IN
     IF ~Usable(manager) \/ done.stuck THEN Refuse
     ELSE /\ manager' = done.manager
          /\ answer' = IF suppliedUnused THEN Refused
                       ELSE Answered(Denote(manager', done.query, Live))
          /\ UNCHANGED <<package, snapshot, source>>

(* compile_materialized_batch compiles the package once before it reads.    *)
BeginCapture(statements) ==
  /\ package = <<>>
  /\ IF ~Usable(manager) \/ Progress(manager, statements).stuck THEN Refuse
     ELSE /\ package' = <<[scratch |-> manager, rest |-> statements, rows |-> <<>>]>>
          /\ UNCHANGED <<manager, snapshot, source, answer>>

Statement == Head(package[1].rest)
Scratch   == package[1].scratch
IsLast    == Tail(package[1].rest) = <<>>

Capturing == package # <<>> /\ package[1].rest # <<>>

Continue(m, rows) ==
  /\ package' = <<[scratch |-> m, rest |-> Tail(package[1].rest),
                   rows |-> IF IsLast THEN rows ELSE <<>>]>>
  /\ UNCHANGED <<manager, snapshot, source, answer>>

(* check_materialized_dependencies.                                         *)
AllCaptured == \A id \in Used(Scratch, Statement) : Entry(Scratch, id).captured

CaptureDrop ==
  /\ Capturing /\ Statement.kind = "drop"
  /\ IF Exists(Scratch, Statement.name)
     THEN Continue(Dropped(Scratch, Statement).manager, <<>>) ELSE Refuse

CaptureSelect ==
  /\ Capturing /\ Statement.kind = "select"
  /\ IF Resolves(Scratch, Statement) /\ (IsLast => AllCaptured)
     THEN Continue(Scratch, Denote(Scratch, Query(Used(Scratch, Statement),
                                                  Body(Scratch, Statement)), Live))
     ELSE Refuse

(* The rows the host reads: of the base as it is now.                       *)
HostRows ==
  Denote(Scratch, Query(Used(Scratch, Statement), Body(Scratch, Statement)), source)

Literal(rows) == [i \in DOMAIN rows |-> Row(rows[i])]

CapturePlace ==
  /\ Capturing /\ Statement.kind = "place"
  /\ IF Resolves(Scratch, Statement) /\ AllCaptured /\ ~Exists(Scratch, Statement.name)
        /\ CanPush(Scratch)
     THEN Continue(Push(Scratch, Statement.name, Literal(HostRows), {}, TRUE), HostRows)
     ELSE Refuse

(* Captured appends below this definition.                                  *)
Chain(m, e) == Cardinality({id \in {e.id} \cup e.deps :
                              Entry(m, id).captured /\ Entry(m, id).deps # {}})

CaptureAppend ==
  /\ Capturing /\ Statement.kind = "append"
  /\ IF Resolves(Scratch, Statement) /\ AllCaptured /\ Exists(Scratch, Statement.name)
        /\ Visible(Scratch, Statement.name).captured /\ CanPush(Scratch)
     THEN LET previous == Visible(Scratch, Statement.name) IN
          /\ Chain(Scratch, previous) < MaxCaptures
          /\ Continue(Push(Hide(Scratch, previous.name), previous.name,
                           <<Ref(previous.id)>> \o Literal(HostRows),
                           {previous.id}, TRUE), HostRows)
     ELSE Refuse

(* The host fails to read, or its rows do not fit the columns or the budget.*)
CaptureFails ==
  /\ Capturing /\ Statement.kind \in {"place", "append"} /\ Refuse

CaptureEnds ==
  /\ package # <<>> /\ package[1].rest = <<>>
  /\ manager' = Scratch /\ answer' = Answered(package[1].rows) /\ package' = <<>>
  /\ UNCHANGED <<snapshot, source>>

ChangeSource ==
  /\ source < MaxSource /\ source' = source + 1
  /\ UNCHANGED <<manager, package, snapshot, answer>>

(* \refresh of the console: a new snapshot, and its tables are forgotten.   *)
Refresh ==
  /\ package = <<>> /\ snapshot' \in Snapshots
  /\ manager' = IF IsEmpty(manager) THEN manager ELSE New
  /\ UNCHANGED <<package, source, answer>>

CompileAny(suppliedUnused) ==
  \E statements \in Packages : CompileBatch(statements, suppliedUnused)

Capture ==
  \/ \E statements \in Packages : BeginCapture(statements)
  \/ CaptureDrop \/ CaptureSelect \/ CapturePlace \/ CaptureAppend
  \/ CaptureFails \/ CaptureEnds

Next == CompileAny(FALSE) \/ Capture \/ ChangeSource \/ Refresh

(* With callers that also supply what no statement uses.                    *)
NextSupplied == Next \/ CompileAny(TRUE)

Spec == Init /\ [][Next]_vars

-----------------------------------------------------------------------------
Managers == {manager} \cup {package[i].scratch : i \in DOMAIN package}

(* Definitions are numbered in order and read only earlier ones; of one     *)
(* name at most one is visible; the definitions stay within their limit.    *)
TypeOK ==
  /\ source \in 1..MaxSource /\ snapshot \in Snapshots /\ Len(package) <= 1
  /\ \A m \in Managers :
       /\ Len(m.entries) <= MaxDefinitions /\ m.nextId = Len(m.entries)
       /\ m.binding \in Snapshots \cup {NoSnapshot}
       /\ \A i \in DOMAIN m.entries :
            /\ m.entries[i].id = i /\ m.entries[i].deps \subseteq 1..i - 1
            /\ m.entries[i].visible => Cardinality(VisibleAt(m, m.entries[i].name)) = 1

(* The definitions reached from this one.                                   *)
Reached(m, id) ==
  LET reached[k \in 1..m.nextId] ==
        LET direct == {Entry(m, k).body[i].table : i \in DOMAIN Entry(m, k).body} \ {0}
        IN direct \cup UNION {reached[d] : d \in direct}
  IN reached[id]

(* The WITH list of a statement is exactly the definitions it reaches.      *)
ExactClosure ==
  \A m \in Managers : \A i \in DOMAIN m.entries :
    m.entries[i].deps = Reached(m, m.entries[i].id)

(* No table is read that was compiled for another snapshot.                 *)
NoStaleDefinition == ~IsEmpty(manager) => manager.binding = snapshot

(* Every definition kept can still be read: what it names is there, and of  *)
(* the metadata in use.                                                     *)
DefinitionsHold == ExactClosure /\ NoStaleDefinition

(* A package that is refused changes no table.                              *)
FailedPackageKeepsTables ==
  [][answer' = Refused /\ answer # Refused => manager' = manager]_vars

(* The rows of every visible table, by folded name.                         *)
TablesOf(m) ==
  [key \in {Fold[m.entries[i].name] : i \in {i \in DOMAIN m.entries : m.entries[i].visible}} |->
     LET e == Visible(m, CHOOSE n \in Names : Fold[n] = key)
     IN Denote(m, Query({e.id} \cup e.deps, <<Ref(e.id)>>), Live)]

Promise == INSTANCE NamedTables WITH
  tables <- TablesOf(manager),
  open   <- [i \in DOMAIN package |->
               [tables |-> TablesOf(package[i].scratch), rest |-> package[i].rest,
                rows |-> package[i].rows]]

(* Packages act on named tables, whatever SQL stands for them.              *)
KeepsPromise == Promise!Spec
=============================================================================
