------------------------------ MODULE Dereference ------------------------------
(***************************************************************************)
(* How a field path of a statement becomes a column: the source its first  *)
(* segments name, the LEFT JOIN each reference hop plans, the CASE over    *)
(* the stored type a composite hop fans out into, and the sources of the   *)
(* enclosing statement a subquery of a predicate sees.  The SQL is then    *)
(* read over rows, and compared with what the path says.                   *)
(*                                                                         *)
(* src/query/core/codegen/context.rs, select.rs (sources and joins)        *)
(***************************************************************************)
EXTENDS Integers, FiniteSets, Sequences, SequencesExt

CONSTANTS Fields,       \* object -> field -> [is, type, target, targets]
          KindOf,       \* object -> the word the language spells its kind by
          Live,         \* the objects whose table exists
          MaxTargets,   \* MAX_DEREFERENCE_TARGETS
          Statements,   \* [outer, inner]: [sources, reads] each
          Contents      \* object -> rows

VARIABLES statement, content,
          step,         \* Outer, Inner, Compiled, Refused, Answered
          outer, inner, \* the two compilations: [scopes, locals, columns]
          answer        \* the values of every row of both statements

\* A stored value is [v], a reference to one target [id], to several [type, id].
NULL == [null |-> TRUE]
Dangling == [dangling |-> TRUE]      \* the database knows no such column
None == "none"

-----------------------------------------------------------------------------
(* The sources.                                                             *)

\* The alias written, or the one of the position.
DefaultAlias(count, i) ==
  CASE count = 1 -> <<"__src", 0>> [] i = 1 -> <<"__left", 0>> [] i = 2 -> <<"__right", 0>>
    [] OTHER -> <<"__join", i>>

ScopesOf(sources) ==
  [i \in 1..Len(sources) |->
     [object |-> sources[i].object, user |-> sources[i].alias, pruned |-> sources[i].pruned,
      alias |-> IF sources[i].alias = None THEN DefaultAlias(Len(sources), i)
                ELSE <<sources[i].alias, 0>>,
      joins |-> <<>>, used |-> {}]]

Compilation(sources, enclosing) ==
  [scopes |-> ScopesOf(sources) \o
                [i \in 1..Len(enclosing) |-> [enclosing[i] EXCEPT !.joins = <<>>, !.used = {}]],
   locals |-> Len(sources), columns |-> <<>>]

\* A written alias replaces the name.
Qualifies(scope, name) ==
  IF scope.user = None THEN scope.object = name ELSE scope.user = name

ScopesWhere(ctx, P(_)) == {i \in 1..Len(ctx.scopes) : P(ctx.scopes[i])}
Local(ctx, found) == {i \in found : i <= ctx.locals}
TheOne(found) == CHOOSE i \in found : TRUE

\* 0: nothing of that name; -1: ambiguous.  An own source hides an enclosing
\* one.
Qualifier(ctx, name) ==
  LET found == ScopesWhere(ctx, LAMBDA s : Qualifies(s, name))
      own == Local(ctx, found)
  IN CASE found = {} -> 0
       [] Cardinality(found) = 1 -> TheOne(found)
       [] Cardinality(own) = 1 -> TheOne(own)
       [] OTHER -> -1

FullName(ctx, kind, name) ==
  LET found == ScopesWhere(ctx, LAMBDA s : s.user = None /\ s.object = name /\ KindOf[s.object] = kind)
  IN IF found = {} THEN 0 ELSE CHOOSE i \in found : \A k \in found : i <= k

Has(object, field) == field \in DOMAIN Fields[object]
IsReference(object, field) == Has(object, field) /\ Fields[object][field].is # "plain"

\* The sources a bare reference field may belong to: those holding it as a
\* reference when any does.
ReferenceScopes(ctx, field) ==
  LET matching == ScopesWhere(ctx, LAMBDA s : Has(s.object, field))
      references == ScopesWhere(ctx, LAMBDA s : IsReference(s.object, field))
  IN IF references = {} THEN matching ELSE references

-----------------------------------------------------------------------------
(* The joins.                                                               *)

\* A mutant: two reference fields of one target share a join.
SameJoinOfTarget(a, b) == a.from = b.from /\ a.target = b.target /\ a.guarded = b.guarded

SameJoin(a, b) ==
  a.from = b.from /\ a.field = b.field /\ a.target = b.target /\ a.guarded = b.guarded

Aliases(ctx) == UNION {{s.alias} \cup {s.joins[j].as : j \in DOMAIN s.joins} : s \in ToSet(ctx.scopes)}

NextAlias(ctx, i) ==
  LET prefix == CASE Len(ctx.scopes) = 1 -> "__ref" [] i = 1 -> "__left_ref"
                  [] i = 2 -> "__right_ref" [] OTHER -> "__join_ref"
      free == {n \in (Len(ctx.scopes[i].joins) + 1)..(Cardinality(Aliases(ctx)) + 9) :
                 <<prefix, n>> \notin Aliases(ctx)}
  IN <<prefix, CHOOSE n \in free : \A k \in free : n <= k>>

\* The join of one hop, planned once.
Planned(ctx, i, key) ==
  LET same == {j \in DOMAIN ctx.scopes[i].joins : SameJoin(ctx.scopes[i].joins[j], key)}
  IN IF same # {} THEN [ctx |-> ctx, as |-> ctx.scopes[i].joins[TheOne(same)].as]
     ELSE [ctx |-> [ctx EXCEPT !.scopes[i].joins = Append(@, key)], as |-> key.as]
Join(ctx, i, at, target, guarded) ==
  Planned(ctx, i, [from |-> at.alias, field |-> at.field, target |-> target, guarded |-> guarded,
                   as |-> NextAlias(ctx, i)])

-----------------------------------------------------------------------------
(* The path.                                                                *)

Kind(field) == IF field.is = "plain" THEN [type |-> field.type, runtime |-> FALSE, of |-> {}]
               ELSE [type |-> "reference", runtime |-> field.is = "composite",
                     of |-> IF field.is = "fixed" THEN {field.target} ELSE ToSet(field.targets)]

Found(ctx, sql, kind, target) ==
  [ctx |-> ctx, error |-> None, sql |-> sql, kind |-> kind, target |-> target]
Failed(ctx, error) == [ctx |-> ctx, error |-> error]
Column(alias, field) == [is |-> "column", alias |-> alias, field |-> field]

\* The targets a composite field may hold: those its column knows, or every
\* object with a field of that name.
Candidates(field, next) ==
  IF field.targets # <<>> THEN field.targets
  ELSE SetToSeq({o \in DOMAIN Fields : Has(o, next)})

Widened(branch) ==
  CASE branch.kind.runtime -> branch.sql
    [] OTHER -> [is |-> "payload", type |-> TheOne(branch.kind.of), of |-> branch.sql]

\* A branch read past its own target, widened, needs a fixed target of its own.
Unwidenable(branch) == branch.target = None /\ (branch.continued \/ ~branch.kind.runtime)

\* CASE over the stored type, one arm a branch.
Arms(at, branches, Value(_)) ==
  [is |-> "case", alias |-> at.alias, field |-> at.field,
   arms |-> {[type |-> branches[b].type, value |-> Value(branches[b])] : b \in DOMAIN branches}]

\* Branches of several kinds answer one value of several types.
Members(ctx, at, branches) ==
  IF \E b \in DOMAIN branches : branches[b].kind.type = "several" THEN Failed(ctx, "Unsupported")
  ELSE Found(ctx, Arms(at, branches,
                       LAMBDA b : [is |-> "members", type |-> b.kind.type,
                                   of |-> IF b.kind.type = "reference" THEN Widened(b) ELSE b.sql]),
             [type |-> "several", runtime |-> FALSE, of |-> {}], None)

\* The kind the branches agree on: references of different targets are typed
\* at run time.
Common(kinds) ==
  IF Cardinality(kinds) = 1 THEN TheOne(kinds)
  ELSE IF \A k \in kinds : k.type = "reference"
    THEN [type |-> "reference", runtime |-> TRUE, of |-> UNION {k.of : k \in kinds}]
    ELSE [type |-> "several", runtime |-> FALSE, of |-> {}]

\* The value of a composite hop.
Selected(ctx, at, branches) ==
  LET kinds == {branches[b].kind : b \in DOMAIN branches}
      common == Common(kinds)
      widen == common.type = "reference" /\ kinds # {common}
  IN CASE common.type = "several" -> Members(ctx, at, branches)
       [] widen -> IF \E b \in DOMAIN branches : Unwidenable(branches[b]) THEN Failed(ctx, "Metadata")
                   ELSE Found(ctx, Arms(at, branches, Widened), common, None)
       [] OTHER -> IF Len(branches) = 1 THEN Found(ctx, branches[1].sql, common, None)
                   ELSE Found(ctx, Arms(at, branches, LAMBDA b : b.sql), common, None)

RECURSIVE Walk(_, _, _, _)

\* The rest of a path in the row a join found.
Enter(join, i, target, hops) ==
  Walk(join.ctx, i, [alias |-> join.as, object |-> target, field |-> hops[1]], Tail(hops))

Added(found, target, hops, rest) ==
  CASE rest.error = None ->
         [found EXCEPT !.ctx = rest.ctx, !.branches = Append(@,
            [type |-> target, sql |-> rest.sql, kind |-> rest.kind, target |-> rest.target,
             continued |-> Len(hops) > 1])]
    [] rest.error = "UnknownField" -> [found EXCEPT !.ctx = rest.ctx]
    [] OTHER -> [found EXCEPT !.error = rest.error]

\* One candidate: skipped when it has no such field or no table, dropped when
\* the rest of the path names nothing in it; what it joined stays.
Branch(found, i, at, target, hops) ==
  IF found.error # None \/ ~Has(target, hops[1]) \/ target \notin Live THEN found
  ELSE Added(found, target, hops, Enter(Join(found.ctx, i, at, target, TRUE), i, target, hops))

\* The branches that were found, as one value.
Settled(found, at) ==
  CASE found.error # None -> Failed(found.ctx, found.error)
    [] found.error = None /\ Len(found.branches) > MaxTargets -> Failed(found.ctx, "Unsupported")
    [] found.error = None /\ found.branches = <<>> -> Failed(found.ctx, "UnknownField")
    [] OTHER -> Selected(found.ctx, at, found.branches)

\* The column of a field, or the rest of the path read in what it refers to.
Walk(ctx, i, at, hops) ==
  LET field == Fields[at.object][at.field]
  IN CASE hops = <<>> -> Found(ctx, Column(at.alias, at.field), Kind(field), field.target)
       [] hops # <<>> /\ field.is = "plain" -> Failed(ctx, "Unsupported")
       [] hops # <<>> /\ field.is = "fixed" ->
            IF field.target \notin Live THEN Failed(ctx, "NotLive")
            ELSE IF ~Has(field.target, hops[1]) THEN Failed(ctx, "UnknownField")
            ELSE Enter(Join(ctx, i, at, field.target, FALSE), i, field.target, hops)
       [] OTHER -> Settled(FoldLeft(LAMBDA f, target : Branch(f, i, at, target, hops),
                                    [ctx |-> ctx, error |-> None, branches |-> <<>>],
                                    Candidates(field, hops[1])),
                           at)

\* A field read is used, of the source it is read from.
Used(ctx, i, field) == [ctx EXCEPT !.scopes[i].used = @ \cup {field}]

\* A path from a source.
From(ctx, i, path) ==
  IF ~Has(ctx.scopes[i].object, path[1]) THEN Failed(ctx, "UnknownField")
  ELSE Walk(Used(ctx, i, path[1]), i,
            [alias |-> ctx.scopes[i].alias, object |-> ctx.scopes[i].object, field |-> path[1]],
            Tail(path))

OneOf(ctx, found, path) ==
  IF Cardinality(found) = 1 THEN From(ctx, TheOne(found), path) ELSE Failed(ctx, "UnknownField")

ResolvePath(ctx, path) ==
  LET named == Qualifier(ctx, path[1])
      spelled == IF Len(path) > 2 THEN FullName(ctx, path[1], path[2]) ELSE 0
  IN CASE Len(path) = 1 ->
            OneOf(ctx, Local(ctx, ScopesWhere(ctx, LAMBDA s : Has(s.object, path[1]))), path)
       [] Len(path) > 1 /\ named = -1 -> Failed(ctx, "Ambiguous")
       [] Len(path) > 1 /\ named > 0 -> From(ctx, named, Tail(path))
       [] Len(path) > 1 /\ named = 0 /\ spelled > 0 -> From(ctx, spelled, SubSeq(path, 3, Len(path)))
       [] Len(path) = 2 /\ named = 0 -> OneOf(ctx, ReferenceScopes(ctx, path[1]), path)
       [] OTHER -> Failed(ctx, "UnknownObject")

-----------------------------------------------------------------------------
(* The statement, and its SQL read over the rows.                           *)

\* The next read of a statement, or its refusal.
Projected(r) ==
  IF r.error # None THEN r
  ELSE [ctx |-> [r.ctx EXCEPT !.columns = Append(@, r.sql)], error |-> None]
Compiled(ctx, reads) ==
  FoldLeft(LAMBDA c, path : IF c.error # None THEN c ELSE Projected(ResolvePath(c.ctx, path)),
           [ctx |-> ctx, error |-> None], reads)

\* One source renders its own joins, several render those of every scope.
Rendered(ctx) ==
  IF ctx.locals = 1 THEN ctx.scopes[1].joins
  ELSE FoldLeft(LAMBDA js, s : js \o s.joins, <<>>, ctx.scopes)

\* A column of the nearest FROM that declares its alias.
Read(env, alias, field) ==
  CASE alias \notin DOMAIN env -> Dangling
    [] alias \in DOMAIN env /\ env[alias] = NULL -> NULL
    [] OTHER -> IF field \in DOMAIN env[alias] THEN env[alias][field] ELSE Dangling

Points(value, join) ==
  IF value \in {NULL, Dangling} \/ (join.guarded /\ value.type # join.target) THEN [id |-> 0]
  ELSE [id |-> value.id]

Looked(object, id) ==
  LET found == {r \in content[object] : r.ID = id} IN IF found = {} THEN NULL ELSE TheOne(found)

\* The rows of FROM under an enclosing row: constants show what was used.
Frame(ctx, rows, enclosing) ==
  LET base == [a \in {ctx.scopes[i].alias : i \in 1..ctx.locals} |->
                 LET i == CHOOSE i \in 1..ctx.locals : ctx.scopes[i].alias = a
                 IN IF ctx.scopes[i].pruned THEN Restrict(rows[i], ctx.scopes[i].used) ELSE rows[i]]
  IN FoldLeft(LAMBDA env, join :
                (join.as :> Looked(join.target, Points(Read(env, join.from, join.field), join))) @@ env,
              base @@ enclosing, Rendered(ctx))

RECURSIVE Eval(_, _)
Eval(sql, env) ==
  CASE sql.is = "column" -> Read(env, sql.alias, sql.field)
    [] sql.is = "payload" -> LET id == Eval(sql.of, env)
                             IN IF id \in {NULL, Dangling} THEN id ELSE [type |-> sql.type, id |-> id.id]
    [] sql.is = "members" -> LET value == Eval(sql.of, env)
                             IN IF value \in {NULL, Dangling} THEN value ELSE [tag |-> sql.type, value |-> value]
    [] sql.is = "case" ->
         LET value == Read(env, sql.alias, sql.field)
             arms == {a \in sql.arms : value \notin {NULL, Dangling} /\ a.type = value.type}
         IN IF value = Dangling THEN Dangling
            ELSE IF arms = {} THEN NULL ELSE Eval(TheOne(arms).value, env)

Empty == [a \in {} |-> NULL]
Products(sources) == {rows \in [1..Len(sources) -> UNION {content[o] : o \in DOMAIN content}] :
                        \A i \in 1..Len(sources) : rows[i] \in content[sources[i].object]}
Values(ctx, env) == [c \in DOMAIN ctx.columns |-> Eval(ctx.columns[c], env)]

DerefInit ==
  /\ statement \in Statements /\ content \in Contents
  /\ step = "Outer" /\ answer = {}
  /\ outer = Compilation(statement.outer.sources, <<>>)
  /\ inner = Compilation(<<>>, <<>>)

\* The enclosing statement, when there is one, is compiled first.
CompileOuter ==
  /\ step = "Outer"
  /\ LET c == Compiled(outer, statement.outer.reads)
     IN /\ outer' = c.ctx
        /\ step' = IF c.error = None THEN "Inner" ELSE "Refused"
  /\ inner' = Compilation(statement.inner.sources, outer'.scopes)
  /\ UNCHANGED <<statement, content, answer>>

CompileInner ==
  /\ step = "Inner"
  /\ LET c == Compiled(inner, statement.inner.reads)
     IN /\ inner' = c.ctx
        /\ step' = IF c.error = None THEN "Compiled" ELSE "Refused"
  /\ UNCHANGED <<statement, content, outer, answer>>

Run ==
  /\ step = "Compiled"
  /\ answer' = {[outer |-> rows, inner |-> own,
                 values |-> LET frame == Frame(outer, rows, Empty)
                            IN Values(outer, frame) \o Values(inner, Frame(inner, own, frame))] :
                 rows \in Products(statement.outer.sources), own \in Products(statement.inner.sources)}
  /\ step' = "Answered"
  /\ UNCHANGED <<statement, content, outer, inner>>

DerefNext == CompileOuter \/ CompileInner \/ Run

-----------------------------------------------------------------------------
(* What a path says.                                                        *)

\* The value of fields read one after another from a row.
RECURSIVE Says(_, _, _)
Says(object, row, path) ==
  LET value == row[path[1]]
      field == Fields[object][path[1]]
      to == IF field.is = "fixed" THEN field.target ELSE value.type
      next == Looked(to, [id |-> value.id])
  IN IF Len(path) = 1
     THEN [type |-> IF field.is = "plain" THEN field.type ELSE "reference",
           value |-> IF field.is = "fixed" THEN [type |-> to, id |-> value.id] ELSE value]
     ELSE IF next = NULL \/ ~Has(to, path[2]) THEN [type |-> None] ELSE Says(to, next, Tail(path))

Calls(source, name) == IF source.alias = None THEN source.object = name ELSE source.alias = name

\* Where a path starts, and what is left of it: a name of an own source, of
\* an enclosing one, the full name of one, or a field of the own ones.
Starts(own, enclosing, path) ==
  LET all == own \o enclosing
      within(sources, P(_)) == {i \in DOMAIN sources : P(sources[i])}
      called(sources) == IF Len(path) = 1 THEN {} ELSE within(sources, LAMBDA s : Calls(s, path[1]))
      spelled == IF Len(path) < 3 THEN {} ELSE
                 within(all, LAMBDA s : s.alias = None /\ KindOf[s.object] = path[1] /\ s.object = path[2])
      holding == within(own, LAMBDA s : Has(s.object, path[1]))
      referring == {i \in holding : IsReference(own[i].object, path[1])}
  IN CASE called(own) # {} -> [at |-> called(own), path |-> Tail(path)]
       [] called(own) = {} /\ called(enclosing) # {} ->
            [at |-> {Len(own) + i : i \in called(enclosing)}, path |-> Tail(path)]
       [] called(all) = {} /\ spelled # {} -> [at |-> {CHOOSE i \in spelled : \A k \in spelled : i <= k},
                                              path |-> SubSeq(path, 3, Len(path))]
       [] OTHER -> [at |-> IF Len(path) > 1 /\ referring # {} THEN referring ELSE holding, path |-> path]

\* A compiled value and a said one: a reference of one target is its
\* identifier alone, a value of several types carries the type.
Same(value, said) ==
  IF said.type = None THEN value = NULL
  ELSE CASE value \in {NULL, Dangling} -> FALSE
         [] value = said.value -> TRUE
         [] OTHER -> IF said.type = "reference" THEN value \in {[id |-> said.value.id], [tag |-> "reference", value |-> said.value]}
                     ELSE value = [tag |-> said.type, value |-> said.value]

Reads == statement.outer.reads \o statement.inner.reads
IsOuter(r) == r <= Len(statement.outer.reads)
StartOf(r) == IF IsOuter(r) THEN Starts(statement.outer.sources, <<>>, Reads[r])
              ELSE Starts(statement.inner.sources, statement.outer.sources, Reads[r])

Truthful(row, r) ==
  LET start == StartOf(r)
      rows == IF IsOuter(r) THEN row.outer ELSE row.inner \o row.outer
      sources == IF IsOuter(r) THEN statement.outer.sources
                 ELSE statement.inner.sources \o statement.outer.sources
  IN /\ Cardinality(start.at) = 1
     /\ \A i \in start.at : Same(row.values[r], Says(sources[i].object, rows[i], start.path))

\* A subquery of one source that follows a reference of the enclosing row.
FollowsEnclosing(r) ==
  ~IsOuter(r) /\ Len(Reads[r]) > 1 /\ inner.locals = 1 /\ \E j \in 2..Len(inner.scopes) : inner.scopes[j].joins # <<>>
\* A bare name the enclosing sources hold and the own ones do not.
Strays(r) ==
  /\ ~IsOuter(r) /\ Len(Reads[r]) = 2 /\ StartOf(r).path = Reads[r]
  /\ ~\E i \in StartOf(r).at : IsReference(statement.inner.sources[i].object, Reads[r][1])
\* Sources of both statements no alias was written for.
Captured == \E i \in 1..inner.locals, j \in (inner.locals + 1)..Len(inner.scopes) :
              inner.scopes[i].alias = inner.scopes[j].alias
\* Constants of the enclosing statement that only the subquery reads.
Pruned == \E j \in (inner.locals + 1)..Len(inner.scopes) :
            inner.scopes[j].pruned /\ ~(inner.scopes[j].used \subseteq outer.scopes[j - inner.locals].used)

\* Every path of a statement answers what its fields say, row by row: the
\* source it names, the record each reference holds and NULL past a missing
\* one, the target of the stored type of a composite reference, and two paths
\* share a join only when they hold the same record
\* (qualifier_scope, resolve_inner, resolve_dereference, continue_path,
\* composite_path, dereference_branch, next_reference_alias).
PathsMeanValues ==
  step = "Answered" /\ ~Captured /\ ~Pruned =>
    \A row \in answer : \A r \in DOMAIN Reads : FollowsEnclosing(r) \/ Strays(r) \/ Truthful(row, r)

\* A subquery of a predicate reads the enclosing row under its own alias
\* (openspec/specs/query-compilation/spec.md: "resolve the qualifiers of the
\* enclosing statement's sources and render them as the outer alias").
EnclosingRowIsRead ==
  step = "Answered" => \A row \in answer : \A r \in DOMAIN Reads : Truthful(row, r)
=============================================================================
