------------------------------ MODULE Decisions ------------------------------
(***************************************************************************)
(* Access decisions of a compilation.  An application prepares a batch in  *)
(* one of two modes, is asked about the tables it reads, answers, and the  *)
(* batch is compiled: every read finds its answer, or is refused.  What a  *)
(* condition's own text reads is nobody's business.  Temporary tables      *)
(* outlive the batch, and with them the mode their rows were read in.      *)
(*                                                                         *)
(* src/query/core/resolve.rs (CompilationCatalog), restrict.rs,            *)
(* codegen/entry.rs, batch.rs, context.rs, select.rs                       *)
(***************************************************************************)
EXTENDS Naturals, Sequences

CONSTANTS Batches,      \* batches tried: sequences of statements
          Answers,      \* answers of the application tried: sequences
          Texts,        \* what the text of a condition reads, per condition
          Spelled,      \* section names as 1C compares them: spelling -> name
          MaxBatches    \* bound: batches of one session

(* What a statement reads: a relation of a metadata table, a table a        *)
(* reference leads to, a table read past the decisions, the payload of a    *)
(* presentation, or a temporary table; and what an answer says of a table.  *)
Target  == [object : STRING, part : DOMAIN Spelled]
Reading == [kind : {"source", "reference", "descent", "payload"}, target : Target]
             \cup [kind : {"temporary"}, name : STRING]

AnswersAreTyped ==
  /\ \A batch \in Batches :
       batch \in Seq([keyword : BOOLEAN, reads : Seq(Reading), into : STRING, append : BOOLEAN])
  /\ \A given \in Answers :
       given \in Seq([list : {"decision", "restriction"}, target : Target, text : DOMAIN Texts,
                     verdict : {"allowed", "denied", "condition"}])
  /\ \A text \in DOMAIN Texts : Texts[text] \in Seq(Reading)

VARIABLES manager,      \* temporary tables: name -> what is known of their rows
          prepared,     \* the batch prepared, its mode and request, or NoBatch
          answers,      \* what the application supplies
          outcome,      \* what the last compilation answered
          asked,        \* presentation lookups compiled for its result
          batches       \* batches prepared so far

Modes == {"Statement", "Restricted"}
NoBatch == [statements |-> << >>, mode |-> "none", targets |-> {}, fields |-> {}]

\* A table a statement reads: a metadata object or a section of one.
Same(a, b) == a.object = b.object /\ Spelled[a.part] = Spelled[b.part]

-----------------------------------------------------------------------------
(* One statement: its reads are folded into what the catalog gathered.      *)

Fresh(tables) == [why |-> "none", targets |-> {}, used |-> {}, fields |-> {}, reads |-> {},
                  lookups |-> {}, past |-> {}, from |-> {}, manager |-> tables]
Fail(c, why) == [c EXCEPT !.why = why]
Done(c) == c.why # "none"

\* set_restrictions: a restricted batch filters every statement of it.
Armed(mode, keyword, collecting) ==
  [mode |-> mode, collecting |-> collecting,
   restricting |-> keyword \/ mode = "Restricted", inText |-> FALSE]

\* refuse_unfiltered_read
Refuses(armed) == armed.mode = "Restricted" /\ ~armed.inText

\* The first answer about a target, decisions before conditions.
AnswerFor(given, target) ==
  LET about(list) == {i \in DOMAIN given : given[i].list = list /\ Same(given[i].target, target)}
      first(s) == CHOOSE i \in s : \A k \in s : i <= k
  IN IF about("decision") # {} THEN first(about("decision"))
     ELSE IF about("restriction") # {} THEN first(about("restriction")) ELSE 0

\* What is applied to one read of a target: <<what was gathered, verdict>>.
Decide(c, target, armed, given) ==
  LET i == AnswerFor(given, target)
      noted == [c EXCEPT !.targets = @ \cup {target}]
  IN CASE ~armed.restricting -> <<c, "unfiltered">>
       [] armed.restricting /\ i # 0 ->
            <<[noted EXCEPT !.used = @ \cup {i}], given[i].verdict>>
       [] armed.restricting /\ i = 0 /\ armed.mode = "Restricted" /\ ~armed.collecting ->
            <<Fail(noted, "no decision"), "none">>
       [] OTHER -> <<noted, "unfiltered">>

\* What a read of a target passes by when it passes by a decision; the text
\* of a condition passes by none.
PassedBy(tables, armed) == IF armed.inText THEN {} ELSE tables

\* A relation of a metadata table: decided, then noted with its verdict.
Note(c, target, armed, given) ==
  LET decided == Decide(c, target, armed, given)
      verdict == decided[2]
  IN IF Done(decided[1]) THEN decided[1]
     ELSE [decided[1] EXCEPT
             !.reads = @ \cup {[target |-> target, verdict |-> verdict, inText |-> armed.inText]},
             !.past = @ \cup IF verdict = "unfiltered" THEN PassedBy({target}, armed) ELSE {},
             !.fields = @ \cup IF armed.inText THEN {} ELSE {target}]

\* A mutant: a dereference is filtered in allowed statements only.
DereferenceAllowed(armed) == [armed EXCEPT !.restricting = FALSE]

\* A dereference joins its target: filtered in the restricted mode alone.
Dereference(armed) == [armed EXCEPT !.restricting = @ /\ armed.mode = "Restricted"]

\* A temporary table is read when its rows were filtered as they were placed.
ReadTemporary(c, name, armed) ==
  CASE name \notin DOMAIN c.manager -> Fail(c, "unknown")
    [] name \in DOMAIN c.manager /\ ~c.manager[name].restricted /\ Refuses(armed) -> Fail(c, "refused")
    [] OTHER -> [c EXCEPT !.past = @ \cup PassedBy(c.manager[name].past, armed),
                          !.from = @ \cup c.manager[name].modes]

\* Constants, filter criteria, descents of a hierarchy, nested sections.
ReadUnfiltered(c, target, armed) ==
  IF Refuses(armed) THEN Fail(c, "refused")
  ELSE [c EXCEPT !.past = @ \cup PassedBy({target}, armed),
                 !.reads = @ \cup {[target |-> target, verdict |-> "unfiltered",
                                    inText |-> armed.inText]}]

Tables == {"source", "reference"}
ArmedFor(read, armed) == IF read.kind = "reference" THEN Dereference(armed) ELSE armed

\* A read but for the text of the condition it meets.
Meet(c, read, armed, given) ==
  CASE Done(c) -> c
    [] ~Done(c) /\ read.kind \in Tables -> Note(c, read.target, ArmedFor(read, armed), given)
    [] ~Done(c) /\ read.kind = "temporary" -> ReadTemporary(c, read.name, armed)
    [] ~Done(c) /\ read.kind = "descent" -> ReadUnfiltered(c, read.target, armed)
    \* a runtime-typed reference leaves its payload to a lookup
    [] ~Done(c) /\ read.kind = "payload" -> [c EXCEPT !.lookups = @ \cup {read.target}]

\* The text of a condition compiles with the restriction disarmed: what it
\* reads meets no condition in turn, and is not reported as the statement's.
InRestriction(c, text, armed, given) ==
  LET disarmed == [armed EXCEPT !.inText = TRUE, !.restricting = FALSE]
      after[n \in 0..Len(Texts[text])] ==
        IF n = 0 THEN c ELSE Meet(after[n - 1], Texts[text][n], disarmed, given)
  IN after[Len(Texts[text])]

\* The answer whose condition a read is filtered by, or 0.
ConditionOf(read, armed, given) ==
  IF /\ read.kind \in Tables /\ ArmedFor(read, armed).restricting
     /\ AnswerFor(given, read.target) # 0
     /\ given[AnswerFor(given, read.target)].verdict = "condition"
  THEN AnswerFor(given, read.target) ELSE 0

Read(c, read, armed, given) ==
  LET met == Meet(c, read, armed, given)
      i == ConditionOf(read, armed, given)
  IN IF Done(met) \/ i = 0 THEN met ELSE InRestriction(met, given[i].text, armed, given)

ReadEach(c, reads, armed, given) ==
  LET after[n \in 0..Len(reads)] ==
        IF n = 0 THEN c ELSE Read(after[n - 1], reads[n], armed, given)
  IN after[Len(reads)]

-----------------------------------------------------------------------------
(* A batch: a statement reads the tables the ones before it placed.         *)

PlaceTable(c, statement, mode) ==
  LET name == statement.into
      known == name \in DOMAIN c.manager
      before == IF known THEN c.manager[name] ELSE [past |-> {}, modes |-> {}]
      table == [restricted |-> mode = "Restricted" \/ statement.keyword,
                past |-> c.past \cup before.past, modes |-> {mode} \cup c.from \cup before.modes]
  IN CASE Done(c) \/ name = "none" -> c
       [] ~Done(c) /\ name # "none" /\ statement.append # known -> Fail(c, "exists")
       [] OTHER -> [c EXCEPT !.manager = [n \in DOMAIN @ \cup {name} |->
                                            IF n = name THEN table ELSE @[n]]]

Statement(c, statement, mode, collecting, given) ==
  LET armed == Armed(mode, statement.keyword, collecting)
      start == [c EXCEPT !.past = {}, !.from = {}]
  IN IF Done(c) THEN c ELSE PlaceTable(ReadEach(start, statement.reads, armed, given), statement, mode)

Batch(tables, statements, mode, collecting, given) ==
  LET after[n \in 0..Len(statements)] ==
        IF n = 0 THEN Fresh(tables)
        ELSE Statement(after[n - 1], statements[n], mode, collecting, given)
  IN after[Len(statements)]

\* Two answers about one target are refused before anything is read.
Duplicated(given) ==
  \E i, k \in DOMAIN given : i < k /\ Same(given[i].target, given[k].target)

\* An answer no statement reads is refused after everything is.
Checked(c, given) ==
  IF ~Done(c) /\ c.used # DOMAIN given THEN Fail(c, "unused") ELSE c

-----------------------------------------------------------------------------
DecisionsInit ==
  /\ manager = << >> /\ prepared = NoBatch /\ answers = << >>
  /\ outcome = Fresh(manager) /\ asked = {} /\ batches = 0

\* prepare_query: the request of a batch, gathered with nothing answered.
Prepare ==
  /\ batches < MaxBatches
  /\ batches' = batches + 1
  /\ \E batch \in Batches, mode \in Modes :
       LET c == Batch(manager, batch, mode, TRUE, << >>)
       IN /\ prepared' = IF Done(c) THEN NoBatch
                         ELSE [statements |-> batch, mode |-> mode, targets |-> c.targets,
                               fields |-> c.fields]
          /\ outcome' = [Fresh(manager) EXCEPT !.why = IF Done(c) THEN c.why ELSE "prepared"]
  /\ answers' = << >> /\ asked' = {}
  /\ UNCHANGED manager

\* compile_batch under the answers of the application; a statement that fails
\* leaves the manager as it was, an answer found unread is found after the
\* tables are placed.
Compile ==
  /\ prepared # NoBatch /\ outcome.why = "prepared"
  /\ \E given \in Answers :
       LET c == IF Duplicated(given) THEN Fail(Fresh(manager), "duplicate")
                ELSE Checked(Batch(manager, prepared.statements, prepared.mode, FALSE, given), given)
       IN /\ answers' = given
          /\ outcome' = c
          /\ manager' = IF c.why \in {"none", "unused"} THEN c.manager ELSE manager
  /\ asked' = {}
  /\ UNCHANGED <<prepared, batches>>

\* compile_presentation_lookup: the prepared query's mode, the same answers.
Lookup ==
  /\ prepared # NoBatch /\ ~Done(outcome)
  /\ \E target \in outcome.lookups :
       /\ \A a \in asked : a.target # target
       /\ LET armed == Armed(prepared.mode, FALSE, FALSE)
              c == Read(Fresh(manager), [kind |-> "source", target |-> target], armed, answers)
          IN asked' = asked \cup {[target |-> target, ok |-> ~Done(c), past |-> c.past # {}]}
  /\ UNCHANGED <<manager, prepared, answers, outcome, batches>>

DecisionsNext == Prepare \/ Compile \/ Lookup

DecisionsSpec ==
  DecisionsInit /\ [][DecisionsNext]_<<manager, prepared, answers, outcome, asked, batches>>

-----------------------------------------------------------------------------
Compiled == prepared # NoBatch /\ ~Done(outcome)

Listed == {answers[i].target : i \in DOMAIN answers}
Applied(target, verdict) ==
  \E i \in DOMAIN answers : Same(answers[i].target, target) /\ answers[i].verdict = verdict

\* A batch prepared in the restricted mode reads no row of a table but by the
\* answer about that table: as a source, through a dereference, or later, in
\* a lookup for a deferred presentation; the text of a condition alone is
\* exempt (decide, refuse_unfiltered_read, in_restriction).
EveryReadDecided ==
  Compiled /\ prepared.mode = "Restricted" =>
    /\ \A r \in outcome.reads : ~r.inText => Applied(r.target, r.verdict)
    /\ \A a \in asked : a.ok => ~a.past

\* An application that answers exactly what it was asked is never refused
\* for an answer missing, and none of its answers is refused as unread: the
\* collecting pass and the compiling pass meet the same tables.
RequestSuffices ==
  prepared # NoBatch /\ ~Duplicated(answers) =>
    /\ (\A t \in prepared.targets : \E a \in Listed : Same(a, t)) => outcome.why # "no decision"
    /\ (\A a \in Listed : \E t \in prepared.targets : Same(a, t)) => outcome.why # "unused"

\* What the text of a condition reads is asked of nobody and belongs to no
\* statement: the request of a batch does not depend on its answers.
TextsUnreported ==
  Compiled => outcome.targets = prepared.targets /\ outcome.fields = prepared.fields

\* What a restricted batch reads is what its request asked about, answered.
RequestIsTheReads == EveryReadDecided /\ RequestSuffices /\ TextsUnreported

\* A restricted batch reads a temporary table only when the statements that
\* placed its rows were compiled in the restricted mode
\* (openspec/specs/query-compilation/spec.md, "Refuse a construct whose
\* restricted read is not implemented").
TablesPlacedRestricted ==
  Compiled /\ prepared.mode = "Restricted" => outcome.from \subseteq {"Restricted"}
=============================================================================
