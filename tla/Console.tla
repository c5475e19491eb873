------------------------------- MODULE Console -------------------------------
(***************************************************************************)
(* The statement loop of the console (repl/mod.rs) over a session that     *)
(* keeps the promise of ReadSession: lines, \refresh, statements with      *)
(* their deferred presentations and tabular sections, Ctrl-C, and the way  *)
(* out (app.rs).                                                           *)
(*                                                                         *)
(* A signal reaches the process only while the line editor does not hold   *)
(* the terminal.  The handler is installed by the first wait for Ctrl-C    *)
(* and stays: before that a signal kills the process, afterwards one that  *)
(* nobody waits for is lost.                                               *)
(***************************************************************************)
EXTENDS ClientSession, Naturals, Functions

CONSTANTS
  Objects,       \* the metadata objects whose references are presented
  MaxRefreshes   \* bound: metadata generations

VARIABLES
  provider,      \* "postgres" or "mssql"
  interactive,   \* standard input is a terminal
  mode,          \* where the loop is
  statement,     \* the text collected so far: "empty" or "open"
  snapshot,      \* the generation of the metadata
  plans,         \* presentation_cache: object -> generation of its plan
  tables,        \* generations the temporary tables were compiled against
  compiled,      \* what is left of the statement: lookups and sections
  footer,        \* the pinned footer holds the terminal's last line
  handler,       \* the process handles SIGINT
  unheard        \* history: a signal was lost while a query ran

console == <<statement, snapshot, plans, tables, compiled>>
consoleVars == <<session, provider, interactive, mode, console, footer, handler, unheard>>

Postgres == INSTANCE ReadSession WITH
  DropSpares <- {"auto"}, StopSpares <- TRUE, Reconnects <- FALSE, NoticesLoss <- TRUE

MsSql == INSTANCE ReadSession WITH
  DropSpares <- {"auto"}, StopSpares <- FALSE, Reconnects <- TRUE, NoticesLoss <- FALSE

Call(o) == Postgres!Call(o)
Answers == IF provider = "mssql" THEN MsSql!Answer ELSE Postgres!Answer
Dropped == IF provider = "mssql" THEN MsSql!Drop ELSE Postgres!Drop
Lost    == provider = "postgres" /\ Postgres!Lose

Nothing == [lookups |-> {}, sections |-> 0]

(* The queries the user waits for, and the other answers he waits for.      *)
Querying == {"running", "presenting", "sections"}
Waiting  == Querying \cup {"starting", "refreshing", "asking", "cancelling"}

(* The reader comes back to the prompt; before it reads it redraws the      *)
(* footer and, unless a statement is being typed, has none.                 *)
Prompts == mode' = "prompt" /\ footer' = interactive

Ends == mode' = "closing" /\ UNCHANGED footer

-----------------------------------------------------------------------------
(* Lines.                                                                   *)

Reading == mode = "prompt" /\ call = "none"

(* Ctrl-C in the line editor, a line that is too long, or not UTF-8.        *)
Discard ==
  /\ Reading
  /\ statement' = "empty"
  /\ UNCHANGED <<session, provider, interactive, mode, snapshot, plans, tables, compiled,
                 footer, handler, unheard>>

(* A line that leaves the statement incomplete: any line, a command         *)
(* included, once something was typed; a blank one starts a statement too.  *)
Continue ==
  /\ Reading
  /\ statement' = "open"
  /\ UNCHANGED <<session, provider, interactive, mode, snapshot, plans, tables, compiled,
                 footer, handler, unheard>>

(* \q, the end of the input, or standard output that cannot be written.     *)
Leave ==
  /\ Reading
  /\ Ends
  /\ UNCHANGED <<session, provider, interactive, console, handler, unheard>>

(* A command that reads the base: \refresh, or one of the access commands.  *)
Command(o, m) ==
  /\ Reading /\ statement = "empty"
  /\ o = "metadata" => snapshot < MaxRefreshes
  /\ Call(o)
  /\ mode' = m
  /\ UNCHANGED <<provider, interactive, console, footer, handler, unheard>>

(* The plans of these objects, taken from the cache or made and kept.       *)
Planned(objects) ==
  [o \in DOMAIN plans \cup objects |-> IF o \in DOMAIN plans THEN plans[o] ELSE snapshot]

(* A statement is complete and does not compile; a package refused late has *)
(* acted on the tables already (TempTables).                                *)
Refuse(objects) ==
  /\ Reading
  /\ plans' = Planned(objects)
  /\ tables' \in {tables, tables \cup {snapshot}, {}}
  /\ statement' = "empty"
  /\ UNCHANGED <<session, provider, interactive, mode, snapshot, compiled, footer, handler,
                 unheard>>

(* A statement is complete and compiles: it may present references, place   *)
(* or drop temporary tables, and have nothing to run.                       *)
Compile(objects, places, runs) ==
  /\ Reading
  /\ plans' = Planned(objects)
  /\ tables' = IF places = "places" THEN tables \cup {snapshot}
               ELSE IF places = "drops" THEN {} ELSE tables
  /\ IF runs THEN Call("query") /\ mode' = "running"
             ELSE UNCHANGED <<session, mode>>
  /\ handler' = (handler \/ (runs /\ interactive))
  /\ statement' = "empty"
  /\ UNCHANGED <<provider, interactive, snapshot, compiled, footer, unheard>>

-----------------------------------------------------------------------------
(* Answers.                                                                 *)

(* ensure_session_remains_usable: an error is printed, and ends the console *)
(* when the session did not survive it.                                     *)
Failed == answer' = "error" /\ IF status' = "dead" THEN Ends ELSE Prompts

Started ==
  /\ mode = "starting"
  /\ IF call = "none"
     THEN Call("metadata") /\ UNCHANGED <<mode, footer>>
     ELSE Answers /\ IF answer' = "ok" THEN Prompts ELSE Ends
  /\ UNCHANGED <<provider, interactive, console, handler, unheard>>

(* Mutant: \refresh keeps the cached plans.                                 *)
RefreshedKeepingPlans ==
  /\ mode = "refreshing" /\ Answers
  /\ \/ /\ answer' = "ok" /\ Prompts
        /\ snapshot' = snapshot + 1
        /\ tables' = {} /\ UNCHANGED plans
     \/ Failed /\ UNCHANGED <<snapshot, plans, tables>>
  /\ UNCHANGED <<provider, interactive, statement, compiled, handler, unheard>>

Refreshed ==
  /\ mode = "refreshing" /\ Answers
  /\ \/ /\ answer' = "ok" /\ Prompts
        /\ snapshot' = snapshot + 1
        /\ plans' = <<>> /\ tables' = {}
     \/ Failed /\ UNCHANGED <<snapshot, plans, tables>>
  /\ UNCHANGED <<provider, interactive, statement, compiled, handler, unheard>>

(* An access command reads as often as it has to.                           *)
Asked ==
  /\ mode = "asking"
  /\ IF call = "none"
     THEN Call("query") /\ UNCHANGED <<mode, footer>>
     ELSE /\ Answers
          /\ \/ answer' = "ok" /\ (Prompts \/ UNCHANGED <<mode, footer>>)
             \/ Failed
  /\ UNCHANGED <<provider, interactive, console, handler, unheard>>

(* The rows came: their references are looked up (at most 512 a query), and *)
(* the tabular sections are read one after the other.                       *)
Answered(lookups, sections) ==
  /\ mode = "running" /\ Answers
  /\ \/ /\ answer' = "ok"
        /\ compiled' = [lookups |-> lookups, sections |-> sections]
        /\ mode' = "presenting"
        /\ UNCHANGED footer
     \/ Failed /\ UNCHANGED <<compiled>> /\ lookups = {} /\ sections = 0
  /\ UNCHANGED <<provider, interactive, statement, snapshot, plans, tables, handler, unheard>>

(* resolve_deferred_presentations: one chunk of references of one object.   *)
Present(o) ==
  /\ mode = "presenting" /\ call = "none" /\ o \in compiled.lookups
  /\ plans' = Planned({o})
  /\ Call("query")
  /\ UNCHANGED <<provider, interactive, mode, statement, snapshot, tables, compiled, footer,
                 handler, unheard>>

Presented(o) ==
  /\ mode = "presenting" /\ o \in compiled.lookups /\ Answers
  /\ \/ /\ answer' = "ok"
        /\ compiled' = [compiled EXCEPT !.lookups = @ \ {o}]
        /\ UNCHANGED <<mode, footer>>
     \/ Failed /\ compiled' = Nothing
  /\ UNCHANGED <<provider, interactive, statement, snapshot, plans, tables, handler, unheard>>

(* The table is printed, then each section; one that fails is reported and  *)
(* the next is read.                                                        *)
Sections ==
  /\ mode = "presenting" /\ call = "none" /\ compiled.lookups = {}
  /\ IF compiled.sections = 0
     THEN Prompts /\ UNCHANGED session
     ELSE Call("query") /\ mode' = "sections" /\ UNCHANGED footer
  /\ UNCHANGED <<provider, interactive, console, handler, unheard>>

(* Mutant: the error of a section is reported without a look at the session. *)
SectionReadUnchecked ==
  /\ mode = "sections" /\ Answers
  /\ compiled' = [compiled EXCEPT !.sections = 0]
  /\ Prompts
  /\ UNCHANGED <<provider, interactive, statement, snapshot, plans, tables, handler, unheard>>

SectionRead ==
  /\ mode = "sections" /\ Answers
  /\ compiled' = [compiled EXCEPT !.sections = @ - 1]
  /\ IF answer' = "error" /\ status' = "dead"
     THEN Ends ELSE mode' = "presenting" /\ UNCHANGED footer
  /\ UNCHANGED <<provider, interactive, statement, snapshot, plans, tables, handler, unheard>>

-----------------------------------------------------------------------------
(* Ctrl-C.                                                                  *)

(* The select over the query and the signal: the query's future is dropped. *)
Interrupt ==
  /\ mode = "running" /\ interactive /\ Dropped
  /\ mode' = "interrupted" /\ footer' = FALSE
  /\ UNCHANGED <<provider, interactive, console, handler, unheard>>

Cancel ==
  /\ mode = "interrupted"
  /\ IF call = "none" THEN Call("cancel") ELSE FALSE
  /\ mode' = "cancelling"
  /\ UNCHANGED <<provider, interactive, console, footer, handler, unheard>>

Cancelled ==
  /\ mode = "cancelling" /\ Answers
  /\ IF answer' = "ok" THEN Prompts ELSE Ends
  /\ UNCHANGED <<provider, interactive, console, handler, unheard>>

InterruptAgain ==
  /\ mode = "cancelling" /\ Dropped
  /\ Ends
  /\ UNCHANGED <<provider, interactive, console, handler, unheard>>

(* A signal nobody waits for.                                               *)
Signal ==
  /\ mode \in Waiting
  /\ ~(mode \in {"running", "cancelling"} /\ interactive)
  /\ IF handler
     THEN unheard' = (unheard \/ mode \in Querying) /\ UNCHANGED mode
     ELSE mode' = "killed" /\ UNCHANGED unheard
  /\ UNCHANGED <<session, provider, interactive, console, footer, handler>>

-----------------------------------------------------------------------------
(* The way out: the session is closed whatever the loop answered, then the  *)
(* guards of the terminal restore it.                                       *)
(* Mutant: a dead session is not closed, and the console waits for it.      *)
CloseAlive ==
  /\ mode = "closing" /\ status # "dead" /\ Postgres!Close
  /\ mode' = "ended" /\ footer' = FALSE
  /\ UNCHANGED <<provider, interactive, console, handler, unheard>>

Close ==
  /\ mode = "closing" /\ Postgres!Close
  /\ mode' = "ended" /\ footer' = FALSE
  /\ UNCHANGED <<provider, interactive, console, handler, unheard>>

(* External: PostgreSQL's connection is lost between two calls.             *)
Lose ==
  /\ mode \notin {"ended", "killed"} /\ Lost
  /\ UNCHANGED <<provider, interactive, mode, console, footer, handler, unheard>>

ConsoleInit ==
  /\ Postgres!Init
  /\ provider \in {"postgres", "mssql"} /\ interactive \in BOOLEAN
  /\ mode = "starting" /\ statement = "empty" /\ snapshot = 0
  /\ plans = <<>> /\ tables = {} /\ compiled = Nothing
  /\ footer = FALSE /\ handler = FALSE /\ unheard = FALSE

Commands == Command("metadata", "refreshing") \/ Command("query", "asking")

Statements ==
  \E objects \in SUBSET Objects :
    \/ Refuse(objects)
    \/ Compile(objects, "drops", FALSE)
    \/ \E places \in {"places", "drops", "keeps"} : Compile(objects, places, TRUE)

Outcomes ==
  \/ Started \/ Refreshed \/ Asked
  \/ \E lookups \in SUBSET Objects, sections \in 0..1 : Answered(lookups, sections)
  \/ \E o \in Objects : Present(o) \/ Presented(o)
  \/ Sections \/ SectionRead

ConsoleNext ==
  \/ Discard \/ Continue \/ Leave \/ Commands \/ Statements \/ Outcomes
  \/ Interrupt \/ Cancel \/ Cancelled \/ InterruptAgain \/ Signal \/ Close \/ Lose

(* A cancellation is under a time limit, and the loop itself never waits    *)
(* for anything else between an interrupt and the prompt.                   *)
ConsoleFairness == WF_consoleVars(Cancel) /\ WF_consoleVars(Cancelled) /\ WF_consoleVars(Close)

ConsoleSpec == ConsoleInit /\ [][ConsoleNext]_consoleVars /\ ConsoleFairness
-----------------------------------------------------------------------------
(* Properties.                                                              *)

(* What was compiled against an older generation of the metadata is never   *)
(* used again: neither a presentation plan nor a temporary table outlives   *)
(* \refresh, whatever answered, failed or was interrupted before it.        *)
NothingStale ==
  /\ \A o \in DOMAIN plans : plans[o] = snapshot
  /\ tables \subseteq {snapshot}

(* Wherever a session dies under a call that fails, the console ends: it    *)
(* never goes on to a prompt, a lookup or a section.  The prompt comes back *)
(* with nothing in flight, and once the console has ended the session is    *)
(* closed and the terminal restored.                                        *)
DeathEnds ==
  /\ call # "none" /\ call' = "none" /\ answer' = "error" /\ status' = "dead" =>
       mode' = "closing"
  /\ mode # "prompt" /\ mode' = "prompt" => call' = "none"
  /\ mode' = "ended" => status' = "closed" /\ ~footer'

(* An interrupted query gives the prompt back or ends the console, whatever *)
(* the provider answers to the cancellation.                                *)
InterruptReturns == (mode = "interrupted") ~> (mode \in {"prompt", "ended"})

(* What openspec/specs/query-repl/spec.md says of Ctrl-C: pressed while a   *)
(* query is executing, it cancels the query.                                *)
InterruptHeard == ~unheard

=============================================================================
