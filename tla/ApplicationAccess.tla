-------------------------- MODULE ApplicationAccess --------------------------
(* Access as an application meets it beside the console's commands: the     *)
(* decisions it is asked for about a batch, and the rows a statement without *)
(* РАЗРЕШЕННЫЕ answers under them.                                          *)
EXTENDS ConsoleAccess

CONSTANTS Batches, Answers, Texts, Spelled, MaxBatches,
          RowStatements, RowAnswers, Movements

VARIABLES manager, prepared, answers, outcome, asked, batches,
          checked, register, row_answer

D == INSTANCE Decisions
O == INSTANCE RowChecks WITH Statements <- RowStatements, Given <- RowAnswers,
       asked <- checked

decisions == <<manager, prepared, answers, outcome, asked, batches>>
checks == <<checked, register, row_answer>>

(* The assumptions of both on what is tried.                                *)
ASSUME GivenAssumption == D!AnswersAreTyped /\ O!RowsAreTyped

(* What a restricted batch reads is what its request asked about, answered. *)
RequestIsTheReads == D!RequestIsTheReads

(* A statement answers all the rows it is about, or marks that it may not.  *)
AllRowsOrNone == O!AllRowsOrNone
=============================================================================
