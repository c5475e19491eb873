--------------------------- MODULE BlockingDriver ---------------------------
(***************************************************************************)
(* A session driven from synchronous code (blocking.rs): the driver owns a *)
(* runtime and a session on it, and every call of a thread blocks on the   *)
(* operation of the same name.  A thread that itself drives a runtime must *)
(* neither block nor drop one synchronously; `thread` says what kind of    *)
(* thread the current call comes from.                                     *)
(***************************************************************************)
EXTENDS ClientSession, Naturals

VARIABLES
  runtime,    \* "none", "idle", "blocked" (in block_on), "dropped", "background"
  held,       \* the driver holds its session
  thread,     \* "sync" or "async": the thread of the current call
  result,     \* what the last call returned: a ReadSession answer, or an error
  released    \* history: where the session's value was consumed

driverVars == <<session, runtime, held, thread, result, released>>

Session == INSTANCE ReadSession WITH
  DropSpares <- {}, StopSpares <- FALSE, Reconnects <- FALSE, NoticesLoss <- TRUE

Operations == Session!Operations \ {"cancel"}

(* refuse_async_context looks at the thread, not at the driver's runtime.   *)
Refused == thread' = "async"

Ready == runtime = "idle"

(* connect: refused first, then the runtime is started and the session      *)
(* opened on it; when that fails the runtime is dropped with the error.     *)
Connect ==
  /\ runtime = "none"
  /\ thread' \in {"sync", "async"}
  /\ \/ Refused /\ result' = "AsyncContext" /\ UNCHANGED <<runtime, held>>
     \/ ~Refused /\ result' = "error" /\ UNCHANGED <<runtime, held>>
     \/ ~Refused /\ result' = "ok" /\ runtime' = "idle" /\ held' = TRUE
  /\ UNCHANGED <<session, released>>

(* Mutant: the thread is not looked at.                                     *)
OpenUnchecked == held

(* open: a closed session says so on any thread; an open one refuses an     *)
(* asynchronous one before anything reaches it.                             *)
Open == held /\ ~Refused

OpenError == IF ~held THEN "SessionClosed" ELSE "AsyncContext"

Operate(o) ==
  /\ Ready
  /\ thread' \in {"sync", "async"}
  /\ IF Open
     THEN Session!Call(o) /\ runtime' = "blocked" /\ UNCHANGED result
     ELSE result' = OpenError /\ UNCHANGED <<session, runtime>>
  /\ UNCHANGED <<held, released>>

Returned ==
  /\ runtime = "blocked" /\ Session!Answer
  /\ runtime' = "idle" /\ result' = answer'
  /\ UNCHANGED <<held, thread, released>>

(* close takes the session before it blocks: it is gone whatever the close  *)
(* answers.                                                                 *)
CloseDriver ==
  /\ Ready
  /\ thread' \in {"sync", "async"}
  /\ IF Open
     THEN Session!Close /\ held' = FALSE /\ released' = "close" /\ result' \in {"ok", "error"}
     ELSE result' = OpenError /\ UNCHANGED <<session, held, released>>
  /\ UNCHANGED runtime

(* Drop: the session goes inside the runtime's context, and the runtime in  *)
(* the background when the thread drives another one.                       *)
DropDriver ==
  /\ Ready
  /\ thread' \in {"sync", "async"}
  /\ IF held THEN Session!Close /\ released' = "context" ELSE UNCHANGED <<session, released>>
  /\ held' = FALSE
  /\ runtime' = IF Refused THEN "background" ELSE "dropped"
  /\ UNCHANGED result

(* External: the connection is lost between two calls.                      *)
Disconnect == Ready /\ held /\ Session!Lose /\ UNCHANGED <<runtime, held, thread, result, released>>

DriverInit ==
  /\ Session!Init
  /\ runtime = "none" /\ held = FALSE /\ thread = "sync"
  /\ result = "none" /\ released = "nowhere"

DriverNext ==
  \/ Connect \/ (\E o \in Operations : Operate(o)) \/ Returned \/ CloseDriver \/ DropDriver \/ Disconnect

DriverSpec == DriverInit /\ [][DriverNext]_driverVars

-----------------------------------------------------------------------------
(* A thread that drives a runtime of its own never blocks on the driver's   *)
(* nor drops it synchronously, and a refusal leaves the session as it was.  *)
(* A session that was closed answers SessionClosed on every thread, and the *)
(* session's value is consumed once, inside its own runtime.                *)
RuntimeRespected ==
  [][/\ runtime' \in {"blocked", "dropped"} /\ runtime' # runtime => thread' = "sync"
     /\ result' = "AsyncContext" /\ result # result' => UNCHANGED <<session, held>>
     /\ released # "nowhere" /\ result' # result => result' = "SessionClosed"
     /\ ~held /\ held' => released = "nowhere"
     /\ held /\ ~held' => released' \in {"close", "context"} /\ runtime # "blocked"]_driverVars
=============================================================================
