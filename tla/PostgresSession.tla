--------------------------- MODULE PostgresSession ---------------------------
(***************************************************************************)
(* The PostgreSQL session of open-sdbl-db (db/postgres/session.rs and      *)
(* db/postgres/metadata.rs), at the granularity of its awaits.             *)
(*                                                                         *)
(* Requests go through tokio-postgres: a connection task sends them in the *)
(* order they were queued, whether or not anyone still waits for the       *)
(* reply.  A dropped future therefore withdraws nothing, and a dropped     *)
(* Transaction queues its own ROLLBACK.  The server executes the queue in  *)
(* order; a cancel request reaches it on a connection of its own and hits  *)
(* whatever happens to run.                                                *)
(***************************************************************************)
EXTENDS Naturals, Sequences

CONSTANTS
  Ids,        \* transaction identifiers, as txid_current() answers them
  MaxQueue    \* bound on the requests left behind when a call starts

ASSUME PostgresAssumption ==
  /\ Ids \cap {"none", "failed", "ok", "refused"} = {}
  /\ MaxQueue \in Nat

VARIABLES
  flags,      \* raised fields: "poisoned" (transaction_poisoned),
              \* "pending" (transaction_operation_pending)
  explicit,   \* explicit_transaction: an identifier, or "none"
  op,         \* the operation in flight, or "none"
  pc,         \* where it stands: "idle", "entry", an await, or "closed"
  answer,     \* the last answer given to the caller
  before,     \* history: what the session was when the operation started
  link,       \* "up", or "down" once the connection task has ended
  queue,      \* requests sent and not yet executed
  reply,      \* the reply to the awaited request: "none", "ok", "refused", an identifier
  tx,         \* server: the open transaction, "failed", or "none"
  signal,     \* a cancel request on its way: "none" or "sent"
  server      \* "answering" or "stalled"

clientVars == <<flags, explicit, op, pc, answer, before>>
wireVars   == <<link, queue, reply>>
serverVars == <<tx, signal, server>>
vars == <<clientVars, wireVars, serverVars>>

Acquisitions == {"metadata", "inputs", "indexed"}
Operations   ==
  {"begin", "active", "commit", "rollback", "query", "cancel"} \cup Acquisitions

(* Awaits with transaction_operation_pending up, those inside a Transaction *)
(* of tokio-postgres, and the cancel request.                               *)
ExplicitAwaits ==
  {"begin", "identify", "check", "commit", "rows", "recheck", "cleanup", "rollback"}
OwnAwaits ==
  {"ownBegin", "ownVerify", "ownRead", "ownRows", "ownCommit", "ownRollback"}
Awaits == ExplicitAwaits \cup OwnAwaits \cup {"cancel"}

Requests == {"begin", "check", "read", "rows", "commit", "rollback"}
Answers  == {"none", "ok", "true", "false", "error", "dropped"}

TypeOK ==
  /\ flags \subseteq {"poisoned", "pending"}
  /\ explicit \in Ids \cup {"none"}
  /\ op \in Operations \cup {"none"}
  /\ pc \in Awaits \cup {"idle", "entry", "closed"}
  /\ answer \in Answers
  /\ before \in {"auto", "explicit", "dead"}
  /\ link \in {"up", "down"}
  /\ queue \in Seq(Requests)
  /\ reply \in Ids \cup {"none", "ok", "refused"}
  /\ tx \in Ids \cup {"none", "failed"}
  /\ signal \in {"none", "sent"}
  /\ server \in {"answering", "stalled"}

-----------------------------------------------------------------------------
(* PostgresSession::is_closed.                                              *)
IsClosed == link = "down" \/ flags # {}

Status ==
  IF IsClosed THEN "dead" ELSE IF explicit # "none" THEN "explicit" ELSE "auto"

Return(a) == pc' = "idle" /\ op' = "none" /\ answer' = a

(* A request is queued and its reply awaited.                               *)
Send(request, point) ==
  /\ queue' = Append(queue, request) /\ reply' = "none"
  /\ pc' = point
  /\ UNCHANGED <<op, answer, before, link, serverVars>>

SendPending(request, point) ==
  Send(request, point) /\ flags' = flags \cup {"pending"}

(* The connection task ends: the server drops the connection's work.        *)
LinkDown ==
  link' = "down" /\ queue' = <<>> /\ reply' = "none" /\ tx' = "none"

(* driver.abort() of a session that gives up its transaction.               *)
Abort(raised) ==
  /\ flags' = raised /\ explicit' = "none" /\ LinkDown
  /\ Return("error") /\ UNCHANGED <<before, signal, server>>

(* The request is answered and nothing more is sent.                        *)
Finish(a) ==
  /\ Return(a) /\ reply' = "none"
  /\ UNCHANGED <<before, link, queue, serverVars>>

(* explicit_cleanup: the identifier is forgotten first, then ROLLBACK.      *)
Cleanup == explicit' = "none" /\ SendPending("rollback", "cleanup")

-----------------------------------------------------------------------------
Init ==
  /\ flags = {} /\ explicit = "none"
  /\ op = "none" /\ pc = "idle" /\ answer = "none" /\ before = "auto"
  /\ link = "up" /\ queue = <<>> /\ reply = "none"
  /\ tx = "none" /\ signal = "none" /\ server = "answering"

Invoke(o) ==
  /\ pc = "idle" /\ Len(queue) <= MaxQueue
  /\ op' = o /\ pc' = "entry" /\ before' = Status
  /\ UNCHANGED <<flags, explicit, answer, wireVars, serverVars>>

(* ensure_transaction_usable: a future dropped earlier ends the connection  *)
(* now, before anything else is sent.                                       *)
EnterUnusable ==
  /\ pc = "entry" /\ op # "cancel"
  /\ \/ "pending" \in flags /\ Abort({"poisoned", "pending"})
     \/ /\ "pending" \notin flags /\ IsClosed
        /\ Finish("error") /\ UNCHANGED <<flags, explicit>>

Entering(o) == pc = "entry" /\ op = o /\ ~IsClosed

AnswerLocally(a) == Finish(a) /\ UNCHANGED <<flags, explicit>>

StartBegin ==
  /\ Entering("begin")
  /\ \/ explicit # "none" /\ AnswerLocally("error")
     \/ explicit = "none" /\ SendPending("begin", "begin") /\ UNCHANGED explicit

(* transaction_active, alone or as the first step of COMMIT and of a query  *)
(* inside an explicit transaction.                                          *)
StartCheck ==
  /\ op \in {"active", "commit", "query"} /\ Entering(op)
  /\ explicit # "none"
  /\ SendPending("check", "check") /\ UNCHANGED explicit

StartWithoutTransaction ==
  /\ op \in {"active", "commit", "rollback"} /\ Entering(op)
  /\ explicit = "none"
  /\ AnswerLocally(IF op = "active" THEN "false" ELSE "error")

(* Mutant: ROLLBACK goes out and the identifier is kept.                    *)
StartRollbackRemembered ==
  /\ Entering("rollback") /\ explicit # "none"
  /\ SendPending("rollback", "rollback") /\ UNCHANGED explicit

StartRollback ==
  /\ Entering("rollback") /\ explicit # "none"
  /\ explicit' = "none" /\ SendPending("rollback", "rollback")

(* build_transaction().start() of a query or an acquisition: no flag.       *)
StartOwn ==
  /\ op \in {"query"} \cup Acquisitions /\ Entering(op) /\ explicit = "none"
  /\ Send("begin", "ownBegin") /\ UNCHANGED <<flags, explicit>>

(* reject_explicit_acquisition, and an addressed read of no resource or of  *)
(* too many.                                                                *)
RejectAcquisition ==
  /\ op \in Acquisitions /\ Entering(op)
  /\ \/ explicit # "none" /\ AnswerLocally("error")
     \/ /\ explicit = "none" /\ op = "indexed"
        /\ \E a \in {"ok", "error"} : AnswerLocally(a)

StartCancel ==
  /\ pc = "entry" /\ op = "cancel"
  /\ pc' = "cancel"
  /\ UNCHANGED <<flags, explicit, op, answer, before, wireVars, serverVars>>

-----------------------------------------------------------------------------
(* The session receives the reply it waits for.                             *)

BeginReplied ==
  /\ pc = "begin" /\ reply # "none"
  /\ \/ reply = "ok" /\ SendPending("check", "identify") /\ UNCHANGED explicit
     \/ reply = "refused" /\ Cleanup

(* explicit_state fails when it is refused or the mode is not the one asked *)
(* for; otherwise the identifier is recorded.                               *)
IdentifyReplied ==
  /\ pc = "identify" /\ reply # "none"
  /\ \/ /\ reply \in Ids
        /\ explicit' = reply /\ flags' = flags \ {"pending"} /\ Finish("ok")
     \/ Cleanup

(* Mutant: any identifier will do.                                          *)
ConfirmedByAny == reply \in Ids

(* transaction_active: the transaction is still the one that was begun, in  *)
(* the mode it was begun in.                                                *)
Confirmed == reply = explicit

CheckReplied ==
  /\ pc = "check" /\ reply # "none"
  /\ \/ /\ Confirmed /\ op = "active"
        /\ flags' = flags \ {"pending"} /\ Finish("true") /\ UNCHANGED explicit
     \/ /\ Confirmed /\ op = "commit"
        /\ SendPending("commit", "commit") /\ UNCHANGED explicit
     \/ /\ Confirmed /\ op = "query"
        /\ SendPending("rows", "rows") /\ UNCHANGED explicit
     \/ Cleanup

CommitReplied ==
  /\ pc = "commit" /\ reply # "none"
  /\ \/ /\ reply = "ok"
        /\ explicit' = "none" /\ flags' = flags \ {"pending"} /\ Finish("ok")
     \/ reply = "refused" /\ Cleanup

(* A row can be read while the statement runs and after it ended.           *)
RowArrived ==
  reply # "none" \/ (server = "answering" /\ queue = <<"rows">>)

(* The rows ran out, or on_row answered RowFlow::Stop: the rest of the      *)
(* statement is left to the server.                                         *)
RowsEnded ==
  /\ pc = "rows"
  /\ reply = "ok" \/ RowArrived
  /\ SendPending("check", "recheck") /\ UNCHANGED explicit

(* The statement failed, a row did not decode, or on_row failed.            *)
RowsFailed ==
  /\ pc = "rows"
  /\ reply = "refused" \/ RowArrived
  /\ Cleanup

RecheckReplied ==
  /\ pc = "recheck" /\ reply # "none"
  /\ \/ /\ Confirmed
        /\ flags' = flags \ {"pending"} /\ Finish("ok") /\ UNCHANGED explicit
     \/ Cleanup

CleanupReplied ==
  /\ pc = "cleanup" /\ reply = "ok"
  /\ flags' = flags \ {"pending"} /\ Finish("error") /\ UNCHANGED explicit

RollbackReplied ==
  /\ pc = "rollback" /\ reply = "ok"
  /\ flags' = flags \ {"pending"} /\ Finish("ok") /\ UNCHANGED explicit

-----------------------------------------------------------------------------
(* A query or an acquisition in a Transaction of its own.                   *)

(* Mutant: a dropped Transaction queues nothing.                            *)
DropTransactionSilently == queue' = queue

(* Dropping a Transaction, or a start() that did not finish, queues a       *)
(* ROLLBACK that nobody waits for; COMMIT and ROLLBACK are queued already.  *)
DropTransaction ==
  queue' = IF pc \in {"ownBegin", "ownVerify", "ownRead", "ownRows"}
           THEN Append(queue, "rollback") ELSE queue

OwnContinue(request, point) == Send(request, point) /\ UNCHANGED <<flags, explicit>>

OwnEnd(a) ==
  /\ Return(a) /\ reply' = "none" /\ DropTransaction
  /\ UNCHANGED <<flags, explicit, before, link, serverVars>>

(* Mutant: a refused BEGIN is taken for an answered one.                    *)
OwnBeginUnchecked ==
  pc = "ownBegin" /\ reply # "none" /\ OwnContinue("read", "ownVerify")

OwnBeginReplied ==
  /\ pc = "ownBegin" /\ reply # "none"
  /\ \/ reply = "ok" /\ OwnContinue("read", "ownVerify")
     \/ reply = "refused" /\ OwnEnd("error")

(* verify_transaction: then the statement is prepared, or the pipeline      *)
(* reads on.                                                                *)
OwnVerifyReplied ==
  /\ pc = "ownVerify" /\ reply # "none"
  /\ \/ reply = "ok" /\ OwnContinue("read", "ownRead")
     \/ OwnContinue("rollback", "ownRollback")

(* One more read, one whose rows are collected outside query_timeout, or    *)
(* the commit.                                                              *)
OwnReadReplied ==
  /\ pc = "ownRead" /\ reply # "none"
  /\ \/ reply = "ok" /\ op = "query" /\ OwnContinue("rows", "ownRows")
     \/ reply = "ok" /\ op = "metadata" /\ OwnContinue("read", "ownRows")
     \/ reply = "ok" /\ op # "query" /\ OwnContinue("read", "ownRead")
     \/ reply = "ok" /\ op # "query" /\ OwnContinue("commit", "ownCommit")
     \/ OwnContinue("rollback", "ownRollback")

OwnRowsEnded ==
  /\ pc = "ownRows"
  /\ \/ /\ op = "query" /\ (reply = "ok" \/ RowArrived)
        /\ OwnContinue("commit", "ownCommit")
     \/ op = "metadata" /\ reply = "ok" /\ OwnContinue("read", "ownRead")

OwnRowsFailed ==
  /\ pc = "ownRows"
  /\ reply = "refused" \/ RowArrived \/ (op = "metadata" /\ server = "answering")
  /\ OwnContinue("rollback", "ownRollback")

OwnCommitReplied ==
  /\ pc = "ownCommit" /\ reply # "none"
  /\ OwnEnd(IF reply = "ok" THEN "ok" ELSE "error")

OwnRollbackReplied == pc = "ownRollback" /\ reply # "none" /\ OwnEnd("error")

-----------------------------------------------------------------------------
(* cancel_query: the request is delivered or lost, and then an explicit     *)
(* transaction is rolled back by rollback_after_cancellation.               *)
CancelAnswered ==
  /\ pc = "cancel" /\ signal' = "sent" /\ UNCHANGED <<before, server>>
  /\ \/ /\ explicit = "none"
        /\ Return("ok") /\ UNCHANGED <<flags, explicit, wireVars, tx>>
     \/ /\ explicit # "none" /\ ~IsClosed
        /\ explicit' = "none" /\ flags' = flags \cup {"pending"}
        /\ queue' = Append(queue, "rollback") /\ reply' = "none" /\ pc' = "rollback"
        /\ UNCHANGED <<op, answer, link, tx>>
     \/ /\ explicit # "none" /\ "pending" \in flags
        /\ flags' = {"poisoned", "pending"} /\ explicit' = "none" /\ LinkDown
        /\ Return("error")
     \/ /\ explicit # "none" /\ "pending" \notin flags /\ IsClosed
        /\ Return("error") /\ UNCHANGED <<flags, explicit, wireVars, tx>>

CancelNotDelivered(a) ==
  /\ pc = "cancel" /\ signal' \in {signal, "sent"}
  /\ Return(a) /\ UNCHANGED <<flags, explicit, before, wireVars, tx, server>>

-----------------------------------------------------------------------------
(* Time limits, lost connections, dropped futures.                          *)

(* Mutant: ROLLBACK is awaited without a limit.                             *)
TimeLimitButRollback ==
  \/ /\ pc \in ExplicitAwaits \ {"cleanup", "rollback"}
     /\ Cleanup
  \/ pc \in {"ownBegin", "ownCommit", "ownRollback"} /\ OwnEnd("error")
  \/ pc \in {"ownVerify", "ownRead"} /\ OwnContinue("rollback", "ownRollback")
  \/ CancelNotDelivered("error")

(* Every await is under a limit but the rows of a query outside an explicit *)
(* transaction and the streamed resources of an acquisition.                *)
TimeLimit ==
  \/ /\ pc \in ExplicitAwaits \ {"cleanup", "rollback"}
     /\ Cleanup
  \/ pc \in {"cleanup", "rollback"} /\ Abort({"poisoned"})
  \/ pc \in {"ownBegin", "ownCommit", "ownRollback"} /\ OwnEnd("error")
  \/ pc \in {"ownVerify", "ownRead"} /\ OwnContinue("rollback", "ownRollback")
  \/ CancelNotDelivered("error")

LinkLost ==
  /\ link = "up"
  /\ \/ pc \in ExplicitAwaits /\ Abort({"poisoned"})
     \/ /\ pc \in OwnAwaits /\ LinkDown /\ Return("error")
        /\ UNCHANGED <<flags, explicit, before, signal, server>>
     \/ /\ pc \in {"idle", "cancel"} /\ LinkDown
        /\ UNCHANGED <<clientVars, signal, server>>

(* The caller drops the future.  The pending flag stays as it is, and a     *)
(* Transaction that is dropped with it queues its ROLLBACK.                 *)
Drop ==
  \/ /\ pc \in ExplicitAwaits
     /\ Return("dropped") /\ reply' = "none"
     /\ UNCHANGED <<flags, explicit, before, link, queue, serverVars>>
  \/ pc \in OwnAwaits /\ OwnEnd("dropped")
  \/ CancelNotDelivered("dropped")

Close ==
  /\ pc = "idle"
  /\ pc' = "closed" /\ LinkDown
  /\ UNCHANGED <<flags, explicit, op, answer, before, signal, server>>

-----------------------------------------------------------------------------
(* The connection and the server.                                           *)

(* The oldest request is executed; its reply reaches the one who waits.     *)
Execute(result, left) ==
  /\ queue' = Tail(queue) /\ tx' = left
  /\ reply' = IF pc \in Awaits \ {"cancel"} /\ Len(queue) = 1 THEN result ELSE reply
  /\ UNCHANGED <<clientVars, link, server>>

Oldest(request) == queue # <<>> /\ Head(queue) = request

(* An error inside a transaction block aborts the block.                    *)
Refuse == Execute("refused", IF tx = "none" THEN "none" ELSE "failed")

ServeBegin ==
  /\ Oldest("begin")
  /\ \/ tx = "none" /\ \E id \in Ids \ {explicit} : Execute("ok", id)
     \/ tx \in Ids /\ Execute("ok", tx)

(* Outside a transaction block txid_current() runs in one of its own.       *)
ServeCheck ==
  /\ Oldest("check")
  /\ \/ tx \in Ids /\ Execute(tx, tx)
     \/ tx = "none" /\ \E id \in Ids \ {explicit} : Execute(id, "none")

(* The statement of a query may itself end the transaction.                 *)
ServeStatement ==
  /\ Oldest("read") \/ Oldest("rows")
  /\ tx # "failed"
  /\ \/ Execute("ok", tx)
     \/ Head(queue) = "rows" /\ Execute("ok", "none")

(* COMMIT of an aborted block is answered like a ROLLBACK.                  *)
ServeEnd ==
  \/ Oldest("commit") /\ \E result \in {"ok", "refused"} : Execute(result, "none")
  \/ Oldest("rollback") /\ Execute("ok", "none")

ServeRefusal ==
  /\ \E request \in {"begin", "check", "read", "rows"} : Oldest(request)
  /\ Refuse

Serve ==
  /\ server = "answering" /\ UNCHANGED signal
  /\ ServeBegin \/ ServeCheck \/ ServeStatement \/ ServeEnd \/ ServeRefusal

(* The cancel request interrupts what runs now, be it the cancelled query   *)
(* or a later request; an idle server ignores it.                           *)
Interrupt ==
  /\ signal = "sent" /\ server = "answering" /\ signal' = "none"
  /\ \/ (\E request \in {"begin", "check", "read", "rows"} : Oldest(request)) /\ Refuse
     \/ UNCHANGED <<clientVars, wireVars, tx, server>>

Stall ==
  /\ server' = IF server = "stalled" THEN "answering" ELSE "stalled"
  /\ UNCHANGED <<clientVars, wireVars, tx, signal>>

-----------------------------------------------------------------------------
Start ==
  \/ EnterUnusable \/ StartBegin \/ StartCheck \/ StartWithoutTransaction
  \/ StartRollback \/ StartOwn \/ RejectAcquisition \/ StartCancel

Receive ==
  \/ BeginReplied \/ IdentifyReplied \/ CheckReplied \/ CommitReplied
  \/ RowsEnded \/ RowsFailed \/ RecheckReplied \/ CleanupReplied \/ RollbackReplied
  \/ OwnBeginReplied \/ OwnVerifyReplied \/ OwnReadReplied \/ OwnRowsEnded
  \/ OwnRowsFailed \/ OwnCommitReplied \/ OwnRollbackReplied
  \/ CancelAnswered

Next ==
  \/ \E o \in Operations : Invoke(o)
  \/ Start \/ Receive \/ TimeLimit \/ LinkLost \/ Drop \/ Close
  \/ Serve \/ Interrupt \/ Stall

(* Client code runs when it can: it starts a call, takes a reply that came, *)
(* and ends a wait whose limit passed (a call makes finitely many).  The    *)
(* server and the caller owe nothing.                                       *)
TakeReply == reply # "none" /\ Receive

Fairness == WF_vars(Start) /\ WF_vars(TakeReply) /\ WF_vars(TimeLimit)

Spec     == Init /\ [][Next]_vars
FairSpec == Spec /\ Fairness

-----------------------------------------------------------------------------
(* The properties.                                                          *)

(* A transaction the session reports is open on the server, is the one that *)
(* was begun, and nothing queued earlier (the ROLLBACK of a dropped         *)
(* Transaction, a timed-out BEGIN) can still end it.                        *)
ExplicitHeld ==
  pc = "idle" /\ Status = "explicit" => tx = explicit /\ queue = <<>>

(* Once the server has caught up, a session that reports no transaction     *)
(* holds none, whatever was dropped, timed out or refused before.           *)
NothingLeftBehind ==
  pc = "idle" /\ Status = "auto" /\ queue = <<>> => tx = "none"

(* The server never meets a BEGIN inside a transaction: the leftovers of    *)
(* one call are executed before the next one begins.                        *)
NoNestedBegin == Oldest("begin") => tx = "none"

(* Every read and every statement meets an open transaction when its turn   *)
(* comes, even after its caller is gone.                                    *)
ReadsInTransaction == Oldest("read") \/ Oldest("rows") => tx \in Ids

(* Every request meets the transaction it was written for, although the     *)
(* leftovers of dropped calls run before it.                                *)
RequestsInPlace == NoNestedBegin /\ ReadsInTransaction

(* Calls whose every await is under a limit return.                         *)
CallsReturn ==
  \A o \in Operations \ {"query", "metadata"} : op = o ~> op = "none"

(* What the caller knows of the session: a call in flight changes nothing.  *)
Reported ==
  IF pc = "closed" THEN "closed" ELSE IF pc = "idle" THEN Status ELSE before

Promised == INSTANCE ReadSession WITH
  DropSpares <- {"auto"}, StopSpares <- TRUE, Reconnects <- FALSE, NoticesLoss <- TRUE,
  status <- Reported, call <- op

(* What the caller sees is what ReadSession promises.                       *)
KeepsPromise == Promised!Spec
=============================================================================
