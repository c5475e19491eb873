---------------------------- MODULE MsSqlSession ----------------------------
(***************************************************************************)
(* The SQL Server session of open-sdbl-db (db/mssql/session.rs and         *)
(* db/mssql/metadata.rs), at the granularity of its awaits.                *)
(*                                                                         *)
(* A call is started ("entry"), runs without interruption to its next      *)
(* await, and from there the server may answer, refuse, lose the           *)
(* connection or stop answering, the client's own time limit may pass, and *)
(* the caller may drop the future.  What is on the other side of the       *)
(* connection is part of the state: the transaction depth (@@TRANCOUNT)    *)
(* and what the TDS stream still carries.                                  *)
(***************************************************************************)
EXTENDS Naturals

CONSTANTS
  CancelPoints,   \* the awaits at which the caller may drop a future
  MaxDepth        \* bound on @@TRANCOUNT

VARIABLES
  flags,    \* raised fields of the session: "client" (self.client is Some), "poisoned",
            \* "explicit" (explicit_transaction), "pending" (transaction_operation_pending)
  layout,   \* self.layout: "unknown" or "known"
  op,       \* the operation in flight, or "none"
  pc,       \* where it stands: "idle", "entry", an await, or "closed"
  answer,   \* the last answer given to the caller
  before,   \* history: what the session was when the operation started
  depth,    \* server: @@TRANCOUNT of the connection
  nested,   \* history: the transactions a caller's statement, run outside an explicit
            \* one, began on this connection and left open
  wire,     \* "idle", "unread" rows behind a response, or "torn" by a dropped future
  server    \* "answering" or "stalled"

vars == <<flags, layout, op, pc, answer, before, depth, nested, wire, server>>

Acquisitions == {"metadata", "inputs", "indexed"}
Operations   ==
  {"begin", "active", "commit", "rollback", "query", "cancel"} \cup Acquisitions

(* The awaits of an operation of its own, those of the implicit            *)
(* transaction of a query, and those of rollback_after_error.              *)
Awaits ==
  {"begin", "count", "commit", "rollback", "rows", "recount", "connect",
   "autoBegin", "autoCommit",
   "acquireBegin", "acquireLayout", "acquireRead", "acquireStream", "acquireCommit",
   "cleanup", "verify"}

(* query_each runs these two without raising transaction_operation_pending. *)
UnguardedAwaits == {"autoBegin", "autoCommit"}
GuardedAwaits   == Awaits \ UnguardedAwaits

ASSUME MsSqlAssumption ==
  /\ CancelPoints \subseteq Awaits
  /\ MaxDepth \in Nat /\ MaxDepth >= 1

Flags   == {"client", "poisoned", "explicit", "pending"}
Answers == {"none", "ok", "true", "false", "error", "dropped"}
Wires   == {"idle", "unread", "torn"}

TypeOK ==
  /\ flags \subseteq Flags
  /\ layout \in {"unknown", "known"}
  /\ op \in Operations \cup {"none"}
  /\ pc \in Awaits \cup {"idle", "entry", "closed"}
  /\ answer \in Answers
  /\ before \in {"auto", "explicit", "dead"}
  /\ depth \in 0..MaxDepth /\ nested \in 0..MaxDepth
  /\ wire \in Wires
  /\ server \in {"answering", "stalled"}

-----------------------------------------------------------------------------
(* What the session says of itself.                                         *)

Explicit == "explicit" \in flags

IsDead == "poisoned" \in flags \/ "pending" \in flags

EnsureUsable == "poisoned" \notin flags /\ "client" \in flags

Status == IF IsDead THEN "dead" ELSE IF Explicit THEN "explicit" ELSE "auto"

(* MsSqlMetadataSource::transaction_unfinished: up from begin_readonly to   *)
(* finish_transaction, that is at every await of an acquisition.            *)
TransactionUnfinished == op \in Acquisitions /\ pc \in Awaits

(* The connection is dropped with the client; the server ends its work.     *)
PoisonAndDrop ==
  flags' = {"poisoned"} /\ depth' = 0 /\ nested' = 0 /\ wire' = "idle"

Raise(flag) == flags' = flags \cup {flag}
Lower(flag) == flags' = flags \ {flag}

Return(a) == pc' = "idle" /\ op' = "none" /\ answer' = a

Await(point) == pc' = point /\ UNCHANGED <<op, answer>>

(* A statement was answered to the end: the stream is between messages.     *)
Heard == server = "answering" /\ wire' = "idle" /\ UNCHANGED <<before, server>>

Answered == Heard /\ UNCHANGED nested

(* A refused statement did nothing, or the server ended the transaction.    *)
RefusedWork == depth' \in {depth, 0}

(* The caller's text goes out as a raw batch: it may commit, roll back or   *)
(* begin transactions as it likes.                                          *)
StatementWork == depth' \in 0..MaxDepth

(* Mutant: the cleanup forgets that the explicit transaction is gone.       *)
StartCleanupStillExplicit ==
  /\ flags' = flags \cup {"pending"}
  /\ Await("cleanup") /\ UNCHANGED layout

(* rollback_after_error for an error that keeps the connection.             *)
StartCleanup ==
  /\ flags' = (flags \ {"explicit"}) \cup {"pending"}
  /\ Await("cleanup") /\ UNCHANGED layout

-----------------------------------------------------------------------------
Init ==
  /\ flags = {"client"} /\ layout = "unknown"
  /\ op = "none" /\ pc = "idle" /\ answer = "none" /\ before = "auto"
  /\ depth = 0 /\ nested = 0 /\ wire = "idle" /\ server = "answering"

(* The caller polls a new operation for the first time.                     *)
Invoke(o) ==
  /\ pc = "idle"
  /\ op' = o /\ pc' = "entry" /\ before' = Status
  /\ UNCHANGED <<flags, layout, answer, depth, nested, wire, server>>

(* Every operation starts with ensure_transaction_usable.                   *)
EnterUnusable ==
  /\ pc = "entry" /\ op # "cancel"
  /\ \/ "pending" \in flags /\ PoisonAndDrop
     \/ "pending" \notin flags /\ ~EnsureUsable
        /\ UNCHANGED <<flags, depth, nested, wire>>
  /\ Return("error")
  /\ UNCHANGED <<layout, before, server>>

(* Mutant: a call starts without looking at transaction_operation_pending.  *)
EnteringUnchecked(o) == pc = "entry" /\ op = o /\ EnsureUsable

Entering(o) == pc = "entry" /\ op = o /\ "pending" \notin flags /\ EnsureUsable

(* Refused, or answered, from the session's own fields.                     *)
AnswerLocally(a) ==
  Return(a) /\ UNCHANGED <<flags, layout, before, depth, nested, wire, server>>

(* Mutant: a statement goes out with the flag left down.                    *)
SendUnguarded(point) ==
  Await(point) /\ UNCHANGED <<flags, layout, before, depth, nested, wire, server>>

(* A statement goes out with transaction_operation_pending up.              *)
SendGuarded(point) ==
  /\ Raise("pending") /\ Await(point)
  /\ UNCHANGED <<layout, before, depth, nested, wire, server>>

-----------------------------------------------------------------------------
(* Starting each operation: the code up to its first await.                 *)

StartBegin ==
  /\ Entering("begin")
  /\ \/ Explicit /\ AnswerLocally("error")
     \/ ~Explicit /\ SendGuarded("begin")

StartActive ==
  /\ Entering("active")
  /\ \/ ~Explicit /\ AnswerLocally("false")
     \/ Explicit /\ SendGuarded("count")

StartCommit ==
  /\ Entering("commit")
  /\ \/ ~Explicit /\ AnswerLocally("error")
     \/ Explicit /\ SendGuarded("count")

StartRollback ==
  /\ Entering("rollback")
  /\ \/ ~Explicit /\ AnswerLocally("error")
     \/ Explicit /\ SendGuarded("rollback")

(* Outside an explicit transaction a query opens its own, unguarded.        *)
StartQuery ==
  /\ Entering("query")
  /\ \/ Explicit /\ SendGuarded("count")
     \/ /\ ~Explicit /\ Await("autoBegin")
        /\ UNCHANGED <<flags, layout, before, depth, nested, wire, server>>

(* An addressed read of no resource, or of too many, never leaves the       *)
(* client; every other acquisition builds its source and begins.            *)
StartAcquisition(kind) ==
  /\ Entering(kind)
  /\ \/ Explicit /\ AnswerLocally("error")
     \/ ~Explicit /\ kind = "indexed" /\ \E a \in {"ok", "error"} : AnswerLocally(a)
     \/ /\ ~Explicit /\ Await("acquireBegin")
        /\ UNCHANGED <<flags, layout, before, depth, nested, wire, server>>

StartReconnect ==
  /\ pc = "entry" /\ op = "cancel"
  /\ PoisonAndDrop /\ Await("connect")
  /\ UNCHANGED <<layout, before, server>>

-----------------------------------------------------------------------------
(* The server answers.                                                      *)

(* BEGIN: explicit_transaction is set before the depth is confirmed.        *)
BeginAnswered ==
  /\ pc = "begin" /\ Answered
  /\ \/ /\ depth < MaxDepth /\ depth' = depth + 1
        /\ Raise("explicit") /\ Await("count") /\ UNCHANGED layout
     \/ depth' = depth /\ StartCleanup

(* Mutant: the server's count is not compared with 1.                       *)
CountTrusts ==
  /\ UNCHANGED layout
  /\ \/ /\ op \in {"begin", "active"}
        /\ Lower("pending") /\ Return(IF op = "active" THEN "true" ELSE "ok")
     \/ op = "commit" /\ Raise("pending") /\ Await("commit")
     \/ op = "query" /\ Raise("pending") /\ Await("rows")

(* transaction_active found depth 1: the operation it guards goes on.       *)
CountConfirms ==
  /\ depth = 1 /\ UNCHANGED layout
  /\ \/ /\ op \in {"begin", "active"}
        /\ Lower("pending") /\ Return(IF op = "active" THEN "true" ELSE "ok")
     \/ op = "commit" /\ Raise("pending") /\ Await("commit")
     \/ op = "query" /\ Raise("pending") /\ Await("rows")

CountAnswered ==
  /\ pc = "count" /\ Answered /\ UNCHANGED depth
  /\ \/ CountConfirms
     \/ depth # 1 /\ StartCleanup

(* The check after the rows of a query inside an explicit transaction.      *)
RecountAnswered ==
  /\ pc = "recount" /\ Answered /\ UNCHANGED depth
  /\ \/ depth = 1 /\ Lower("pending") /\ Return("ok") /\ UNCHANGED layout
     \/ depth # 1 /\ StartCleanup

CountRefused ==
  /\ pc \in {"count", "recount"} /\ Answered
  /\ RefusedWork /\ StartCleanup

(* COMMIT of an explicit transaction or of a query's own.                   *)
CommitAnswered ==
  /\ pc \in {"commit", "autoCommit"} /\ Answered
  /\ \/ /\ depth > 0 /\ depth' = depth - 1
        /\ flags' = flags \ {"explicit", "pending"} /\ Return("ok") /\ UNCHANGED layout
     \/ RefusedWork /\ StartCleanup

RollbackAnswered ==
  /\ pc = "rollback" /\ Answered
  /\ depth > 0 /\ depth' = 0
  /\ flags' = flags \ {"explicit", "pending"} /\ Return("ok") /\ UNCHANGED layout

(* rollback_transaction drops the connection when ROLLBACK is refused.      *)
RollbackRefused ==
  /\ pc = "rollback" /\ server = "answering"
  /\ PoisonAndDrop /\ Return("error")
  /\ UNCHANGED <<layout, before, server>>

(* A BEGIN that the server refuses ends the query with no cleanup.          *)
AutoBeginAnswered ==
  /\ pc = "autoBegin" /\ Answered /\ UNCHANGED layout
  /\ \/ /\ depth < MaxDepth /\ depth' = depth + 1
        /\ Raise("pending") /\ Await("rows")
     \/ Return("error") /\ UNCHANGED <<flags, depth>>

(* The rows ran out.  Only inside an explicit transaction does the client   *)
(* look at the depth the statement left; its own COMMIT ends one level.     *)
RowsExhausted ==
  /\ pc = "rows" /\ Heard /\ StatementWork /\ UNCHANGED layout
  /\ \/ /\ Explicit /\ UNCHANGED nested
        /\ Raise("pending") /\ Await("recount")
     \/ /\ ~Explicit /\ nested' = IF depth' > 0 THEN depth' - 1 ELSE 0
        /\ Lower("pending") /\ Await("autoCommit")

(* on_row answered RowFlow::Stop.                                           *)
RowsStopped ==
  /\ pc = "rows" /\ server = "answering"
  /\ PoisonAndDrop /\ Return("ok")
  /\ UNCHANGED <<layout, before, server>>

(* The statement failed on the server.                                      *)
RowsRefused ==
  /\ pc = "rows" /\ Answered
  /\ StatementWork /\ StartCleanup

(* A row that does not decode, or an error of on_row, leaves rows unread.   *)
RowRejected ==
  /\ pc = "rows" /\ server = "answering"
  /\ wire' = "unread" /\ StatementWork /\ StartCleanup
  /\ UNCHANGED <<before, nested, server>>

-----------------------------------------------------------------------------
(* Acquisitions: one transaction around every read of the pipeline.         *)

AcquireBegun ==
  /\ pc = "acquireBegin" /\ Answered
  /\ \/ /\ depth < MaxDepth /\ depth' = depth + 1
        /\ Await(IF op = "metadata" \/ layout = "unknown"
                 THEN "acquireLayout" ELSE "acquireRead")
        /\ UNCHANGED <<flags, layout>>
     \/ depth' = depth /\ StartCleanup

(* The layout probe, or a read bounded by query_timeout.  The pipeline goes *)
(* on to another read, to a streamed one, or to its commit.                 *)
AcquireReadAnswered ==
  /\ pc \in {"acquireLayout", "acquireRead"} /\ Answered
  /\ \/ /\ \E point \in {"acquireRead", "acquireStream", "acquireCommit"} :
             /\ point = "acquireStream" => op # "inputs"
             /\ pc = "acquireLayout" => point = "acquireRead"
             /\ Await(point)
        /\ UNCHANGED <<flags, layout, depth>>
     \/ RefusedWork /\ StartCleanup

AcquireStreamEnded ==
  /\ pc = "acquireStream" /\ Answered
  /\ Await("acquireRead")
  /\ UNCHANGED <<flags, layout, depth>>

(* A limit, a bad part or a server error within a stream.  Addressed reads  *)
(* give the connection up and skip the rollback; the others roll back.      *)
AcquireStreamFailed ==
  /\ pc = "acquireStream" /\ server = "answering"
  /\ UNCHANGED <<before, server>>
  /\ \/ /\ op = "indexed"
        /\ PoisonAndDrop /\ Return("error") /\ UNCHANGED layout
     \/ /\ op # "indexed"
        /\ \/ wire' = "unread" /\ UNCHANGED depth
           \/ wire' = "idle" /\ RefusedWork
        /\ StartCleanup /\ UNCHANGED nested

(* The layout is kept, and the result answered, only now.                   *)
AcquireCommitted ==
  /\ pc = "acquireCommit" /\ Answered
  /\ \/ /\ depth > 0 /\ depth' = depth - 1
        /\ layout' = "known" /\ Return("ok") /\ UNCHANGED flags
     \/ RefusedWork /\ StartCleanup

-----------------------------------------------------------------------------
(* rollback_after_error.                                                    *)

(* Mutant: a failed cleanup does not poison the session.                    *)
EndCleanupForgiving(failed, left) ==
  /\ Return("error") /\ UNCHANGED <<layout, before, server>>
  /\ flags' = flags \ {"pending"} /\ wire' = left /\ UNCHANGED <<depth, nested>>

(* A failed cleanup poisons the session but keeps its connection, unless    *)
(* finish_transaction of an acquisition finds the session dead.             *)
EndCleanup(failed, left) ==
  /\ Return("error") /\ UNCHANGED <<layout, before, server>>
  /\ IF failed /\ TransactionUnfinished
     THEN PoisonAndDrop
     ELSE /\ flags' = (flags \ {"pending"}) \cup (IF failed THEN {"poisoned"} ELSE {})
          /\ wire' = left /\ UNCHANGED <<depth, nested>>

CleanupAnswered ==
  /\ pc = "cleanup" /\ Heard
  /\ depth' = 0 /\ nested' = 0 /\ Await("verify") /\ UNCHANGED <<flags, layout>>

CleanupRefused ==
  pc = "cleanup" /\ server = "answering" /\ EndCleanup(TRUE, "idle")

VerifyAnswered ==
  pc = "verify" /\ server = "answering" /\ EndCleanup(depth # 0, "idle")

VerifyRefused ==
  pc = "verify" /\ server = "answering" /\ EndCleanup(TRUE, "idle")

-----------------------------------------------------------------------------
(* A passed time limit and a lost connection end the call the same way:     *)
(* the connection is given up, except by the check of the cleanup, which    *)
(* only poisons the session, and by a new connection that never came up.    *)
GiveUp ==
  \/ /\ pc \in Awaits \ {"verify", "connect"}
     /\ PoisonAndDrop /\ Return("error") /\ UNCHANGED <<layout, before, server>>
  \/ pc = "verify" /\ EndCleanup(TRUE, "torn")
  \/ pc = "connect" /\ AnswerLocally("error")

(* Mutant: no stream of resources is read under query_timeout.              *)
TimeLimitedRows == pc \in Awaits \ {"acquireStream"}

(* Streams of whole resources are collected outside query_timeout, except   *)
(* the addressed ones.                                                      *)
TimeLimited == pc \in Awaits /\ (pc = "acquireStream" => op = "indexed")

TimeLimit == TimeLimited /\ GiveUp

ConnectionLost == GiveUp

(* The caller drops the future at an await.  Drop of a metadata source      *)
(* gives the connection up; nothing else runs.  Whether the statement on    *)
(* its way has taken effect is not known.                                   *)
Cancel ==
  /\ pc \in CancelPoints
  /\ Return("dropped") /\ UNCHANGED <<layout, before, server>>
  /\ \/ TransactionUnfinished /\ PoisonAndDrop
     \/ /\ ~TransactionUnfinished /\ pc # "connect"
        /\ wire' = "torn" /\ UNCHANGED <<flags, nested>>
        /\ \/ RefusedWork
           \/ pc = "rows" /\ StatementWork
           \/ pc \in {"begin", "autoBegin"} /\ depth < MaxDepth /\ depth' = depth + 1
           \/ pc \in {"commit", "autoCommit"} /\ depth > 0 /\ depth' = depth - 1
     \/ pc = "connect" /\ UNCHANGED <<flags, depth, nested, wire>>

(* cancel_and_reconnect replaces the session with the one that connected.   *)
Connected ==
  /\ pc = "connect" /\ Heard
  /\ flags' = {"client"} /\ layout' = "unknown" /\ depth' = 0 /\ nested' = 0
  /\ Return("ok")

Close ==
  /\ pc = "idle"
  /\ Lower("client") /\ depth' = 0 /\ nested' = 0 /\ wire' = "idle" /\ pc' = "closed"
  /\ UNCHANGED <<layout, op, answer, before, server>>

(* The server stops answering, for as long as it likes.                     *)
Stall ==
  /\ server' = IF server = "stalled" THEN "answering" ELSE "stalled"
  /\ UNCHANGED <<flags, layout, op, pc, answer, before, depth, nested, wire>>

-----------------------------------------------------------------------------
Start ==
  \/ EnterUnusable \/ StartBegin \/ StartActive \/ StartCommit \/ StartRollback
  \/ StartQuery \/ StartReconnect
  \/ \E kind \in Acquisitions : StartAcquisition(kind)

Answering ==
  \/ BeginAnswered \/ CountAnswered \/ CountRefused \/ RecountAnswered
  \/ CommitAnswered \/ RollbackAnswered \/ RollbackRefused
  \/ AutoBeginAnswered \/ RowsExhausted \/ RowsStopped \/ RowsRefused \/ RowRejected
  \/ AcquireBegun \/ AcquireReadAnswered \/ AcquireStreamEnded
  \/ AcquireStreamFailed \/ AcquireCommitted
  \/ CleanupAnswered \/ CleanupRefused \/ VerifyAnswered \/ VerifyRefused
  \/ Connected

Next ==
  \/ \E o \in Operations : Invoke(o)
  \/ Start \/ Answering \/ TimeLimit \/ ConnectionLost \/ Cancel
  \/ Close \/ Stall

(* Client code runs when it can, and a wait whose limit passed ends (a call *)
(* makes finitely many).  The server and the caller owe nothing.            *)
Fairness == WF_vars(Start) /\ WF_vars(TimeLimit)

Spec     == Init /\ [][Next]_vars
FairSpec == Spec /\ Fairness

-----------------------------------------------------------------------------
(* The properties.                                                          *)

(* The server's transactions are those the session and the caller's         *)
(* statements account for.                                                  *)
Accounted == IF Explicit THEN depth = 1 /\ nested = 0 ELSE depth = nested

(* Between two calls, a session that calls itself usable holds a clean      *)
(* connection with no transaction of the session's own but the explicit     *)
(* one: query_each, an acquisition or a failed cleanup leaves none behind.  *)
(* What is open besides, the caller's statement began and left (query_each  *)
(* does not count after its COMMIT), and never under an explicit one.  It   *)
(* takes rollback_after_error, the pending flag and the source's Drop       *)
(* together.                                                                *)
IdleTransactionMatches ==
  pc = "idle" /\ ~IsDead => "client" \in flags /\ wire # "torn" /\ Accounted

(* No statement, cleanup included, goes out on a stream that a dropped      *)
(* future or a timed-out read left between protocol messages (the rule      *)
(* stated in cancel_and_reconnect).                                         *)
NoStatementOnTornWire == pc \in Awaits => wire # "torn"

(* Rows of a query and every read of an acquisition are read in one         *)
(* transaction of the session's, never in none and never in two: it lies    *)
(* within what an earlier statement of the caller left open, if any, and an *)
(* explicit one within nothing.                                             *)
ReadsInOneTransaction ==
  pc \in {"rows", "acquireLayout", "acquireRead", "acquireStream"} =>
    depth = nested + 1 /\ (Explicit => nested = 0)

(* What a call sends finds a clean stream and, if it reads, one transaction. *)
ReadsAreWhole == NoStatementOnTornWire /\ ReadsInOneTransaction

(* A session that reported itself dead sends nothing before                 *)
(* cancel_and_reconnect: ensure_transaction_usable guards every entry.      *)
DeadSendsNothing == before = "dead" /\ pc \in Awaits => pc = "connect"

(* An explicit transaction the session reports is one the server confirmed  *)
(* with depth 1, whatever earlier call was dropped and wherever.            *)
ExplicitIsConfirmed == pc = "idle" /\ Status = "explicit" => depth = 1

(* Dropping any future that was sent to the server ends the session.        *)
DroppedFutureEndsSession == pc = "idle" /\ answer = "dropped" => IsDead

(* The same for the calls made inside an explicit transaction.              *)
DroppedExplicitEndsSession ==
  pc = "idle" /\ answer = "dropped" /\ before = "explicit" => IsDead

(* Once lost, an explicit transaction stays lost: the drop that loses it is *)
(* reported, and nothing reaches the server again before the caller asked   *)
(* for a new connection.                                                    *)
DeadStaysSilent == DeadSendsNothing /\ DroppedExplicitEndsSession

(* Every call but a whole acquisition ends, even when the server never      *)
(* answers again: each of its awaits is under a limit.                      *)
CallsReturn ==
  \A o \in Operations \ {"metadata"} : op = o ~> op = "none"

(* What the caller knows of the session: a call in flight changes nothing.  *)
Reported ==
  IF pc = "closed" THEN "closed" ELSE IF pc = "idle" THEN Status ELSE before

Promised == INSTANCE ReadSession WITH
  DropSpares <- {}, StopSpares <- FALSE, Reconnects <- TRUE, NoticesLoss <- FALSE,
  status <- Reported, call <- op

(* What the caller sees is what ReadSession promises.                       *)
KeepsPromise == Promised!Spec
-----------------------------------------------------------------------------
(* The inductive invariant: what holds at every await of an undisturbed     *)
(* call, as long as no future is dropped at an unguarded await.             *)

(* Exactly these two of the session's promises about a transaction are up.  *)
Holds(raised) == flags \cap {"explicit", "pending"} = raised

InvCall ==
  /\ pc \in {"idle", "closed"} <=> op = "none"
  /\ pc = "entry" => before = Status

InvRest ==
  pc \in {"idle", "entry"} /\ ~IsDead =>
    "client" \in flags /\ wire # "torn" /\ Accounted

InvAwait ==
  pc \in Awaits \ {"connect"} =>
    EnsureUsable /\ wire # "torn" /\ before # "dead" /\ op # "cancel"

InvConnect ==
  pc = "connect" => op = "cancel" /\ flags = {"poisoned"} /\ wire = "idle"

InvExplicitCall ==
  /\ pc = "begin" =>
       Holds({"pending"}) /\ depth = nested /\ op = "begin" /\ before = "auto"
  /\ pc = "count" =>
       /\ Holds({"explicit", "pending"}) /\ depth = nested + 1
       /\ \/ op = "begin" /\ before = "auto"
          \/ /\ op \in {"active", "commit", "query"}
             /\ before = "explicit" /\ nested = 0
  /\ pc \in {"commit", "rollback"} =>
       /\ Holds({"explicit", "pending"}) /\ depth = 1 /\ nested = 0
       /\ op = pc /\ before = "explicit"

InvQuery ==
  /\ pc \in {"rows", "recount", "autoBegin", "autoCommit"} => op = "query"
  /\ pc = "autoBegin" => Holds({}) /\ depth = nested /\ before = "auto"
  /\ pc = "rows" =>
       /\ "pending" \in flags /\ depth = nested + 1
       /\ Explicit <=> before = "explicit"
       /\ Explicit => nested = 0
  /\ pc = "recount" =>
       Holds({"explicit", "pending"}) /\ nested = 0 /\ before = "explicit"
  /\ pc = "autoCommit" =>
       /\ Holds({}) /\ before = "auto"
       /\ depth = nested + 1 \/ (depth = 0 /\ nested = 0)

InvAcquisition ==
  /\ pc \in {"acquireBegin", "acquireLayout", "acquireRead", "acquireStream",
             "acquireCommit"} =>
       op \in Acquisitions /\ Holds({}) /\ before = "auto"
  /\ pc = "acquireBegin" => depth = nested
  /\ pc \in {"acquireLayout", "acquireRead", "acquireStream", "acquireCommit"} =>
       depth = nested + 1

InvCleanup ==
  /\ pc \in {"cleanup", "verify"} =>
       /\ Holds({"pending"}) /\ op # "rollback"
       /\ op \in {"active", "commit"} => before = "explicit"
       /\ op \in {"begin"} \cup Acquisitions => before = "auto"
  /\ pc = "verify" => depth = 0 /\ nested = 0

IInv ==
  /\ TypeOK /\ InvCall /\ InvRest /\ InvAwait /\ InvConnect
  /\ InvExplicitCall /\ InvQuery /\ InvAcquisition /\ InvCleanup

(* What holds wherever futures are dropped.                                 *)
UnguardedPoints ==
  {"autoBegin", "autoCommit",
   "acquireBegin", "acquireLayout", "acquireRead", "acquireStream", "acquireCommit"}

AnyDropInv ==
  /\ TypeOK /\ InvConnect
  /\ pc = "entry" => before = Status
  /\ pc \in Awaits \ {"connect"} => before # "dead"
  /\ Explicit /\ ~IsDead /\ pc # "closed" => depth = 1
  /\ pc \in UnguardedPoints => ~Explicit
  /\ pc \in {"autoBegin", "autoCommit"} => before = "auto" /\ op = "query"
  /\ pc \in UnguardedPoints \ {"autoBegin", "autoCommit"} => op \in Acquisitions
  /\ pc = "begin" => op = "begin"
  /\ pc \in {"begin", "cleanup", "verify"} => ~Explicit
  /\ pc \in {"begin", "count", "commit", "rollback", "rows", "recount",
             "cleanup", "verify"} => "pending" \in flags
  /\ pc \in {"count", "commit", "rollback", "recount"} => Explicit
  /\ pc = "count" /\ op = "query" => before = "explicit"
  /\ pc \in {"rows", "recount"} => op = "query"
  /\ pc = "rows" => (Explicit <=> before = "explicit")
  /\ pc = "idle" /\ answer = "dropped" /\ before = "explicit" => IsDead

=============================================================================
